SPECIFICATION Spec
CONSTANTS
  None = None
  Workers = {w1, w2}
  Orders <- OneOrder
  Seats <- OneSeat
  InitialStock = 1
  Wanted <- OneWanted
  Extra <- NoExtra1
  UsesVoucher = {}
  VoucherLimit = 0
  Slots = {1}
  MaxRetries = 3
  CronBatch = 2
  Commands <- RefundOnly
  Limit <- IssueLimit
PROPERTIES TicketIssuedOnlyWhenPaid
