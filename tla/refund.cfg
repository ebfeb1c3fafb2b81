SPECIFICATION FairSpec
CONSTANTS
  None = None
  Workers = {w1}
  Orders <- OneOrder
  Seats <- OneSeat
  InitialStock = 1
  Wanted <- OneWanted
  Extra <- NoExtra1
  UsesVoucher <- OneOrder
  VoucherLimit = 1
  Slots = {1}
  MaxRetries = 1
  CronBatch = 2
  Commands <- RefundOnly
  Limit <- RefundLimit
PROPERTIES RefundEnds
