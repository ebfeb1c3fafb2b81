SPECIFICATION Spec
CONSTANTS
  None = None
  Workers = {w1, w2}
  Orders <- TwoOrders
  Seats <- OneSeat
  InitialStock = 1
  Wanted <- SameSeat
  Extra <- NoExtra2
  UsesVoucher = {}
  VoucherLimit = 0
  Slots = {1}
  MaxRetries = 3
  CronBatch = 2
  Commands <- CancelOnly
  Limit <- CancelLimit
SYMMETRY Symmetry
INVARIANTS LiveOrderHoldsItsSeats
