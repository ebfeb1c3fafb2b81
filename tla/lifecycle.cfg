SPECIFICATION Spec
CONSTANTS
  None = None
  Workers = {w1, w2}
  Orders <- OneOrder
  Seats <- TwoSeats
  InitialStock = 2
  Wanted <- BothWanted
  Extra <- NoExtra1
  UsesVoucher <- OneOrder
  VoucherLimit = 1
  Slots = {1}
  MaxRetries = 1
  CronBatch = 2
  Commands = {}
  Limit <- LifeLimit
SYMMETRY Symmetry
INVARIANTS ClosedOrderReturnedParts NoLeakedSeat NoLeakedVoucher
