SPECIFICATION Spec
CONSTANTS
  None = None
  Workers = {w1, w2, w3}
  Orders <- ThreeOrders
  Seats <- TwoSeats
  InitialStock = 2
  Wanted <- CompeteWanted
  Extra <- NoExtra
  UsesVoucher <- CompeteVoucher
  VoucherLimit = 1
  Slots = {1}
  MaxRetries = 3
  CronBatch = 2
  Commands = {}
  Limit <- CompeteLimit
SYMMETRY Symmetry
INVARIANTS NoLeakedSeat LiveOrderHoldsItsSeats StockMatchesPool
