SPECIFICATION Spec
CONSTANTS
  None = None
  Workers = {w1, w2}
  Orders <- OneOrder
  Seats = {}
  InitialStock = 1
  Wanted <- NoneWanted
  Extra <- OneExtra
  UsesVoucher <- OneOrder
  VoucherLimit = 1
  Slots = {1}
  MaxRetries = 1
  CronBatch = 2
  Commands <- RequestKinds
  Limit <- FaultLimit
SYMMETRY Symmetry
INVARIANTS TypeOK TicketNeedsSettlement ClosedOrderReturnedParts StockMatchesPool
PROPERTY ImplementsOrderPromise
