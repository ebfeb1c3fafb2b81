SPECIFICATION FairSpec
CONSTANTS
  None = None
  Workers = {w1}
  Orders <- TwoOrders
  Seats = {}
  InitialStock = 1
  Wanted <- NoneWanted2
  Extra <- OneExtra2
  UsesVoucher = {}
  VoucherLimit = 1
  Slots = {1}
  MaxRetries = 0
  CronBatch = 1
  Commands = {}
  Limit <- LiveLimit
PROPERTIES AgedOrderDecided
