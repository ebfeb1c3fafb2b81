SPECIFICATION SpecSales
CONSTANTS
  seated = seated
  counted = counted
  a = a
  b = b
  c1 = c1
  c2 = c2
  A = A
  B = B
  r1 = r1
  r2 = r2
  r3 = r3
  w1 = w1
  w2 = w2
  u1 = u1
  u2 = u2
  o1 = o1
  o2 = o2
  j1 = j1
  j2 = j2
  Items = {seated, counted}
  Labels = {a, b}
  Callers = {c1, c2}
  Unset = Unset
  MaxClock = 2
  Starts <- InventoryStarts
  TicketKeys = {"ticket"}
  ListKey = "list"
  Instances = {A, B}
  Readers = {r1, r2, r3}
  Writers = {w1, w2}
  Home <- Homes
  Seats = {"s", "t"}
  Empty = Empty
  Plans <- CachePlans
  Buyers = {u1, u2}
  Bookings = {o1, o2}
  NoLimit = NoLimit
  VoucherRows <- Vouchers
  VoucherEdits <- Columns
  Jobs = {j1, j2}
  UnitPrices = {10400}
  Quantity = 2
  Mixes <- PassengerLists
  Situations <- PricingSituations
  Trips = {1, 2, 3}
  Missing = Missing
  Catalogues <- Boards
  Searches <- Queries
  Limit = 2
INVARIANTS InventoryTypeOK HeldSeatIsTaken PoolConserved CacheTypeOK QuietCacheIsFresh OneFillPerKey PricingTypeOK CounterMatchesUsages WithinLimits AmountMatchesPassengers PaidCoversTotal WalkShowsEveryTripOnce
PROPERTIES ClosedSaleSellsNothing CallsAreAnswered StaleEntriesGo
