SPECIFICATION FairSpec
CONSTANTS
  None = None
  Payments <- TwoPayments
  First = "p1"
  Rows = {r1, r2, r3}
  Handlers = {h1, h2}
  Ticks = {t1, t2}
  MaxAttempts = 2
  Limit <- SettlementLimit
INVARIANTS ProcessedWasPublished GivenUpAfterMax
PROPERTIES SettlementIsTold
