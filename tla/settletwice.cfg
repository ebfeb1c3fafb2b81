SPECIFICATION Spec
CONSTANTS
  None = None
  Payments <- TwoPayments
  First = "p1"
  Rows = {r1, r2, r3}
  Handlers = {h1, h2}
  Ticks = {t1}
  MaxAttempts = 2
  Limit <- QuietLimit
INVARIANTS SettledOnce
