SPECIFICATION Spec
CONSTANTS
  None = None
  Payments <- TwoPayments
  First = None
  Rows = {r1, r2, r3}
  Handlers = {h1, h2}
  Ticks = {t1}
  MaxAttempts = 2
  Limit <- PaymentsLimit
SYMMETRY Symmetry
INVARIANTS TypeOK AcknowledgedIsRecorded
PROPERTIES ImplementsPaidNotice
