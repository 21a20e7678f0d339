SPECIFICATION Spec
CONSTANTS
  d1 = d1
  d2 = d2
  p2 = p2
  None = None
  Request = {r1, r2}
  Key = {k1, k2}
  Payload = {p1, p2}
  InLimits = {p1, p2}
  Period = {d1, d2}
  PeriodOf <- MCPeriodOf
  ReceiptOf <- MCOneReceipt
  Worker = {w1}
  Final = {"SUCCEEDED", "FAILED"}
  Stray = {}
SYMMETRY Symmetry
INVARIANTS
  EffectsMatchState
  TypeOK
  PaidOncePerPeriod
  EveryResultMatches
  KeyMeansOnePayout
PROPERTIES
  KeepsPromise
