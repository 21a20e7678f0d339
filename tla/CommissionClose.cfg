SPECIFICATION CloseSpec
CONSTANTS
  None = None
  a1 = a1
  a2 = a2
  Sale = {1, 2}
  Attendant = {a1}
  Seller <- MCSeller
  Total <- MCTotal
  Rate <- MCRate
  Hour = {20, 21}
  Run = {x1, x2, x3}
  PageLimit = 1
  Minimum = 1000
  Offset = 3
SYMMETRY Symmetry
INVARIANTS
  WalkMissesNothing
  ConservedWhenOrderly
CHECK_DEADLOCK FALSE
