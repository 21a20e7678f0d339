SPECIFICATION CloseSpec
CONSTANTS
  None = None
  a1 = a1
  a2 = a2
  Sale = {1}
  Attendant = {a1}
  Seller <- MCSeller
  Total <- MCTotal
  Rate <- MCRate
  Hour = {20}
  Run = {x1, x2}
  PageLimit = 1
  Minimum = 1000
  Offset = 3
INVARIANTS
  NeverHandedTooMuch
CHECK_DEADLOCK FALSE
