SPECIFICATION Spec
CONSTANTS
  None = None
  Call = {c1, c2}
  Key = {k1}
  Payload = {p1}
  Valid = {p1}
  Requester = {r1, r2}
  Handler = {h1}
  Sweeper = {w1}
  LastDay = 1
PROPERTIES
  PaidIsFinal
CHECK_DEADLOCK FALSE
