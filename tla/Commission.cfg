SPECIFICATION Spec
CONSTANTS
  None = None
  a1 = a1
  a2 = a2
  Sale = {1, 2}
  Attendant = {a1}
  Seller <- MCSeller
  Total <- MCTotal
  Rate <- MCRate
  Hour = {20}
  Run = {x1, x2}
  PageLimit = 1
  Minimum = 600
  Offset = 3
  Worker = {w1}
  Ceiling = 650
  FileAmount = {600}
SYMMETRY Symmetry
INVARIANTS
  AllTypeOK
  RowsFollowMoney
