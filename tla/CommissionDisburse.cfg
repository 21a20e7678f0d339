SPECIFICATION FairSpec
CONSTANTS
  None = None
  a1 = a1
  a2 = a2
  Sale = {1}
  Attendant = {a1}
  Seller <- MCSeller
  Total <- MCTotal
  Rate <- MCRate
  Hour = {20}
  Run = {x1}
  PageLimit = 1
  Minimum = 600
  Offset = 3
  Worker = {w1, w2}
  Ceiling = 1000
  FileAmount = {500}
PROPERTIES
  RowsMoveForward
  PlannedIsSent
  OutcomeIsLearnt
