SPECIFICATION FairSpec
CONSTANTS
  None = None
  Call = {c1, c2}
  Key = {k1}
  Payload = {p1, p2}
  Valid = {p1}
  Requester = {r1}
  Handler = {h1}
  Sweeper = {w1}
  LastDay = 2
INVARIANTS
  TypeOK
  RepliesNameOneSale
  SaleFollowsPayment
  OnlyARetryIsStuck
PROPERTIES
  PaidIsFinal
  PaidAtIsStable
  OutcomeIsLearnt
CHECK_DEADLOCK FALSE
