SPECIFICATION FairSpec
CONSTANTS
  p3 = p3
  s1 = s1
  None = None
  Request = {r1}
  Key = {k1}
  Payload = {p1}
  Sale = {s1}
  SaleOf <- MCSaleOf
  ReceiptOf <- MCReceiptOf
  Handler = {h1}
  Worker = {w1}
  Final = {"SUCCEEDED", "DECLINED"}
  Stray <- MCUnknownCode
  ConfirmSuccess = TRUE
INVARIANTS
  OutcomeIsTheProviders
PROPERTIES
  CreatedIsSwept
  AcceptedIsResolved
  UnknownIsEscalated
