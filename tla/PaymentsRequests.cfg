SPECIFICATION Spec
CONSTANTS
  p3 = p3
  s1 = s1
  None = None
  Request = {r1, r2}
  Key = {k1, k2}
  Payload = {p1, p3}
  Sale = {s1}
  SaleOf <- MCSaleOf
  ReceiptOf <- MCOneReceipt
  Handler = {h1}
  Worker = {w1}
  Final = {"SUCCEEDED"}
  Stray = {}
  ConfirmSuccess = FALSE
SYMMETRY Symmetry
INVARIANTS
  TypeOK
  EffectsMatchState
  InFlightIffCreated
  ChargedOncePerKey
  RepliesNameOnePayment
  ChargedOncePerSale
PROPERTIES
  TerminalIsFinal
  KeepsPromise
