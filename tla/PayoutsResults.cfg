SPECIFICATION Spec
CONSTANTS
  d1 = d1
  d2 = d2
  p2 = p2
  None = None
  Request = {r1}
  Key = {k1}
  Payload = {p1, p3}
  InLimits = {p1}
  Period = {d1, d2}
  PeriodOf <- MCPeriodOf
  ReceiptOf <- MCReceiptOf
  Worker = {w1}
  Final = {"SUCCEEDED", "FAILED", "BLOCKED"}
  Stray <- MCLies
SYMMETRY Symmetry
INVARIANTS
  ContradictionIsAlarmed
  OnlyResultsStrandKeys
PROPERTIES
  TerminalIsFinal
  SwitchFollowsFailure
