----------------------------- MODULE MCPayouts ------------------------------
(***************************************************************************)
(* Small instances of Payouts for TLC.                                     *)
(***************************************************************************)
EXTENDS Payouts, TLC

CONSTANTS d1, d2, p2

\* p1 and p3 ask for one attendant and day, with different amounts; p2 is for
\* another day.
MCPeriodOf == [p \in Payload |-> IF p = p2 THEN d2 ELSE d1]

\* Each transfer has a receipt of its own, or the provider repeats one.
MCReceiptOf == [r \in Request |-> r]
MCOneReceipt == [r \in Request |-> "receipt"]

\* Results that contradict the transfer, name another amount, or carry a code
\* that is in no table.
MCLies ==
  {[verdict |-> "UNKNOWN", amountOk |-> TRUE],
   [verdict |-> "SUCCEEDED", amountOk |-> TRUE],
   [verdict |-> "SUCCEEDED", amountOk |-> FALSE],
   [verdict |-> "FAILED", amountOk |-> TRUE]}

Symmetry == Permutations(Request) \cup Permutations(Key)
=============================================================================
