----------------------------- MODULE MCPayments -----------------------------
(***************************************************************************)
(* Small instances of Payments for TLC.                                    *)
(***************************************************************************)
EXTENDS Payments, TLC

CONSTANTS p3, s1

\* p1 and p2 ask for one sale with different phones, p3 names no sale.
MCSaleOf == [p \in Payload |-> IF p = p3 THEN None ELSE s1]

\* Each charge has a receipt of its own, or the provider repeats one.
MCReceiptOf == [r \in Request |-> r]
MCOneReceipt == [r \in Request |-> "receipt"]

\* Callbacks whose result code is in no table, and callbacks that lie.
MCUnknownCode == {[outcome |-> "UNKNOWN", amountOk |-> TRUE]}
MCLies == MCUnknownCode \cup
  {[outcome |-> "SUCCEEDED", amountOk |-> TRUE],
   [outcome |-> "SUCCEEDED", amountOk |-> FALSE],
   [outcome |-> "DECLINED", amountOk |-> TRUE]}

Symmetry == Permutations(Request) \cup Permutations(Key)
              \cup Permutations(Handler)
=============================================================================
