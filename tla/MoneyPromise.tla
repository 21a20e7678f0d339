---------------------------- MODULE MoneyPromise ----------------------------
(***************************************************************************)
(* What the Payments service promises to whoever asks it to move money,    *)
(* in or out, without idempotency keys, callbacks, sweeps or queries: a    *)
(* movement is opened, for a purpose that no other open or paid one has,   *)
(* and is then closed without effect or paid.  Paying books it once in the *)
(* ledger, for a provider reference that is booked for no other, and       *)
(* nothing happens after either.  For a payment the purpose is the sale,   *)
(* for a payout the attendant's period.  It summarises ADR 0006 and 0008   *)
(* as core/payments.py and core/payouts.py carry them out.                 *)
(***************************************************************************)
CONSTANTS Movement, Ref, Purpose, None

VARIABLES
  status,   \* of each movement
  purpose,  \* what each movement is for, or None
  booked    \* the provider references each movement is in the ledger for

vars == <<status, purpose, booked>>

Init ==
  /\ status = [m \in Movement |-> "absent"]
  /\ purpose = [m \in Movement |-> None]
  /\ booked = [m \in Movement |-> {}]

Open(m, s) ==
  /\ status[m] = "absent"
  /\ s = None \/ \A q \in Movement : status[q] \in {"open", "paid"} => purpose[q] # s
  /\ status' = [status EXCEPT ![m] = "open"]
  /\ purpose' = [purpose EXCEPT ![m] = s]
  /\ UNCHANGED booked

Pay(m, f) ==
  /\ status[m] = "open"
  /\ \A q \in Movement : f \notin booked[q]
  /\ status' = [status EXCEPT ![m] = "paid"]
  /\ booked' = [booked EXCEPT ![m] = {f}]
  /\ UNCHANGED purpose

Close(m) ==
  /\ status[m] = "open"
  /\ status' = [status EXCEPT ![m] = "closed"]
  /\ UNCHANGED <<purpose, booked>>

Next ==
  \E m \in Movement :
    \/ \E s \in Purpose \cup {None} : Open(m, s)
    \/ \E f \in Ref : Pay(m, f)
    \/ Close(m)

Spec == Init /\ [][Next]_vars

-----------------------------------------------------------------------------
(* What a caller may rely on *)

Live(m) == status[m] \in {"open", "paid"}

\* No purpose is served twice: not by two movements that were paid, nor by one
\* that was paid and one that still may be.
PurposeServedOnce ==
  \A m, q \in Movement :
    (Live(m) /\ Live(q) /\ purpose[m] = purpose[q] /\ purpose[m] # None) => m = q

\* The books agree with what was paid, and no reference is in them twice.
BooksMatch ==
  /\ \A m \in Movement :
       IF status[m] = "paid" THEN \E f \in Ref : booked[m] = {f} ELSE booked[m] = {}
  /\ \A m, q \in Movement : m # q => booked[m] \cap booked[q] = {}

\* What ended stays as it ended, and a purpose, once given, is not changed.
EndIsFinal ==
  [][\A m \in Movement :
       /\ status[m] \in {"paid", "closed"} => status'[m] = status[m]
       /\ booked[m] \subseteq booked'[m]
       /\ status[m] # "absent" => purpose'[m] = purpose[m]]_vars
=============================================================================
