--------------------------- MODULE PromiseProofs ---------------------------
(***************************************************************************)
(* What follows from MoneyPromise alone, for any movements, purposes and   *)
(* references: what every caller of the Payments service may rely on, and  *)
(* what Payments and Payouts therefore have, as they implement it.         *)
(***************************************************************************)
EXTENDS MoneyPromise, TLAPS

\* The tables have a row for each movement.
Shapes ==
  /\ status \in [Movement -> {"absent", "open", "paid", "closed"}]
  /\ purpose \in [Movement -> Purpose \cup {None}]
  /\ booked \in [Movement -> SUBSET Ref]

Consistent == Shapes /\ PurposeServedOnce /\ BooksMatch

\* At first nothing is live and nothing is booked.
LEMMA ConsistentInit == Init => Consistent
BY DEF Init, Consistent, Shapes, PurposeServedOnce, BooksMatch, Live

\* A movement opens only for a purpose that no live one has.
LEMMA OpenConsistent ==
  ASSUME Consistent, NEW m \in Movement, NEW s \in Purpose \cup {None}, Open(m, s)
  PROVE  Consistent'
<1>1. Shapes'
  BY DEF Open, Consistent, Shapes
<1>2. /\ \A q \in Movement : status'[q] = IF q = m THEN "open" ELSE status[q]
      /\ \A q \in Movement : purpose'[q] = IF q = m THEN s ELSE purpose[q]
      /\ booked' = booked
  BY DEF Open, Consistent, Shapes
<1>3. PurposeServedOnce'
  BY <1>2 DEF Open, Consistent, PurposeServedOnce, Live
<1>4. BooksMatch'
  BY <1>2 DEF Open, Consistent, BooksMatch
<1> QED BY <1>1, <1>3, <1>4 DEF Consistent

\* Paying books a reference that no movement has.
LEMMA PayConsistent ==
  ASSUME Consistent, NEW m \in Movement, NEW f \in Ref, Pay(m, f)
  PROVE  Consistent'
<1>1. Shapes'
  BY DEF Pay, Consistent, Shapes
<1>2. /\ \A q \in Movement : status'[q] = IF q = m THEN "paid" ELSE status[q]
      /\ \A q \in Movement : booked'[q] = IF q = m THEN {f} ELSE booked[q]
      /\ purpose' = purpose
  BY DEF Pay, Consistent, Shapes
<1>3. PurposeServedOnce'
  BY <1>2 DEF Pay, Consistent, PurposeServedOnce, Live
<1>4. BooksMatch'
  <2>1. \A q \in Movement :
          IF status'[q] = "paid" THEN \E g \in Ref : booked'[q] = {g}
                                 ELSE booked'[q] = {}
    BY <1>2 DEF Consistent, BooksMatch
  <2>2. ASSUME NEW q \in Movement, NEW p \in Movement, q # p
        PROVE  booked'[q] \cap booked'[p] = {}
    BY <1>2, <2>2 DEF Pay, Consistent, BooksMatch
  <2> QED BY <2>1, <2>2 DEF BooksMatch
<1> QED BY <1>1, <1>3, <1>4 DEF Consistent

\* Closing leaves nothing behind.
LEMMA CloseConsistent ==
  ASSUME Consistent, NEW m \in Movement, Close(m)
  PROVE  Consistent'
<1>1. Shapes'
  BY DEF Close, Consistent, Shapes
<1>2. /\ \A q \in Movement : status'[q] = IF q = m THEN "closed" ELSE status[q]
      /\ purpose' = purpose /\ booked' = booked
  BY DEF Close, Consistent, Shapes
<1>3. PurposeServedOnce' /\ BooksMatch'
  BY <1>2 DEF Close, Consistent, PurposeServedOnce, BooksMatch, Live
<1> QED BY <1>1, <1>3 DEF Consistent

\* The inductive invariant of the promise.
LEMMA Consistency == Spec => []Consistent
<1>1. Consistent /\ [Next]_vars => Consistent'
  BY OpenConsistent, PayConsistent, CloseConsistent
     DEF Next, vars, Consistent, Shapes, PurposeServedOnce, BooksMatch, Live
<1> QED BY <1>1, ConsistentInit, PTL DEF Spec

\* Whoever asks the service to move money for one purpose, under however many
\* keys, is never served twice.
THEOREM NoPurposeTwice == Spec => []PurposeServedOnce
<1>1. Consistent => PurposeServedOnce
  BY DEF Consistent
<1> QED BY <1>1, Consistency, PTL

\* The ledger has one entry for each movement that was paid, none for another,
\* and no provider reference twice.
THEOREM BooksAlwaysMatch == Spec => []BooksMatch
<1>1. Consistent => BooksMatch
  BY DEF Consistent
<1> QED BY <1>1, Consistency, PTL

\* Nothing that ended, and nothing that was booked, is taken back.
THEOREM EndsAreFinal == Spec => EndIsFinal
<1>1. ASSUME Consistent, Next
      PROVE  \A m \in Movement :
               /\ status[m] \in {"paid", "closed"} => status'[m] = status[m]
               /\ booked[m] \subseteq booked'[m]
               /\ status[m] # "absent" => purpose'[m] = purpose[m]
  <2> SUFFICES ASSUME NEW m \in Movement
               PROVE  /\ status[m] \in {"paid", "closed"} => status'[m] = status[m]
                      /\ booked[m] \subseteq booked'[m]
                      /\ status[m] # "absent" => purpose'[m] = purpose[m]
    OBVIOUS
  <2>1. PICK q \in Movement :
          \/ \E s \in Purpose \cup {None} : Open(q, s)
          \/ \E f \in Ref : Pay(q, f)
          \/ Close(q)
    BY <1>1 DEF Next
  <2>2. status[q] \notin {"paid", "closed"} /\ booked[q] = {}
    BY <1>1, <2>1 DEF Open, Pay, Close, Consistent, BooksMatch
  <2> QED BY <1>1, <2>1, <2>2 DEF Open, Pay, Close, Consistent, Shapes
<1>2. Consistent /\ [Next]_vars =>
        [\A m \in Movement :
           /\ status[m] \in {"paid", "closed"} => status'[m] = status[m]
           /\ booked[m] \subseteq booked'[m]
           /\ status[m] # "absent" => purpose'[m] = purpose[m]]_vars
  BY <1>1
<1> QED BY <1>2, Consistency, PTL DEF Spec, EndIsFinal
=============================================================================
