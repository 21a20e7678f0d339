------------------------- MODULE MCCommissionClose --------------------------
(***************************************************************************)
(* Small instances of CommissionClose for TLC.                             *)
(***************************************************************************)
EXTENDS CommissionClose, TLC

CONSTANTS a1, a2

\* The third sale, if there is one, is the second attendant's.
MCSeller == [s \in Sale |-> IF s = 3 THEN a2 ELSE a1]
\* 6.50, 4.20 and 12.34 at five percent: the first two reach the minimum of ten
\* together and leave a remainder.
MCTotal == [s \in Sale |-> CASE s = 1 -> 13000 [] s = 2 -> 8400 [] s = 3 -> 24690]
MCRate == [s \in Sale |-> 500]

Symmetry == Permutations(Run)
=============================================================================
