-------------------------------- MODULE Calc --------------------------------
(***************************************************************************)
(* services/commission/ledger/calc.py: which business day a moment belongs *)
(* to, the commission of a sale, and how much of what an attendant has     *)
(* earned is paid out and how much is carried forward.  Amounts are in     *)
(* minor units, moments in whole hours of UTC.                             *)
(***************************************************************************)
EXTENDS Integers

HoursPerDay == 24

\* The local day a moment falls on, and the moments [Since, Until) of a day.
BusinessDate(hour, offset) == (hour + offset) \div HoursPerDay
Since(day, offset) == day * HoursPerDay - offset
Until(day, offset) == Since(day, offset) + HoursPerDay

\* Floors; the rate is in basis points.
SaleCommission(total, bps) == (total * bps) \div 10000

Shilling == 100

\* With a bug put in: a remainder below a shilling is rounded away.
FoldRounding(today, carried, minimum) ==
  LET available == today + carried
      payable == (available \div Shilling) * Shilling
  IN IF payable < minimum
       THEN [payable |-> 0, carry |-> available]
       ELSE [payable |-> payable, carry |-> 0]

\* Whole shillings are paid if they reach the minimum; the rest is carried.
FoldCarryForward(today, carried, minimum) ==
  LET available == today + carried
      payable == (available \div Shilling) * Shilling
  IN IF payable < minimum
       THEN [payable |-> 0, carry |-> available]
       ELSE [payable |-> payable, carry |-> available - payable]
=============================================================================
