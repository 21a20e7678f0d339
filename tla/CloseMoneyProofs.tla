-------------------------- MODULE CloseMoneyProofs ---------------------------
(***************************************************************************)
(* What is proved of the money of CommissionClose, for any number of       *)
(* sales, attendants, moments, days and runs, any rate and any minimum:    *)
(* amounts are amounts, and an attendant's add up to what was earned as    *)
(* long as no day is folded again.                                         *)
(*                                                                         *)
(* A commission is paid from once, when the day of its sale is folded      *)
(* first; the sums of the model are those of SumLaws, over functions.      *)
(***************************************************************************)
EXTENDS CloseProofs, SumLaws

CutOf == [s \in Sale |-> Cut(s)]
Amounts == [i \in DOMAIN row |-> row[i].amount]

\* A sale recorded too late is of a day that is folded.
LateAfterFold ==
  \A s \in late : Recorded(s) /\ <<Seller[s], item[s].day>> \in folded

Balanced == Consistent /\ TypeOK /\ LateAfterFold /\ ConservedWhenOrderly

-----------------------------------------------------------------------------
(* calc.py                                                                 *)

\* sale_commission_minor: the commission of a sale is an amount.
LEMMA CutIsNat == \A s \in Sale : Cut(s) \in Nat
<1> SUFFICES ASSUME NEW s \in Sale PROVE Cut(s) \in Nat
  OBVIOUS
<1>1. Total[s] \in Nat /\ Rate[s] \in Nat
  BY CloseAssumption
<1>2. Total[s] * Rate[s] \in Nat
  BY <1>1
<1> QED BY <1>2 DEF Cut, SaleCommission

\* fold_carry_forward: what is earned and carried is paid or carried on, whole
\* shillings are paid and only from the minimum up, and less than a shilling
\* stays behind when something is paid.
THEOREM FoldKeepsEveryCent ==
  ASSUME NEW today \in Nat, NEW carried \in Nat, NEW minimum \in Nat \ {0}
  PROVE  LET plan == FoldCarryForward(today, carried, minimum) IN
           /\ plan.payable \in Nat /\ plan.carry \in Nat
           /\ plan.payable + plan.carry = today + carried
           /\ plan.payable % Shilling = 0
           /\ plan.payable > 0 => plan.payable >= minimum /\ plan.carry < Shilling
BY DEF FoldCarryForward, Shilling

\* business_date and business_day_bounds agree: a moment is of the day whose
\* bounds it lies in, and of no other.
THEOREM MomentsHaveOneDay ==
  ASSUME NEW hour \in Int, NEW offset \in Int, NEW day \in Int
  PROVE  BusinessDate(hour, offset) = day
           <=> Since(day, offset) <= hour /\ hour < Until(day, offset)
BY DEF BusinessDate, Since, Until, HoursPerDay

-----------------------------------------------------------------------------
(* The sums of the model                                                   *)

\* The sum of commissions is defined by the recursion of a running sum.
LEMMA SumOfUnfolds ==
  ASSUME NEW S
  PROVE  SumOf(S) = (CHOOSE f : f = [s \in SUBSET S |->
                       IF s = {} THEN 0
                       ELSE Cut(CHOOSE x \in s : TRUE)
                              + f[s \ {CHOOSE x \in s : TRUE}]])[S]
BY Zenon DEF SumOf, MapThenSumSet, MapThenFoldSet

\* And so is that of a SumLaws sum, of the same commissions.
LEMMA SumOfIsSum ==
  ASSUME NEW S, S \subseteq Sale
  PROVE  SumOf(S) = SumOver(CutOf, S) /\ IsFiniteSet(S)
<1> DEFINE Is(f) == f = [s \in SUBSET S |->
                       IF s = {} THEN 0
                       ELSE Cut(CHOOSE x \in s : TRUE)
                              + f[s \ {CHOOSE x \in s : TRUE}]]
<1>1. IsFiniteSet(S)
  BY CloseAssumption, FS_Subset
<1>2. ASSUME NEW f
      PROVE  Is(f) <=> Running(CutOf, S, f)
  <2>1. \A s \in SUBSET S : s # {} => CutOf[AnyOf(s)] = Cut(CHOOSE x \in s : TRUE)
    BY AnyIsIn DEF CutOf, AnyOf
  <2>2. [s \in SUBSET S |-> IF s = {} THEN 0
                            ELSE Cut(CHOOSE x \in s : TRUE)
                                   + f[s \ {CHOOSE x \in s : TRUE}]]
        = [s \in SUBSET S |-> IF s = {} THEN 0
                              ELSE CutOf[AnyOf(s)] + f[s \ {AnyOf(s)}]]
    BY <2>1 DEF AnyOf
  <2> QED BY <2>2 DEF Running
<1> DEFINE g == CHOOSE f : Is(f)
<1>3. Running(CutOf, S, g)
  <2>1. \E f : Is(f)
    <3> HIDE DEF Is
    <3> QED BY <1>1, <1>2, RunningExists
  <2>2. Is(g)
    <3> HIDE DEF Is
    <3> QED BY <2>1
  <2> HIDE DEF g, Is
  <2> QED BY <1>2, <2>2
<1>4. SumOf(S) = g[S]
  BY SumOfUnfolds
<1> HIDE DEF g
<1> QED BY <1>1, <1>3, <1>4, SumRuns

\* A sum of commissions is an amount, and days add up.
LEMMA SumOfDays ==
  ASSUME NEW S, S \subseteq Sale
  PROVE  /\ SumOf(S) \in Nat
         /\ \A T \in SUBSET Sale : S \cap T = {} => SumOf(S \cup T) = SumOf(S) + SumOf(T)
         /\ \A T \in SUBSET S : SumOf(T) <= SumOf(S)
<1>1. \A s \in Sale : CutOf[s] \in Nat
  BY CutIsNat DEF CutOf
<1>2. SumOf(S) \in Nat
  BY <1>1, SumOfIsSum, SumType
<1>3. ASSUME NEW T \in SUBSET Sale, S \cap T = {}
      PROVE  SumOf(S \cup T) = SumOf(S) + SumOf(T)
  <2>1. /\ SumOf(S) = SumOver(CutOf, S) /\ IsFiniteSet(S)
        /\ SumOf(T) = SumOver(CutOf, T) /\ IsFiniteSet(T)
        /\ SumOf(S \cup T) = SumOver(CutOf, S \cup T)
    BY SumOfIsSum
  <2>2. \A s \in S \cup T : CutOf[s] \in Int
    BY <1>1
  <2> QED BY <1>3, <2>1, <2>2, SumUnion
<1>4. ASSUME NEW T \in SUBSET S
      PROVE  SumOf(T) <= SumOf(S)
  <2>1. SumOf(S) = SumOver(CutOf, S) /\ IsFiniteSet(S) /\ SumOf(T) = SumOver(CutOf, T)
    BY SumOfIsSum
  <2> QED BY <1>1, <2>1, SumSubset
<1> QED BY <1>2, <1>3, <1>4

\* The sum over the rows of an attendant, likewise.
LEMMA HandedUnfolds ==
  ASSUME NEW a
  PROVE  Handed(a) = (CHOOSE f : f = [s \in SUBSET RowsOf(a) |->
                        IF s = {} THEN 0
                        ELSE AmountOf(CHOOSE x \in s : TRUE)
                               + f[s \ {CHOOSE x \in s : TRUE}]])[RowsOf(a)] + carry[a]
BY Zenon DEF Handed, MapThenSumSet, MapThenFoldSet

\* An attendant has finitely many rows, each of an amount.
LEMMA RowsAreFinite ==
  ASSUME TypeOK, NEW a
  PROVE  IsFiniteSet(RowsOf(a)) /\ \A i \in RowsOf(a) : Amounts[i] \in Nat
<1>1. DOMAIN row = 1..Len(row) /\ Len(row) \in Nat /\ \A i \in DOMAIN row : row[i] \in Row
  BY DEF TypeOK
<1>2. IsFiniteSet(DOMAIN row) /\ RowsOf(a) \subseteq DOMAIN row
  BY <1>1, FS_Interval DEF RowsOf
<1>3. IsFiniteSet(RowsOf(a))
  BY <1>2, FS_Subset
<1> QED BY <1>1, <1>2, <1>3 DEF Amounts, Row

\* What an attendant was handed is the sum of the amounts of the rows.
LEMMA HandedIsSum ==
  \A a : IsFiniteSet(RowsOf(a)) => Handed(a) = SumOver(Amounts, RowsOf(a)) + carry[a]
<1> SUFFICES ASSUME NEW a, IsFiniteSet(RowsOf(a))
             PROVE  Handed(a) = SumOver(Amounts, RowsOf(a)) + carry[a]
  OBVIOUS
<1> DEFINE S == RowsOf(a)
           Is(f) == f = [s \in SUBSET S |->
                       IF s = {} THEN 0
                       ELSE AmountOf(CHOOSE x \in s : TRUE)
                              + f[s \ {CHOOSE x \in s : TRUE}]]
<1>1. S \subseteq DOMAIN row
  BY DEF RowsOf
<1>2. ASSUME NEW f
      PROVE  Is(f) <=> Running(Amounts, S, f)
  <2>1. \A s \in SUBSET S : s # {} => Amounts[AnyOf(s)] = AmountOf(CHOOSE x \in s : TRUE)
    BY <1>1, AnyIsIn DEF Amounts, AmountOf, AnyOf
  <2>2. [s \in SUBSET S |-> IF s = {} THEN 0
                            ELSE AmountOf(CHOOSE x \in s : TRUE)
                                   + f[s \ {CHOOSE x \in s : TRUE}]]
        = [s \in SUBSET S |-> IF s = {} THEN 0
                              ELSE Amounts[AnyOf(s)] + f[s \ {AnyOf(s)}]]
    <3> HIDE DEF S
    <3> QED BY <2>1 DEF AnyOf
  <2> QED BY <2>2 DEF Running
<1> DEFINE g == CHOOSE f : Is(f)
<1>3. Running(Amounts, S, g)
  <2>1. \E f : Is(f)
    <3> HIDE DEF Is
    <3> QED BY <1>2, RunningExists
  <2>2. Is(g)
    <3> HIDE DEF Is
    <3> QED BY <2>1
  <2> HIDE DEF g, Is
  <2> QED BY <1>2, <2>2
<1>4. Handed(a) = g[S] + carry[a]
  BY HandedUnfolds
<1> HIDE DEF g
<1> QED BY <1>3, <1>4, SumRuns

\* The same of the next state.
LEMMA HandedIsSumNext ==
  \A a : IsFiniteSet(RowsOf(a)') => Handed(a)' = SumOver(Amounts', RowsOf(a)') + carry'[a]
<1>1. (\A a : IsFiniteSet(RowsOf(a)) => Handed(a) = SumOver(Amounts, RowsOf(a)) + carry[a])'
  BY HandedIsSum, PTL
<1> QED BY <1>1

-----------------------------------------------------------------------------
(* Types                                                                   *)

\* What is folded is the plan of the day: an amount to pay, one to carry on.
LEMMA PlanIsSound ==
  ASSUME TypeOK, NEW a \in Attendant, NEW d
  PROVE  /\ Plan(a, d).payable \in Nat /\ Plan(a, d).carry \in Nat
         /\ Plan(a, d).payable + Plan(a, d).carry = SumOf(ItemsOn(a, d)) + carry[a]
<1>1. ItemsOn(a, d) \subseteq Sale
  BY DEF ItemsOn, ItemsOf
<1>2. SumOf(ItemsOn(a, d)) \in Nat
  BY <1>1, SumOfDays
<1>3. carry[a] \in Nat /\ Minimum \in Nat \ {0}
  BY CloseAssumption DEF TypeOK
<1> QED BY <1>2, <1>3, FoldKeepsEveryCent DEF Plan

\* Every step keeps the types: in particular a row is of a positive amount, an
\* item is linked to a row there is, and only a folded day is folded again.
LEMMA NextTypeOK == Consistent /\ TypeOK /\ [CloseNext]_vars => TypeOK'
<1> SUFFICES ASSUME Consistent, TypeOK, [CloseNext]_vars PROVE TypeOK'
  OBVIOUS
<1>1. /\ paid' \in [Sale -> Hour \cup {None}]
      /\ item' \in [Sale -> Item]
      /\ run' \in [Run -> CloseRun]
  BY NextShapes DEF Shapes
<1>2. ASSUME NEW x \in Run, NEW s \in Sale, ItemRecorded(x, s)
      PROVE  TypeOK'
  <2>1. item' = item \/ item' = [item EXCEPT ![s] = [day |-> run[x].day, row |-> 0]]
    BY <1>2 DEF ItemRecorded
  <2>2. /\ Len(row) \in Nat /\ item \in [Sale -> Item]
        /\ \A q \in Sale : item[q].row \in 0..Len(row)
    BY DEF TypeOK
  <2>3. \A q \in Sale : item'[q].row \in {item[q].row, 0}
    BY <2>1, <2>2
  <2>4. \A q \in Sale : item'[q].row \in 0..Len(row)
    BY <2>2, <2>3
  <2> QED BY <1>1, <1>2, <2>4 DEF ItemRecorded, TypeOK
<1>3. ASSUME NEW x \in Run, NEW a \in Attendant, AttendantFolded(x, a)
      PROVE  TypeOK'
  <2> DEFINE d == run[x].day
             plan == Plan(a, d)
             new == [who |-> a, day |-> d, amount |-> plan.payable, state |-> "PLANNED"]
  <2>1. d \in Day
    BY <1>3 DEF AttendantFolded, Consistent, Folding
  <2>2. plan.payable \in Nat /\ plan.carry \in Nat
    BY PlanIsSound
  <2>3. carry' = [carry EXCEPT ![a] = plan.carry]
    BY <1>3 DEF AttendantFolded
  <2>4. \/ plan.payable <= 0 /\ UNCHANGED <<row, item>>
        \/ /\ ~(plan.payable <= 0) /\ row' = Append(row, new)
           /\ item' = [s \in Sale |->
                IF s \in Unlinked(a) THEN [item[s] EXCEPT !.row = Len(row) + 1]
                                     ELSE item[s]]
    BY <1>3 DEF AttendantFolded
  <2>5. plan.payable > 0 => new \in Row
    BY <2>1, <2>2 DEF Row, RowState
  <2> HIDE DEF new, plan
  <2>6. row' \in Seq(Row)
    <3>1. row \in Seq(Row)
      BY DEF TypeOK
    <3> QED BY <2>2, <2>4, <2>5, <3>1
  <2>7. \A s \in Sale : item'[s].row \in 0..Len(row')
    <3>1. Len(row) \in Nat /\ \A s \in Sale : item[s] \in Item /\ item[s].row \in 0..Len(row)
      BY DEF TypeOK
    <3>2. CASE UNCHANGED <<row, item>>
      BY <3>1, <3>2
    <3>3. CASE ~UNCHANGED <<row, item>>
      <4>1. Len(row') = Len(row) + 1
        BY <2>4, <3>3 DEF TypeOK
      <4>2. ASSUME NEW s \in Sale
            PROVE  item'[s].row \in {item[s].row, Len(row) + 1}
        BY <2>4, <3>1, <3>3 DEF Item
      <4> QED BY <3>1, <4>1, <4>2
    <3> QED BY <3>2, <3>3
  <2>8. /\ folded' = folded \cup {<<a, d>>}
        /\ again' \subseteq again \cup ({<<a, d>>} \cap folded)
        /\ UNCHANGED late
    BY <1>3 DEF AttendantFolded
  <2>9. carry' \in [Attendant -> Nat]
    BY <2>2, <2>3 DEF TypeOK
  <2> QED BY <1>1, <2>1, <2>6, <2>7, <2>8, <2>9 DEF TypeOK
<1>4. CASE UNCHANGED <<item, carry, row, folded, again, late>>
  BY <1>1, <1>4 DEF TypeOK
<1> QED BY <1>2, <1>3, <1>4
     DEF CloseNext, SalePaid, CloseStarted, AttendantSkipped, PageFetched,
         CloseAborted, WalkEnded, CloseEnded, CloseLost, closeVars, vars

-----------------------------------------------------------------------------
(* The money of an attendant                                               *)

\* Only a sale of a day that is folded can be recorded too late.
LEMMA NextLateAfterFold ==
  Consistent /\ TypeOK /\ LateAfterFold /\ [CloseNext]_vars => LateAfterFold'
<1> SUFFICES ASSUME Consistent, TypeOK, LateAfterFold, [CloseNext]_vars,
                    NEW s \in late'
             PROVE  Recorded(s)' /\ <<Seller[s], item'[s].day>> \in folded'
  BY DEF LateAfterFold
<1>1. /\ \A q \in Sale : Recorded(q) => Recorded(q)' /\ item'[q].day = item[q].day
      /\ folded \subseteq folded'
  BY NothingForgotten, WindowsGrow DEF Consistent
<1>2. CASE s \in late
  BY <1>1, <1>2 DEF LateAfterFold, TypeOK
<1>3. ASSUME NEW x \in Run, NEW q \in Sale, ItemRecorded(x, q), s \notin late
      PROVE  Recorded(s)' /\ <<Seller[s], item'[s].day>> \in folded'
  <2>1. /\ s = q /\ <<Seller[q], run[x].day>> \in folded /\ folded' = folded
        /\ item' = [item EXCEPT ![q] = [day |-> run[x].day, row |-> 0]]
    BY <1>3 DEF ItemRecorded
  <2>2. run[x].day # None
    BY <2>1, CloseAssumption DEF TypeOK
  <2> QED BY <2>1, <2>2 DEF Recorded, TypeOK
<1>4. CASE late' = late
  BY <1>2, <1>4
<1>5. CASE \E x \in Run, q \in Sale : ItemRecorded(x, q)
  BY <1>2, <1>3, <1>5
<1> QED BY <1>4, <1>5
     DEF CloseNext, SalePaid, CloseStarted, AttendantSkipped, AttendantFolded, PageFetched,
         CloseAborted, WalkEnded, CloseEnded, CloseLost, closeVars, vars

\* An item recorded changes nothing of what was earned in time: its day is not
\* folded yet, or it comes too late.
LEMMA RecordingEarnsNothing ==
  ASSUME TypeOK, LateAfterFold, NEW x \in Run, NEW s \in Sale, ItemRecorded(x, s), NEW a
  PROVE  InTime(a)' = InTime(a)
<1>1. /\ UNCHANGED folded
      /\ \/ UNCHANGED <<item, late>>
         \/ /\ item[s].day = None
            /\ item' = [item EXCEPT ![s] = [day |-> run[x].day, row |-> 0]]
            /\ late' = IF <<Seller[s], run[x].day>> \in folded THEN late \cup {s} ELSE late
  BY DEF ItemRecorded, Recorded
<1>2. CASE UNCHANGED <<item, late>>
  BY <1>1, <1>2 DEF InTime, ItemsOf, Recorded
<1>3. CASE ~UNCHANGED <<item, late>>
  <2>1. /\ item[s].day = None
        /\ item'[s].day = run[x].day
        /\ \A q \in Sale \ {s} : item'[q] = item[q]
    BY <1>1, <1>3 DEF TypeOK
  <2>2. s \notin InTime(a)
    BY <2>1 DEF InTime, ItemsOf, Recorded
  <2>3. s \notin InTime(a)'
    BY <1>1, <1>3, <2>1 DEF InTime, ItemsOf
  <2>4. ASSUME NEW q \in Sale \ {s}
        PROVE  q \in InTime(a)' <=> q \in InTime(a)
    BY <1>1, <1>3, <2>1 DEF InTime, ItemsOf, Recorded
  <2>5. InTime(a) \subseteq Sale /\ InTime(a)' \subseteq Sale
    BY DEF InTime, ItemsOf
  <2> QED BY <2>2, <2>3, <2>4, <2>5
<1> QED BY <1>2, <1>3

\* A day folded for the first time adds its items to what was earned in time.
LEMMA FoldingEarns ==
  ASSUME TypeOK, LateAfterFold, NEW x \in Run, NEW b \in Attendant, AttendantFolded(x, b),
         <<b, run[x].day>> \notin folded
  PROVE  /\ InTime(b)' = InTime(b) \cup ItemsOn(b, run[x].day)
         /\ InTime(b) \cap ItemsOn(b, run[x].day) = {}
         /\ \A a : a # b => InTime(a)' = InTime(a)
<1> DEFINE d == run[x].day
<1>1. /\ folded' = folded \cup {<<b, d>>} /\ UNCHANGED late
      /\ \A s \in Sale : item'[s].day = item[s].day
  BY DEF AttendantFolded, TypeOK, Item
<1>2. \A a : ItemsOf(a)' = ItemsOf(a)
  BY <1>1 DEF ItemsOf, Recorded
<1>3. ItemsOn(b, d) \cap late = {} /\ InTime(b) \cap ItemsOn(b, d) = {}
  BY DEF ItemsOn, ItemsOf, InTime, LateAfterFold
<1>4. \A a : InTime(a)' = {s \in ItemsOf(a) : <<a, item[s].day>> \in folded' /\ s \notin late}
  <2> SUFFICES ASSUME NEW a
               PROVE  InTime(a)' = {s \in ItemsOf(a) : /\ <<a, item[s].day>> \in folded'
                                                       /\ s \notin late}
    OBVIOUS
  <2>1. \A s \in ItemsOf(a) : item'[s].day = item[s].day
    BY <1>1 DEF ItemsOf
  <2> QED BY <1>1, <1>2, <2>1 DEF InTime
<1> QED BY <1>1, <1>3, <1>4 DEF InTime, ItemsOn

\* The rows of the others stay, and those of the attendant gain the new one.
LEMMA FoldingHands ==
  ASSUME TypeOK, NEW x \in Run, NEW b \in Attendant, AttendantFolded(x, b)
  PROVE  /\ Handed(b)' = Handed(b) + SumOf(ItemsOn(b, run[x].day))
         /\ \A a \in Attendant : a # b => Handed(a)' = Handed(a)
<1> DEFINE d == run[x].day
           plan == Plan(b, d)
           new == [who |-> b, day |-> d, amount |-> plan.payable, state |-> "PLANNED"]
           n == Len(row) + 1
<1>1. /\ plan.payable \in Nat /\ plan.carry \in Nat
      /\ plan.payable + plan.carry = SumOf(ItemsOn(b, d)) + carry[b]
      /\ carry[b] \in Nat
  BY PlanIsSound DEF TypeOK
<1>2. carry'[b] = plan.carry /\ \A a \in Attendant \ {b} : carry'[a] = carry[a]
  BY DEF AttendantFolded, TypeOK
<1>3. \/ plan.payable = 0 /\ row' = row
      \/ plan.payable > 0 /\ row' = Append(row, new)
  BY <1>1 DEF AttendantFolded
<1>4. SumOf(ItemsOn(b, d)) \in Nat
  <2>1. ItemsOn(b, d) \subseteq Sale
    BY DEF ItemsOn, ItemsOf
  <2> QED BY <2>1, SumOfDays
<1>5. \A a : IsFiniteSet(RowsOf(a)) /\ \A i \in RowsOf(a) : Amounts[i] \in Nat
  BY RowsAreFinite
<1>6. \A a : SumOver(Amounts, RowsOf(a)) \in Nat
  BY <1>5, SumType
<1>7. \A a : Handed(a) = SumOver(Amounts, RowsOf(a)) + carry[a]
  BY <1>5, HandedIsSum
<1> HIDE DEF plan, d
<1>8. CASE plan.payable = 0 /\ row' = row
  <2>1. \A a : Handed(a)' = SumOver(Amounts, RowsOf(a)) + carry'[a]
    <3>1. \A a : RowsOf(a)' = RowsOf(a) /\ Amounts' = Amounts
      BY <1>8 DEF RowsOf, Amounts
    <3> QED BY <1>5, <3>1, HandedIsSumNext
  <2> QED BY <1>1, <1>2, <1>4, <1>6, <1>7, <1>8, <2>1 DEF d
<1>9. CASE plan.payable > 0 /\ row' = Append(row, new)
  <2>1. /\ n \notin DOMAIN row /\ DOMAIN row' = DOMAIN row \cup {n} /\ row'[n] = new
        /\ \A i \in DOMAIN row : row'[i] = row[i]
    BY <1>9 DEF TypeOK
  <2>2. \A a : RowsOf(a)' = IF a = b THEN RowsOf(a) \cup {n} ELSE RowsOf(a)
    BY <2>1 DEF RowsOf
  <2>3. /\ \A a : \A i \in RowsOf(a) : Amounts'[i] = Amounts[i]
        /\ Amounts'[n] = plan.payable
    BY <2>1 DEF Amounts, RowsOf
  <2>4. \A a : IsFiniteSet(RowsOf(a)')
    BY <1>5, <2>2, FS_AddElement
  <2>5. \A a : Handed(a)' = SumOver(Amounts', RowsOf(a)') + carry'[a]
    BY <2>4, HandedIsSumNext
  <2>6. \A a : SumOver(Amounts', RowsOf(a)) = SumOver(Amounts, RowsOf(a))
    BY <1>5, <2>3, SumSame
  <2>7. SumOver(Amounts', RowsOf(b)') = plan.payable + SumOver(Amounts, RowsOf(b))
    <3> DEFINE R == RowsOf(b)
    <3>1. /\ RowsOf(b)' = R \cup {n} /\ (R \cup {n}) \ {n} = R
          /\ IsFiniteSet(R \cup {n})
          /\ \A i \in R \cup {n} : Amounts'[i] \in Int
      <4>1. R \subseteq DOMAIN row /\ n \notin R
        BY <2>1 DEF RowsOf
      <4>2. RowsOf(b)' = R \cup {n} /\ IsFiniteSet(R \cup {n})
        BY <2>2, <2>4
      <4>3. \A i \in R : Amounts'[i] \in Int
        BY <1>5, <2>3
      <4> HIDE DEF R, n
      <4> QED BY <1>1, <2>3, <4>1, <4>2, <4>3
    <3>2. SumOver(Amounts', R \cup {n}) = Amounts'[n] + SumOver(Amounts', (R \cup {n}) \ {n})
      <4> HIDE DEF R, n
      <4> QED BY <3>1, SumWithout
    <3> QED BY <2>3, <2>6, <3>1, <3>2
  <2>8. Handed(b)' = Handed(b) + SumOf(ItemsOn(b, d))
    BY <1>1, <1>2, <1>4, <1>6, <1>7, <2>5, <2>7
  <2>9. \A a \in Attendant : a # b => Handed(a)' = Handed(a)
    BY <1>2, <1>7, <2>2, <2>5, <2>6
  <2> QED BY <2>8, <2>9 DEF d
<1> QED BY <1>3, <1>8, <1>9

\* A step that neither records nor folds, and leaves each row its attendant and
\* its amount, moves no money.
LEMMA NothingMoves ==
  ASSUME TypeOK, UNCHANGED <<item, carry, folded, again, late>>,
         DOMAIN row' = DOMAIN row,
         \A i \in DOMAIN row : row'[i].who = row[i].who /\ row'[i].amount = row[i].amount,
         NEW a
  PROVE  Handed(a)' = Handed(a) /\ InTime(a)' = InTime(a) /\ Orderly(a)' = Orderly(a)
<1>1. RowsOf(a)' = RowsOf(a)
  BY DEF RowsOf
<1>2. \A i \in RowsOf(a) : Amounts'[i] = Amounts[i]
  BY DEF Amounts, RowsOf
<1>3. IsFiniteSet(RowsOf(a))
  BY RowsAreFinite
<1>4. SumOver(Amounts', RowsOf(a)) = SumOver(Amounts, RowsOf(a))
  BY <1>2, <1>3, SumSame
<1>5. Handed(a)' = Handed(a)
  BY <1>1, <1>3, <1>4, HandedIsSum, HandedIsSumNext
<1> QED BY <1>5 DEF InTime, ItemsOf, Recorded, Orderly

\* Nothing is handed and nothing earned at first.
LEMMA BalancedInit == Init => Balanced
<1> SUFFICES ASSUME Init PROVE Balanced
  OBVIOUS
<1>1. TypeOK
  BY DEF Init, TypeOK, NoItem, Item, NewRun, CloseRun
<1>2. LateAfterFold
  BY DEF Init, LateAfterFold
<1>3. ASSUME NEW a \in Attendant
      PROVE  Handed(a) = Earned(a)
  <2>1. RowsOf(a) = {} /\ InTime(a) = {} /\ carry[a] = 0
    BY DEF Init, RowsOf, InTime
  <2>2. IsFiniteSet({})
    BY FS_EmptySet
  <2>3. SumOver(Amounts, {}) = 0 /\ SumOver(CutOf, {}) = 0
    BY <2>2, SumByStep
  <2>4. Handed(a) = 0
    BY <2>1, <2>2, <2>3, HandedIsSum
  <2>5. Earned(a) = SumOver(CutOf, {})
    BY <2>1, SumOfIsSum DEF Earned
  <2> QED BY <2>3, <2>4, <2>5
<1> QED BY <1>1, <1>2, <1>3, ConsistentInit DEF Balanced, ConservedWhenOrderly

\* What is handed grows with what is earned, in one step of the fold.
LEMMA NextConserved == Balanced /\ [CloseNext]_vars => ConservedWhenOrderly'
<1> SUFFICES ASSUME Balanced, [CloseNext]_vars, NEW a \in Attendant, Orderly(a)'
             PROVE  Handed(a)' = Earned(a)'
  BY DEF ConservedWhenOrderly
<1>1. TypeOK /\ LateAfterFold /\ (Orderly(a) => Handed(a) = Earned(a))
  BY DEF Balanced, ConservedWhenOrderly
<1>2. CASE UNCHANGED <<item, carry, row, folded, again, late>>
  BY <1>1, <1>2, NothingMoves DEF Earned
<1>3. ASSUME NEW x \in Run, NEW s \in Sale, ItemRecorded(x, s)
      PROVE  Handed(a)' = Earned(a)'
  <2>1. InTime(a)' = InTime(a)
    BY <1>1, <1>3, RecordingEarnsNothing
  <2>2. UNCHANGED <<carry, row, again>>
    BY <1>3 DEF ItemRecorded
  <2>3. RowsOf(a)' = RowsOf(a) /\ Amounts' = Amounts
    BY <2>2 DEF RowsOf, Amounts
  <2>4. IsFiniteSet(RowsOf(a))
    BY <1>1, RowsAreFinite
  <2>5. Handed(a)' = Handed(a)
    BY <2>2, <2>3, <2>4, HandedIsSum, HandedIsSumNext
  <2> QED BY <1>1, <2>1, <2>2, <2>5 DEF Earned, Orderly
<1>4. ASSUME NEW x \in Run, NEW b \in Attendant, AttendantFolded(x, b)
      PROVE  Handed(a)' = Earned(a)'
  <2> DEFINE d == run[x].day
  <2>1. again \subseteq again'
    BY <1>4 DEF AttendantFolded
  <2>2. Orderly(a) /\ Handed(a) = Earned(a)
    BY <1>1, <2>1 DEF Orderly
  <2>3. CASE <<b, d>> \in folded
    <3>1. <<b, d>> \in again'
      BY <1>4, <2>3 DEF AttendantFolded, AlreadyClosed
    <3>2. a # b
      BY <3>1 DEF Orderly
    <3>3. Handed(a)' = Handed(a)
      BY <1>1, <1>4, <3>2, FoldingHands
    <3>4. InTime(a)' = InTime(a)
      <4>1. /\ UNCHANGED <<folded, late>>
            /\ \A s \in Sale : item'[s].day = item[s].day
        BY <1>1, <1>4, <2>3 DEF AttendantFolded, TypeOK, Item
      <4> QED BY <4>1 DEF InTime, ItemsOf, Recorded
    <3> QED BY <2>2, <3>3, <3>4 DEF Earned
  <2>4. CASE <<b, d>> \notin folded
    <3>1. /\ InTime(b)' = InTime(b) \cup ItemsOn(b, d)
          /\ InTime(b) \cap ItemsOn(b, d) = {}
          /\ a # b => InTime(a)' = InTime(a)
      BY <1>1, <1>4, <2>4, FoldingEarns
    <3>2. /\ Handed(b)' = Handed(b) + SumOf(ItemsOn(b, d))
          /\ a # b => Handed(a)' = Handed(a)
      BY <1>1, <1>4, FoldingHands
    <3>3. CASE a = b
      <4>1. InTime(b) \subseteq Sale /\ ItemsOn(b, d) \subseteq Sale
        BY DEF InTime, ItemsOn, ItemsOf
      <4>2. SumOf(InTime(b) \cup ItemsOn(b, d)) = SumOf(InTime(b)) + SumOf(ItemsOn(b, d))
        BY <3>1, <4>1, SumOfDays
      <4> QED BY <2>2, <3>1, <3>2, <3>3, <4>2 DEF Earned
    <3>4. CASE a # b
      BY <2>2, <3>1, <3>2, <3>4 DEF Earned
    <3> QED BY <3>3, <3>4
  <2> QED BY <2>3, <2>4
<1> QED BY <1>2, <1>3, <1>4
     DEF CloseNext, SalePaid, CloseStarted, AttendantSkipped, PageFetched,
         CloseAborted, WalkEnded, CloseEnded, CloseLost, closeVars, vars

\* Every step keeps the balance.
LEMMA BalancedNext == Balanced /\ [CloseNext]_vars => Balanced'
BY ConsistentNext, NextTypeOK, NextLateAfterFold, NextConserved DEF Balanced

\* Who is handed what was earned in time is not handed more than was earned.
LEMMA BalancedIsEnough ==
  ASSUME Balanced, NEW a \in Attendant, Orderly(a)
  PROVE  Handed(a) <= SumOf(ItemsOf(a))
<1>1. Handed(a) = SumOf(InTime(a))
  BY DEF Balanced, ConservedWhenOrderly, Earned
<1>2. InTime(a) \subseteq ItemsOf(a) /\ ItemsOf(a) \subseteq Sale
  BY DEF InTime, ItemsOf
<1> QED BY <1>1, <1>2, SumOfDays

-----------------------------------------------------------------------------
(* Theorems                                                                *)

\* The balance holds in every state of every instance.
THEOREM CloseBalance == CloseSpec => []Balanced
BY BalancedInit, BalancedNext, PTL DEF CloseSpec

\* An amount in the ledger is positive, what is carried is not negative, an item
\* is linked to a row there is, and the histories are what they are said to be.
THEOREM CloseTypes == CloseSpec => []TypeOK
<1>1. Balanced => TypeOK
  BY DEF Balanced
<1> QED BY <1>1, CloseBalance, PTL

\* As long as no day of an attendant is folded again, what is planned, paid out
\* and carried for the attendant is, to the minor unit, the commission of every
\* sale that was recorded before its day was folded: no fold counts a sale twice
\* or drops a remainder, whatever runs overlap, abort and repeat.
THEOREM MoneyIsConserved == CloseSpec => []ConservedWhenOrderly
<1>1. Balanced => ConservedWhenOrderly
  BY DEF Balanced
<1> QED BY <1>1, CloseBalance, PTL

\* close.py:38 holds of every attendant whose days are folded only once: nobody
\* is handed more than the recorded sales earned, however late some of them came.
\* What breaks NeverHandedTooMuch is a day folded again, and nothing else.
THEOREM OnlyAFoldRepeatedHandsTooMuch ==
  CloseSpec => [](\A a \in Attendant : Orderly(a) => Handed(a) <= SumOf(ItemsOf(a)))
<1>1. Balanced => (\A a \in Attendant : Orderly(a) => Handed(a) <= SumOf(ItemsOf(a)))
  BY BalancedIsEnough
<1> QED BY <1>1, CloseBalance, PTL
=============================================================================
