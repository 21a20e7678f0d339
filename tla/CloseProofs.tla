----------------------------- MODULE CloseProofs ------------------------------
(***************************************************************************)
(* What is proved of CommissionClose, for any number of sales, attendants, *)
(* moments, days and runs, any size of page and any minimum: a run that    *)
(* walks the pages of a day misses no sale.  What the sales earn is the    *)
(* subject of CloseMoneyProofs; amounts are left untyped here.             *)
(***************************************************************************)
EXTENDS CommissionClose, FiniteSetTheorems, WellFoundedInduction, TLAPS

\* What the tables and the runs hold.  Amounts are left to CloseMoneyProofs:
\* nothing here depends on them.
Shapes ==
  /\ paid \in [Sale -> Hour \cup {None}]
  /\ item \in [Sale -> Item]
  /\ \E S : row \in Seq(S)
  /\ run \in [Run -> CloseRun]

\* An item is of the day its sale was paid on, and a row of a day folded.
Dated ==
  /\ \A s \in Sale : Recorded(s) => s \in Window(item[s].day)
  /\ \A i \in DOMAIN row : <<row[i].who, row[i].day>> \in folded

\* A sale that was due when a run began is recorded and will be folded, or on
\* the page in hand, or beyond the cursor on a page still to come.
Visited(x, s) == Recorded(s) /\ Seller[s] \in run[x].touched
ToCome(x, s) == run[x].more /\ s \in Beyond(run[x].day, run[x].cursor)
Walks ==
  \A x \in Run : run[x].pc = "walking" =>
    /\ run[x].day \in Day
    /\ run[x].cursor = None \/ run[x].cursor \in Window(run[x].day)
    /\ run[x].page \subseteq Window(run[x].day)
    /\ run[x].due \subseteq Window(run[x].day)
    /\ \A s \in run[x].due : Visited(x, s) \/ s \in run[x].page \/ ToCome(x, s)

\* What a run has walked past is folded, or its attendant is still to be folded.
Folding ==
  \A x \in Run : run[x].pc \in {"folding", "done"} =>
    /\ run[x].day \in Day
    /\ run[x].due \subseteq Window(run[x].day)
    /\ run[x].pc = "done" => run[x].touched = {}
    /\ \A s \in run[x].due :
         Recorded(s) /\ (Seller[s] \in run[x].touched \/ <<Seller[s], item[s].day>> \in folded)

Consistent == Shapes /\ Dated /\ Walks /\ Folding

-----------------------------------------------------------------------------
(* Moments, days and pages                                                 *)

\* The order of a page is total.
LEMMA Ordered ==
  ASSUME Shapes, NEW d, NEW s \in Window(d), NEW t \in Window(d)
  PROVE  /\ s \in Nat /\ paid[s] \in Nat
         /\ ~Before(s, s)
         /\ s = t \/ Before(s, t) \/ Before(t, s)
         /\ \A q \in Window(d) : Before(s, t) /\ Before(t, q) => Before(s, q)
<1>1. \A q \in Window(d) : q \in Nat /\ paid[q] \in Nat
  BY CloseAssumption DEF Window, Shapes
<1> QED BY <1>1 DEF Before

\* business_date gives whole days.
LEMMA DaysAreInt == Day \subseteq Int
BY CloseAssumption DEF Day, BusinessDate, HoursPerDay

\* business_day_bounds: the windows of two days have no moment in common.
LEMMA OneWindow ==
  ASSUME Shapes, NEW d \in Day, NEW e \in Day, NEW s \in Window(d), s \in Window(e)
  PROVE  d = e
<1>1. d \in Int /\ e \in Int /\ Offset \in Int
  BY DaysAreInt, CloseAssumption
<1>2. paid[s] \in Int
  BY Ordered
<1> QED BY <1>1, <1>2 DEF Window, Since, Until, HoursPerDay

\* A page that is not empty has a last sale.
LEMMA LastOfPage ==
  ASSUME Shapes, NEW d, NEW S, S \subseteq Window(d), S # {}
  PROVE  \E s \in S : \A q \in S : q = s \/ Before(q, s)
<1> DEFINE After(s) == {q \in S : Before(s, q)}
           T == {After(s) : s \in S}
<1>1. IsFiniteSet(S)
  BY CloseAssumption, FS_Subset DEF Window
<1>2. T \subseteq FiniteSubsetsOf(S)
  <2> SUFFICES ASSUME NEW s \in S PROVE After(s) \in FiniteSubsetsOf(S)
    OBVIOUS
  <2>1. IsFiniteSet(After(s))
    BY <1>1, FS_Subset
  <2> QED BY <2>1 DEF FiniteSubsetsOf
<1>3. PICK A \in T : \A B \in T : ~(<<B, A>> \in StrictSubsetOrdering(S))
  <2>1. IsWellFoundedOn(StrictSubsetOrdering(S), FiniteSubsetsOf(S))
    BY FS_StrictSubsetOrderingWellFounded
  <2>2. T # {}
    OBVIOUS
  <2> HIDE DEF T
  <2> QED BY <1>2, <2>1, <2>2, WFMin
<1>4. PICK s \in S : A = After(s)
  BY <1>3
<1>5. ASSUME NEW q \in S, q # s, ~Before(q, s)
      PROVE  FALSE
  <2>1. Before(s, q) /\ ~Before(q, q)
    BY <1>5, Ordered
  <2>2. After(q) \subseteq After(s)
    BY <2>1, Ordered
  <2>3. q \in After(s) /\ q \notin After(q)
    BY <2>1
  <2>4. <<After(q), After(s)>> \in StrictSubsetOrdering(S)
    BY <2>2, <2>3 DEF StrictSubsetOrdering
  <2> QED BY <1>3, <1>4, <2>4
<1> QED BY <1>5

\* list_paid_sales with a limit: what a page leaves out comes after its last
\* sale, so the next page, asked for beyond that sale, still has it.
LEMMA PageThenRest ==
  ASSUME Shapes, NEW d, NEW R, R \subseteq Window(d), FirstOf(R) # {},
         NEW last \in FirstOf(R), \A q \in FirstOf(R) : q = last \/ Before(q, last),
         NEW s \in R, s \notin FirstOf(R)
  PROVE  Before(last, s)
<1> DEFINE Ahead(t) == {q \in R : Before(q, t)}
<1>1. IsFiniteSet(R)
  BY CloseAssumption, FS_Subset DEF Window
<1>2. last \in R /\ Cardinality(Ahead(last)) < PageLimit
  BY DEF FirstOf
<1>3. ~(Cardinality(Ahead(s)) < PageLimit)
  BY DEF FirstOf
<1>4. SUFFICES ASSUME Before(s, last) PROVE FALSE
  BY <1>2, Ordered
<1>5. Ahead(s) \subseteq Ahead(last)
  BY <1>2, <1>4, Ordered
<1>6. IsFiniteSet(Ahead(last))
  BY <1>1, FS_Subset
<1>7. /\ Cardinality(Ahead(s)) <= Cardinality(Ahead(last))
      /\ IsFiniteSet(Ahead(s))
  BY <1>5, <1>6, FS_Subset
<1>8. Cardinality(Ahead(s)) \in Nat /\ Cardinality(Ahead(last)) \in Nat /\ PageLimit \in Nat
  BY <1>6, <1>7, FS_CardinalityType, CloseAssumption
<1> HIDE DEF Ahead
<1> QED BY <1>2, <1>3, <1>7, <1>8

-----------------------------------------------------------------------------
(* What a step may do to sales, items and rows                             *)

\* A paid sale keeps its time, an item its day, and what is folded stays so.
LEMMA NothingForgotten ==
  ASSUME Shapes, [CloseNext]_vars
  PROVE  /\ \A s \in Sale : paid[s] # None => paid'[s] = paid[s]
         /\ \A s \in Sale : Recorded(s) => item'[s].day = item[s].day
         /\ folded \subseteq folded'
<1> USE DEF Shapes, Recorded
<1>1. CASE UNCHANGED vars
  BY <1>1 DEF vars, posVars, closeVars
<1>2. ASSUME NEW s \in Sale, NEW h \in Hour, SalePaid(s, h)
      PROVE  \A q \in Sale : paid[q] # None => paid'[q] = paid[q]
  BY <1>2 DEF SalePaid
<1>3. ASSUME NEW x \in Run, NEW s \in Sale, ItemRecorded(x, s)
      PROVE  \A q \in Sale : item[q].day # None => item'[q].day = item[q].day
  BY <1>3 DEF ItemRecorded
<1>4. ASSUME NEW x \in Run, NEW a \in Attendant, AttendantFolded(x, a)
      PROVE  \A q \in Sale : item'[q].day = item[q].day
  BY <1>4 DEF AttendantFolded, Item
<1>5. CASE CloseNext
  BY <1>2, <1>3, <1>4, <1>5
     DEF CloseNext, SalePaid, ItemRecorded, AttendantFolded, CloseStarted,
         AttendantSkipped, PageFetched, CloseAborted, WalkEnded, CloseEnded, CloseLost,
         closeVars
<1> QED BY <1>1, <1>5

\* So windows and what lies beyond a cursor only grow.
LEMMA WindowsGrow ==
  ASSUME Shapes, [CloseNext]_vars, NEW d
  PROVE  /\ Window(d) \subseteq Window(d)'
         /\ \A c \in Window(d) \cup {None} : Beyond(d, c) \subseteq Beyond(d, c)'
         /\ \A s \in Sale : Recorded(s) => Recorded(s)'
<1>1. /\ \A s \in Sale : paid[s] # None => paid'[s] = paid[s]
      /\ \A s \in Sale : Recorded(s) => item'[s].day = item[s].day
  BY NothingForgotten
<1>2. Window(d) \subseteq Window(d)'
  BY <1>1 DEF Window
<1>3. ASSUME NEW c \in Window(d) \cup {None}, NEW s \in Beyond(d, c)
      PROVE  s \in Beyond(d, c)'
  <2>1. s \in Window(d) /\ (c = None \/ Before(c, s))
    BY <1>3 DEF Beyond
  <2>2. \A q \in Window(d) : paid'[q] = paid[q]
    BY <1>1 DEF Window
  <2>3. c = None \/ Before(c, s)'
    BY <2>1, <2>2, <1>3 DEF Before
  <2> QED BY <2>1, <2>3, <1>2 DEF Beyond
<1> QED BY <1>1, <1>2, <1>3 DEF Recorded

-----------------------------------------------------------------------------
(* The invariant, one part at a time                                       *)

\* Nothing is recorded, planned or under way at first.
LEMMA ConsistentInit == Init => Consistent
<1> SUFFICES ASSUME Init PROVE Consistent
  OBVIOUS
<1>1. Shapes
  BY DEF Init, Shapes, Item, NoItem, NewRun, CloseRun
<1>2. Dated
  BY DEF Init, Dated, Recorded, NoItem
<1>3. Walks /\ Folding
  BY DEF Init, NewRun, Walks, Folding
<1> QED BY <1>1, <1>2, <1>3 DEF Consistent

\* A page fetched names a cursor that is a sale, and a row is appended to rows.
LEMMA NextShapes == Consistent /\ [CloseNext]_vars => Shapes'
<1> SUFFICES ASSUME Consistent, [CloseNext]_vars PROVE Shapes'
  OBVIOUS
<1> USE DEF Shapes, Consistent
<1>1. CASE UNCHANGED vars
  BY <1>1 DEF vars, posVars, closeVars
<1>2. ASSUME NEW s \in Sale, NEW h \in Hour, SalePaid(s, h)
      PROVE  Shapes'
  BY <1>2 DEF SalePaid, closeVars
<1>3. ASSUME NEW x \in Run, NEW d \in Day, CloseStarted(x, d)
      PROVE  Shapes'
  BY <1>3 DEF CloseStarted, NewRun, CloseRun, Window
<1>4. ASSUME NEW x \in Run, PageFetched(x)
      PROVE  Shapes'
  <2> DEFINE rest == Beyond(run[x].day, run[x].cursor)
             last == CHOOSE s \in FirstOf(rest) :
                       \A q \in FirstOf(rest) : q = s \/ Before(q, s)
  <2>1. FirstOf(rest) \subseteq Window(run[x].day) /\ FirstOf(rest) \subseteq Sale
    BY DEF FirstOf, Beyond, Window
  <2>2. FirstOf(rest) # {} => last \in FirstOf(rest)
    BY <2>1, LastOfPage
  <2>3. run' = [run EXCEPT ![x].page = FirstOf(rest),
                           ![x].more = FirstOf(rest) # rest,
                           ![x].cursor = IF FirstOf(rest) = {} THEN run[x].cursor ELSE last]
    BY <1>4 DEF PageFetched
  <2>4. run' \in [Run -> CloseRun]
    <3> DEFINE F == FirstOf(rest)
               c == IF FirstOf(rest) = {} THEN run[x].cursor ELSE last
               m == FirstOf(rest) # rest
               t == [run[x] EXCEPT !.page = F, !.more = m, !.cursor = c]
    <3>1. run[x] \in CloseRun /\ F \subseteq Sale /\ m \in BOOLEAN
      BY <2>1
    <3>2. c \in Sale \cup {None}
      BY <2>1, <2>2 DEF CloseRun
    <3>3. run' = [run EXCEPT ![x].page = F, ![x].more = m, ![x].cursor = c]
      BY <2>3
    <3> HIDE DEF F, c, m
    <3>5. run' = [run EXCEPT ![x] = t]
      BY <3>3
    <3>4. t \in CloseRun
      BY <3>1, <3>2 DEF CloseRun
    <3> QED BY <3>4, <3>5
  <2> QED BY <1>4, <2>4 DEF PageFetched
<1>5. ASSUME NEW x \in Run, NEW s \in Sale, ItemRecorded(x, s)
      PROVE  Shapes'
  <2>1. run' \in [Run -> CloseRun]
    <3>1. run' = [run EXCEPT ![x].page = run[x].page \ {s},
                             ![x].touched = run[x].touched \cup {Seller[s]}]
      BY <1>5 DEF ItemRecorded
    <3>2. Seller[s] \in Attendant
      BY CloseAssumption
    <3> DEFINE t == [run[x] EXCEPT !.page = run[x].page \ {s},
                                   !.touched = run[x].touched \cup {Seller[s]}]
    <3>3. run[x] \in CloseRun
      OBVIOUS
    <3>4. t \in CloseRun
      BY <3>2, <3>3 DEF CloseRun
    <3>5. run' = [run EXCEPT ![x] = t]
      BY <3>1
    <3> QED BY <3>4, <3>5
  <2>2. item' \in [Sale -> Item]
    <3>1. item' = item \/ item' = [item EXCEPT ![s] = [day |-> run[x].day, row |-> 0]]
      BY <1>5 DEF ItemRecorded
    <3>2. run[x].day \in Day \cup {None}
      BY DEF CloseRun
    <3> QED BY <3>1, <3>2 DEF Item
  <2> QED BY <1>5, <2>1, <2>2 DEF ItemRecorded
<1>6. ASSUME NEW x \in Run, NEW a \in Attendant, AttendantFolded(x, a)
      PROVE  Shapes'
  <2> DEFINE new == [who |-> a, day |-> run[x].day,
                     amount |-> Plan(a, run[x].day).payable, state |-> "PLANNED"]
  <2>1. PICK S : row \in Seq(S)
    OBVIOUS
  <2>2. row \in Seq(S \cup {new}) /\ Len(row) \in Nat
    BY <2>1
  <2>3. row' = row \/ row' = Append(row, new)
    BY <1>6 DEF AttendantFolded
  <2>4. row' \in Seq(S \cup {new})
    BY <2>2, <2>3
  <2>5. item' \in [Sale -> Item]
    BY <1>6, <2>2 DEF AttendantFolded, Item
  <2>6. run' \in [Run -> CloseRun]
    <3>1. run' = [run EXCEPT ![x].touched = run[x].touched \ {a}]
      BY <1>6 DEF AttendantFolded
    <3> QED BY <3>1 DEF CloseRun
  <2> QED BY <1>6, <2>4, <2>5, <2>6 DEF AttendantFolded
<1>7. ASSUME NEW x \in Run,
             \/ \E a \in Attendant : AttendantSkipped(x, a)
             \/ CloseAborted(x) \/ WalkEnded(x) \/ CloseEnded(x) \/ CloseLost(x)
      PROVE  Shapes'
  BY <1>7 DEF AttendantSkipped, CloseAborted, WalkEnded, CloseEnded, CloseLost, CloseRun
<1> QED BY <1>1, <1>2, <1>3, <1>4, <1>5, <1>6, <1>7 DEF CloseNext

\* An item is recorded for the day of the window its sale was listed in.
LEMMA NextDated == Consistent /\ [CloseNext]_vars => Dated'
<1> SUFFICES ASSUME Consistent, [CloseNext]_vars PROVE Dated'
  OBVIOUS
<1>1. \A d : Window(d) \subseteq Window(d)'
  BY WindowsGrow DEF Consistent
<1> USE DEF Consistent, Dated, Recorded
<1>2. CASE UNCHANGED <<item, row, folded>>
  BY <1>1, <1>2
<1>3. ASSUME NEW x \in Run, NEW s \in Sale, ItemRecorded(x, s)
      PROVE  Dated'
  <2>1. s \in Window(run[x].day)
    BY <1>3 DEF Walks, ItemRecorded
  <2> QED BY <1>1, <1>3, <2>1 DEF ItemRecorded, Shapes
<1>4. ASSUME NEW x \in Run, NEW a \in Attendant, AttendantFolded(x, a)
      PROVE  Dated'
  <2> DEFINE new == [who |-> a, day |-> run[x].day,
                     amount |-> Plan(a, run[x].day).payable, state |-> "PLANNED"]
  <2>1. \A s \in Sale : item'[s].day = item[s].day
    BY <1>4 DEF AttendantFolded, Shapes, Item
  <2>2. PICK S : row \in Seq(S)
    BY DEF Shapes
  <2>3. row' = row \/ row' = Append(row, new)
    BY <1>4 DEF AttendantFolded
  <2>4. \A i \in DOMAIN row' : (i \in DOMAIN row /\ row'[i] = row[i]) \/ row'[i] = new
    BY <2>2, <2>3
  <2>5. folded' = folded \cup {<<a, run[x].day>>}
    BY <1>4 DEF AttendantFolded
  <2>6. \A i \in DOMAIN row' : <<row'[i].who, row'[i].day>> \in folded'
    BY <2>4, <2>5
  <2> QED BY <1>1, <2>1, <2>6
<1> QED BY <1>2, <1>3, <1>4
     DEF CloseNext, SalePaid, CloseStarted, AttendantSkipped, PageFetched,
         CloseAborted, WalkEnded, CloseEnded, CloseLost, closeVars, vars

\* PageFetched keeps every due sale in sight.
LEMMA PageWalks ==
  ASSUME Consistent, NEW x \in Run, PageFetched(x)
  PROVE  /\ run'[x].cursor = None \/ run'[x].cursor \in Window(run[x].day)
         /\ run'[x].page \subseteq Window(run[x].day)
         /\ \A s \in run[x].due : \/ Visited(x, s)
                                  \/ s \in run'[x].page
                                  \/ run'[x].more /\ s \in Beyond(run[x].day, run'[x].cursor)
<1> DEFINE d == run[x].day
           rest == Beyond(d, run[x].cursor)
           last == CHOOSE s \in FirstOf(rest) :
                     \A q \in FirstOf(rest) : q = s \/ Before(q, s)
<1>1. Shapes /\ run[x].pc = "walking" /\ run[x].page = {}
  BY DEF Consistent, PageFetched
<1>2. /\ run[x].cursor = None \/ run[x].cursor \in Window(d)
      /\ run[x].due \subseteq Window(d)
      /\ \A s \in run[x].due : Visited(x, s) \/ (run[x].more /\ s \in rest)
  BY <1>1 DEF Consistent, Walks, ToCome
<1>3. rest \subseteq Window(d) /\ FirstOf(rest) \subseteq rest
  BY DEF Beyond, FirstOf
<1>4. FirstOf(rest) # {} =>
        last \in FirstOf(rest) /\ \A q \in FirstOf(rest) : q = last \/ Before(q, last)
  BY <1>1, <1>3, LastOfPage
<1>5. /\ run'[x].page = FirstOf(rest)
      /\ run'[x].more = (FirstOf(rest) # rest)
      /\ run'[x].cursor = IF FirstOf(rest) = {} THEN run[x].cursor ELSE last
  BY <1>1 DEF PageFetched, Shapes, CloseRun
<1> HIDE DEF last, d, rest
<1>6. ASSUME NEW s \in rest, s \notin FirstOf(rest), FirstOf(rest) # {}
      PROVE  s \in Beyond(d, last)
  <2>1. Before(last, s)
    BY <1>1, <1>3, <1>4, <1>6, PageThenRest
  <2> QED BY <1>3, <2>1, <1>6 DEF Beyond
<1>7. ASSUME NEW s \in rest, s \notin FirstOf(rest)
      PROVE  run'[x].more /\ s \in Beyond(d, run'[x].cursor)
  BY <1>5, <1>6, <1>7 DEF rest
<1>8. run'[x].cursor = None \/ run'[x].cursor \in Window(d)
  BY <1>2, <1>3, <1>4, <1>5
<1>9. \A s \in run[x].due :
        \/ Visited(x, s) \/ s \in run'[x].page
        \/ run'[x].more /\ s \in Beyond(d, run'[x].cursor)
  BY <1>2, <1>5, <1>7
<1> QED BY <1>3, <1>5, <1>8, <1>9 DEF d

\* What a run knows stays true as long as the run itself does not move.
LEMMA OthersWalk ==
  ASSUME Consistent, [CloseNext]_vars, NEW x \in Run, run'[x] = run[x],
         run[x].pc = "walking"
  PROVE  /\ run'[x].day \in Day
         /\ run'[x].cursor = None \/ run'[x].cursor \in Window(run[x].day)'
         /\ run'[x].page \subseteq Window(run[x].day)'
         /\ run'[x].due \subseteq Window(run[x].day)'
         /\ \A s \in run'[x].due : Visited(x, s)' \/ s \in run'[x].page \/ ToCome(x, s)'
<1> DEFINE d == run[x].day
<1>1. /\ Window(d) \subseteq Window(d)'
      /\ \A c \in Window(d) \cup {None} : Beyond(d, c) \subseteq Beyond(d, c)'
      /\ \A s \in Sale : Recorded(s) => Recorded(s)'
  BY WindowsGrow DEF Consistent
<1>2. /\ d \in Day
      /\ run[x].cursor = None \/ run[x].cursor \in Window(d)
      /\ run[x].page \subseteq Window(d)
      /\ run[x].due \subseteq Window(d)
      /\ \A s \in run[x].due : Visited(x, s) \/ s \in run[x].page \/ ToCome(x, s)
  BY DEF Consistent, Walks
<1>3. run[x].due \subseteq Sale
  BY <1>2 DEF Window
<1>4. ASSUME NEW s \in run[x].due
      PROVE  Visited(x, s)' \/ s \in run'[x].page \/ ToCome(x, s)'
  <2>1. Visited(x, s) => Visited(x, s)'
    BY <1>1, <1>3 DEF Visited
  <2>2. ToCome(x, s) => ToCome(x, s)'
    BY <1>1, <1>2 DEF ToCome
  <2> QED BY <1>2, <2>1, <2>2
<1>5. Window(d) \subseteq Window(run[x].day)'
  BY <1>1
<1> QED BY <1>2, <1>4, <1>5

\* A step of the run itself keeps every due sale recorded, in hand or to come.
LEMMA NextWalks == Consistent /\ [CloseNext]_vars => Walks'
<1> SUFFICES ASSUME Consistent, [CloseNext]_vars, NEW x \in Run, run'[x].pc = "walking"
             PROVE  /\ run'[x].day \in Day
                    /\ run'[x].cursor = None \/ run'[x].cursor \in Window(run[x].day)'
                    /\ run'[x].page \subseteq Window(run[x].day)'
                    /\ run'[x].due \subseteq Window(run[x].day)'
                    /\ \A s \in run'[x].due :
                         Visited(x, s)' \/ s \in run'[x].page \/ ToCome(x, s)'
  BY DEF Walks
<1>1. CASE run'[x] = run[x]
  BY <1>1, OthersWalk
<1>2. ASSUME NEW d \in Day, CloseStarted(x, d)
      PROVE  /\ run'[x].day = d /\ run'[x].cursor = None /\ run'[x].page = {}
             /\ run'[x].due = Window(d) /\ run'[x].more
             /\ UNCHANGED paid
  BY <1>2 DEF CloseStarted, NewRun, Consistent, Shapes
<1>3. ASSUME NEW d \in Day, CloseStarted(x, d)
      PROVE  /\ run'[x].day \in Day
             /\ run'[x].cursor = None \/ run'[x].cursor \in Window(run[x].day)'
             /\ run'[x].page \subseteq Window(run[x].day)'
             /\ run'[x].due \subseteq Window(run[x].day)'
             /\ \A s \in run'[x].due :
                  Visited(x, s)' \/ s \in run'[x].page \/ ToCome(x, s)'
  <2>1. Window(run[x].day)' = Window(d)
    BY <1>2, <1>3 DEF Window
  <2>2. Beyond(run[x].day, run[x].cursor)' = Window(d)
    BY <1>2, <1>3, <2>1 DEF Beyond
  <2> QED BY <1>2, <1>3, <2>1, <2>2 DEF ToCome
<1>4. ASSUME PageFetched(x)
      PROVE  /\ run'[x].day \in Day
             /\ run'[x].cursor = None \/ run'[x].cursor \in Window(run[x].day)'
             /\ run'[x].page \subseteq Window(run[x].day)'
             /\ run'[x].due \subseteq Window(run[x].day)'
             /\ \A s \in run'[x].due :
                  Visited(x, s)' \/ s \in run'[x].page \/ ToCome(x, s)'
  <2>1. /\ run[x].pc = "walking"
        /\ run'[x].day = run[x].day /\ run'[x].due = run[x].due
        /\ run'[x].touched = run[x].touched
        /\ UNCHANGED <<paid, item>>
    BY <1>4 DEF PageFetched, Consistent, Shapes, CloseRun
  <2>2. run[x].day \in Day /\ run[x].due \subseteq Window(run[x].day)
    BY <2>1 DEF Consistent, Walks
  <2>3. \A d : Window(d)' = Window(d)
    BY <2>1 DEF Window
  <2>4. \A d, c : Beyond(d, c)' = Beyond(d, c)
    BY <2>1, <2>3 DEF Beyond, Before
  <2>5. \A s : Visited(x, s)' = Visited(x, s)
    BY <2>1 DEF Visited, Recorded
  <2>6. /\ run'[x].cursor = None \/ run'[x].cursor \in Window(run[x].day)
        /\ run'[x].page \subseteq Window(run[x].day)
        /\ \A s \in run[x].due : \/ Visited(x, s)
                                 \/ s \in run'[x].page
                                 \/ run'[x].more /\ s \in Beyond(run[x].day, run'[x].cursor)
    BY <1>4, PageWalks
  <2>7. Window(run[x].day)' = Window(run[x].day)
    BY <2>1, <2>3
  <2>8. \A s : (run'[x].more /\ s \in Beyond(run[x].day, run'[x].cursor)) => ToCome(x, s)'
    BY <2>1, <2>4 DEF ToCome
  <2> QED BY <2>1, <2>2, <2>5, <2>6, <2>7, <2>8
<1>5. ASSUME NEW s \in Sale, ItemRecorded(x, s)
      PROVE  /\ run'[x].day \in Day
             /\ run'[x].cursor = None \/ run'[x].cursor \in Window(run[x].day)'
             /\ run'[x].page \subseteq Window(run[x].day)'
             /\ run'[x].due \subseteq Window(run[x].day)'
             /\ \A q \in run'[x].due :
                  Visited(x, q)' \/ q \in run'[x].page \/ ToCome(x, q)'
  <2>1. /\ run[x].pc = "walking" /\ UNCHANGED paid
        /\ run'[x].day = run[x].day /\ run'[x].due = run[x].due
        /\ run'[x].cursor = run[x].cursor /\ run'[x].more = run[x].more
        /\ run'[x].page = run[x].page \ {s}
        /\ run'[x].touched = run[x].touched \cup {Seller[s]}
    BY <1>5 DEF ItemRecorded, Consistent, Shapes, CloseRun
  <2>2. /\ run[x].day \in Day
        /\ run[x].cursor = None \/ run[x].cursor \in Window(run[x].day)
        /\ run[x].page \subseteq Window(run[x].day)
        /\ run[x].due \subseteq Window(run[x].day)
        /\ \A q \in run[x].due : Visited(x, q) \/ q \in run[x].page \/ ToCome(x, q)
    BY <2>1 DEF Consistent, Walks
  <2>3. \A d : Window(d)' = Window(d)
    BY <2>1 DEF Window
  <2>4. \A d, c : Beyond(d, c)' = Beyond(d, c)
    BY <2>1, <2>3 DEF Beyond, Before
  <2>5. \A q \in run[x].due : Visited(x, q) => Visited(x, q)'
    BY <2>1, <2>2, WindowsGrow DEF Consistent, Visited, Window
  <2>6. Recorded(s)'
    <3>1. run[x].day # None
      BY <2>2, CloseAssumption
    <3> QED BY <1>5, <3>1 DEF ItemRecorded, Recorded, Consistent, Shapes
  <2>7. Visited(x, s)'
    BY <2>1, <2>6 DEF Visited
  <2>8. \A q : ToCome(x, q)' = ToCome(x, q)
    BY <2>1, <2>4 DEF ToCome
  <2>9. Window(run[x].day)' = Window(run[x].day)
    BY <2>1, <2>3
  <2> QED BY <2>1, <2>2, <2>5, <2>7, <2>8, <2>9
<1>6. CASE run'[x] # run[x]
  <2>1. \/ \E d \in Day : CloseStarted(x, d)
        \/ PageFetched(x)
        \/ \E s \in Sale : ItemRecorded(x, s)
    <3> USE DEF Consistent, Shapes, CloseRun
    <3>1. ~UNCHANGED run
      BY <1>6
    <3>2. PICK y \in Run :
            \/ \E d \in Day : CloseStarted(y, d)
            \/ \E s \in Sale : ItemRecorded(y, s)
            \/ \E a \in Attendant : AttendantSkipped(y, a) \/ AttendantFolded(y, a)
            \/ PageFetched(y) \/ CloseAborted(y) \/ WalkEnded(y)
            \/ CloseEnded(y) \/ CloseLost(y)
      BY <3>1 DEF CloseNext, SalePaid, closeVars, vars
    <3>3. y = x
      BY <1>6, <3>2 DEF CloseStarted, ItemRecorded, AttendantSkipped, AttendantFolded,
         PageFetched, CloseAborted, WalkEnded, CloseEnded, CloseLost
    <3>4. ~(\E a \in Attendant : AttendantSkipped(x, a) \/ AttendantFolded(x, a))
      BY DEF AttendantSkipped, AttendantFolded
    <3>5. ~(CloseAborted(x) \/ WalkEnded(x) \/ CloseEnded(x) \/ CloseLost(x))
      BY DEF CloseAborted, WalkEnded, CloseEnded, CloseLost
    <3> QED BY <3>2, <3>3, <3>4, <3>5
  <2> QED BY <2>1, <1>3, <1>4, <1>5
<1> QED BY <1>1, <1>6

\* An attendant leaves the run folded, or with a row from a fold before.
LEMMA NextFolding == Consistent /\ [CloseNext]_vars => Folding'
<1> SUFFICES ASSUME Consistent, [CloseNext]_vars, NEW x \in Run,
                    run'[x].pc \in {"folding", "done"}
             PROVE  /\ run'[x].day \in Day
                    /\ run'[x].due \subseteq Window(run[x].day)'
                    /\ run'[x].pc = "done" => run'[x].touched = {}
                    /\ \A s \in run'[x].due :
                         /\ Recorded(s)'
                         /\ \/ Seller[s] \in run'[x].touched
                            \/ <<Seller[s], item'[s].day>> \in folded'
  BY DEF Folding
<1>1. /\ \A s \in Sale : Recorded(s) => Recorded(s)' /\ item'[s].day = item[s].day
      /\ folded \subseteq folded'
      /\ \A d : Window(d) \subseteq Window(d)'
  BY WindowsGrow, NothingForgotten DEF Consistent
\* A step that leaves the run where it is, or takes one attendant off it whose
\* day is folded by then.
<1>2. ASSUME run[x].pc \in {"folding", "done"},
             run'[x].day = run[x].day, run'[x].due = run[x].due,
             run'[x].pc = "done" => run'[x].touched = {},
             \A a \in run[x].touched \ run'[x].touched : <<a, run[x].day>> \in folded'
      PROVE  /\ run'[x].day \in Day
             /\ run'[x].due \subseteq Window(run[x].day)'
             /\ run'[x].pc = "done" => run'[x].touched = {}
             /\ \A s \in run'[x].due :
                  /\ Recorded(s)'
                  /\ \/ Seller[s] \in run'[x].touched
                     \/ <<Seller[s], item'[s].day>> \in folded'
  <2>1. /\ run[x].day \in Day
        /\ run[x].due \subseteq Window(run[x].day)
        /\ \A s \in run[x].due :
             Recorded(s) /\ (Seller[s] \in run[x].touched \/ <<Seller[s], item[s].day>> \in folded)
    BY <1>2 DEF Consistent, Folding
  <2>2. ASSUME NEW s \in run[x].due
        PROVE  /\ Recorded(s)'
               /\ \/ Seller[s] \in run'[x].touched
                  \/ <<Seller[s], item'[s].day>> \in folded'
    <3>1. s \in Sale /\ s \in Window(run[x].day)
      BY <2>1 DEF Window
    <3>2. Recorded(s)' /\ item'[s].day = item[s].day
      BY <1>1, <2>1, <3>1
    <3>3. item[s].day = run[x].day
      <4>1. Recorded(s) /\ s \in Window(item[s].day) /\ Shapes
        BY <2>1, <3>1 DEF Consistent, Dated
      <4>2. item[s].day \in Day
        BY <4>1, <3>1 DEF Shapes, Item, Recorded
      <4> QED BY <2>1, <3>1, <4>1, <4>2, OneWindow
    <3> QED BY <1>1, <1>2, <2>1, <3>2, <3>3
  <2> QED BY <1>1, <1>2, <2>1, <2>2
<1>3. CASE run'[x] = run[x]
  BY <1>2, <1>3 DEF Consistent, Folding
<1>4. CASE WalkEnded(x)
  <2>1. /\ run[x].pc = "walking" /\ run[x].page = {} /\ ~run[x].more
        /\ run'[x].day = run[x].day /\ run'[x].due = run[x].due
        /\ run'[x].touched = run[x].touched /\ run'[x].pc = "folding"
    BY <1>4 DEF WalkEnded, Consistent, Shapes, CloseRun
  <2>2. /\ run[x].day \in Day
        /\ run[x].due \subseteq Window(run[x].day)
        /\ \A s \in run[x].due : Recorded(s) /\ Seller[s] \in run[x].touched
    BY <2>1 DEF Consistent, Walks, Visited, ToCome
  <2>3. run[x].due \subseteq Sale
    BY <2>2 DEF Window
  <2> QED BY <1>1, <2>1, <2>2, <2>3
<1>5. ASSUME NEW a \in Attendant, AttendantSkipped(x, a)
      PROVE  /\ run[x].pc = "folding" /\ run'[x].pc = "folding"
             /\ run'[x].day = run[x].day /\ run'[x].due = run[x].due
             /\ run'[x].touched = run[x].touched \ {a}
             /\ <<a, run[x].day>> \in folded'
  BY <1>1, <1>5 DEF AttendantSkipped, AlreadyClosed, HasLiveRow, RowsOf, Consistent, Dated,
                    Shapes, CloseRun
<1>6. ASSUME NEW a \in Attendant, AttendantFolded(x, a)
      PROVE  /\ run[x].pc = "folding" /\ run'[x].pc = "folding"
             /\ run'[x].day = run[x].day /\ run'[x].due = run[x].due
             /\ run'[x].touched = run[x].touched \ {a}
             /\ <<a, run[x].day>> \in folded'
  BY <1>6 DEF AttendantFolded, Consistent, Shapes, CloseRun
<1>7. CASE CloseEnded(x)
  <2>1. /\ run[x].pc = "folding" /\ run[x].touched = {}
        /\ run'[x].day = run[x].day /\ run'[x].due = run[x].due
        /\ run'[x].touched = run[x].touched
    BY <1>7 DEF CloseEnded, Consistent, Shapes, CloseRun
  <2> QED BY <1>2, <2>1
<1>8. CASE \E a \in Attendant : AttendantSkipped(x, a) \/ AttendantFolded(x, a)
  BY <1>2, <1>5, <1>6, <1>8
<1>9. CASE run'[x] # run[x]
  <2> USE DEF Consistent, Shapes, CloseRun
  <2>1. ~UNCHANGED run
    BY <1>9
  <2>2. PICK y \in Run :
          \/ \E d \in Day : CloseStarted(y, d)
          \/ \E s \in Sale : ItemRecorded(y, s)
          \/ \E a \in Attendant : AttendantSkipped(y, a) \/ AttendantFolded(y, a)
          \/ PageFetched(y) \/ CloseAborted(y) \/ WalkEnded(y)
          \/ CloseEnded(y) \/ CloseLost(y)
    BY <2>1 DEF CloseNext, SalePaid, closeVars, vars
  <2>3. y = x
    BY <1>9, <2>2 DEF CloseStarted, ItemRecorded, AttendantSkipped, AttendantFolded,
       PageFetched, CloseAborted, WalkEnded, CloseEnded, CloseLost
  <2>4. ~(\E d \in Day : CloseStarted(x, d))
    BY DEF CloseStarted, NewRun
  <2>5. ~(\E s \in Sale : ItemRecorded(x, s))
    <3> SUFFICES ASSUME NEW s \in Sale, ItemRecorded(x, s) PROVE FALSE
      OBVIOUS
    <3>1. run[x].pc = "walking" /\ run'[x].pc = run[x].pc
      BY DEF ItemRecorded
    <3> QED BY <3>1
  <2>6. ~(PageFetched(x) \/ CloseAborted(x) \/ CloseLost(x))
    BY DEF PageFetched, CloseAborted, CloseLost
  <2> QED BY <2>2, <2>3, <2>4, <2>5, <2>6, <1>4, <1>7, <1>8
<1> QED BY <1>3, <1>9

-----------------------------------------------------------------------------
(* Theorems                                                                *)

\* Every step keeps the invariant.
LEMMA ConsistentNext == Consistent /\ [CloseNext]_vars => Consistent'
BY NextShapes, NextDated, NextWalks, NextFolding DEF Consistent

\* Consistent says it all once a run is over.
LEMMA ConsistentIsEnough == Consistent => WalkMissesNothing
<1> SUFFICES ASSUME Consistent, NEW x \in Run, NEW s \in run[x].due
             PROVE  /\ run[x].pc \in {"folding", "done"} => Recorded(s)
                    /\ run[x].pc = "done" => <<Seller[s], item[s].day>> \in folded
  BY DEF WalkMissesNothing
<1> QED BY DEF Consistent, Folding

\* Consistent holds in every state of every instance.
THEOREM CloseConsistency == CloseSpec => []Consistent
BY ConsistentInit, ConsistentNext, PTL DEF CloseSpec

\* A run of the close that has walked every page has recorded every sale that POS
\* listed for the day when it began, and has folded it when it is done, whatever
\* is paid between two pages, however many sales share a time, and whatever other
\* runs of the same or another day do.
THEOREM NoSaleIsMissed == CloseSpec => []WalkMissesNothing
BY CloseConsistency, ConsistentIsEnough, PTL
=============================================================================
