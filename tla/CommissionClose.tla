--------------------------- MODULE CommissionClose --------------------------
(***************************************************************************)
(* The daily close, services/commission/ledger/close.py: the paid sales of *)
(* a business day are read from POS page by page, an item is recorded for  *)
(* each, and what each attendant has earned is folded with what was        *)
(* carried forward into a row of the payout ledger.                        *)
(*                                                                         *)
(* One tenant.  Each transaction is one action: they have one writer at a  *)
(* time.  A run of the close may be cut short anywhere, may overlap with   *)
(* another, and may be repeated.  POS is known by what list_paid_sales     *)
(* answers; that a paid sale keeps its time is PaidAtIsStable of Pos.      *)
(* Sales are numbers, the order of their ids.                              *)
(***************************************************************************)
EXTENDS Calc, FiniteSets, FiniteSetsExt, Sequences

CONSTANTS
  Sale, Attendant,
  Seller,     \* the attendant of each sale
  Total,      \* the total of each sale
  Rate,       \* the attendant's rate for each sale, in basis points
  Hour,       \* the moments at which a sale may be paid
  Run,        \* runs of the close: a bound on how many there are
  PageLimit,  \* close_page_limit
  Minimum,    \* payout_min_minor
  Offset,     \* business_day_utc_offset_hours
  None

Day == {BusinessDate(h, Offset) : h \in Hour}

ASSUME CloseAssumption ==
  /\ Sale \subseteq Nat /\ IsFiniteSet(Sale)
  /\ Seller \in [Sale -> Attendant]
  /\ Total \in [Sale -> Nat] /\ Rate \in [Sale -> Nat]
  /\ Hour \subseteq Nat /\ Offset \in Int
  /\ PageLimit \in Nat \ {0}
  /\ Minimum \in Nat \ {0}
  /\ None \notin Sale \cup Hour \cup Day

VARIABLES
  paid,   \* POS: when each sale was paid, or None
  item,   \* payout_items: the day each sale was recorded for, and its row
  carry,  \* carry_forward, of each attendant
  row,    \* payout_ledger, in the order of insertion
  run,    \* the runs of the close
  folded, \* history: the days of each attendant that were folded
  again,  \* history: those folded again, as no live row was there to stop it
  late    \* history: the sales recorded after their day had been folded

posVars == <<paid>>
closeVars == <<item, carry, row, run, folded, again, late>>

-----------------------------------------------------------------------------
(* Types *)

RowState == {"PLANNED", "REQUESTED", "SUCCEEDED", "FAILED"}
Item == [day : Day \cup {None}, row : Nat]
Row == [who : Attendant, day : Day, amount : Nat \ {0}, state : RowState]

\* page is what the current page has left and cursor the last sale of the
\* last page; touched are the attendants still to be folded.  due, a history,
\* are the sales that POS would have listed when the run began.
CloseRun == [pc : {"ready", "walking", "folding", "done", "aborted"},
             day : Day \cup {None}, cursor : Sale \cup {None},
             page : SUBSET Sale, more : BOOLEAN, touched : SUBSET Attendant,
             due : SUBSET Sale]

NoItem == [day |-> None, row |-> 0]
NewRun == [pc |-> "ready", day |-> None, cursor |-> None, page |-> {},
           more |-> TRUE, touched |-> {}, due |-> {}]

TypeOK ==
  /\ paid \in [Sale -> Hour \cup {None}]
  /\ item \in [Sale -> Item]
  /\ carry \in [Attendant -> Nat]
  /\ row \in Seq(Row)
  /\ run \in [Run -> CloseRun]
  /\ again \subseteq folded /\ folded \subseteq Attendant \X Day
  /\ late \subseteq Sale
  /\ \A s \in Sale : item[s].row \in 0..Len(row)

Init ==
  /\ paid = [s \in Sale |-> None]
  /\ item = [s \in Sale |-> NoItem]
  /\ carry = [a \in Attendant |-> 0]
  /\ row = <<>>
  /\ run = [x \in Run |-> NewRun]
  /\ folded = {} /\ again = {}
  /\ late = {}

-----------------------------------------------------------------------------
(* POS: a sale is paid.  It may become visible after one with a later time.*)

SalePaid(s, h) ==
  /\ paid[s] = None
  /\ paid' = [paid EXCEPT ![s] = h]
  /\ UNCHANGED closeVars

\* list_paid_sales: the sales of the window after the cursor, by time and id.
Before(s, t) == paid[s] < paid[t] \/ (paid[s] = paid[t] /\ s < t)

Window(d) ==
  {s \in Sale : /\ paid[s] # None
                /\ Since(d, Offset) <= paid[s] /\ paid[s] < Until(d, Offset)}
\* With a bug put in: the cursor is the time alone.
BeyondInTime(d, cursor) ==
  {s \in Window(d) : cursor = None \/ paid[cursor] < paid[s]}
Beyond(d, cursor) ==
  {s \in Window(d) : cursor = None \/ Before(cursor, s)}
FirstOf(S) == {s \in S : Cardinality({t \in S : Before(t, s)}) < PageLimit}

-----------------------------------------------------------------------------
(* close_business_day *)

CloseStarted(x, d) ==
  /\ run[x].pc = "ready"
  /\ run' = [run EXCEPT ![x] = [NewRun EXCEPT !.pc = "walking", !.day = d,
                                              !.due = Window(d)]]
  /\ UNCHANGED <<paid, item, carry, row, folded, again, late>>

\* The next page is asked for when the last one is used up and named a cursor.
PageFetched(x) ==
  LET t == run[x]
      rest == Beyond(t.day, t.cursor)
  IN
  /\ t.pc = "walking" /\ t.page = {} /\ t.more
  /\ run' = [run EXCEPT ![x].page = FirstOf(rest),
                        ![x].more = FirstOf(rest) # rest,
                        ![x].cursor = IF FirstOf(rest) = {} THEN t.cursor
                          ELSE CHOOSE s \in FirstOf(rest) :
                                 \A q \in FirstOf(rest) : q = s \/ Before(q, s)]
  /\ UNCHANGED <<paid, item, carry, row, folded, again, late>>

\* POS is out of reach or answers nonsense: the items recorded so far stay.
CloseAborted(x) ==
  /\ run[x].pc = "walking" /\ run[x].page = {} /\ run[x].more
  /\ run' = [run EXCEPT ![x].pc = "aborted"]
  /\ UNCHANGED <<paid, item, carry, row, folded, again, late>>

\* A sale that has an item keeps it: sale_id is unique.
Recorded(s) == item[s].day # None

ItemRecorded(x, s) ==
  LET t == run[x] IN
  /\ t.pc = "walking"
  /\ s \in t.page /\ \A q \in t.page : q = s \/ Before(s, q)
  /\ run' = [run EXCEPT ![x].page = t.page \ {s},
                        ![x].touched = t.touched \cup {Seller[s]}]
  /\ IF Recorded(s) THEN UNCHANGED <<item, late>>
     ELSE /\ item' = [item EXCEPT ![s] = [day |-> t.day, row |-> 0]]
          /\ late' = IF <<Seller[s], t.day>> \in folded THEN late \cup {s} ELSE late
  /\ UNCHANGED <<paid, carry, row, folded, again>>

WalkEnded(x) ==
  /\ run[x].pc = "walking" /\ run[x].page = {} /\ ~run[x].more
  /\ run' = [run EXCEPT ![x].pc = "folding"]
  /\ UNCHANGED <<paid, item, carry, row, folded, again, late>>

-----------------------------------------------------------------------------
(* _close_attendant *)

RowsOf(a) == {i \in DOMAIN row : row[i].who = a}
HasLiveRow(a, d) ==
  \E i \in RowsOf(a) : row[i].day = d /\ row[i].state # "FAILED"
\* With a bug put in: a row that is planned does not stop another.
AlreadyClosedOnceSent(a, d) ==
  \E i \in RowsOf(a) : row[i].day = d /\ row[i].state \notin {"PLANNED", "FAILED"}
AlreadyClosed(a, d) == HasLiveRow(a, d)

Cut(s) == SaleCommission(Total[s], Rate[s])
SumOf(S) == MapThenSumSet(Cut, S)

ItemsOf(a) == {s \in Sale : Recorded(s) /\ Seller[s] = a}
ItemsOn(a, d) == {s \in ItemsOf(a) : item[s].day = d}
Unlinked(a) == {s \in ItemsOf(a) : item[s].row = 0}
Plan(a, d) == FoldCarryForward(SumOf(ItemsOn(a, d)), carry[a], Minimum)

\* The day has its row, and is left alone.
AttendantSkipped(x, a) ==
  /\ run[x].pc = "folding" /\ a \in run[x].touched
  /\ AlreadyClosed(a, run[x].day)
  /\ run' = [run EXCEPT ![x].touched = run[x].touched \ {a}]
  /\ UNCHANGED <<paid, item, carry, row, folded, again, late>>

\* The new row takes every item of the attendant that has none.
AttendantFolded(x, a) ==
  LET d == run[x].day
      plan == Plan(a, d)
  IN
  /\ run[x].pc = "folding" /\ a \in run[x].touched
  /\ ~AlreadyClosed(a, d)
  /\ carry' = [carry EXCEPT ![a] = plan.carry]
  /\ IF plan.payable <= 0 THEN UNCHANGED <<row, item>>
     ELSE /\ row' = Append(row, [who |-> a, day |-> d, amount |-> plan.payable,
                                 state |-> "PLANNED"])
          /\ item' = [s \in Sale |->
               IF s \in Unlinked(a) THEN [item[s] EXCEPT !.row = Len(row) + 1]
                                    ELSE item[s]]
  /\ folded' = folded \cup {<<a, d>>}
  /\ again' = IF <<a, d>> \in folded /\ ~HasLiveRow(a, d)
                THEN again \cup {<<a, d>>} ELSE again
  /\ run' = [run EXCEPT ![x].touched = run[x].touched \ {a}]
  /\ UNCHANGED <<paid, late>>

CloseEnded(x) ==
  /\ run[x].pc = "folding" /\ run[x].touched = {}
  /\ run' = [run EXCEPT ![x].pc = "done"]
  /\ UNCHANGED <<paid, item, carry, row, folded, again, late>>

CloseLost(x) ==
  /\ run[x].pc \in {"walking", "folding"}
  /\ run' = [run EXCEPT ![x].pc = "aborted"]
  /\ UNCHANGED <<paid, item, carry, row, folded, again, late>>

-----------------------------------------------------------------------------

CloseNext ==
  \/ \E s \in Sale, h \in Hour : SalePaid(s, h)
  \/ \E x \in Run, d \in Day : CloseStarted(x, d)
  \/ \E x \in Run, s \in Sale : ItemRecorded(x, s)
  \/ \E x \in Run, a \in Attendant : AttendantSkipped(x, a) \/ AttendantFolded(x, a)
  \/ \E x \in Run :
       \/ PageFetched(x) \/ CloseAborted(x) \/ WalkEnded(x)
       \/ CloseEnded(x) \/ CloseLost(x)

vars == <<posVars, closeVars>>
CloseSpec == Init /\ [][CloseNext]_vars

-----------------------------------------------------------------------------
(* Safety *)

\* close_business_day and pos_client: whatever is paid meanwhile, and however
\* times coincide at the boundary of a page, a run that has walked every page
\* has recorded every sale POS listed for the day when the run began, and one
\* that is done leaves none of them outside of a fold.
WalkMissesNothing ==
  \A x \in Run : \A s \in run[x].due :
    /\ run[x].pc \in {"folding", "done"} => Recorded(s)
    /\ run[x].pc = "done" => <<Seller[s], item[s].day>> \in folded

\* The money of an attendant adds up: planned or paid out and still carried is
\* what was earned on the days that were folded, to the minor unit, however
\* many runs of the close overlap, abort and repeat.  A sale recorded after its
\* day was folded is missing from it, and only such a sale; what upsets it is a
\* day folded again because its first fold left no live row.
AmountOf(i) == row[i].amount
Handed(a) == MapThenSumSet(AmountOf, RowsOf(a)) + carry[a]
InTime(a) == {s \in ItemsOf(a) : <<a, item[s].day>> \in folded /\ s \notin late}
Earned(a) == SumOf(InTime(a))
Orderly(a) == \A m \in again : m[1] # a

ConservedWhenOrderly == \A a \in Attendant : Orderly(a) => Handed(a) = Earned(a)

\* close.py:38, README.md of the service: closing a day again changes nothing
\* extra, so an attendant is not handed more than the recorded sales earned.
NeverHandedTooMuch == \A a \in Attendant : Handed(a) <= SumOf(ItemsOf(a))
=============================================================================
