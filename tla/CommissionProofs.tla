--------------------------- MODULE CommissionProofs ---------------------------
(***************************************************************************)
(* What is proved of Commission, for any number of sales, attendants,      *)
(* days, runs and threads, any file of worker.py and any ceiling: the rows *)
(* of the ledger go where the money went, and no more money goes out than  *)
(* the sales earned.                                                       *)
(*                                                                         *)
(* The invariant says what a thread may rely on while it holds an answer   *)
(* that others may have overtaken: what Payments said of a payout that was *)
(* opened, paid or closed stays so.                                        *)
(***************************************************************************)
EXTENDS Commission, CloseMoneyProofs, SequenceTheorems

PayShapes ==
  /\ payout \in [Movement -> {"absent", "open", "paid", "closed"}]
  /\ asked = [m \in Movement |-> asked[m]]
  /\ reply \in [Movement -> {"open", "paid", "closed", None}]
  /\ worker \in [Worker -> Thread]

\* A row is of an attendant and a day, and moves through RowState.
Rows ==
  \A i \in DOMAIN row :
    /\ row[i] = [who |-> row[i].who, day |-> row[i].day,
                 amount |-> row[i].amount, state |-> row[i].state]
    /\ OfRow(i) \in Movement
    /\ row[i].state \in RowState

\* Payments keeps a reply that was true of the payout, and opens none beyond
\* its limits.
Kept ==
  \A m \in Movement :
    /\ reply[m] # None => payout[m] # "absent"
    /\ reply[m] \in {"paid", "closed"} => payout[m] = reply[m]
    /\ payout[m] # "absent" => Limits(asked[m])

\* The payout was asked for, for the amount of the row.
AskedFor(i) == payout[OfRow(i)] # "absent" /\ asked[OfRow(i)] = row[i].amount

\* What a thread holds of the row in hand is still so.
Holds(t) ==
  /\ t.todo \subseteq DOMAIN row
  /\ t.pc \in {"creating", "answered", "polled"} => t.at \in DOMAIN row
  /\ t.pc = "creating" => AskedFor(t.at)
  /\ t.pc = "answered" =>
       /\ t.answer \in {"open", "paid", "closed"} => AskedFor(t.at)
       /\ t.answer \in {"paid", "closed"} => payout[OfRow(t.at)] = t.answer
       /\ t.answer = "held" => ~Limits(row[t.at].amount)
  /\ t.pc \in {"polling", "polled"} => \A i \in t.todo : payout[OfRow(i)] # "absent"
  /\ t.pc = "polled" =>
       t.answer \in {"paid", "closed"} /\ payout[OfRow(t.at)] = t.answer
Threads == \A w \in Worker : Holds(worker[w])

\* A row moves with its payout, or fails as its amount is beyond the limits.
Backed ==
  \A i \in DOMAIN row :
    /\ row[i].state \in {"REQUESTED", "SUCCEEDED"} => AskedFor(i)
    /\ row[i].state = "SUCCEEDED" => payout[OfRow(i)] = "paid"
    /\ row[i].state = "FAILED" =>
         payout[OfRow(i)] = "closed" \/ ~Limits(row[i].amount)

\* payout_ledger has a unique index on the rows of one attendant and day that
\* have not failed.
OneLiveRow ==
  \A i, j \in DOMAIN row :
    (OfRow(i) = OfRow(j) /\ row[i].state # "FAILED" /\ row[j].state # "FAILED") => i = j

AllConsistent ==
  Consistent /\ PayShapes /\ Rows /\ Kept /\ Threads /\ Backed /\ OneLiveRow

-----------------------------------------------------------------------------
(* What a step may do                                                      *)

\* Payments opens, pays or closes, and keeps a reply.
PaySteps(m) ==
  /\ \/ payout'[m] = payout[m] /\ asked'[m] = asked[m]
     \/ /\ payout[m] = "absent" /\ payout'[m] = "open"
        /\ Limits(asked'[m])
     \/ /\ payout[m] = "open" /\ payout'[m] \in {"paid", "closed"}
        /\ asked'[m] = asked[m]
  /\ \/ reply'[m] = reply[m]
     \/ payout[m] # "absent" /\ reply'[m] = payout[m] /\ payout'[m] = payout[m]

\* A payout that is opened is the only one to change.
LEMMA OpenedPays ==
  ASSUME PayShapes, NEW m \in Movement, NEW amount, Limits(amount),
         payout[m] = "absent", payout' = [payout EXCEPT ![m] = "open"],
         asked' = [asked EXCEPT ![m] = amount], reply' = reply
  PROVE  /\ \A q \in Movement : PaySteps(q)
         /\ payout' \in [Movement -> {"absent", "open", "paid", "closed"}]
         /\ asked' = [q \in Movement |-> asked'[q]]
         /\ reply' \in [Movement -> {"open", "paid", "closed", None}]
<1>1. asked'[m] = amount /\ \A q \in Movement \ {m} : asked'[q] = asked[q]
  BY DEF PayShapes
<1>2. asked' = [q \in Movement |-> asked'[q]]
  BY DEF PayShapes
<1> QED BY <1>1, <1>2 DEF PayShapes, PaySteps

\* No step of any service does more to a payout than PaySteps says.
LEMMA NextPays ==
  ASSUME PayShapes, Rows, [Next]_allVars
  PROVE  /\ \A q \in Movement : PaySteps(q)
         /\ payout' \in [Movement -> {"absent", "open", "paid", "closed"}]
         /\ asked' = [q \in Movement |-> asked'[q]]
         /\ reply' \in [Movement -> {"open", "paid", "closed", None}]
<1>1. CASE UNCHANGED <<payout, asked, reply>>
  BY <1>1 DEF PaySteps, PayShapes
<1>2. ASSUME NEW m \in Movement, PayoutSettled(m)
      PROVE  /\ payout[m] = "open" /\ UNCHANGED <<asked, reply>>
             /\ \E s \in {"paid", "closed"} : payout' = [payout EXCEPT ![m] = s]
  BY <1>2 DEF PayoutSettled, Payments!Pay, Payments!Close
<1>3. ASSUME NEW m \in Movement, PayoutSettled(m)
      PROVE  /\ \A q \in Movement : PaySteps(q)
             /\ payout' \in [Movement -> {"absent", "open", "paid", "closed"}]
  BY <1>2, <1>3 DEF PaySteps, PayShapes
<1>4. ASSUME NEW m \in Movement, ReplyKept(m)
      PROVE  /\ \A q \in Movement : PaySteps(q)
             /\ reply' \in [Movement -> {"open", "paid", "closed", None}]
             /\ UNCHANGED <<payout, asked>>
  BY <1>4 DEF ReplyKept, InFlight, PaySteps, PayShapes
<1>5. ASSUME NEW m \in Movement, NEW amount \in FileAmount, FileSent(m, amount)
      PROVE  /\ payout[m] = "absent" /\ payout' = [payout EXCEPT ![m] = "open"]
             /\ asked' = [asked EXCEPT ![m] = amount] /\ reply' = reply
             /\ Limits(amount)
  BY <1>5 DEF FileSent, Opened, Accepts, Payments!Open
<1>6. ASSUME NEW w \in Worker, NEW i \in DOMAIN row, PayoutAsked(w, i),
             ~UNCHANGED <<payout, asked, reply>>
      PROVE  /\ payout[OfRow(i)] = "absent" /\ payout' = [payout EXCEPT ![OfRow(i)] = "open"]
             /\ asked' = [asked EXCEPT ![OfRow(i)] = row[i].amount] /\ reply' = reply
             /\ Limits(row[i].amount)
  BY <1>6 DEF PayoutAsked, payVars, Opened, Accepts, Payments!Open
<1>7. CASE SendNext
  <2>1. CASE \E m \in Movement : PayoutSettled(m) \/ ReplyKept(m)
    <3>1. PICK m \in Movement : PayoutSettled(m) \/ ReplyKept(m)
      BY <2>1
    <3>2. CASE PayoutSettled(m)
      <4>1. \A q \in Movement : PaySteps(q)
        BY <1>3, <3>2
      <4>2. payout' \in [Movement -> {"absent", "open", "paid", "closed"}]
        BY <1>3, <3>2
      <4>3. UNCHANGED <<asked, reply>>
        BY <1>2, <3>2
      <4> QED BY <4>1, <4>2, <4>3 DEF PayShapes
    <3>3. CASE ReplyKept(m)
      <4>1. \A q \in Movement : PaySteps(q)
        BY <1>4, <3>3
      <4>2. reply' \in [Movement -> {"open", "paid", "closed", None}]
        BY <1>4, <3>3
      <4>3. UNCHANGED <<payout, asked>>
        BY <1>4, <3>3
      <4> QED BY <4>1, <4>2, <4>3 DEF PayShapes
    <3> QED BY <3>1, <3>2, <3>3
  <2>2. CASE \E m \in Movement, amount \in FileAmount : FileSent(m, amount)
    BY <1>5, <2>2, OpenedPays
  <2>3. CASE \E w \in Worker, i \in DOMAIN row : PayoutAsked(w, i)
    <3>1. PICK w \in Worker, i \in DOMAIN row : PayoutAsked(w, i)
      BY <2>3
    <3>2. OfRow(i) \in Movement
      BY DEF Rows
    <3>3. CASE ~UNCHANGED <<payout, asked, reply>>
      <4> DEFINE m == OfRow(i)
                 amount == row[i].amount
      <4>1. /\ payout[m] = "absent" /\ payout' = [payout EXCEPT ![m] = "open"]
            /\ asked' = [asked EXCEPT ![m] = amount] /\ reply' = reply
            /\ Limits(amount) /\ m \in Movement
        BY <1>6, <3>1, <3>2, <3>3
      <4> HIDE DEF m, amount
      <4> QED BY <4>1, OpenedPays
    <3> QED BY <1>1, <3>3
  <2>4. CASE UNCHANGED <<payout, asked, reply>>
    BY <1>1, <2>4
  <2> QED BY <1>7, <2>1, <2>2, <2>3, <2>4
       DEF SendNext, Switched, PayoutPolled, PollInconclusive, PollListed, SendListed,
           PayoutCreated, PayoutUnreachable, AnswerHandled, PollWritten, WorkerLost, payVars
<1> QED BY <1>1, <1>7 DEF Next, allVars, payVars

\* The amount, the attendant and the day of a row never change; its state does
\* when a thread with an answer writes it.
Wrote(w, i, r) ==
  LET t == worker[w] IN
  /\ t.at = i
  /\ \/ t.pc = "answered" /\ row[i].state = "PLANNED" /\ t.answer \in DOMAIN StateAfter
     \/ t.pc = "polled" /\ row[i].state = "REQUESTED" /\ t.answer \in DOMAIN StateAfter
  /\ r = [row[i] EXCEPT !.state = StateAfter[t.answer]]

\* The compare-and-swap of a row moves that row or none.
LEMMA MovedRows ==
  ASSUME Shapes, NEW i \in DOMAIN row, NEW from, NEW to, row' = Moved(i, from, to)
  PROVE  /\ \E S : row' \in Seq(S)
         /\ DOMAIN row' = DOMAIN row
         /\ \A j \in DOMAIN row :
              \/ row'[j] = row[j]
              \/ j = i /\ row[i].state = from /\ row'[j] = [row[i] EXCEPT !.state = to]
<1>1. PICK S : row \in Seq(S)
  BY DEF Shapes
<1> DEFINE r == [row[i] EXCEPT !.state = to]
<1>2. row \in Seq(S \cup {r}) /\ i \in 1..Len(row) /\ r \in S \cup {r}
  BY <1>1
<1>3. CASE row' = row
  BY <1>1, <1>3
<1>4. CASE row' # row
  <2>1. row[i].state = from /\ row' = [row EXCEPT ![i] = r]
    BY <1>4 DEF Moved
  <2> HIDE DEF r
  <2>2. /\ row' \in Seq(S \cup {r})
        /\ \A j \in 1..Len(row) : row'[j] = IF j = i THEN r ELSE row[j]
    BY <1>2, <2>1, ExceptSeq
  <2>3. DOMAIN row' = DOMAIN row
    BY <2>1
  <2> QED BY <1>1, <2>1, <2>2, <2>3 DEF r
<1> QED BY <1>3, <1>4

\* _close_attendant adds a planned row for an attendant and day without a live one.
Planned(r) ==
  /\ r = [who |-> r.who, day |-> r.day, amount |-> r.amount, state |-> "PLANNED"]
  /\ r.who \in Attendant /\ r.day \in Day
  /\ ~HasLiveRow(r.who, r.day)

\* No step does more to the ledger than append one planned row, or write one state.
LEMMA NextRowSteps ==
  ASSUME Consistent, PayShapes, Threads, [Next]_allVars
  PROVE  /\ \/ /\ \E S : row' \in Seq(S)
               /\ DOMAIN row' = DOMAIN row
               /\ UNCHANGED <<paid, item, carry, run, folded, again, late>>
            \/ [CloseNext]_vars
         /\ DOMAIN row \subseteq DOMAIN row'
         /\ \A i \in DOMAIN row :
              row'[i] = row[i] \/ \E w \in Worker : Wrote(w, i, row'[i])
         /\ \A i, j \in DOMAIN row' \ DOMAIN row : i = j
         /\ \A i \in DOMAIN row' \ DOMAIN row : Planned(row'[i])
<1>1. PICK S : row \in Seq(S)
  BY DEF Consistent, Shapes
<1>2. CASE UNCHANGED row /\ (UNCHANGED vars \/ CloseNext)
  BY <1>1, <1>2
<1>3. ASSUME CloseNext, row' # row
      PROVE  \E r : Planned(r) /\ row' = Append(row, r)
  <2>1. PICK x \in Run, a \in Attendant : AttendantFolded(x, a)
    BY <1>3 DEF CloseNext, SalePaid, CloseStarted, ItemRecorded, AttendantSkipped,
                PageFetched, CloseAborted, WalkEnded, CloseEnded, CloseLost, closeVars
  <2> DEFINE r == [who |-> a, day |-> run[x].day,
                   amount |-> Plan(a, run[x].day).payable, state |-> "PLANNED"]
  <2>2. row' = Append(row, r) /\ ~HasLiveRow(a, run[x].day) /\ run[x].pc = "folding"
    BY <1>3, <2>1 DEF AttendantFolded, AlreadyClosed
  <2>3. run[x].day \in Day
    BY <2>2 DEF Consistent, Folding
  <2>4. Planned(r)
    BY <2>2, <2>3 DEF Planned
  <2> HIDE DEF r
  <2> QED BY <2>2, <2>4
<1>4. CASE CloseNext /\ row' # row
  <2>1. PICK r : Planned(r) /\ row' = Append(row, r)
    BY <1>3, <1>4
  <2>2. row \in Seq(S \cup {r})
    BY <1>1
  <2>3. /\ DOMAIN row' = DOMAIN row \cup {Len(row) + 1}
        /\ row'[Len(row) + 1] = r
        /\ \A i \in DOMAIN row : row'[i] = row[i]
    BY <2>1, <2>2
  <2> QED BY <1>4, <2>1, <2>3
<1>5. ASSUME NEW w \in Worker, AnswerHandled(w)
      PROVE  /\ worker[w].at \in DOMAIN row
             /\ \/ UNCHANGED row
                \/ /\ worker[w].answer \in DOMAIN StateAfter
                   /\ row' = Moved(worker[w].at, "PLANNED", StateAfter[worker[w].answer])
             /\ worker[w].pc = "answered"
             /\ UNCHANGED <<paid, item, carry, run, folded, again, late>>
  BY <1>5 DEF AnswerHandled, posVars, Threads, Holds
<1>6. ASSUME NEW w \in Worker, PollWritten(w)
      PROVE  /\ worker[w].at \in DOMAIN row
             /\ worker[w].answer \in DOMAIN StateAfter
             /\ row' = Moved(worker[w].at, "REQUESTED", StateAfter[worker[w].answer])
             /\ worker[w].pc = "polled"
             /\ UNCHANGED <<paid, item, carry, run, folded, again, late>>
  BY <1>6 DEF PollWritten, posVars, Threads, Holds, StateAfter
<1>7. ASSUME NEW w \in Worker, AnswerHandled(w)
      PROVE  /\ \E T : row' \in Seq(T)
             /\ DOMAIN row' = DOMAIN row
             /\ \A i \in DOMAIN row : row'[i] = row[i] \/ Wrote(w, i, row'[i])
  <2>1. CASE UNCHANGED row
    BY <1>1, <2>1
  <2>2. CASE ~UNCHANGED row
    <3> DEFINE i == worker[w].at
               to == StateAfter[worker[w].answer]
    <3>1. /\ i \in DOMAIN row /\ worker[w].pc = "answered"
          /\ worker[w].answer \in DOMAIN StateAfter
          /\ row' = Moved(i, "PLANNED", to)
      BY <1>5, <1>7, <2>2
    <3> HIDE DEF i, to
    <3>2. /\ \E T : row' \in Seq(T)
          /\ DOMAIN row' = DOMAIN row
          /\ \A j \in DOMAIN row :
               \/ row'[j] = row[j]
               \/ j = i /\ row[i].state = "PLANNED" /\ row'[j] = [row[i] EXCEPT !.state = to]
      BY <3>1, MovedRows DEF Consistent
    <3> QED BY <3>1, <3>2 DEF Wrote, i, to
  <2> QED BY <2>1, <2>2
<1>8. ASSUME NEW w \in Worker, PollWritten(w)
      PROVE  /\ \E T : row' \in Seq(T)
             /\ DOMAIN row' = DOMAIN row
             /\ \A i \in DOMAIN row : row'[i] = row[i] \/ Wrote(w, i, row'[i])
  <2> DEFINE i == worker[w].at
             to == StateAfter[worker[w].answer]
  <2>1. /\ i \in DOMAIN row /\ worker[w].pc = "polled"
        /\ worker[w].answer \in DOMAIN StateAfter
        /\ row' = Moved(i, "REQUESTED", to)
    BY <1>6, <1>8
  <2> HIDE DEF i, to
  <2>2. /\ \E T : row' \in Seq(T)
        /\ DOMAIN row' = DOMAIN row
        /\ \A j \in DOMAIN row :
             \/ row'[j] = row[j]
             \/ j = i /\ row[i].state = "REQUESTED" /\ row'[j] = [row[i] EXCEPT !.state = to]
    BY <2>1, MovedRows DEF Consistent
  <2> QED BY <2>1, <2>2 DEF Wrote, i, to
<1>9. CASE \E w \in Worker : AnswerHandled(w) \/ PollWritten(w)
  BY <1>5, <1>6, <1>7, <1>8, <1>9
<1>10. CASE SendNext /\ UNCHANGED vars
  BY <1>2, <1>10 DEF vars, closeVars
<1>11. CASE SendNext
  BY <1>9, <1>10, <1>11
     DEF SendNext, PayoutSettled, ReplyKept, Switched, FileSent, PayoutAsked, PayoutPolled,
         PollInconclusive, PollListed, SendListed, PayoutCreated, PayoutUnreachable, WorkerLost
<1>12. CASE UNCHANGED allVars
  BY <1>2, <1>12 DEF allVars, vars, closeVars
<1>13. CASE CloseNext
  BY <1>2, <1>4, <1>13
<1> QED BY <1>11, <1>12, <1>13 DEF Next

\* A row keeps its attendant, its day and its amount.
LEMMA RowsKeep ==
  ASSUME AllConsistent, [Next]_allVars
  PROVE  /\ \A i \in DOMAIN row :
              /\ row'[i].who = row[i].who /\ row'[i].day = row[i].day
              /\ row'[i].amount = row[i].amount
              /\ OfRow(i)' = OfRow(i)
              /\ row'[i] = [who |-> row'[i].who, day |-> row'[i].day,
                            amount |-> row'[i].amount, state |-> row'[i].state]
         /\ DOMAIN row \subseteq DOMAIN row'
<1>1. /\ DOMAIN row \subseteq DOMAIN row'
      /\ \A i \in DOMAIN row : row'[i] = row[i] \/ \E w \in Worker : Wrote(w, i, row'[i])
  BY NextRowSteps DEF AllConsistent
<1>2. ASSUME NEW i \in DOMAIN row
      PROVE  /\ row'[i].who = row[i].who /\ row'[i].day = row[i].day
             /\ row'[i].amount = row[i].amount
             /\ row'[i] = [who |-> row'[i].who, day |-> row'[i].day,
                           amount |-> row'[i].amount, state |-> row'[i].state]
  <2>1. row[i] = [who |-> row[i].who, day |-> row[i].day,
                  amount |-> row[i].amount, state |-> row[i].state]
    BY DEF AllConsistent, Rows
  <2>2. CASE row'[i] = row[i]
    BY <2>1, <2>2
  <2>3. CASE \E s : row'[i] = [row[i] EXCEPT !.state = s]
    <3>1. PICK s : row'[i] = [row[i] EXCEPT !.state = s]
      BY <2>3
    <3>2. row'[i] = [who |-> row[i].who, day |-> row[i].day,
                     amount |-> row[i].amount, state |-> s]
      BY <2>1, <3>1
    <3> QED BY <3>2
  <2>4. ASSUME NEW w \in Worker, Wrote(w, i, row'[i])
        PROVE  \E s : row'[i] = [row[i] EXCEPT !.state = s]
    BY <2>4 DEF Wrote
  <2> QED BY <1>1, <2>2, <2>3, <2>4
<1> QED BY <1>1, <1>2 DEF OfRow

\* What a thread holds stays so, whatever the others do.
LEMMA HoldsOn ==
  ASSUME AllConsistent, [Next]_allVars, NEW t \in Thread, Holds(t)
  PROVE  Holds(t)'
<1>1. /\ DOMAIN row \subseteq DOMAIN row'
      /\ \A i \in DOMAIN row : OfRow(i)' = OfRow(i) /\ row'[i].amount = row[i].amount
  BY RowsKeep
<1>2. \A i \in DOMAIN row : OfRow(i) \in Movement
  BY DEF AllConsistent, Rows
<1>3. \A m \in Movement : PaySteps(m)
  BY NextPays DEF AllConsistent
<1>4. \A i \in DOMAIN row : payout[OfRow(i)] # "absent" => payout'[OfRow(i)'] # "absent"
  BY <1>1, <1>2, <1>3 DEF PaySteps
<1>5. \A i \in DOMAIN row : AskedFor(i) => AskedFor(i)'
  BY <1>1, <1>2, <1>3 DEF PaySteps, AskedFor
<1>6. \A i \in DOMAIN row :
        payout[OfRow(i)] \in {"paid", "closed"} => payout'[OfRow(i)'] = payout[OfRow(i)]
  BY <1>1, <1>2, <1>3 DEF PaySteps
<1>7. \A i \in DOMAIN row : ~Limits(row[i].amount) => ~Limits(row'[i].amount)
  BY <1>1
<1> QED BY <1>1, <1>4, <1>5, <1>6, <1>7 DEF Holds

\* What Payments answers at once is true of the payout.
LEMMA RefusalIsTrue ==
  ASSUME AllConsistent, NEW i \in DOMAIN row, ~Accepts(OfRow(i), row[i].amount)
  PROVE  LET a == Refusal(OfRow(i), row[i].amount) IN
           /\ a \in Answer
           /\ a \in {"open", "paid", "closed"} => AskedFor(i)
           /\ a \in {"paid", "closed"} => payout[OfRow(i)] = a
           /\ a = "held" => ~Limits(row[i].amount)
<1> DEFINE m == OfRow(i)
           a == Refusal(m, row[i].amount)
<1>1. m \in Movement
  BY DEF AllConsistent, Rows
<1>2. /\ reply[m] \in {"open", "paid", "closed", None}
      /\ reply[m] \in {"paid", "closed"} => payout[m] = reply[m]
  BY <1>1 DEF AllConsistent, PayShapes, Kept
<1>3. CASE payout[m] # "absent" /\ asked[m] # row[i].amount
  BY <1>3 DEF Refusal, Answer
<1>4. CASE payout[m] # "absent" /\ asked[m] = row[i].amount /\ reply[m] = None
  BY <1>4 DEF Refusal, Answer
<1>5. CASE payout[m] # "absent" /\ asked[m] = row[i].amount /\ reply[m] # None
  BY <1>2, <1>5 DEF Refusal, Answer, AskedFor
<1>6. CASE payout[m] = "absent"
  BY <1>6 DEF Refusal, Answer
<1> QED BY <1>3, <1>4, <1>5, <1>6

\* What is listed next is what was listed before, less the row in hand.
LEMMA NextPollHolds ==
  ASSUME AllConsistent, NEW t \in Thread, t.todo \subseteq DOMAIN row,
         \A i \in t.todo : payout[OfRow(i)] # "absent"
  PROVE  NextPoll(t) \in Thread /\ Holds(NextPoll(t))
BY DEF NextPoll, Idle, Thread, Answer, Holds

\* A thread with no row in hand relies on nothing but its list.
LEMMA RestingHolds ==
  ASSUME NEW S, S \subseteq DOMAIN row, S \subseteq Nat, NEW pc \in {"idle", "sending"}
  PROVE  LET t == [Idle EXCEPT !.pc = pc, !.todo = S] IN t \in Thread /\ Holds(t)
BY DEF Idle, Thread, Answer, Holds

\* A request leaves the thread with a payout it opened, or with a true answer.
LEMMA AskedHolds ==
  ASSUME AllConsistent, NEW w \in Worker, NEW i \in DOMAIN row, PayoutAsked(w, i)
  PROVE  \E t \in Thread : worker' = [worker EXCEPT ![w] = t] /\ Holds(t)'
<1> DEFINE m == OfRow(i)
           next == [worker[w] EXCEPT !.todo = worker[w].todo \ {i}, !.at = i]
           a == Refusal(m, row[i].amount)
<1>1. /\ worker[w] \in Thread /\ worker[w].todo \subseteq DOMAIN row
      /\ m \in Movement /\ i \in Nat
  <2>1. worker[w] \in Thread
    BY DEF AllConsistent, PayShapes
  <2> QED BY <2>1 DEF AllConsistent, Threads, Holds, Rows, PayoutAsked, Thread
<1>2. UNCHANGED row
  BY DEF PayoutAsked, vars, closeVars
<1>3. CASE /\ Accepts(m, row[i].amount)
           /\ worker' = [worker EXCEPT ![w] = [next EXCEPT !.pc = "creating"]]
  <2> DEFINE t == [next EXCEPT !.pc = "creating"]
  <2>1. /\ payout' = [payout EXCEPT ![m] = "open"]
        /\ asked' = [asked EXCEPT ![m] = row[i].amount]
    BY <1>3 DEF PayoutAsked, Opened, Payments!Open
  <2>2. payout'[m] = "open" /\ asked'[m] = row[i].amount
    BY <1>1, <2>1 DEF AllConsistent, PayShapes
  <2>3. AskedFor(i)'
    BY <1>2, <2>2 DEF AskedFor, OfRow
  <2>4. /\ t \in Thread /\ t.at = i /\ t.pc = "creating"
        /\ t.todo = worker[w].todo \ {i}
    BY <1>1 DEF Thread
  <2>5. \E u \in Thread : u = t
    BY <2>4
  <2> HIDE DEF t
  <2>6. PICK u \in Thread : u = t
    BY <2>5
  <2>7. Holds(u)'
    BY <1>1, <1>2, <2>3, <2>4, <2>6 DEF Holds
  <2> QED BY <1>3, <2>6, <2>7 DEF t
<1>4. CASE /\ ~Accepts(m, row[i].amount) /\ UNCHANGED payVars
           /\ worker' = [worker EXCEPT ![w] = [next EXCEPT !.pc = "answered", !.answer = a]]
  <2> DEFINE t == [next EXCEPT !.pc = "answered", !.answer = a]
  <2>1. /\ a \in Answer
        /\ a \in {"open", "paid", "closed"} => AskedFor(i)
        /\ a \in {"paid", "closed"} => payout[m] = a
        /\ a = "held" => ~Limits(row[i].amount)
    BY <1>4, RefusalIsTrue
  <2> HIDE DEF a
  <2>2. /\ t \in Thread /\ t.at = i /\ t.pc = "answered" /\ t.answer = a
        /\ t.todo = worker[w].todo \ {i}
    BY <1>1, <2>1 DEF Thread
  <2>3. \E u \in Thread : u = t
    BY <2>2
  <2> HIDE DEF t
  <2>4. PICK u \in Thread : u = t
    BY <2>3
  <2>5. Holds(u)
    BY <1>1, <2>1, <2>2, <2>4 DEF Holds
  <2>6. Holds(u)'
    BY <1>2, <1>4, <2>5 DEF Holds, AskedFor, OfRow, payVars
  <2> QED BY <1>4, <2>4, <2>6 DEF t
<1> QED BY <1>3, <1>4 DEF PayoutAsked, Opened

\* Each other step of a thread leaves it with what it may rely on.
LEMMA WorkerHolds ==
  ASSUME AllConsistent, NEW w \in Worker,
         \/ SendListed(w) \/ PayoutCreated(w) \/ PayoutUnreachable(w)
         \/ AnswerHandled(w) \/ PollWritten(w) \/ WorkerLost(w)
         \/ \E due \in SUBSET DOMAIN row : PollListed(w, due)
         \/ \E i \in DOMAIN row : PayoutPolled(w, i) \/ PollInconclusive(w, i)
  PROVE  \E t \in Thread : worker' = [worker EXCEPT ![w] = t] /\ Holds(t)
<1>1. /\ worker[w] \in Thread /\ Holds(worker[w])
      /\ DOMAIN row \subseteq Nat
  <2>1. PICK S : row \in Seq(S)
    BY DEF AllConsistent, Consistent, Shapes
  <2> QED BY <2>1 DEF AllConsistent, PayShapes, Threads
<1>2. CASE SendListed(w)
  <2>1. worker' = [worker EXCEPT ![w] = [Idle EXCEPT !.pc = "sending", !.todo = InState("PLANNED")]]
    BY <1>2 DEF SendListed
  <2>2. InState("PLANNED") \subseteq DOMAIN row
    BY DEF InState
  <2> QED BY <1>1, <2>1, <2>2, RestingHolds
<1>3. CASE PayoutCreated(w)
  <2> DEFINE t == worker[w]
             a == reply[OfRow(t.at)]
             u == [t EXCEPT !.pc = "answered", !.answer = a]
  <2>1. /\ t.pc = "creating" /\ a # None
        /\ worker' = [worker EXCEPT ![w].pc = "answered", ![w].answer = a]
    BY <1>3 DEF PayoutCreated
  <2>2. t.at \in DOMAIN row /\ AskedFor(t.at) /\ t.todo \subseteq DOMAIN row
    BY <1>1, <2>1 DEF Holds
  <2>3. OfRow(t.at) \in Movement
    BY <2>2 DEF AllConsistent, Rows
  <2>4. a \in {"open", "paid", "closed"} /\ (a \in {"paid", "closed"} => payout[OfRow(t.at)] = a)
    BY <2>1, <2>3 DEF AllConsistent, PayShapes, Kept
  <2> HIDE DEF a
  <2>5. worker' = [worker EXCEPT ![w] = u]
    BY <1>1, <2>1
  <2>6. /\ u \in Thread /\ u.at = t.at /\ u.pc = "answered" /\ u.answer = a
        /\ u.todo = t.todo
    BY <1>1, <2>4 DEF Thread, Answer
  <2> HIDE DEF u
  <2>7. Holds(u)
    BY <2>2, <2>4, <2>6 DEF Holds
  <2> QED BY <2>5, <2>6, <2>7
<1>4. CASE PayoutUnreachable(w) \/ WorkerLost(w)
  <2>1. /\ Idle \in Thread /\ Holds(Idle)
        /\ [Idle EXCEPT !.pc = "sending"] \in Thread
        /\ Holds([Idle EXCEPT !.pc = "sending"])
    BY DEF Idle, Thread, Answer, Holds
  <2> QED BY <1>4, <2>1 DEF PayoutUnreachable, WorkerLost
<1>5. CASE AnswerHandled(w)
  <2>1. \E S \in SUBSET worker[w].todo :
          worker' = [worker EXCEPT ![w] = [Idle EXCEPT !.pc = "sending", !.todo = S]]
    BY <1>5 DEF AnswerHandled
  <2>2. worker[w].todo \subseteq DOMAIN row
    BY <1>1 DEF Holds
  <2> QED BY <1>1, <2>1, <2>2, RestingHolds
<1>6. CASE PollWritten(w)
  <2>1. worker' = [worker EXCEPT ![w] = NextPoll(worker[w])] /\ worker[w].pc = "polled"
    BY <1>6 DEF PollWritten
  <2>2. NextPoll(worker[w]) \in Thread /\ Holds(NextPoll(worker[w]))
    BY <1>1, <2>1, NextPollHolds DEF Holds
  <2> QED BY <2>1, <2>2
<1>7. ASSUME NEW due \in SUBSET DOMAIN row, PollListed(w, due)
      PROVE  \E t \in Thread : worker' = [worker EXCEPT ![w] = t] /\ Holds(t)
  <2> DEFINE t == [Idle EXCEPT !.pc = "polling", !.todo = due]
  <2>1. \A i \in due : payout[OfRow(i)] # "absent"
    BY <1>7 DEF PollListed, InState, AllConsistent, Backed, AskedFor
  <2>2. t \in Thread /\ Holds(t)
    BY <1>1, <2>1 DEF Idle, Thread, Answer, Holds
  <2>3. Idle \in Thread /\ Holds(Idle)
    BY DEF Idle, Thread, Answer, Holds
  <2>4. worker' = [worker EXCEPT ![w] = Idle] \/ worker' = [worker EXCEPT ![w] = t]
    BY <1>7 DEF PollListed
  <2> QED BY <2>2, <2>3, <2>4
<1>8. ASSUME NEW i \in DOMAIN row, PollInconclusive(w, i)
      PROVE  \E t \in Thread : worker' = [worker EXCEPT ![w] = t] /\ Holds(t)
  <2> DEFINE t == [worker[w] EXCEPT !.todo = worker[w].todo \ {i}]
  <2>1. worker[w].pc = "polling" /\ worker' = [worker EXCEPT ![w] = NextPoll(t)]
    BY <1>8 DEF PollInconclusive
  <2>2. t \in Thread /\ t.todo = worker[w].todo \ {i}
    BY <1>1 DEF Thread
  <2> HIDE DEF t
  <2>3. NextPoll(t) \in Thread /\ Holds(NextPoll(t))
    BY <1>1, <2>1, <2>2, NextPollHolds DEF Holds
  <2> QED BY <2>1, <2>3
<1>9. ASSUME NEW i \in DOMAIN row, PayoutPolled(w, i)
      PROVE  \E t \in Thread : worker' = [worker EXCEPT ![w] = t] /\ Holds(t)
  <2> DEFINE p == payout[OfRow(i)]
             t == [worker[w] EXCEPT !.todo = worker[w].todo \ {i}, !.at = i]
             u == [t EXCEPT !.pc = "polled", !.answer = p]
  <2>1. /\ worker[w].pc = "polling" /\ i \in worker[w].todo
        /\ worker' = [worker EXCEPT ![w] = IF p = "open" THEN NextPoll(t) ELSE u]
    BY <1>9 DEF PayoutPolled
  <2>2. /\ worker[w].todo \subseteq DOMAIN row
        /\ \A j \in worker[w].todo : payout[OfRow(j)] # "absent"
    BY <1>1, <2>1 DEF Holds
  <2>3. p \in {"open", "paid", "closed"}
    <3>1. OfRow(i) \in Movement
      BY DEF AllConsistent, Rows
    <3> QED BY <2>1, <2>2, <3>1 DEF AllConsistent, PayShapes
  <2>4. t \in Thread /\ t.todo = worker[w].todo \ {i} /\ t.at = i
    BY <1>1 DEF Thread
  <2> HIDE DEF t, p
  <2>5. NextPoll(t) \in Thread /\ Holds(NextPoll(t))
    BY <2>2, <2>4, NextPollHolds
  <2>6. p # "open" => /\ u \in Thread /\ u.todo = t.todo /\ u.at = i
                      /\ u.pc = "polled" /\ u.answer = p
    BY <2>3, <2>4 DEF Thread, Answer
  <2> HIDE DEF u
  <2>7. p # "open" => Holds(u)
    BY <2>2, <2>3, <2>4, <2>6 DEF Holds, p
  <2> QED BY <2>1, <2>5, <2>6, <2>7
<1> QED BY <1>2, <1>3, <1>4, <1>5, <1>6, <1>7, <1>8, <1>9

-----------------------------------------------------------------------------
(* The invariant, one part at a time                                       *)

\* No row, no payout and no thread at first.
LEMMA AllConsistentInit == AllInit => AllConsistent
<1> SUFFICES ASSUME AllInit PROVE AllConsistent
  OBVIOUS
<1> USE DEF AllInit
<1>1. Consistent
  BY ConsistentInit
<1>2. row = <<>>
  BY DEF Init
<1>3. PayShapes
  BY DEF PayShapes, Idle, Thread, Answer
<1>4. Rows /\ Backed /\ OneLiveRow
  BY <1>2 DEF Rows, Backed, OneLiveRow
<1>5. Kept
  BY CommissionAssumption DEF Kept
<1>6. Threads
  BY DEF Threads, Holds, Idle
<1> QED BY <1>1, <1>3, <1>4, <1>5, <1>6 DEF AllConsistent

\* The other services change nothing that the close relies on.
LEMMA NextConsistent == AllConsistent /\ [Next]_allVars => Consistent'
<1> SUFFICES ASSUME AllConsistent, [Next]_allVars PROVE Consistent'
  OBVIOUS
<1>1. CASE [CloseNext]_vars
  BY <1>1, ConsistentNext DEF AllConsistent
<1>2. CASE /\ \E S : row' \in Seq(S)
           /\ DOMAIN row' = DOMAIN row
           /\ UNCHANGED <<paid, item, carry, run, folded, again, late>>
  <2>1. \A i \in DOMAIN row : row'[i].who = row[i].who /\ row'[i].day = row[i].day
    BY RowsKeep
  <2>2. Shapes /\ Dated /\ Walks /\ Folding
    BY DEF AllConsistent, Consistent
  <2>3. Shapes'
    BY <1>2, <2>2 DEF Shapes
  <2>4. \A d : Window(d)' = Window(d)
    BY <1>2 DEF Window
  <2>5. \A d, c : Beyond(d, c)' = Beyond(d, c)
    BY <1>2, <2>4 DEF Beyond, Before
  <2>6. Dated'
    BY <1>2, <2>1, <2>2, <2>4 DEF Dated, Recorded
  <2>7. Walks'
    BY <1>2, <2>2, <2>4, <2>5 DEF Walks, Visited, ToCome, Recorded
  <2>8. Folding'
    BY <1>2, <2>2, <2>4 DEF Folding, Recorded
  <2> QED BY <2>3, <2>6, <2>7, <2>8 DEF Consistent
<1> QED BY <1>1, <1>2, NextRowSteps DEF AllConsistent

\* Every thread keeps what it relies on, whoever takes the step.
LEMMA NextThreads == AllConsistent /\ [Next]_allVars => worker' \in [Worker -> Thread] /\ Threads'
<1> SUFFICES ASSUME AllConsistent, [Next]_allVars
             PROVE  worker' \in [Worker -> Thread] /\ Threads'
  OBVIOUS
<1>1. worker \in [Worker -> Thread] /\ \A v \in Worker : Holds(worker[v])
  BY DEF AllConsistent, PayShapes, Threads
<1>2. \A t \in Thread : Holds(t) => Holds(t)'
  BY HoldsOn
<1>3. CASE UNCHANGED worker
  BY <1>1, <1>2, <1>3 DEF Threads
<1>4. ASSUME NEW w \in Worker, NEW t \in Thread,
             worker' = [worker EXCEPT ![w] = t], Holds(t)'
      PROVE  worker' \in [Worker -> Thread] /\ Threads'
  <2>1. worker' \in [Worker -> Thread]
    BY <1>1, <1>4
  <2>2. ASSUME NEW v \in Worker
        PROVE  Holds(worker[v])'
    <3>1. CASE v = w
      BY <1>1, <1>4, <3>1
    <3>2. CASE v # w
      BY <1>1, <1>2, <1>4, <3>2
    <3> QED BY <3>1, <3>2
  <2> QED BY <2>1, <2>2 DEF Threads
<1>5. ASSUME NEW w \in Worker, NEW i \in DOMAIN row, PayoutAsked(w, i)
      PROVE  worker' \in [Worker -> Thread] /\ Threads'
  BY <1>4, <1>5, AskedHolds
<1>6. ASSUME NEW w \in Worker,
             \/ SendListed(w) \/ PayoutCreated(w) \/ PayoutUnreachable(w)
             \/ AnswerHandled(w) \/ PollWritten(w) \/ WorkerLost(w)
             \/ \E due \in SUBSET DOMAIN row : PollListed(w, due)
             \/ \E i \in DOMAIN row : PayoutPolled(w, i) \/ PollInconclusive(w, i)
      PROVE  worker' \in [Worker -> Thread] /\ Threads'
  <2>1. PICK t \in Thread : worker' = [worker EXCEPT ![w] = t] /\ Holds(t)
    BY <1>6, WorkerHolds
  <2> QED BY <1>2, <1>4, <2>1
<1>7. CASE SendNext
  BY <1>3, <1>5, <1>6, <1>7
     DEF SendNext, PayoutSettled, ReplyKept, Switched, FileSent, sendVars
<1> QED BY <1>3, <1>7 DEF Next, allVars, sendVars

\* Payouts, replies and threads keep their types.
LEMMA NextPayShapes == AllConsistent /\ [Next]_allVars => PayShapes'
<1> SUFFICES ASSUME AllConsistent, [Next]_allVars PROVE PayShapes'
  OBVIOUS
<1>1. /\ payout' \in [Movement -> {"absent", "open", "paid", "closed"}]
      /\ asked' = [q \in Movement |-> asked'[q]]
      /\ reply' \in [Movement -> {"open", "paid", "closed", None}]
  BY NextPays DEF AllConsistent
<1>2. worker' \in [Worker -> Thread]
  BY NextThreads
<1> QED BY <1>1, <1>2 DEF PayShapes

\* So do rows.
LEMMA NextRows == AllConsistent /\ [Next]_allVars => Rows'
<1> SUFFICES ASSUME AllConsistent, [Next]_allVars, NEW i \in DOMAIN row'
             PROVE  /\ row'[i] = [who |-> row'[i].who, day |-> row'[i].day,
                                  amount |-> row'[i].amount, state |-> row'[i].state]
                    /\ OfRow(i)' \in Movement
                    /\ row'[i].state \in RowState
  BY DEF Rows
<1>1. CASE i \in DOMAIN row
  <2>1. /\ row'[i] = [who |-> row'[i].who, day |-> row'[i].day,
                      amount |-> row'[i].amount, state |-> row'[i].state]
        /\ OfRow(i)' = OfRow(i)
    BY <1>1, RowsKeep
  <2>2. OfRow(i) \in Movement /\ row[i].state \in RowState
    BY <1>1 DEF AllConsistent, Rows
  <2>3. row'[i].state \in RowState
    <3>1. ASSUME NEW w \in Worker, Wrote(w, i, row'[i])
          PROVE  row'[i].state \in {"REQUESTED", "SUCCEEDED", "FAILED"}
      <4>1. row[i] = [who |-> row[i].who, day |-> row[i].day,
                      amount |-> row[i].amount, state |-> row[i].state]
        BY <1>1 DEF AllConsistent, Rows
      <4> QED BY <3>1, <4>1 DEF Wrote, StateAfter
    <3>2. row'[i] = row[i] \/ \E w \in Worker : Wrote(w, i, row'[i])
      BY <1>1, NextRowSteps DEF AllConsistent
    <3> QED BY <2>2, <3>1, <3>2 DEF RowState
  <2> QED BY <2>1, <2>2, <2>3
<1>2. CASE i \notin DOMAIN row
  <2>1. Planned(row'[i])
    BY <1>2, NextRowSteps DEF AllConsistent
  <2>2. row'[i].who \in Attendant /\ row'[i].day \in Day /\ row'[i].state = "PLANNED"
    BY <2>1 DEF Planned
  <2> QED BY <2>1, <2>2 DEF Planned, OfRow, Movement, RowState
<1> QED BY <1>1, <1>2

\* Payments keeps a reply that was true, and a payout its amount.
LEMMA NextKept == AllConsistent /\ [Next]_allVars => Kept'
<1> SUFFICES ASSUME AllConsistent, [Next]_allVars, NEW m \in Movement
             PROVE  /\ reply'[m] # None => payout'[m] # "absent"
                    /\ reply'[m] \in {"paid", "closed"} => payout'[m] = reply'[m]
                    /\ payout'[m] # "absent" => Limits(asked'[m])
  BY DEF Kept
<1>1. PaySteps(m)
  BY NextPays DEF AllConsistent
<1>2. /\ reply[m] # None => payout[m] # "absent"
      /\ reply[m] \in {"paid", "closed"} => payout[m] = reply[m]
      /\ payout[m] # "absent" => Limits(asked[m])
  BY DEF AllConsistent, Kept
<1> QED BY <1>1, <1>2 DEF PaySteps

\* A row is written as its payout is, and what backs it stays.
LEMMA NextBacked == AllConsistent /\ [Next]_allVars => Backed'
<1> SUFFICES ASSUME AllConsistent, [Next]_allVars, NEW i \in DOMAIN row'
             PROVE  /\ row'[i].state \in {"REQUESTED", "SUCCEEDED"} => AskedFor(i)'
                    /\ row'[i].state = "SUCCEEDED" => payout'[OfRow(i)'] = "paid"
                    /\ row'[i].state = "FAILED" =>
                         payout'[OfRow(i)'] = "closed" \/ ~Limits(row'[i].amount)
  BY DEF Backed
<1>1. CASE i \in DOMAIN row
  <2> DEFINE m == OfRow(i)
  <2>1. OfRow(i)' = m /\ row'[i].amount = row[i].amount
    BY <1>1, RowsKeep
  <2>2. m \in Movement
    BY <1>1 DEF AllConsistent, Rows
  <2>3. PaySteps(m)
    BY <2>2, NextPays DEF AllConsistent
  <2>4. /\ AskedFor(i) => AskedFor(i)'
        /\ payout[m] = "paid" => payout'[m] = "paid"
        /\ payout[m] = "closed" => payout'[m] = "closed"
    BY <2>1, <2>3 DEF PaySteps, AskedFor
  <2>5. /\ row[i].state \in {"REQUESTED", "SUCCEEDED"} => AskedFor(i)
        /\ row[i].state = "SUCCEEDED" => payout[m] = "paid"
        /\ row[i].state = "FAILED" => payout[m] = "closed" \/ ~Limits(row[i].amount)
    BY <1>1 DEF AllConsistent, Backed
  <2>6. CASE row'[i] = row[i]
    BY <2>1, <2>4, <2>5, <2>6
  <2>7. ASSUME NEW w \in Worker, Wrote(w, i, row'[i])
        PROVE  /\ row'[i].state \in {"REQUESTED", "SUCCEEDED"} => AskedFor(i)
               /\ row'[i].state = "SUCCEEDED" => payout[m] = "paid"
               /\ row'[i].state = "FAILED" => payout[m] = "closed" \/ ~Limits(row[i].amount)
    <3> DEFINE t == worker[w]
    <3>1. /\ t.at = i /\ t.answer \in {"open", "paid", "closed", "held"}
          /\ t.pc = "answered" \/ (t.pc = "polled" /\ row[i].state = "REQUESTED")
      BY <2>7 DEF Wrote, StateAfter
    <3>2. row'[i].state = StateAfter[t.answer]
      BY <1>1, <2>7 DEF Wrote, AllConsistent, Rows
    <3>3. /\ t.pc = "answered" =>
               /\ t.answer \in {"open", "paid", "closed"} => AskedFor(i)
               /\ t.answer \in {"paid", "closed"} => payout[m] = t.answer
               /\ t.answer = "held" => ~Limits(row[i].amount)
          /\ t.pc = "polled" =>
               t.answer \in {"paid", "closed"} /\ payout[m] = t.answer
      BY <3>1 DEF AllConsistent, Threads, Holds
    <3>4. CASE t.answer = "open"
      BY <2>5, <3>1, <3>2, <3>3, <3>4 DEF StateAfter
    <3>5. CASE t.answer = "paid"
      BY <2>5, <3>1, <3>2, <3>3, <3>5 DEF StateAfter
    <3>6. CASE t.answer \in {"closed", "held"}
      BY <2>5, <3>1, <3>2, <3>3, <3>6 DEF StateAfter
    <3> QED BY <3>1, <3>4, <3>5, <3>6
  <2>8. row'[i] = row[i] \/ \E w \in Worker : Wrote(w, i, row'[i])
    BY <1>1, NextRowSteps DEF AllConsistent
  <2> QED BY <2>1, <2>4, <2>6, <2>7, <2>8
<1>2. CASE i \notin DOMAIN row
  <2>1. Planned(row'[i])
    BY <1>2, NextRowSteps DEF AllConsistent
  <2>2. row'[i].state = "PLANNED"
    BY <2>1 DEF Planned
  <2> QED BY <2>2
<1> QED BY <1>1, <1>2

\* A row is added only where none is live, and a failed one stays so.
LEMMA NextOneLiveRow == AllConsistent /\ [Next]_allVars => OneLiveRow'
<1> SUFFICES ASSUME AllConsistent, [Next]_allVars,
                    NEW i \in DOMAIN row', NEW j \in DOMAIN row', OfRow(i)' = OfRow(j)',
                    row'[i].state # "FAILED", row'[j].state # "FAILED"
             PROVE  i = j
  BY DEF OneLiveRow
<1>1. ASSUME NEW x \in DOMAIN row, row'[x].state # "FAILED"
      PROVE  row[x].state # "FAILED" /\ OfRow(x)' = OfRow(x)
  <2>1. row'[x] = row[x] \/ \E w \in Worker : Wrote(w, x, row'[x])
    BY NextRowSteps DEF AllConsistent
  <2>2. row[x].state # "FAILED"
    BY <1>1, <2>1 DEF Wrote
  <2> QED BY <2>2, RowsKeep
<1>2. \A x \in DOMAIN row' \ DOMAIN row : Planned(row'[x])
  BY NextRowSteps DEF AllConsistent
<1>3. ASSUME NEW x \in DOMAIN row' \ DOMAIN row, NEW y \in DOMAIN row,
             OfRow(x)' = OfRow(y)', row'[y].state # "FAILED"
      PROVE  FALSE
  <2>1. OfRow(y)' = OfRow(y) /\ row[y].state # "FAILED"
    BY <1>1, <1>3
  <2>2. row[y].who = row'[x].who /\ row[y].day = row'[x].day
    BY <1>3, <2>1 DEF OfRow
  <2>3. HasLiveRow(row'[x].who, row'[x].day)
    BY <2>1, <2>2 DEF HasLiveRow, RowsOf
  <2> QED BY <1>2, <1>3, <2>3 DEF Planned
<1>4. CASE i \in DOMAIN row /\ j \in DOMAIN row
  BY <1>1, <1>4 DEF AllConsistent, OneLiveRow
<1>5. CASE i \notin DOMAIN row /\ j \notin DOMAIN row
  BY <1>5, NextRowSteps DEF AllConsistent
<1> QED BY <1>3, <1>4, <1>5

\* Every step keeps the invariant.
LEMMA AllConsistentNext == AllConsistent /\ [Next]_allVars => AllConsistent'
BY NextConsistent, NextPayShapes, NextRows, NextKept, NextThreads, NextBacked, NextOneLiveRow
   DEF AllConsistent

-----------------------------------------------------------------------------
(* Types and amounts                                                       *)

\* Payments holds no payout but for the amount of a row or of the file.
AskedBySomebody ==
  \A m \in Movement : payout[m] # "absent" =>
    \/ \E i \in DOMAIN row : OfRow(i) = m /\ row[i].amount = asked[m]
    \/ asked[m] \in FileAmount

AllBalanced ==
  AllConsistent /\ AllTypeOK /\ LateAfterFold /\ ConservedWhenOrderly /\ AskedBySomebody

\* What Payments has paid an attendant or still may, less what can be the file's.
Out(a) == {m \in Movement : /\ m[1] = a /\ payout[m] \in {"open", "paid"}
                            /\ asked[m] \notin FileAmount}
Sent(a) == SumOver(asked, Out(a))

\* A step is one of the close, or leaves it alone but for the states of rows.
LEMMA CloseOrStates ==
  ASSUME AllConsistent, TypeOK, [Next]_allVars
  PROVE  \/ [CloseNext]_vars
         \/ /\ row' \in Seq(Row) /\ DOMAIN row' = DOMAIN row
            /\ \A i \in DOMAIN row :
                 row'[i].who = row[i].who /\ row'[i].amount = row[i].amount
            /\ UNCHANGED <<paid, item, carry, run, folded, again, late>>
<1>1. CASE /\ \E S : row' \in Seq(S)
           /\ DOMAIN row' = DOMAIN row
           /\ UNCHANGED <<paid, item, carry, run, folded, again, late>>
  <2>1. \A i \in DOMAIN row : row[i] \in Row
    BY DEF TypeOK
  <2>2. ASSUME NEW i \in DOMAIN row
        PROVE  /\ row'[i].who = row[i].who /\ row'[i].amount = row[i].amount
               /\ row'[i] \in Row
    <3>1. /\ row'[i].who = row[i].who /\ row'[i].day = row[i].day
          /\ row'[i].amount = row[i].amount
          /\ row'[i] = [who |-> row'[i].who, day |-> row'[i].day,
                        amount |-> row'[i].amount, state |-> row'[i].state]
      BY RowsKeep
    <3>2. row'[i].state \in RowState
      BY <1>1, NextRows DEF Rows
    <3>3. row[i].who \in Attendant /\ row[i].day \in Day /\ row[i].amount \in Nat \ {0}
      BY <2>1 DEF Row
    <3> QED BY <3>1, <3>2, <3>3 DEF Row
  <2>3. row' \in Seq(Row)
    <3>1. PICK S : row' \in Seq(S)
      BY <1>1
    <3> QED BY <1>1, <2>2, <3>1
  <2> QED BY <1>1, <2>2, <2>3
<1> QED BY <1>1, NextRowSteps DEF AllConsistent

\* The close keeps its types meanwhile, and what it counts as late is late.
LEMMA NextCloseTypes ==
  AllBalanced /\ [Next]_allVars => TypeOK' /\ LateAfterFold'
<1> SUFFICES ASSUME AllBalanced, [Next]_allVars PROVE TypeOK' /\ LateAfterFold'
  OBVIOUS
<1>1. Consistent /\ TypeOK /\ LateAfterFold
  BY DEF AllBalanced, AllConsistent, AllTypeOK
<1>2. CASE [CloseNext]_vars
  BY <1>1, <1>2, NextTypeOK, NextLateAfterFold
<1>3. CASE /\ row' \in Seq(Row) /\ DOMAIN row' = DOMAIN row
           /\ UNCHANGED <<paid, item, carry, run, folded, again, late>>
  <2>1. Len(row') = Len(row)
    BY <1>1, <1>3 DEF TypeOK
  <2>2. TypeOK'
    BY <1>1, <1>3, <2>1 DEF TypeOK
  <2>3. LateAfterFold'
    BY <1>1, <1>3 DEF LateAfterFold, Recorded
  <2> QED BY <2>2, <2>3
<1> QED BY <1>1, <1>2, <1>3, CloseOrStates DEF AllBalanced

\* Neither disburse.py nor Payments moves money between the rows and what is
\* carried: only a state changes.
LEMMA NextAllConserved == AllBalanced /\ [Next]_allVars => ConservedWhenOrderly'
<1> SUFFICES ASSUME AllBalanced, [Next]_allVars PROVE ConservedWhenOrderly'
  OBVIOUS
<1>1. Balanced
  BY DEF AllBalanced, AllConsistent, AllTypeOK, Balanced
<1>2. CASE [CloseNext]_vars
  BY <1>1, <1>2, NextConserved
<1>3. CASE /\ DOMAIN row' = DOMAIN row
           /\ \A i \in DOMAIN row :
                row'[i].who = row[i].who /\ row'[i].amount = row[i].amount
           /\ UNCHANGED <<paid, item, carry, run, folded, again, late>>
  <2>1. \A a \in Attendant : /\ Handed(a)' = Handed(a) /\ InTime(a)' = InTime(a)
                             /\ Orderly(a)' = Orderly(a)
    BY <1>1, <1>3, NothingMoves DEF Balanced
  <2> QED BY <1>1, <2>1 DEF Balanced, ConservedWhenOrderly, Earned
<1> QED BY <1>2, <1>3, CloseOrStates DEF AllBalanced, AllTypeOK

\* What Payments is asked for is an amount of a row or of the file.
LEMMA NextAsked ==
  ASSUME AllBalanced, [Next]_allVars
  PROVE  /\ asked' \in [Movement -> Nat] /\ enabled' \in BOOLEAN
         /\ \A m \in Movement : payout'[m] # "absent" =>
              \/ payout[m] # "absent" /\ asked'[m] = asked[m]
              \/ \E i \in DOMAIN row : OfRow(i) = m /\ row[i].amount = asked'[m]
              \/ asked'[m] \in FileAmount
<1>1. asked \in [Movement -> Nat] /\ enabled \in BOOLEAN
  BY DEF AllBalanced, AllTypeOK
<1>2. \A i \in DOMAIN row : OfRow(i) \in Movement /\ row[i].amount \in Nat
  BY DEF AllBalanced, AllConsistent, AllTypeOK, Rows, TypeOK, Row
<1>3. payout \in [Movement -> {"absent", "open", "paid", "closed"}]
  BY DEF AllBalanced, AllTypeOK
<1>4. CASE UNCHANGED <<payout, asked>> /\ enabled' \in BOOLEAN
  BY <1>1, <1>4
<1>5. ASSUME NEW m \in Movement, NEW amount \in Nat, Opened(m, amount)
      PROVE  /\ asked' \in [Movement -> Nat] /\ enabled' = enabled /\ asked'[m] = amount
             /\ \A q \in Movement \ {m} : asked'[q] = asked[q] /\ payout'[q] = payout[q]
  BY <1>1, <1>3, <1>5 DEF Opened, Payments!Open
<1>6. ASSUME NEW m \in Movement, NEW amount \in FileAmount, FileSent(m, amount)
      PROVE  Opened(m, amount) /\ amount \in Nat
  BY <1>6, CommissionAssumption DEF FileSent
<1>7. CASE \E m \in Movement, amount \in FileAmount : FileSent(m, amount)
  BY <1>1, <1>5, <1>6, <1>7
<1>8. ASSUME NEW w \in Worker, NEW i \in DOMAIN row, PayoutAsked(w, i)
      PROVE  Opened(OfRow(i), row[i].amount) \/ UNCHANGED payVars
  BY <1>8 DEF PayoutAsked
<1>9. CASE \E w \in Worker, i \in DOMAIN row : PayoutAsked(w, i)
  <2>1. PICK i \in DOMAIN row : Opened(OfRow(i), row[i].amount) \/ UNCHANGED payVars
    BY <1>8, <1>9
  <2>2. CASE Opened(OfRow(i), row[i].amount)
    <3> DEFINE m == OfRow(i)
               amount == row[i].amount
    <3>1. /\ m \in Movement /\ amount \in Nat
          /\ payout' = [payout EXCEPT ![m] = "open"] /\ enabled' = enabled
          /\ asked' = [asked EXCEPT ![m] = amount]
      BY <1>2, <2>2 DEF Opened, Payments!Open
    <3>2. /\ asked' \in [Movement -> Nat] /\ enabled' = enabled
          /\ asked'[m] = amount
          /\ \A q \in Movement \ {m} : asked'[q] = asked[q] /\ payout'[q] = payout[q]
      <4> HIDE DEF m, amount
      <4> QED BY <1>1, <1>3, <3>1
    <3> QED BY <1>1, <3>2
  <2> QED BY <1>1, <1>4, <2>1, <2>2 DEF payVars
<1>10. ASSUME NEW m \in Movement, PayoutSettled(m)
       PROVE  /\ payout[m] # "absent" /\ UNCHANGED <<asked, enabled>>
              /\ \A q \in Movement \ {m} : payout'[q] = payout[q]
  BY <1>3, <1>10 DEF PayoutSettled, Payments!Pay, Payments!Close
<1>11. CASE \E m \in Movement : PayoutSettled(m)
  BY <1>1, <1>10, <1>11
<1>12. CASE Switched \/ \E m \in Movement : ReplyKept(m)
  BY <1>1, <1>4, <1>12 DEF Switched, ReplyKept
<1>13. CASE UNCHANGED payVars
  BY <1>1, <1>4, <1>13 DEF payVars
<1> QED BY <1>7, <1>9, <1>11, <1>12, <1>13
     DEF Next, SendNext, PayoutPolled, PollInconclusive, PollListed, SendListed,
         PayoutCreated, PayoutUnreachable, AnswerHandled, PollWritten, WorkerLost, allVars

\* A thread has a row in hand that there is, or none, and flags no other.
LEMMA NextInHand ==
  ASSUME AllBalanced, [Next]_allVars
  PROVE  /\ \A w \in Worker : worker'[w].at \in 0..Len(row')
         /\ flag' \subseteq (1..Len(row')) \X Kind
<1>1. /\ \A w \in Worker : worker[w].at \in 0..Len(row)
      /\ flag \subseteq (1..Len(row)) \X Kind
      /\ DOMAIN row = 1..Len(row) /\ Len(row) \in Nat
      /\ worker \in [Worker -> Thread]
  BY DEF AllBalanced, AllTypeOK, TypeOK
<1>2. DOMAIN row' = 1..Len(row') /\ Len(row') \in Nat
  BY NextCloseTypes DEF TypeOK
<1>3. Len(row) <= Len(row')
  <2>1. DOMAIN row \subseteq DOMAIN row'
    BY RowsKeep DEF AllBalanced
  <2> QED BY <1>1, <1>2, <2>1
<1>4. ASSUME NEW w \in Worker, NEW u, worker' = [worker EXCEPT ![w] = u],
             u.at \in {worker[w].at, 0} \cup DOMAIN row
      PROVE  \A v \in Worker : worker'[v].at \in 0..Len(row')
  BY <1>1, <1>2, <1>3, <1>4
<1>5. \A t : NextPoll(t).at = 0
  BY DEF NextPoll, Idle
<1>6. ASSUME NEW w \in Worker, NEW i \in DOMAIN row,
             PayoutAsked(w, i) \/ PayoutPolled(w, i) \/ PollInconclusive(w, i)
      PROVE  \E u : /\ worker' = [worker EXCEPT ![w] = u] /\ UNCHANGED flag
                    /\ u.at \in {worker[w].at, 0} \cup DOMAIN row
  <2> DEFINE next == [worker[w] EXCEPT !.todo = worker[w].todo \ {i}, !.at = i]
             opening == [next EXCEPT !.pc = "creating"]
             told == [next EXCEPT !.pc = "answered",
                                  !.answer = Refusal(OfRow(i), row[i].amount)]
  <2>1. /\ opening.at = i /\ told.at = i
        /\ \A a : [next EXCEPT !.pc = "polled", !.answer = a].at = i
    <3>1. worker[w] \in Thread
      BY <1>1
    <3> QED BY <3>1 DEF Thread
  <2>2. CASE PayoutAsked(w, i)
    <3>1. /\ UNCHANGED flag
          /\ \/ worker' = [worker EXCEPT ![w] = opening]
             \/ worker' = [worker EXCEPT ![w] = told]
      BY <2>2 DEF PayoutAsked
    <3> HIDE DEF opening, told
    <3> QED BY <2>1, <3>1
  <2>3. CASE PayoutPolled(w, i)
    BY <1>5, <2>1, <2>3 DEF PayoutPolled
  <2>4. CASE PollInconclusive(w, i)
    BY <1>5, <2>4 DEF PollInconclusive
  <2> QED BY <1>6, <2>2, <2>3, <2>4
<1>7. ASSUME NEW w \in Worker,
             \/ SendListed(w) \/ PayoutUnreachable(w) \/ AnswerHandled(w)
             \/ PollWritten(w) \/ WorkerLost(w)
             \/ \E due \in SUBSET DOMAIN row : PollListed(w, due)
      PROVE  \E u : worker' = [worker EXCEPT ![w] = u] /\ u.at = 0
  <2>1. /\ Idle.at = 0 /\ [Idle EXCEPT !.pc = "sending"].at = 0
        /\ \A pc, S : [Idle EXCEPT !.pc = pc, !.todo = S].at = 0
    BY DEF Idle
  <2>2. ASSUME NEW pc, NEW S,
               worker' = [worker EXCEPT ![w] = [Idle EXCEPT !.pc = pc, !.todo = S]]
        PROVE  \E u : worker' = [worker EXCEPT ![w] = u] /\ u.at = 0
    BY <2>1, <2>2
  <2>3. CASE SendListed(w)
    BY <2>2, <2>3 DEF SendListed
  <2>4. CASE PayoutUnreachable(w) \/ WorkerLost(w)
    BY <2>1, <2>4 DEF PayoutUnreachable, WorkerLost
  <2>5. CASE AnswerHandled(w)
    BY <2>2, <2>5 DEF AnswerHandled
  <2>6. CASE PollWritten(w)
    BY <1>5, <2>6 DEF PollWritten
  <2>7. CASE \E due \in SUBSET DOMAIN row : PollListed(w, due)
    <3>1. PICK due \in SUBSET DOMAIN row :
            \/ worker' = [worker EXCEPT ![w] = Idle]
            \/ worker' = [worker EXCEPT ![w] = [Idle EXCEPT !.pc = "polling", !.todo = due]]
      BY <2>7 DEF PollListed
    <3> QED BY <2>1, <2>2, <3>1
  <2> QED BY <1>7, <2>3, <2>4, <2>5, <2>6, <2>7
<1>8. ASSUME NEW w \in Worker, PayoutCreated(w)
      PROVE  \E u : worker' = [worker EXCEPT ![w] = u] /\ u.at = worker[w].at
  <2> DEFINE u == [worker[w] EXCEPT !.pc = "answered", !.answer = reply[OfRow(worker[w].at)]]
  <2>1. worker' = [worker EXCEPT ![w] = u]
    BY <1>1, <1>8 DEF PayoutCreated
  <2>2. u.at = worker[w].at
    BY <1>1 DEF Thread
  <2> HIDE DEF u
  <2> QED BY <2>1, <2>2
<1>9. \A v \in Worker : worker'[v].at \in 0..Len(row')
  <2>1. CASE UNCHANGED worker
    BY <1>1, <1>2, <1>3, <2>1
  <2>2. CASE \E w \in Worker, i \in DOMAIN row :
               PayoutAsked(w, i) \/ PayoutPolled(w, i) \/ PollInconclusive(w, i)
    BY <1>4, <1>6, <2>2
  <2>3. CASE \E w \in Worker :
               \/ SendListed(w) \/ PayoutUnreachable(w) \/ AnswerHandled(w)
               \/ PollWritten(w) \/ WorkerLost(w)
               \/ \E due \in SUBSET DOMAIN row : PollListed(w, due)
    BY <1>4, <1>7, <2>3
  <2>4. CASE \E w \in Worker : PayoutCreated(w)
    BY <1>4, <1>8, <2>4
  <2> QED BY <2>1, <2>2, <2>3, <2>4
       DEF Next, SendNext, PayoutSettled, ReplyKept, Switched, FileSent, sendVars, allVars
<1>10. flag' \subseteq (1..Len(row')) \X Kind
  <2>1. CASE UNCHANGED flag
    BY <1>1, <1>2, <1>3, <2>1
  <2>2. ASSUME NEW w \in Worker, AnswerHandled(w) \/ PollWritten(w)
        PROVE  \E K \in SUBSET Kind :
                 worker[w].at \in DOMAIN row /\ flag' = flag \cup ({worker[w].at} \X K)
    <3>1. worker[w].at \in DOMAIN row
      BY <2>2 DEF AnswerHandled, PollWritten, AllBalanced, AllConsistent, Threads, Holds
    <3>2. \A a : Flags(a) \subseteq Kind
      BY DEF Flags, Kind
    <3> QED BY <2>2, <3>1, <3>2 DEF AnswerHandled, PollWritten, Flagged, Kind
  <2>3. CASE \E w \in Worker : AnswerHandled(w) \/ PollWritten(w)
    BY <1>1, <1>2, <1>3, <2>2, <2>3
  <2> QED BY <2>1, <2>3
       DEF Next, SendNext, PayoutSettled, ReplyKept, Switched, FileSent, PayoutAsked,
           PayoutPolled, PollInconclusive, PollListed, SendListed, PayoutCreated,
           PayoutUnreachable, WorkerLost, sendVars, allVars
<1> QED BY <1>9, <1>10

\* Every step keeps types and amounts.
LEMMA AllBalancedNext == AllBalanced /\ [Next]_allVars => AllBalanced'
<1> SUFFICES ASSUME AllBalanced, [Next]_allVars PROVE AllBalanced'
  OBVIOUS
<1>1. AllConsistent'
  BY AllConsistentNext DEF AllBalanced
<1>2. TypeOK' /\ LateAfterFold' /\ ConservedWhenOrderly'
  BY NextCloseTypes, NextAllConserved
<1>3. worker' \in [Worker -> Thread]
  BY NextThreads DEF AllBalanced
<1>4. \A w \in Worker : worker'[w].todo \subseteq 0..Len(row')
  <2>1. DOMAIN row' = 1..Len(row') /\ Len(row') \in Nat
    BY <1>2 DEF TypeOK
  <2> QED BY <1>1, <2>1 DEF AllConsistent, Threads, Holds
<1>5. AllTypeOK'
  BY <1>1, <1>2, <1>3, <1>4, NextAsked, NextInHand DEF AllTypeOK, AllConsistent, PayShapes
<1>6. AskedBySomebody'
  <2> SUFFICES ASSUME NEW m \in Movement, payout'[m] # "absent", asked'[m] \notin FileAmount
               PROVE  \E i \in DOMAIN row' : OfRow(i)' = m /\ row'[i].amount = asked'[m]
    BY DEF AskedBySomebody
  <2>1. \/ payout[m] # "absent" /\ asked'[m] = asked[m]
        \/ \E i \in DOMAIN row : OfRow(i) = m /\ row[i].amount = asked'[m]
    BY NextAsked
  <2>2. \E i \in DOMAIN row : OfRow(i) = m /\ row[i].amount = asked'[m]
    BY <2>1 DEF AllBalanced, AskedBySomebody
  <2>3. /\ DOMAIN row \subseteq DOMAIN row'
        /\ \A i \in DOMAIN row : OfRow(i)' = OfRow(i) /\ row'[i].amount = row[i].amount
    BY RowsKeep DEF AllBalanced
  <2> QED BY <2>2, <2>3
<1> QED BY <1>1, <1>2, <1>5, <1>6 DEF AllBalanced

\* All amounts are zero at first.
LEMMA AllBalancedInit == AllInit => AllBalanced
<1> SUFFICES ASSUME AllInit PROVE AllBalanced
  OBVIOUS
<1>1. AllConsistent /\ Balanced
  BY AllConsistentInit, BalancedInit DEF AllInit
<1>2. AllTypeOK
  <2>1. row = <<>>
    BY DEF AllInit, Init
  <2> QED BY <1>1, <2>1 DEF AllInit, AllTypeOK, Balanced, Idle, Thread, Answer
<1>3. AskedBySomebody
  BY DEF AllInit, AskedBySomebody
<1> QED BY <1>1, <1>2, <1>3 DEF AllBalanced, Balanced

\* Each payout of an attendant goes with a row of its own, so what is sent comes
\* to no more than what the close has handed out, less what it carries.
LEMMA SentIsHanded ==
  ASSUME AllBalanced, NEW a \in Attendant
  PROVE  Sent(a) + carry[a] <= Handed(a) /\ Sent(a) \in Nat
<1> DEFINE Is(m, i) == i \in DOMAIN row /\ OfRow(i) = m /\ row[i].amount = asked[m]
           of == [m \in Out(a) |-> CHOOSE i : Is(m, i)]
<1>1. TypeOK /\ asked \in [Movement -> Nat] /\ carry[a] \in Nat
  BY DEF AllBalanced, AllTypeOK, TypeOK
<1>2. ASSUME NEW m \in Out(a)
      PROVE  Is(m, of[m])
  <2>1. \E i : Is(m, i)
    BY DEF AllBalanced, AskedBySomebody, Out
  <2>2. of[m] = CHOOSE i : Is(m, i)
    OBVIOUS
  <2> HIDE DEF Is, of
  <2> QED BY <2>1, <2>2
<1>3. of = [m \in Out(a) |-> of[m]]
  OBVIOUS
<1> HIDE DEF of
<1>4. \A m \in Out(a) : of[m] \in RowsOf(a) /\ Amounts[of[m]] = asked[m]
  BY <1>2 DEF OfRow, Out, RowsOf, Amounts
<1>5. \A m, q \in Out(a) : of[m] = of[q] => m = q
  BY <1>2
<1>6. IsFiniteSet(RowsOf(a)) /\ \A i \in RowsOf(a) : Amounts[i] \in Nat
  BY <1>1, RowsAreFinite
<1>7. IsFiniteSet(Out(a))
  <2>1. of \in Injection(Out(a), RowsOf(a))
    <3>1. of \in [Out(a) -> RowsOf(a)]
      BY <1>4, <1>3
    <3> QED BY <1>5, <3>1 DEF Injection, IsInjective
  <2> QED BY <1>6, <2>1, FS_Injection
<1>8. SumOver(asked, Out(a)) <= SumOver(Amounts, RowsOf(a))
  BY <1>4, <1>5, <1>6, <1>7, SumAlong
<1>9. Handed(a) = SumOver(Amounts, RowsOf(a)) + carry[a]
  BY <1>6, HandedIsSum
<1>10. SumOver(asked, Out(a)) \in Nat
  <2>1. \A m \in Out(a) : asked[m] \in Nat
    BY <1>1 DEF Out
  <2> QED BY <1>7, <2>1, SumType
<1>11. SumOver(Amounts, RowsOf(a)) \in Nat
  BY <1>6, SumType
<1> QED BY <1>1, <1>8, <1>9, <1>10, <1>11 DEF Sent

-----------------------------------------------------------------------------
(* Theorems                                                                *)

\* AllConsistent holds in every state of every instance.
THEOREM LedgerConsistency == Spec => []AllConsistent
BY AllConsistentInit, AllConsistentNext, PTL DEF Spec

\* What disburse.py writes into the ledger is what became of the money: a row is
\* SUCCEEDED only if its amount was paid, FAILED only if it was not, and REQUESTED
\* only if Payments holds a payout of that amount, however threads overlap, die
\* and repeat, and whatever worker.py asks for with the same keys.
THEOREM LedgerFollowsMoney == Spec => []RowsFollowMoney
<1>1. AllConsistent => RowsFollowMoney
  <2> SUFFICES ASSUME AllConsistent, NEW i \in DOMAIN row
               PROVE  /\ row[i].state = "SUCCEEDED" =>
                           payout[OfRow(i)] = "paid" /\ asked[OfRow(i)] = row[i].amount
                      /\ row[i].state = "FAILED" =>
                           ~(payout[OfRow(i)] = "paid" /\ asked[OfRow(i)] = row[i].amount)
                      /\ row[i].state = "REQUESTED" =>
                           payout[OfRow(i)] # "absent" /\ asked[OfRow(i)] = row[i].amount
    BY DEF RowsFollowMoney
  <2>1. OfRow(i) \in Movement
    BY DEF AllConsistent, Rows
  <2>2. payout[OfRow(i)] = "paid" => Limits(asked[OfRow(i)])
    BY <2>1 DEF AllConsistent, Kept
  <2> QED BY <2>2 DEF AllConsistent, Backed, AskedFor
<1> QED BY <1>1, LedgerConsistency, PTL

\* A row never goes back, and an end it reached is never replaced by another.
THEOREM LedgerMovesForward == Spec => RowsMoveForward
<1>1. AllConsistent /\ [Next]_allVars =>
        [\A i \in DOMAIN row :
           /\ row[i].state \in {"SUCCEEDED", "FAILED"} => row'[i] = row[i]
           /\ row[i].state = "REQUESTED" => row'[i].state # "PLANNED"]_allVars
  <2> SUFFICES ASSUME AllConsistent, [Next]_allVars, NEW i \in DOMAIN row
               PROVE  /\ row[i].state \in {"SUCCEEDED", "FAILED"} => row'[i] = row[i]
                      /\ row[i].state = "REQUESTED" => row'[i].state # "PLANNED"
    OBVIOUS
  <2>1. row'[i] = row[i] \/ \E w \in Worker : Wrote(w, i, row'[i])
    BY NextRowSteps DEF AllConsistent
  <2>2. ASSUME NEW w \in Worker, Wrote(w, i, row'[i])
        PROVE  /\ row[i].state \in {"PLANNED", "REQUESTED"}
               /\ row'[i].state # "PLANNED"
    <3>1. row'[i].state = StateAfter[worker[w].answer] /\ worker[w].answer \in DOMAIN StateAfter
      BY <2>2 DEF Wrote, AllConsistent, Rows
    <3>2. row'[i].state # "PLANNED"
      BY <3>1 DEF StateAfter
    <3> QED BY <2>2, <3>2 DEF Wrote
  <2> QED BY <2>1, <2>2
<1> QED BY <1>1, LedgerConsistency, PTL DEF Spec, RowsMoveForward

\* No money is counted for two rows: of the rows of one attendant and day one at
\* most has not failed, though days are closed again after a failure.
THEOREM MoneyCountsOnce == Spec => []OneLiveRow
<1>1. AllConsistent => OneLiveRow
  BY DEF AllConsistent
<1> QED BY <1>1, LedgerConsistency, PTL

\* Rows that fail while days are closed make the walk miss no sale.
THEOREM NoSaleIsMissedMeanwhile == Spec => []WalkMissesNothing
<1>1. AllConsistent => Consistent
  BY DEF AllConsistent
<1> QED BY <1>1, LedgerConsistency, ConsistentIsEnough, PTL

\* AllBalanced holds in every state of every instance.
THEOREM CommissionBalance == Spec => []AllBalanced
BY AllBalancedInit, AllBalancedNext, PTL DEF Spec

\* Amounts, replies, anomalies and threads are what they are said to be: a thread
\* has no row in hand that is not there, and no anomaly is of a row that is not.
THEOREM CommissionTypes == Spec => []AllTypeOK
<1>1. AllBalanced => AllTypeOK
  BY DEF AllBalanced
<1> QED BY <1>1, CommissionBalance, PTL

\* The money of an attendant adds up while rows are sent, paid and failed.
THEOREM MoneyIsConservedMeanwhile == Spec => []ConservedWhenOrderly
<1>1. AllBalanced => ConservedWhenOrderly
  BY DEF AllBalanced
<1> QED BY <1>1, CommissionBalance, PTL

\* From the till to the phone: what Payments has paid an attendant for the ledger,
\* or still may, together with what is carried, is never more than the recorded
\* sales earned, however runs of the close and threads of disburse.py overlap,
\* die and repeat, as long as no day of that attendant is folded again.
THEOREM NobodyIsPaidMoreThanEarned ==
  Spec => [](\A a \in Attendant : Orderly(a) => Sent(a) + carry[a] <= SumOf(ItemsOf(a)))
<1>1. AllBalanced =>
        (\A a \in Attendant : Orderly(a) => Sent(a) + carry[a] <= SumOf(ItemsOf(a)))
  <2> SUFFICES ASSUME AllBalanced, NEW a \in Attendant, Orderly(a)
               PROVE  Sent(a) + carry[a] <= SumOf(ItemsOf(a))
    OBVIOUS
  <2>1. Balanced
    BY DEF AllBalanced, AllConsistent, AllTypeOK, Balanced
  <2>2. Handed(a) <= SumOf(ItemsOf(a)) /\ Handed(a) = SumOf(InTime(a))
    BY <2>1, BalancedIsEnough DEF Balanced, ConservedWhenOrderly, Earned
  <2>3. SumOf(ItemsOf(a)) \in Nat /\ SumOf(InTime(a)) \in Nat
    <3>1. ItemsOf(a) \subseteq Sale /\ InTime(a) \subseteq Sale
      BY DEF ItemsOf, InTime
    <3> QED BY <3>1, SumOfDays
  <2>4. carry[a] \in Nat
    BY DEF AllBalanced, AllTypeOK, TypeOK
  <2> QED BY <2>2, <2>3, <2>4, SentIsHanded
<1> QED BY <1>1, CommissionBalance, PTL

\* The close, the file and disburse.py see Payments do only what MoneyPromise
\* allows, which PayoutsKeepPromise of PayoutsProofs shows payouts to implement.
THEOREM CommissionUsesPromise == Spec => Payments!Spec
<1>1. AllInit => Payments!Init
  BY DEF AllInit, Payments!Init
<1>2. ASSUME NEW m \in Movement, Payments!Open(m, m)
      PROVE  Payments!Next
  BY <1>2 DEF Payments!Next
<1>3. ASSUME NEW m \in Movement, PayoutSettled(m)
      PROVE  Payments!Next
  <2>1. Payments!Pay(m, m) \/ Payments!Close(m)
    BY <1>3 DEF PayoutSettled
  <2> QED BY <2>1 DEF Payments!Next
<1>4. AllConsistent /\ [Next]_allVars => [Payments!Next]_(Payments!vars)
  <2> SUFFICES ASSUME AllConsistent, [Next]_allVars, payout' # payout
               PROVE  Payments!Next
    BY DEF Payments!vars
  <2>1. SendNext
    BY DEF Next, allVars, payVars
  <2>2. \/ \E m \in Movement : PayoutSettled(m)
        \/ \E m \in Movement, amount \in FileAmount : FileSent(m, amount)
        \/ \E w \in Worker, i \in DOMAIN row : PayoutAsked(w, i)
    BY <2>1 DEF SendNext, ReplyKept, Switched, PayoutPolled, PollInconclusive, PollListed,
       SendListed, PayoutCreated, PayoutUnreachable, AnswerHandled, PollWritten,
       WorkerLost, payVars
  <2>3. ASSUME NEW w \in Worker, NEW i \in DOMAIN row, PayoutAsked(w, i)
        PROVE  Payments!Next
    <3>1. PICK m \in Movement : m = OfRow(i)
      BY DEF AllConsistent, Rows
    <3>2. Payments!Open(m, m)
      BY <2>3, <3>1 DEF PayoutAsked, Opened, payVars, Payments!Open
    <3> QED BY <1>2, <3>2
  <2> QED BY <1>2, <1>3, <2>2, <2>3 DEF FileSent, Opened
<1> QED BY <1>1, <1>4, LedgerConsistency, PTL DEF Spec, Payments!Spec
=============================================================================
