------------------------------ MODULE Commission ----------------------------
(***************************************************************************)
(* Commission as a whole: the daily close of CommissionClose, and          *)
(* services/commission/ledger/disburse.py, which asks Payments for the     *)
(* rows that are planned and learns what became of those it has asked for. *)
(* worker.py, which asks for payouts listed in a file, shares the keys.    *)
(*                                                                         *)
(* Payments moves money as MoneyPromise says.  The key of a payout is      *)
(* derived from the attendant and the day, and so is the purpose Payments  *)
(* derives: there is one movement for each attendant and day.  Next to the *)
(* promise, Payments keeps for each key the amount first asked for and the *)
(* reply it gave, which it gives again.                                    *)
(***************************************************************************)
EXTENDS CommissionClose

CONSTANTS
  Worker,     \* threads of disburse.py
  Ceiling,    \* payout_max_minor of Payments
  FileAmount  \* amounts in the file of worker.py

ASSUME CommissionAssumption ==
  /\ Ceiling \in Nat
  /\ FileAmount \subseteq Nat \ {0}
  /\ None \notin {"open", "paid", "closed"}

VARIABLES
  payout,   \* what Payments has done with each attendant's day
  asked,    \* the amount first asked for, of each
  reply,    \* the state in the reply kept for the key, or None
  enabled,  \* Payments' switch for payouts
  flag,     \* anomalies: the rows there is one for, with its kind
  worker    \* the threads of disburse.py

payVars == <<payout, asked, reply, enabled>>
sendVars == <<flag, worker>>
allVars == <<vars, payVars, sendVars>>

-----------------------------------------------------------------------------
(* Types *)

Movement == Attendant \X Day
OfRow(i) == <<row[i].who, row[i].day>>

Kind == {"payout_rejected", "payouts_paused", "unexpected_payout_response",
         "payout_failed"}
\* The state in a reply, or the error it names.
Answer == {"open", "paid", "closed",
           "in_flight", "mismatch", "held", "disabled"}

\* A pass sends and then reconciles: todo are the rows listed and not yet
\* turned to, at is the one in hand and answer what Payments said of it.
Thread == [pc : {"idle", "sending", "creating", "answered", "polling", "polled"},
           todo : SUBSET Nat, at : Nat, answer : Answer]
Idle == [pc |-> "idle", todo |-> {}, at |-> 0, answer |-> "open"]

AllTypeOK ==
  /\ TypeOK
  /\ payout \in [Movement -> {"absent", "open", "paid", "closed"}]
  /\ asked \in [Movement -> Nat]
  /\ reply \in [Movement -> {"open", "paid", "closed", None}]
  /\ enabled \in BOOLEAN
  /\ flag \subseteq (1..Len(row)) \X Kind
  /\ worker \in [Worker -> Thread]
  /\ \A w \in Worker : worker[w].todo \cup {worker[w].at} \subseteq 0..Len(row)

AllInit ==
  /\ Init
  /\ payout = [m \in Movement |-> "absent"]
  /\ asked = [m \in Movement |-> 0]
  /\ reply = [m \in Movement |-> None]
  /\ enabled = TRUE
  /\ flag = {}
  /\ worker = [w \in Worker |-> Idle]

-----------------------------------------------------------------------------
(* Payments *)

Payments == INSTANCE MoneyPromise WITH
  Ref <- Movement, Purpose <- Movement,
  status <- payout,
  purpose <- [m \in Movement |-> IF payout[m] = "absent" THEN None ELSE m],
  booked <- [m \in Movement |-> IF payout[m] = "paid" THEN {m} ELSE {}]

PayoutSettled(m) ==
  /\ Payments!Pay(m, m) \/ Payments!Close(m)
  /\ UNCHANGED <<vars, asked, reply, enabled, sendVars>>

InFlight(m) == payout[m] # "absent" /\ reply[m] = None

\* The reply to the first request is kept once the provider was asked, unless a
\* result moved the payout on first and the thread that took the request died.
ReplyKept(m) ==
  /\ InFlight(m)
  /\ reply' = [reply EXCEPT ![m] = payout[m]]
  /\ UNCHANGED <<vars, payout, asked, enabled, sendVars>>

Switched ==
  /\ enabled' = ~enabled
  /\ UNCHANGED <<vars, payout, asked, reply, sendVars>>

Limits(amount) == amount % Shilling = 0 /\ amount <= Ceiling

\* What Payments answers at once to a request that opens nothing.
Refusal(m, amount) ==
  IF payout[m] = "absent" THEN IF Limits(amount) THEN "disabled" ELSE "held"
  ELSE CASE asked[m] # amount -> "mismatch"
         [] asked[m] = amount /\ reply[m] = None -> "in_flight"
         [] OTHER -> reply[m]
Accepts(m, amount) == payout[m] = "absent" /\ Limits(amount) /\ enabled

Opened(m, amount) ==
  /\ Accepts(m, amount)
  /\ Payments!Open(m, m)
  /\ asked' = [asked EXCEPT ![m] = amount]
  /\ UNCHANGED <<reply, enabled>>

\* worker.py: a payout of the file is asked for and nothing is kept.
FileSent(m, amount) ==
  /\ Opened(m, amount)
  /\ UNCHANGED <<vars, sendVars>>

-----------------------------------------------------------------------------
(* send_due_payouts *)

InState(state) == {i \in DOMAIN row : row[i].state = state}

SendListed(w) ==
  /\ worker[w].pc = "idle"
  /\ worker' = [worker EXCEPT ![w] =
       [Idle EXCEPT !.pc = "sending", !.todo = InState("PLANNED")]]
  /\ UNCHANGED <<vars, payVars, flag>>

PayoutAsked(w, i) ==
  LET t == worker[w]
      m == OfRow(i)
      next == [t EXCEPT !.todo = t.todo \ {i}, !.at = i]
  IN
  /\ t.pc = "sending" /\ i \in t.todo
  /\ \/ /\ Opened(m, row[i].amount)
        /\ worker' = [worker EXCEPT ![w] = [next EXCEPT !.pc = "creating"]]
     \/ /\ ~Accepts(m, row[i].amount)
        /\ worker' = [worker EXCEPT ![w] =
             [next EXCEPT !.pc = "answered", !.answer = Refusal(m, row[i].amount)]]
        /\ UNCHANGED payVars
  /\ UNCHANGED <<vars, flag>>

PayoutCreated(w) ==
  LET t == worker[w] IN
  /\ t.pc = "creating"
  /\ reply[OfRow(t.at)] # None
  /\ worker' = [worker EXCEPT ![w].pc = "answered",
                              ![w].answer = reply[OfRow(t.at)]]
  /\ UNCHANGED <<vars, payVars, flag>>

\* Payments cannot be reached, or its answer does not arrive: no more is sent.
PayoutUnreachable(w) ==
  /\ worker[w].pc = "creating" \/ (worker[w].pc = "sending" /\ worker[w].todo # {})
  /\ worker' = [worker EXCEPT ![w] = [Idle EXCEPT !.pc = "sending"]]
  /\ UNCHANGED <<vars, payVars, flag>>

\* With a bug put in: a row takes over the state of the payout.
StateAfterRaw ==
  [a \in {"open", "paid", "closed", "held"} |->
     CASE a = "open" -> "PENDING" [] a = "paid" -> "SUCCEEDED" [] OTHER -> "FAILED"]
\* With a bug put in: an outcome that is not known yet is a failure.
StateAfterGuessing ==
  [a \in {"open", "paid", "closed", "held"} |->
     IF a = "paid" THEN "SUCCEEDED" ELSE "FAILED"]
\* With a bug put in: a payout that was paid at once is asked about.
StateAfterAsking ==
  [a \in {"open", "paid", "closed", "held"} |->
     IF a = "held" THEN "FAILED" ELSE "REQUESTED"]

StateAfter ==
  [a \in {"open", "paid", "closed", "held"} |->
     CASE a = "open" -> "REQUESTED" [] a = "paid" -> "SUCCEEDED" [] OTHER -> "FAILED"]

\* With a bug put in: the row moves whatever its state.
MovedAnyway(i, from, to) == [row EXCEPT ![i].state = to]
\* The row moves if it is still in the state it was listed in.
Moved(i, from, to) ==
  IF row[i].state = from THEN [row EXCEPT ![i].state = to] ELSE row

Flagged(i, kinds) == flag \cup ({i} \X kinds)

\* With a bug put in: an answer that fits nothing is only logged.
FlagsIfKnown(answer) ==
  CASE answer \in {"closed", "held"} -> {"payout_rejected"}
    [] answer = "disabled" -> {"payouts_paused"}
    [] OTHER -> {}
\* The anomaly recorded with each answer.
Flags(answer) ==
  CASE answer \in {"closed", "held"} -> {"payout_rejected"}
    [] answer = "disabled" -> {"payouts_paused"}
    [] answer = "mismatch" -> {"unexpected_payout_response"}
    [] OTHER -> {}

AnswerHandled(w) ==
  LET t == worker[w] IN
  /\ t.pc = "answered"
  /\ row' = IF t.answer \in DOMAIN StateAfter
              THEN Moved(t.at, "PLANNED", StateAfter[t.answer]) ELSE row
  /\ flag' = Flagged(t.at, Flags(t.answer))
  /\ worker' = [worker EXCEPT ![w] =
       [Idle EXCEPT !.pc = "sending",
                    !.todo = IF t.answer = "disabled" THEN {} ELSE t.todo]]
  /\ UNCHANGED <<posVars, item, carry, run, folded, again, late, payVars>>

-----------------------------------------------------------------------------
(* reconcile_requested_payouts.  Which rows are due is left open.          *)

PollListed(w, due) ==
  /\ worker[w].pc = "sending" /\ worker[w].todo = {}
  /\ due \subseteq InState("REQUESTED")
  /\ worker' = [worker EXCEPT ![w] =
       IF due = {} THEN Idle ELSE [Idle EXCEPT !.pc = "polling", !.todo = due]]
  /\ UNCHANGED <<vars, payVars, flag>>

NextPoll(t) == IF t.todo = {} THEN Idle
                              ELSE [Idle EXCEPT !.pc = "polling", !.todo = t.todo]

PayoutPolled(w, i) ==
  LET t == worker[w]
      next == [t EXCEPT !.todo = t.todo \ {i}, !.at = i]
  IN
  /\ t.pc = "polling" /\ i \in t.todo
  /\ worker' = [worker EXCEPT ![w] =
       IF payout[OfRow(i)] = "open" THEN NextPoll(next)
       ELSE [next EXCEPT !.pc = "polled", !.answer = payout[OfRow(i)]]]
  /\ UNCHANGED <<vars, payVars, flag>>

PollInconclusive(w, i) ==
  /\ worker[w].pc = "polling" /\ i \in worker[w].todo
  /\ worker' = [worker EXCEPT ![w] =
       NextPoll([worker[w] EXCEPT !.todo = worker[w].todo \ {i}])]
  /\ UNCHANGED <<vars, payVars, flag>>

PollWritten(w) ==
  LET t == worker[w] IN
  /\ t.pc = "polled"
  /\ row' = Moved(t.at, "REQUESTED", StateAfter[t.answer])
  /\ flag' = Flagged(t.at, IF t.answer = "closed" THEN {"payout_failed"} ELSE {})
  /\ worker' = [worker EXCEPT ![w] = NextPoll(t)]
  /\ UNCHANGED <<posVars, item, carry, run, folded, again, late, payVars>>

WorkerLost(w) ==
  /\ worker[w].pc # "idle"
  /\ worker' = [worker EXCEPT ![w] = Idle]
  /\ UNCHANGED <<vars, payVars, flag>>

-----------------------------------------------------------------------------

SendNext ==
  \/ \E m \in Movement : PayoutSettled(m) \/ ReplyKept(m)
  \/ Switched
  \/ \E m \in Movement, amount \in FileAmount : FileSent(m, amount)
  \/ \E w \in Worker, i \in DOMAIN row :
       PayoutAsked(w, i) \/ PayoutPolled(w, i) \/ PollInconclusive(w, i)
  \/ \E w \in Worker, due \in SUBSET DOMAIN row : PollListed(w, due)
  \/ \E w \in Worker :
       \/ SendListed(w) \/ PayoutCreated(w) \/ PayoutUnreachable(w)
       \/ AnswerHandled(w) \/ PollWritten(w) \/ WorkerLost(w)

Next == (CloseNext /\ UNCHANGED <<payVars, sendVars>>) \/ SendNext

Spec == AllInit /\ [][Next]_allVars

-----------------------------------------------------------------------------
(* Safety *)

\* Ledger and money agree: a row SUCCEEDED only if Payments paid exactly its
\* amount, and FAILED only if Payments did not, whoever else asked for the same
\* payout and whichever of several threads hears of it first.
RowsFollowMoney ==
  \A i \in DOMAIN row :
    /\ row[i].state = "SUCCEEDED" =>
         payout[OfRow(i)] = "paid" /\ asked[OfRow(i)] = row[i].amount
    /\ row[i].state = "FAILED" =>
         ~(payout[OfRow(i)] = "paid" /\ asked[OfRow(i)] = row[i].amount)
    /\ row[i].state = "REQUESTED" =>
         payout[OfRow(i)] # "absent" /\ asked[OfRow(i)] = row[i].amount

\* What a worker moves, no other worker moves back or on to another end: a row
\* that SUCCEEDED or FAILED stays so, and one REQUESTED is not PLANNED again.
RowsMoveForward ==
  [][\A i \in DOMAIN row :
       /\ row[i].state \in {"SUCCEEDED", "FAILED"} => row'[i] = row[i]
       /\ row[i].state = "REQUESTED" => row'[i].state # "PLANNED"]_allVars

-----------------------------------------------------------------------------
(* Liveness *)

\* disburse.py runs on a schedule (infra/envs/sandbox/commission.tf).  A thread
\* does not stand still, as a call to Payments ends at a timeout, and for no row
\* is each of its requests refused or each pass cut short.  Nothing is assumed of
\* Payments, which may never keep its reply (payouts.py completes a key only with
\* the acknowledgement or from CREATED), of the close, the file or the switch.
ThreadStep(w) ==
  \/ SendListed(w) \/ PayoutCreated(w) \/ AnswerHandled(w) \/ PollWritten(w)
  \/ worker[w].pc = "creating" /\ PayoutUnreachable(w)
  \/ \E due \in SUBSET DOMAIN row : PollListed(w, due)

RowFairness(w, i) ==
  /\ SF_allVars(\E due \in SUBSET DOMAIN row : i \in due /\ PollListed(w, due))
  /\ SF_allVars(i \in DOMAIN row /\ (PayoutAsked(w, i) \/ PayoutPolled(w, i)))
  /\ SF_allVars(worker[w].at = i /\ (AnswerHandled(w) \/ PollWritten(w)))

MaxRows == Cardinality(Run) * Cardinality(Attendant)

Fairness ==
  \A w \in Worker :
    /\ WF_allVars(ThreadStep(w))
    /\ \A i \in 1..MaxRows : RowFairness(w, i)

FairSpec == Spec /\ Fairness

\* A planned row does not stay so in silence: it is asked for, or somebody is
\* told why not.  The one exception is a key that stays in flight for good, whose
\* row disburse.py leaves as it is at each pass and tells nobody.
PlannedIsSent ==
  \A i \in 1..MaxRows :
    (i \in DOMAIN row /\ row[i].state = "PLANNED") ~>
      \/ i \in DOMAIN row /\ (row[i].state # "PLANNED" \/ \E k \in Kind : <<i, k>> \in flag)
      \/ [](i \in DOMAIN row /\ InFlight(OfRow(i)))

\* A row learns how its payout ended.
OutcomeIsLearnt ==
  \A i \in 1..MaxRows :
    (i \in DOMAIN row /\ row[i].state = "REQUESTED"
       /\ payout[OfRow(i)] \in {"paid", "closed"}) ~>
      (i \in DOMAIN row /\ row[i].state \in {"SUCCEEDED", "FAILED"})
=============================================================================
