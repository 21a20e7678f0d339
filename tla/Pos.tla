-------------------------------- MODULE Pos ---------------------------------
(***************************************************************************)
(* The point of sale, services/pos/app: a sale is created once per         *)
(* idempotency key, its payment is asked of the Payments service, and what *)
(* became of it is learnt by polling, on demand or in a background sweep,  *)
(* or from a pushed event.                                                 *)
(*                                                                         *)
(* Payments is known here by its promise: the steps it takes are those of  *)
(* MoneyPromise.  A sale's payments all carry the idempotency key sale.id, *)
(* so there is one movement of money per sale, and it is named by the sale.*)
(* A sale has a fresh uuid, and is named by the call that inserted it.     *)
(*                                                                         *)
(* The sale row is never locked.  Each commit is one action, each read     *)
(* that a later write relies on is an earlier step, and what a session     *)
(* still holds of a row it read is part of the state.                      *)
(***************************************************************************)
EXTENDS Naturals, FiniteSets

CONSTANTS
  Call,       \* calls of create_sale
  Key,        \* values of the Idempotency-Key header
  Payload,    \* bodies of create_sale
  Valid,      \* the bodies the catalogue accepts
  Requester,  \* threads of request_payment
  Handler,    \* threads of reconcile_payment and record_payment_event
  Sweeper,    \* threads of run_once, one for each process with a reconcile_loop
  LastDay,    \* bound on the days that pass
  None

ASSUME PosAssumption ==
  /\ Valid \subseteq Payload
  /\ LastDay \in Nat \ {0}
  /\ None \notin Call \cup Key \cup Payload
  /\ Handler \cap Sweeper = {}

VARIABLES
  sale,       \* the sales table
  event,      \* the payment_events table, whose event_id is unique
  creator,    \* the thread of each create_sale call, and its answer
  requester,  \* the threads of request_payment
  worker,     \* the handlers and the sweepers
  payment,    \* what Payments has done with each sale's payment
  today       \* what the clock says, in days

vars == <<sale, event, creator, requester, worker, payment, today>>

-----------------------------------------------------------------------------
(* Types *)

Worker == Handler \cup Sweeper

SaleStatus == {"READY_FOR_PAYMENT", "PAYMENT_REQUESTED", "PAID",
               "PAYMENT_FAILED", "VOID"}
Transitions ==
  [s \in SaleStatus |->
     CASE s = "READY_FOR_PAYMENT" -> {"PAYMENT_REQUESTED", "VOID"}
       [] s = "PAYMENT_REQUESTED" -> {"PAID", "PAYMENT_FAILED"}
       [] s = "PAYMENT_FAILED" -> {"PAYMENT_REQUESTED", "VOID"}
       [] OTHER -> {}]
Verdict == {"PAID", "PAYMENT_FAILED"}

Sale == [status : SaleStatus \cup {"ABSENT"}, key : Key \cup {None},
         payload : Payload \cup {None}, asked : BOOLEAN, updated : 0..LastDay]
Source == {"polled", "pushed"}
Event == [sale : Call, source : Source]

CreatorThread == [pc : {"ready", "inserting", "done", "lost"},
                  code : {"none", "created", "replayed", "conflict", "invalid"},
                  key : Key \cup {None}, payload : Payload \cup {None},
                  sale : Call \cup {None}]
RequesterThread == [pc : {"idle", "calling", "writing"}, sale : Call \cup {None}]
\* seen is the status in the session's copy of the sale; current tells that
\* the session has committed or rolled back, so that it reads its sales anew;
\* broken, that a commit failed and the session was not rolled back.
WorkerThread == [pc : {"idle", "looping", "asking", "checking", "writing"},
                 todo : SUBSET Call, at : Call \cup {None},
                 seen : SaleStatus \cup {"ABSENT"},
                 source : Source, verdict : Verdict,
                 current : BOOLEAN, broken : BOOLEAN]

NoSale == [status |-> "ABSENT", key |-> None, payload |-> None, asked |-> FALSE,
           updated |-> 0]
NewCall == [pc |-> "ready", code |-> "none", key |-> None, payload |-> None,
            sale |-> None]
IdleRequester == [pc |-> "idle", sale |-> None]
IdleWorker == [pc |-> "idle", todo |-> {}, at |-> None, seen |-> "ABSENT",
               source |-> "polled", verdict |-> "PAID",
               current |-> FALSE, broken |-> FALSE]

TypeOK ==
  /\ sale \in [Call -> Sale]
  /\ event \subseteq Event
  /\ creator \in [Call -> CreatorThread]
  /\ requester \in [Requester -> RequesterThread]
  /\ worker \in [Worker -> WorkerThread]
  /\ payment \in [Call -> {"absent", "open", "paid", "closed"}]
  /\ today \in 1..LastDay

Init ==
  /\ sale = [s \in Call |-> NoSale]
  /\ event = {}
  /\ creator = [c \in Call |-> NewCall]
  /\ requester = [r \in Requester |-> IdleRequester]
  /\ worker = [w \in Worker |-> IdleWorker]
  /\ payment = [s \in Call |-> "absent"]
  /\ today = 1

-----------------------------------------------------------------------------
(* Payments, as far as it promises anything.  A payment's purpose is its   *)
(* sale, and what is booked for it is its own reference.                   *)

Payments == INSTANCE MoneyPromise WITH
  Movement <- Call, Ref <- Call, Purpose <- Call,
  status <- payment,
  purpose <- [s \in Call |-> IF payment[s] = "absent" THEN None ELSE s],
  booked <- [s \in Call |-> IF payment[s] = "paid" THEN {s} ELSE {}]

PaymentSettled(s) ==
  /\ Payments!Pay(s, s) \/ Payments!Close(s)
  /\ UNCHANGED <<sale, event, creator, requester, worker, today>>

-----------------------------------------------------------------------------
(* create_sale *)

HasKey(s, k) == sale[s].status # "ABSENT" /\ sale[s].key = k
\* With a bug put in: the key is not unique in the table.
KeyTakenNever(k) == FALSE
KeyTaken(k) == \E s \in Call : HasKey(s, k)

\* The answer to a call whose key has a sale: that sale, or a conflict.
AnsweredFrom(s, k, p) ==
  [pc |-> "done", key |-> k, payload |-> p, sale |-> s,
   code |-> IF sale[s].payload = p THEN "replayed" ELSE "conflict"]

CreateAnswered(c, k, p) ==
  /\ creator[c].pc = "ready"
  /\ \E s \in Call :
       /\ HasKey(s, k)
       /\ creator' = [creator EXCEPT ![c] = AnsweredFrom(s, k, p)]
  /\ UNCHANGED <<sale, event, requester, worker, payment, today>>

CreateChecked(c, k, p) ==
  /\ creator[c].pc = "ready"
  /\ \A s \in Call : ~HasKey(s, k)
  /\ creator' = [creator EXCEPT ![c] =
       IF p \in Valid
         THEN [NewCall EXCEPT !.pc = "inserting", !.key = k, !.payload = p]
         ELSE [NewCall EXCEPT !.pc = "done", !.code = "invalid", !.key = k,
                              !.payload = p]]
  /\ UNCHANGED <<sale, event, requester, worker, payment, today>>

CreateInserted(c) ==
  LET t == creator[c] IN
  /\ t.pc = "inserting"
  /\ ~KeyTaken(t.key)
  /\ sale' = [sale EXCEPT ![c] =
       [status |-> "READY_FOR_PAYMENT", key |-> t.key, payload |-> t.payload,
        asked |-> FALSE, updated |-> today]]
  /\ creator' = [creator EXCEPT ![c].pc = "done", ![c].code = "created",
                                ![c].sale = c]
  /\ UNCHANGED <<event, requester, worker, payment, today>>

\* The unique constraint on the key breaks; the winner is looked up.
CreateBeaten(c) ==
  LET t == creator[c] IN
  /\ t.pc = "inserting"
  /\ \E s \in Call :
       /\ HasKey(s, t.key)
       /\ creator' = [creator EXCEPT ![c] = AnsweredFrom(s, t.key, t.payload)]
  /\ UNCHANGED <<sale, event, requester, worker, payment, today>>

CreateLost(c) ==
  /\ creator[c].pc = "inserting"
  /\ creator' = [creator EXCEPT ![c].pc = "lost"]
  /\ UNCHANGED <<sale, event, requester, worker, payment, today>>

-----------------------------------------------------------------------------
(* request_payment *)

\* With a bug put in: a payment may be asked for while one is under way.
RequestableAgain(status) == status \in {"READY_FOR_PAYMENT", "PAYMENT_REQUESTED"}

Requestable(status) ==
  status \in SaleStatus /\ "PAYMENT_REQUESTED" \in Transitions[status]

RequestRead(r, s) ==
  /\ requester[r].pc = "idle"
  /\ Requestable(sale[s].status)
  /\ requester' = [requester EXCEPT ![r] = [pc |-> "calling", sale |-> s]]
  /\ UNCHANGED <<sale, event, creator, worker, payment, today>>

\* Payments opens a payment for a key it has not seen, and otherwise answers
\* with the one it has.
RequestAnswered(r) ==
  LET s == requester[r].sale IN
  /\ requester[r].pc = "calling"
  /\ \/ Payments!Open(s, s)
     \/ payment[s] # "absent" /\ UNCHANGED payment
  /\ requester' = [requester EXCEPT ![r].pc = "writing"]
  /\ UNCHANGED <<sale, event, creator, worker, today>>

\* The status read before the call is not looked at again.
RequestWritten(r) ==
  /\ requester[r].pc = "writing"
  /\ sale' = [sale EXCEPT ![requester[r].sale].status = "PAYMENT_REQUESTED",
                          ![requester[r].sale].asked = TRUE,
                          ![requester[r].sale].updated = today]
  /\ requester' = [requester EXCEPT ![r] = IdleRequester]
  /\ UNCHANGED <<event, creator, worker, payment, today>>

\* The call fails, before Payments acts or after it did, or the process dies.
RequestLost(r) ==
  /\ requester[r].pc # "idle"
  /\ requester' = [requester EXCEPT ![r] = IdleRequester]
  /\ UNCHANGED <<sale, event, creator, worker, payment, today>>

-----------------------------------------------------------------------------
(* Learning the outcome.  A poll names its event after the payment and its *)
(* final state, so a sale has one such event; a pushed event has an id of  *)
(* its own, and may be delivered again.                                    *)

\* With a bug put in: Payments' answer is stored as it is.
TerminalStateMapRaw ==
  [p \in {"paid", "closed"} |-> IF p = "paid" THEN "PAID" ELSE "DECLINED"]
\* With a bug put in: an outcome that is not known yet counts as a failure.
TerminalStateMapGuessing ==
  [p \in {"open", "paid", "closed"} |-> IF p = "paid" THEN "PAID" ELSE "PAYMENT_FAILED"]

TerminalStateMap ==
  [p \in {"paid", "closed"} |-> IF p = "paid" THEN "PAID" ELSE "PAYMENT_FAILED"]

\* The thread is done with a sale and turns to the next one of its sweep.
Onward(t) ==
  IF t.todo = {} THEN IdleWorker
  ELSE [IdleWorker EXCEPT !.pc = "looping", !.todo = t.todo,
                          !.current = t.current, !.broken = t.broken]

\* reconcile_payment, on demand.
PollRequested(w, s) ==
  /\ worker[w].pc = "idle"
  /\ sale[s].asked
  /\ worker' = [worker EXCEPT ![w] =
       [IdleWorker EXCEPT !.pc = "asking", !.at = s, !.seen = sale[s].status]]
  /\ UNCHANGED <<sale, event, creator, requester, payment, today>>

\* record_payment_event.  Nothing calls it today; an event that Payments would
\* push tells the outcome of a payment that has one.
EventPushed(w, s) ==
  /\ worker[w].pc = "idle"
  /\ sale[s].status # "ABSENT"
  /\ payment[s] \in DOMAIN TerminalStateMap
  /\ worker' = [worker EXCEPT ![w] =
       [IdleWorker EXCEPT !.pc = "checking", !.at = s, !.seen = sale[s].status,
                          !.source = "pushed",
                          !.verdict = TerminalStateMap[payment[s]]]]
  /\ UNCHANGED <<sale, event, creator, requester, payment, today>>

\* run_once.  Whether a sale has waited long enough is left open.
Waiting == {s \in Call : sale[s].status = "PAYMENT_REQUESTED"}

SweepListed(w, due) ==
  /\ worker[w].pc = "idle"
  /\ due # {} /\ due \subseteq Waiting
  /\ worker' = [worker EXCEPT ![w] =
       [IdleWorker EXCEPT !.pc = "looping", !.todo = due]]
  /\ UNCHANGED <<sale, event, creator, requester, payment, today>>

\* One session serves the sweep: a sale is as it was listed until the session
\* first commits.  A session left broken fails for every further sale.
SweepPicked(w, s) ==
  LET t == worker[w] IN
  /\ t.pc = "looping"
  /\ s \in t.todo
  /\ LET rest == [t EXCEPT !.todo = t.todo \ {s}]
     IN worker' = [worker EXCEPT ![w] =
          IF t.broken THEN Onward(rest)
          ELSE [rest EXCEPT !.pc = "asking", !.at = s,
                  !.seen = IF t.current THEN sale[s].status
                                        ELSE "PAYMENT_REQUESTED"]]
  /\ UNCHANGED <<sale, event, creator, requester, payment, today>>

\* get_payment.  A payment that has no outcome yet changes nothing.
PollAnswered(w) ==
  LET t == worker[w] IN
  /\ t.pc = "asking"
  /\ worker' = [worker EXCEPT ![w] =
       IF payment[t.at] \in DOMAIN TerminalStateMap
         THEN [t EXCEPT !.pc = "checking",
                        !.verdict = TerminalStateMap[payment[t.at]]]
         ELSE Onward(t)]
  /\ UNCHANGED <<sale, event, creator, requester, payment, today>>

PollFailed(w) ==
  /\ worker[w].pc = "asking"
  /\ worker' = [worker EXCEPT ![w] = Onward(worker[w])]
  /\ UNCHANGED <<sale, event, creator, requester, payment, today>>

\* apply_outcome: has the event been seen, and if not, may the sale, as the
\* session knows it, make the transition?
ThisEvent(t) == [sale |-> t.at, source |-> t.source]
\* With a bug put in: the event id is not unique in the table.
EventTakenNever(e) == FALSE
\* With a bug put in: an event is known by its payment alone.
EventTakenByPayment(e) == \E f \in event : f.sale = e.sale
EventTaken(e) == e \in event

OutcomeChecked(w) ==
  LET t == worker[w] IN
  /\ t.pc = "checking"
  /\ worker' = [worker EXCEPT ![w] =
       IF EventTaken(ThisEvent(t)) THEN Onward(t)
                                   ELSE [t EXCEPT !.pc = "writing"]]
  /\ UNCHANGED <<sale, event, creator, requester, payment, today>>

Legal(t) == t.seen \in SaleStatus /\ t.verdict \in Transitions[t.seen]

OutcomeApplied(w) ==
  LET t == worker[w] IN
  /\ t.pc = "writing"
  /\ Legal(t)
  /\ ~EventTaken(ThisEvent(t))
  /\ sale' = [sale EXCEPT ![t.at].status = t.verdict, ![t.at].updated = today]
  /\ event' = event \cup {ThisEvent(t)}
  /\ worker' = [worker EXCEPT ![w] = Onward([t EXCEPT !.current = TRUE])]
  /\ UNCHANGED <<creator, requester, payment, today>>

\* Another thread recorded the event first: all of it is rolled back.
OutcomeBeaten(w) ==
  LET t == worker[w] IN
  /\ t.pc = "writing"
  /\ Legal(t)
  /\ EventTaken(ThisEvent(t))
  /\ worker' = [worker EXCEPT ![w] = Onward([t EXCEPT !.current = TRUE])]
  /\ UNCHANGED <<sale, event, creator, requester, payment, today>>

\* An illegal transition is recorded and not made.  This commit is not
\* guarded: if the event was recorded meanwhile, the session breaks.
OutcomeRejected(w) ==
  LET t == worker[w] IN
  /\ t.pc = "writing"
  /\ ~Legal(t)
  /\ event' = event \cup {ThisEvent(t)}
  /\ worker' = [worker EXCEPT ![w] =
       IF EventTaken(ThisEvent(t)) THEN Onward([t EXCEPT !.broken = TRUE])
                                   ELSE Onward([t EXCEPT !.current = TRUE])]
  /\ UNCHANGED <<sale, creator, requester, payment, today>>

WorkerLost(w) ==
  /\ worker[w].pc # "idle"
  /\ worker' = [worker EXCEPT ![w] = IdleWorker]
  /\ UNCHANGED <<sale, event, creator, requester, payment, today>>

DayPasses ==
  /\ today < LastDay
  /\ today' = today + 1
  /\ UNCHANGED <<sale, event, creator, requester, worker, payment>>

-----------------------------------------------------------------------------

Next ==
  \/ \E c \in Call, k \in Key, p \in Payload :
       CreateAnswered(c, k, p) \/ CreateChecked(c, k, p)
  \/ \E c \in Call : CreateInserted(c) \/ CreateBeaten(c) \/ CreateLost(c)
  \/ \E r \in Requester, s \in Call : RequestRead(r, s)
  \/ \E r \in Requester :
       RequestAnswered(r) \/ RequestWritten(r) \/ RequestLost(r)
  \/ \E w \in Handler, s \in Call : PollRequested(w, s) \/ EventPushed(w, s)
  \/ \E w \in Sweeper, due \in SUBSET Call : SweepListed(w, due)
  \/ \E w \in Sweeper, s \in Call : SweepPicked(w, s)
  \/ \E w \in Worker :
       \/ PollAnswered(w) \/ PollFailed(w) \/ OutcomeChecked(w)
       \/ OutcomeApplied(w) \/ OutcomeBeaten(w) \/ OutcomeRejected(w)
       \/ WorkerLost(w)
  \/ \E s \in Call : PaymentSettled(s)
  \/ DayPasses

Spec == Init /\ [][Next]_vars

OutcomeWritten(w) == OutcomeApplied(w) \/ OutcomeBeaten(w) \/ OutcomeRejected(w)
PollOf(w, s) == worker[w].at = s /\ worker[w].source = "polled"

\* Nobody is sure to ask what became of a sale: the sweep is off by default and
\* callers may stop; OutcomeIsLearnt says what follows if somebody does ask.
\* But a thread that set out does not stand still, as a call to Payments ends at
\* a timeout; and for no sale does each poll fail, does each thread die at the
\* same step, or does each sweep that lists it end before its turn.
ThreadStep(w) ==
  \/ \E s \in Call : SweepPicked(w, s)
  \/ PollAnswered(w) \/ PollFailed(w) \/ OutcomeChecked(w) \/ OutcomeWritten(w)

SaleFairness(s) ==
  /\ SF_vars(\E w \in Sweeper : SweepPicked(w, s))
  /\ SF_vars(\E w \in Worker : PollOf(w, s) /\ PollAnswered(w))
  /\ SF_vars(\E w \in Worker : PollOf(w, s) /\ OutcomeChecked(w))
  /\ SF_vars(\E w \in Worker : PollOf(w, s) /\ OutcomeWritten(w))

Fairness ==
  /\ \A w \in Worker : WF_vars(ThreadStep(w))
  /\ \A s \in Call : SaleFairness(s)

FairSpec == Spec /\ Fairness

\* A thread has set out to learn what became of the sale.
Sought(s) == \E w \in Worker : s \in worker[w].todo \/ PollOf(w, s)

-----------------------------------------------------------------------------
(* Safety *)

\* create_sale: every 2xx answer for a key names one sale, the one with that
\* key and with the body the caller sent, however calls with one key interleave.
RepliesNameOneSale ==
  \A c \in Call :
    creator[c].code \in {"created", "replayed"} =>
      LET s == creator[c].sale IN
      /\ HasKey(s, creator[c].key) /\ sale[s].payload = creator[c].payload
      /\ \A q \in Call : HasKey(q, creator[c].key) => q = s

\* POS never believes more than Payments says: a sale is PAID only if its
\* payment is paid and failed only if its payment was closed without effect,
\* whatever polls, pushed events and sweeps are under way.
SaleFollowsPayment ==
  \A s \in Call :
    /\ sale[s].status = "PAID" => payment[s] = "paid"
    /\ sale[s].status = "PAYMENT_FAILED" => payment[s] = "closed"
    /\ sale[s].asked => payment[s] # "absent"

\* A sale that waits for an outcome which was already recorded will never
\* learn it, as apply_outcome drops a seen event.  With one thread of
\* request_payment this happens only to a sale that was asked for again after
\* its payment failed, never to one that was paid.
OnlyARetryIsStuck ==
  \A s \in Call :
    (sale[s].status = "PAYMENT_REQUESTED"
       /\ [sale |-> s, source |-> "polled"] \in event) => payment[s] = "closed"

\* state.py: PAID is terminal.  No step takes a sale out of it.
PaidIsFinal ==
  [][\A s \in Call : sale[s].status = "PAID" => sale'[s].status = "PAID"]_vars

\* routers/commission.py takes updated_at for the time of payment, so a PAID
\* sale must not be written again, or it moves to another day's commission.
\* The unique event id sees to that as long as polls alone report outcomes.
PaidAtIsStable ==
  [][\A s \in Call :
       (sale[s].status = "PAID" /\ [sale |-> s, source |-> "pushed"] \notin event')
         => sale'[s].updated = sale[s].updated]_vars

-----------------------------------------------------------------------------
(* Liveness *)

\* reconcile_payment: a sale may be asked about again and again, and that is how
\* POS learns what became of it.  If it is, on demand or by a sweep that is switched
\* on, and its payment is paid, it does not keep waiting: no pushed event, stale or
\* broken session, failed poll or death of a thread may see to that.
OutcomeIsLearnt ==
  \A s \in Call :
    []<>Sought(s) =>
      ((sale[s].status = "PAYMENT_REQUESTED" /\ payment[s] = "paid")
         ~> sale[s].status = "PAID")
=============================================================================
