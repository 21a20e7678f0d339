------------------------------ MODULE Payments ------------------------------
(***************************************************************************)
(* Collections in the Payments service, services/payments/core/payments.py *)
(* over core/store.py: a charge is requested from M-Pesa once per          *)
(* idempotency key, its outcome arrives by callback or by a status query,  *)
(* and a success is credited to the ledger once.                           *)
(*                                                                         *)
(* A database transaction of the code is one action: Store.tx() lets one   *)
(* writer in at a time.  Everything between two transactions, and every    *)
(* call to the provider, is a step of its own, so threads interleave where *)
(* the code lets them.  Any thread may be lost between two of its steps.   *)
(*                                                                         *)
(* One tenant.  A call of create_payment draws a fresh uuid for the        *)
(* payment, and the provider a fresh reference for the charge: both are    *)
(* named by the call, a member of Request.  Time is abstract: a deadline   *)
(* may have passed or not each time the code compares it with the clock.   *)
(***************************************************************************)
EXTENDS States, FiniteSets

CONSTANTS
  Request,         \* calls of create_payment
  Key,             \* values of the Idempotency-Key header
  Payload,         \* request bodies, up to their fingerprint
  Sale,            \* sale ids
  SaleOf,          \* the sale a body names, or None
  ReceiptOf,       \* the provider's receipt number for a charge
  Handler,         \* threads that serve a callback
  Worker,          \* threads that run a sweep or a reconcile request
  Final,           \* outcomes the adapter's result-code table can report
  Stray,           \* claims a callback may make besides the charge's outcome
  ConfirmSuccess,  \* settings.confirm_success_with_query
  None

ASSUME PaymentsAssumption ==
  /\ SaleOf \in [Payload -> Sale \cup {None}]
  /\ DOMAIN ReceiptOf = Request
  /\ Final \subseteq PaymentTerminal
  /\ Stray \subseteq [outcome : Final \cup {"UNKNOWN"}, amountOk : BOOLEAN]
  /\ ConfirmSuccess \in BOOLEAN
  /\ None \notin Request \cup Key \cup Payload \cup Sale

VARIABLES
  payment,   \* the payments table
  idem,      \* the idempotency_keys table
  ledger,    \* ledger_entries
  outbox,    \* outbox
  audit,     \* provider_callbacks: callbacks matched with a payment
  inbox,     \* unmatched_callbacks
  anomaly,   \* anomalies
  call,      \* the thread of each create_payment call
  reply,     \* what each call returned
  handler,   \* the thread of each callback
  worker,    \* the thread of each sweep or reconcile request
  charge,    \* the provider's charge of each initiate call
  sent       \* callbacks the provider may deliver, any number of times

tables == <<payment, idem, ledger, outbox, audit, inbox, anomaly>>
threads == <<call, reply, handler, worker>>
provider == <<charge, sent>>
vars == <<tables, threads, provider>>

-----------------------------------------------------------------------------
(* Types *)

State == PaymentState \cup {"ABSENT"}
Outcome == Final \cup {"UNKNOWN"}

Row == [state : State, key : Key \cup {None}, payload : Payload \cup {None},
        ref : Request \cup {None}]
PublicBody == [id : Request \cup {None}, state : State, ref : Request \cup {None}]
IdemRow == [status : {"ABSENT", "IN_FLIGHT", "COMPLETED"},
            payload : Payload \cup {None}, body : PublicBody]
Event == [ref : Request, outcome : Outcome, amountOk : BOOLEAN]
Reply == [code : {"none", "created", "replayed", "refused"},
          key : Key \cup {None}, body : PublicBody]
Anomaly == [id : Request,
            kind : {"illegal_transition", "unconfirmed_success",
                    "amount_mismatch", "window_elapsed",
                    "constraint_violation"},
            from : State,
            event : Outcome \cup {None}]

CallThread == [pc : {"ready", "calling", "finishing", "done", "lost"},
               ack : {"none", "accepted", "declined", "unknown"}]
HandlerThread == [pc : {"idle", "confirming", "applying"},
                  event : Event \cup {None},
                  confirmed : {"none", "confirmed", "contradicted", "inconclusive"}]
WorkerThread == [pc : {"idle", "listing", "looping", "querying", "applying",
                       "inconclusive"},
                 todo : SUBSET Request, at : Request \cup {None}, answer : Outcome]

NoRow == [state |-> "ABSENT", key |-> None, payload |-> None, ref |-> None]
NoBody == [id |-> None, state |-> "ABSENT", ref |-> None]
NoKey == [status |-> "ABSENT", payload |-> None, body |-> NoBody]
NoReply == [code |-> "none", key |-> None, body |-> NoBody]
IdleHandler == [pc |-> "idle", event |-> None, confirmed |-> "none"]
IdleWorker == [pc |-> "idle", todo |-> {}, at |-> None, answer |-> "UNKNOWN"]

TypeOK ==
  /\ payment \in [Request -> Row]
  /\ idem \in [Key -> IdemRow]
  /\ ledger \subseteq [id : Request, ref : Request]
  /\ outbox \subseteq [id : Request, type : PaymentTerminal]
  /\ audit \subseteq Event
  /\ inbox \subseteq Event
  /\ anomaly \subseteq Anomaly
  /\ call \in [Request -> CallThread]
  /\ reply \in [Request -> Reply]
  /\ handler \in [Handler -> HandlerThread]
  /\ worker \in [Worker -> WorkerThread]
  /\ charge \in [Request -> {"none", "rejected", "open"} \cup Final]
  /\ sent \subseteq Event

Init ==
  /\ payment = [r \in Request |-> NoRow]
  /\ idem = [k \in Key |-> NoKey]
  /\ ledger = {} /\ outbox = {} /\ audit = {} /\ inbox = {} /\ anomaly = {}
  /\ call = [r \in Request |-> [pc |-> "ready", ack |-> "none"]]
  /\ reply = [r \in Request |-> NoReply]
  /\ handler = [h \in Handler |-> IdleHandler]
  /\ worker = [w \in Worker |-> IdleWorker]
  /\ charge = [r \in Request |-> "none"]
  /\ sent = {}

Exists(r) == payment[r].state # "ABSENT"
Terminal(r) == payment[r].state \in PaymentTerminal
\* Mutant: a payment of unknown outcome does not count as live.
LiveIfKnown(r) == payment[r].state \in {"CREATED", "PENDING", "SUCCEEDED"}

Live(r) == Exists(r) /\ payment[r].state \notin {"DECLINED", "EXPIRED"}

\* _public: what a client may read of a payment.
Public(r) == [id |-> r, state |-> payment[r].state, ref |-> payment[r].ref]

\* A row's new state, by Store.transition with no other column the model keeps.
Moved(r, s) == [payment EXCEPT ![r].state = s]

-----------------------------------------------------------------------------
(* create_payment: the intent is committed, then the provider is called,   *)
(* then the answer is committed.                                           *)

\* Mutant: only a completed key is looked at.
IdemClassifyIgnoringFlight(k, p) ==
  CASE idem[k].status # "COMPLETED" -> "new"
    [] idem[k].status = "COMPLETED" /\ idem[k].payload # p -> "mismatch"
    [] idem[k].status = "COMPLETED" /\ idem[k].payload = p -> "replay"

\* Mutant: a key in flight is replayed before it has a body.
IdemClassifyReplayingFlight(k, p) ==
  CASE idem[k].status = "ABSENT" -> "new"
    [] idem[k].status # "ABSENT" /\ idem[k].payload # p -> "mismatch"
    [] idem[k].status # "ABSENT" /\ idem[k].payload = p -> "replay"

IdemClassify(k, p) ==
  CASE idem[k].status = "ABSENT" -> "new"
    [] idem[k].status # "ABSENT" /\ idem[k].payload # p -> "mismatch"
    [] idem[k].status = "COMPLETED" /\ idem[k].payload = p -> "replay"
    [] idem[k].status = "IN_FLIGHT" /\ idem[k].payload = p -> "in_flight"

\* Mutant: only a paid sale is taken.
SaleTakenIfPaid(p) ==
  /\ SaleOf[p] # None
  /\ \E q \in Request :
       payment[q].state = "SUCCEEDED" /\ SaleOf[payment[q].payload] = SaleOf[p]

\* The unique index payments_one_live_per_sale would reject the insert.
SaleTaken(p) ==
  /\ SaleOf[p] # None
  /\ \E q \in Request : Live(q) /\ SaleOf[payment[q].payload] = SaleOf[p]

Answered(r, code, k, body) ==
  /\ call' = [call EXCEPT ![r].pc = "done"]
  /\ reply' = [reply EXCEPT ![r] = [code |-> code, key |-> k, body |-> body]]

\* 409: the key holds another body or is in flight, or the sale has a live
\* payment, in which case the whole transaction is rolled back.
CreateRefused(r, k, p) ==
  /\ call[r].pc = "ready"
  /\ \/ IdemClassify(k, p) \in {"mismatch", "in_flight"}
     \/ IdemClassify(k, p) = "new" /\ SaleTaken(p)
  /\ Answered(r, "refused", k, NoBody)
  /\ UNCHANGED <<tables, handler, worker, provider>>

CreateReplayed(r, k, p) ==
  /\ call[r].pc = "ready"
  /\ IdemClassify(k, p) = "replay"
  /\ Answered(r, "replayed", k, idem[k].body)
  /\ UNCHANGED <<tables, handler, worker, provider>>

CreateBegun(r, k, p) ==
  /\ call[r].pc = "ready"
  /\ IdemClassify(k, p) = "new"
  /\ ~SaleTaken(p)
  /\ idem' = [idem EXCEPT ![k] =
                [status |-> "IN_FLIGHT", payload |-> p, body |-> NoBody]]
  /\ payment' = [payment EXCEPT ![r] =
                   [state |-> "CREATED", key |-> k, payload |-> p, ref |-> None]]
  /\ call' = [call EXCEPT ![r].pc = "calling"]
  /\ UNCHANGED <<ledger, outbox, audit, inbox, anomaly, reply, handler, worker,
                 provider>>

\* initiate_charge returns or raises.  Anything that is neither an acceptance
\* nor a ChargeDeclinedError is "unknown", and a charge may then exist.
InitiateReturned(r, made, ack) ==
  /\ call[r].pc = "calling"
  /\ charge' = [charge EXCEPT ![r] = made]
  /\ call' = [call EXCEPT ![r] = [pc |-> "finishing", ack |-> ack]]
  /\ UNCHANGED <<tables, reply, handler, worker, sent>>

ChargeAccepted(r) == InitiateReturned(r, "open", "accepted")
ChargeRejected(r) == InitiateReturned(r, "rejected", "declined")
ChargeAnswerLost(r) == InitiateReturned(r, "open", "unknown")
ChargeNotReached(r) == InitiateReturned(r, "none", "unknown")

\* Mutant: a timeout is taken for a decline.
AnswerStateDeclining(ack) ==
  IF ack = "accepted" THEN "PENDING" ELSE "DECLINED"

\* Mutant: the wrong identifier of the answer is stored.
KeptRefOfMerchant(r) ==
  IF call[r].ack = "accepted" THEN "merchant_request_id" ELSE payment[r].ref

\* Mutant: the reference is kept only if the sweeper was not faster.
KeptRefInTime(r) ==
  IF call[r].ack = "accepted" /\ payment[r].state = "CREATED"
    THEN r ELSE payment[r].ref

\* _finish_create.  The answer decides the state if the payment is still CREATED.
\* If the sweeper was faster, only the reference of an accepted charge is kept.
AnswerState(ack) ==
  CASE ack = "accepted" -> "PENDING"
    [] ack = "declined" -> "DECLINED"
    [] ack = "unknown"  -> "UNKNOWN"

KeptRef(r) == IF call[r].ack = "accepted" THEN r ELSE payment[r].ref

KeptState(r) ==
  IF payment[r].state = "CREATED" THEN AnswerState(call[r].ack) ELSE payment[r].state

FinishCreate(r) ==
  /\ call[r].pc = "finishing"
  /\ payment' = [payment EXCEPT ![r] =
                   [@ EXCEPT !.ref = KeptRef(r), !.state = KeptState(r)]]
  /\ outbox' = IF payment[r].state = "CREATED" /\ call[r].ack = "declined"
                 THEN outbox \cup {[id |-> r, type |-> "DECLINED"]} ELSE outbox
  /\ idem' = [idem EXCEPT ![payment[r].key] =
                [@ EXCEPT !.status = "COMPLETED", !.body = Public(r)']]
  /\ Answered(r, "created", payment[r].key, Public(r)')
  /\ UNCHANGED <<ledger, audit, inbox, anomaly, handler, worker, provider>>

\* The process dies, or the thread raises, around the provider call.
RequestLost(r) ==
  /\ call[r].pc \in {"calling", "finishing"}
  /\ call' = [call EXCEPT ![r].pc = "lost"]
  /\ UNCHANGED <<tables, reply, handler, worker, provider>>

-----------------------------------------------------------------------------
(* Outcomes, shared by callbacks and reconciliation                        *)

Flag(r, kind, from, event) ==
  anomaly' = anomaly \cup
    {[id |-> r, kind |-> kind, from |-> from, event |-> event]}

\* _to_review: PENDING and UNKNOWN move on to NEEDS_REVIEW, and an alert is
\* raised in any case.
ToReview(r, kind) ==
  /\ payment' = IF payment[r].state \in {"PENDING", "UNKNOWN"}
                  THEN Moved(r, "NEEDS_REVIEW") ELSE payment
  /\ Flag(r, kind, IF payment[r].state = "PENDING" THEN "UNKNOWN"
                   ELSE payment[r].state, None)
  /\ UNCHANGED <<ledger, outbox>>

\* check_transition, for an outcome that says something.
CanSettle(r, o) == o # "UNKNOWN" /\ <<payment[r].state, o>> \in PaymentLegal

\* The transition to SUCCEEDED would store a receipt another payment holds.
ReceiptTaken(r, o) ==
  /\ CanSettle(r, o) /\ o = "SUCCEEDED"
  /\ \E q \in Request \ {r} :
       /\ payment[q].state = "SUCCEEDED"
       /\ ReceiptOf[payment[q].ref] = ReceiptOf[payment[r].ref]

\* Store.ledger: ON CONFLICT DO NOTHING on the provider reference.
Credited(r, o) ==
  IF o = "SUCCEEDED" /\ \A e \in ledger : e.ref # payment[r].ref
    THEN ledger \cup {[id |-> r, ref |-> payment[r].ref]} ELSE ledger

Settle(r, o) ==
  /\ CanSettle(r, o) /\ ~ReceiptTaken(r, o)
  /\ payment' = Moved(r, o)
  /\ ledger' = Credited(r, o)
  /\ outbox' = outbox \cup {[id |-> r, type |-> o]}
  /\ UNCHANGED anomaly

\* _apply_outcome: the only path to a terminal state after the initiate call.
ApplyOutcome(r, o) ==
  \/ Settle(r, o)
  \/ /\ o = "UNKNOWN" /\ payment[r].state = "PENDING"
     /\ payment' = Moved(r, "UNKNOWN")
     /\ UNCHANGED <<ledger, outbox, anomaly>>
  \/ /\ \/ o = "UNKNOWN" /\ payment[r].state # "PENDING"
        \/ payment[r].state = o
     /\ UNCHANGED <<payment, ledger, outbox, anomaly>>
  \/ /\ o # "UNKNOWN" /\ payment[r].state # o /\ ~CanSettle(r, o)
     /\ Flag(r, "illegal_transition", payment[r].state, o)
     /\ UNCHANGED <<payment, ledger, outbox>>

-----------------------------------------------------------------------------
(* handle_callback: read the payment, confirm a success by query, apply.   *)

Claims(r, e) == e.outcome = "SUCCEEDED" /\ ~Terminal(r)

CallbackRead(h, e) ==
  /\ handler[h].pc = "idle"
  /\ e \in sent
  /\ LET asks == \E r \in Request : payment[r].ref = e.ref /\ Claims(r, e)
     IN  handler' = [handler EXCEPT ![h] =
           [pc |-> IF asks /\ ConfirmSuccess THEN "confirming" ELSE "applying",
            event |-> e, confirmed |-> "none"]]
  /\ UNCHANGED <<tables, call, reply, worker, provider>>

\* _confirm_success.  A query may always time out or not know the reference.
CallbackConfirm(h) ==
  /\ handler[h].pc = "confirming"
  /\ LET truth == charge[handler[h].event.ref]
     IN  \E verdict \in {"inconclusive"}
             \cup (IF truth = "SUCCEEDED" THEN {"confirmed"} ELSE {})
             \cup (IF truth \in Final \ {"SUCCEEDED"} THEN {"contradicted"} ELSE {}) :
           handler' = [handler EXCEPT ![h] =
             [@ EXCEPT !.pc = "applying", !.confirmed = verdict]]
  /\ UNCHANGED <<tables, call, reply, worker, provider>>

CallbackUnmatched(h, e) ==
  /\ \A r \in Request : payment[r].ref # e.ref
  /\ inbox' = inbox \cup {e}
  /\ UNCHANGED <<payment, ledger, outbox, audit, anomaly>>

\* A success claim that is not believed: the amount differs, the query said
\* otherwise, or the query did not say.
CallbackDoubted(h, e, r) ==
  /\ Claims(r, e)
  /\ \/ ~e.amountOk /\ ToReview(r, "amount_mismatch")
     \/ /\ e.amountOk /\ handler[h].confirmed = "contradicted"
        /\ Flag(r, "unconfirmed_success", payment[r].state, "SUCCEEDED")
        /\ UNCHANGED <<payment, ledger, outbox>>
     \/ /\ e.amountOk /\ handler[h].confirmed = "inconclusive"
        /\ payment' = IF payment[r].state = "PENDING"
                        THEN Moved(r, "UNKNOWN") ELSE payment
        /\ UNCHANGED <<ledger, outbox, anomaly>>

Believed(h, e, r) ==
  Claims(r, e) => e.amountOk /\ handler[h].confirmed \in {"none", "confirmed"}

CallbackMatched(h, e, r) ==
  /\ payment[r].ref = e.ref
  /\ audit' = audit \cup {e}
  /\ \/ CallbackDoubted(h, e, r)
     \/ Believed(h, e, r) /\ ApplyOutcome(r, e.outcome)
  /\ UNCHANGED inbox

\* Mutant: the state change is committed although the credit is not.
CallbackConflictHalfway(h, e, r) ==
  /\ payment[r].ref = e.ref
  /\ Believed(h, e, r) /\ ReceiptTaken(r, e.outcome)
  /\ Flag(r, "constraint_violation", "ABSENT", None)
  /\ payment' = Moved(r, e.outcome)
  /\ UNCHANGED <<ledger, outbox, audit, inbox>>

\* The transaction breaks a unique constraint: rolled back, and logged in one
\* of its own.
CallbackConflict(h, e, r) ==
  /\ payment[r].ref = e.ref
  /\ Believed(h, e, r) /\ ReceiptTaken(r, e.outcome)
  /\ Flag(r, "constraint_violation", "ABSENT", None)
  /\ UNCHANGED <<payment, ledger, outbox, audit, inbox>>

CallbackApply(h) ==
  /\ handler[h].pc = "applying"
  /\ LET e == handler[h].event
     IN  \/ CallbackUnmatched(h, e)
         \/ \E r \in Request : CallbackMatched(h, e, r) \/ CallbackConflict(h, e, r)
  /\ handler' = [handler EXCEPT ![h] = IdleHandler]
  /\ UNCHANGED <<idem, call, reply, worker, provider>>

CallbackLost(h) ==
  /\ handler[h].pc # "idle"
  /\ handler' = [handler EXCEPT ![h] = IdleHandler]
  /\ UNCHANGED <<tables, call, reply, worker, provider>>

-----------------------------------------------------------------------------
(* sweep and reconcile_payment *)

\* Mutant: the sweep forgets the rows that never left CREATED.
RowsSweptIfPending(late, lost) ==
  [r \in Request |-> IF r \in lost
     THEN [payment[r] EXCEPT !.state = "UNKNOWN"] ELSE payment[r]]

\* Mutant: pending_since alone decides, which a row keeps when it is settled.
RowsSweptSettled(late, lost) ==
  [r \in Request |-> IF r \in late \cup lost \/ Terminal(r)
     THEN [payment[r] EXCEPT !.state = "UNKNOWN"] ELSE payment[r]]

\* Mutant: the sweep does not complete the key.
KeysSweptNever(late) == idem

\* The sweep's transaction.  late and lost are the rows past their deadline.
\* The key of a late row is completed with the body a client would now read.
RowsSwept(late, lost) ==
  [r \in Request |-> IF r \in late \cup lost
     THEN [payment[r] EXCEPT !.state = "UNKNOWN"] ELSE payment[r]]

KeysSwept(late) ==
  [k \in Key |-> IF \E r \in late : payment[r].key = k
     THEN [idem[k] EXCEPT !.status = "COMPLETED",
             !.body = [Public(CHOOSE r \in late : payment[r].key = k)
                         EXCEPT !.state = "UNKNOWN"]]
     ELSE idem[k]]

SweepExpire(w, late, lost) ==
  /\ worker[w].pc = "idle"
  /\ late \subseteq {r \in Request : payment[r].state = "CREATED"}
  /\ lost \subseteq {r \in Request : payment[r].state = "PENDING"}
  /\ payment' = RowsSwept(late, lost)
  /\ idem' = KeysSwept(late)
  /\ worker' = [worker EXCEPT ![w].pc = "listing"]
  /\ UNCHANGED <<ledger, outbox, audit, inbox, anomaly, call, reply, handler,
                 provider>>

Unresolved(r) == payment[r].state \in {"UNKNOWN", "NEEDS_REVIEW"}

\* due: the unresolved payments whose next_reconcile_at has come.
SweepList(w, due) ==
  /\ worker[w].pc = "listing"
  /\ due \subseteq {r \in Request : Unresolved(r)}
  /\ worker' = [worker EXCEPT ![w].pc = "looping", ![w].todo = due]
  /\ UNCHANGED <<tables, call, reply, handler, provider>>

\* The head of reconcile_payment: nothing to do, nothing to ask with, or ask.
ReconcileRead(w, r, rest) ==
  /\ worker' = [worker EXCEPT ![w] =
       [pc |-> CASE ~Unresolved(r) -> "looping"
                 [] Unresolved(r) /\ payment[r].ref = None -> "inconclusive"
                 [] Unresolved(r) /\ payment[r].ref # None -> "querying",
        todo |-> rest,
        at |-> IF Unresolved(r) THEN r ELSE None,
        answer |-> "UNKNOWN"]]
  /\ UNCHANGED <<tables, call, reply, handler, provider>>

\* reconcile_payment returns, and the sweep's loop goes on.
Resume(w) ==
  worker' = [worker EXCEPT ![w] =
    [pc |-> "looping", todo |-> worker[w].todo, at |-> None, answer |-> "UNKNOWN"]]

SweepPick(w, r) ==
  /\ worker[w].pc = "looping"
  /\ r \in worker[w].todo
  /\ ReconcileRead(w, r, worker[w].todo \ {r})

SweepDone(w) ==
  /\ worker[w].pc = "looping" /\ worker[w].todo = {}
  /\ worker' = [worker EXCEPT ![w] = IdleWorker]
  /\ UNCHANGED <<tables, call, reply, handler, provider>>

\* POST /payments/{id}/reconcile.
ReconcileRequested(w, r) ==
  /\ worker[w].pc = "idle" /\ Exists(r)
  /\ ReconcileRead(w, r, {})

QueryAnswered(w) ==
  /\ worker[w].pc = "querying"
  /\ LET truth == charge[payment[worker[w].at].ref]
     IN  /\ truth \in Final
         /\ worker' = [worker EXCEPT ![w] =
                         [@ EXCEPT !.pc = "applying", !.answer = truth]]
  /\ UNCHANGED <<tables, call, reply, handler, provider>>

\* A timeout, an unknown reference, or an answer that the charge is open.
QueryInconclusive(w) ==
  /\ worker[w].pc = "querying"
  /\ worker' = [worker EXCEPT ![w].pc = "inconclusive"]
  /\ UNCHANGED <<tables, call, reply, handler, provider>>

ReconcileApply(w) ==
  /\ worker[w].pc = "applying"
  /\ ApplyOutcome(worker[w].at, worker[w].answer)
  /\ Resume(w)
  /\ UNCHANGED <<idem, audit, inbox, call, reply, handler, provider>>

\* A broken unique constraint is not caught here: it ends the whole sweep.
ReconcileAborted(w) ==
  /\ worker[w].pc = "applying"
  /\ ReceiptTaken(worker[w].at, worker[w].answer)
  /\ worker' = [worker EXCEPT ![w] = IdleWorker]
  /\ UNCHANGED <<tables, call, reply, handler, provider>>

\* Mutant: the reconcile window never elapses.
GivesUpNever(w, elapsed) == FALSE

GivesUp(w, elapsed) == elapsed /\ payment[worker[w].at].state = "UNKNOWN"

\* _inconclusive: back off, or give up when the reconcile window has elapsed.
ReconcileInconclusive(w, elapsed) ==
  /\ worker[w].pc = "inconclusive"
  /\ IF GivesUp(w, elapsed)
       THEN ToReview(worker[w].at, "window_elapsed")
       ELSE UNCHANGED <<payment, ledger, outbox, anomaly>>
  /\ Resume(w)
  /\ UNCHANGED <<idem, audit, inbox, call, reply, handler, provider>>

WorkerLost(w) ==
  /\ worker[w].pc # "idle"
  /\ worker' = [worker EXCEPT ![w] = IdleWorker]
  /\ UNCHANGED <<tables, call, reply, handler, provider>>

-----------------------------------------------------------------------------
(* The provider, as the adapter port shows it *)

\* The customer pays, declines or lets the prompt expire.  The outcome never
\* changes, and its callback may now arrive, late, again and again, or never.
ChargeResolved(r, o) ==
  /\ charge[r] = "open"
  /\ charge' = [charge EXCEPT ![r] = o]
  /\ sent' = sent \cup {[ref |-> r, outcome |-> o, amountOk |-> TRUE]}
  /\ UNCHANGED <<tables, threads>>

\* A callback that does not tell the charge's outcome.
CallbackStray(r, s) ==
  /\ charge[r] \in {"open"} \cup Final
  /\ sent' = sent \cup {[ref |-> r, outcome |-> s.outcome, amountOk |-> s.amountOk]}
  /\ UNCHANGED <<tables, threads, charge>>

-----------------------------------------------------------------------------
RequestStep(r) ==
  \/ \E k \in Key, p \in Payload :
       CreateRefused(r, k, p) \/ CreateReplayed(r, k, p) \/ CreateBegun(r, k, p)
  \/ ChargeAccepted(r) \/ ChargeRejected(r) \/ ChargeAnswerLost(r)
  \/ ChargeNotReached(r)
  \/ FinishCreate(r) \/ RequestLost(r)

HandlerStep(h) ==
  \/ \E e \in sent : CallbackRead(h, e)
  \/ CallbackConfirm(h) \/ CallbackApply(h) \/ CallbackLost(h)

WorkerStep(w) ==
  \/ \E late, lost \in SUBSET Request : SweepExpire(w, late, lost)
  \/ \E due \in SUBSET Request : SweepList(w, due)
  \/ SweepDone(w)
  \/ \E r \in Request : SweepPick(w, r) \/ ReconcileRequested(w, r)
  \/ QueryAnswered(w) \/ QueryInconclusive(w)
  \/ ReconcileApply(w) \/ ReconcileAborted(w)
  \/ \E elapsed \in BOOLEAN : ReconcileInconclusive(w, elapsed)
  \/ WorkerLost(w)

ProviderStep(r) ==
  \/ \E o \in Final : ChargeResolved(r, o)
  \/ \E s \in Stray : CallbackStray(r, s)

Next ==
  \/ \E r \in Request : RequestStep(r) \/ ProviderStep(r)
  \/ \E h \in Handler : HandlerStep(h)
  \/ \E w \in Worker : WorkerStep(w)

Spec == Init /\ [][Next]_vars

\* A sweep starts every few minutes, and the clock moves on: again and again a
\* sweep finds every row past its deadline.  No sweep is killed every time, no
\* query fails every time, and the reconcile window is finite.  Nothing is
\* assumed of clients, of create_payment's threads or of callbacks.
Fairness ==
  \A w \in Worker :
    /\ SF_vars(SweepExpire(w, {r \in Request : payment[r].state = "CREATED"},
                              {r \in Request : payment[r].state = "PENDING"}))
    /\ SF_vars(SweepList(w, {r \in Request : Unresolved(r)}))
    /\ \A r \in Request : SF_vars(SweepPick(w, r))
    /\ SF_vars(SweepDone(w))
    /\ SF_vars(QueryAnswered(w) \/ QueryInconclusive(w))
    /\ SF_vars(QueryAnswered(w))
    /\ SF_vars(ReconcileApply(w))
    /\ SF_vars(ReconcileInconclusive(w, TRUE))

FairSpec == Spec /\ Fairness

-----------------------------------------------------------------------------
(* Safety *)

\* A SUCCEEDED payment has exactly one credit, for its own provider reference,
\* and no other payment has any; a payment announced its outcome exactly when
\* it reached one, and announced no other.
EffectsMatchState ==
  \A r \in Request :
    /\ {e \in ledger : e.id = r}
         = IF payment[r].state = "SUCCEEDED"
             THEN {[id |-> r, ref |-> payment[r].ref]} ELSE {}
    /\ {e \in outbox : e.id = r}
         = IF Terminal(r) THEN {[id |-> r, type |-> payment[r].state]} ELSE {}

\* No receipt number is on two paid payments, so a receipt that the provider
\* repeats cannot credit a second one.
ReceiptsAreUnique ==
  \A r, q \in Request :
    (r # q /\ payment[r].state = "SUCCEEDED" /\ payment[q].state = "SUCCEEDED")
      => ReceiptOf[payment[r].ref] # ReceiptOf[payment[q].ref]

\* A key is in flight exactly while its payment is CREATED, so a crash cannot
\* leave a key that answers 409 for good.
InFlightIffCreated ==
  \A r \in Request : Exists(r) =>
    /\ idem[payment[r].key].payload = payment[r].payload
    /\ idem[payment[r].key].status
         = IF payment[r].state = "CREATED" THEN "IN_FLIGHT" ELSE "COMPLETED"

\* Two calls with one key never both reach the provider (ADR 0006, I5, I11).
ChargedOncePerKey ==
  \A r, q \in Request :
    (r # q /\ charge[r] # "none" /\ charge[q] # "none")
      => payment[r].key # payment[q].key

\* A customer is never asked to pay a sale twice: of the charges for one sale
\* at most one is open or paid (I12).
ChargedOncePerSale ==
  \A r, q \in Request :
    (/\ r # q
     /\ charge[r] \in {"open", "SUCCEEDED"} /\ charge[q] \in {"open", "SUCCEEDED"}
     /\ SaleOf[payment[r].payload] # None)
      => SaleOf[payment[r].payload] # SaleOf[payment[q].payload]

\* A terminal state is the provider's word, never a deadline or a timeout (I6).
OutcomeIsTheProviders ==
  \A r \in Request : Terminal(r) =>
    \/ payment[r].state = charge[r]
    \/ payment[r].state = "DECLINED" /\ charge[r] = "rejected"

Accepted2xx(r) == reply[r].code \in {"created", "replayed"}

\* Every call with one key that was answered 2xx was told of one payment.
RepliesNameOnePayment ==
  \A r, q \in Request :
    (Accepted2xx(r) /\ Accepted2xx(q) /\ reply[r].key = reply[q].key)
      => /\ reply[r].body.id # None
         /\ reply[r].body.id = reply[q].body.id

\* A terminal payment never changes again, and no credit, event or alert is
\* ever taken back (I7).
TerminalIsFinal ==
  [][/\ \A r \in Request : Terminal(r) => payment'[r] = payment[r]
     /\ ledger \subseteq ledger' /\ outbox \subseteq outbox'
     /\ anomaly \subseteq anomaly']_vars

-----------------------------------------------------------------------------
(* What the documents say and the code does not keep (see the README) *)

\* Money is credited only when the provider, asked, has it: "Money transitions
\* never trust the body alone" (ADR 0006, Callback authenticity).
CreditsAreReal ==
  \A e \in ledger : charge[e.ref] = "SUCCEEDED"

-----------------------------------------------------------------------------
(* Liveness *)

\* A crash between the intent and the answer is swept up: no payment, and so no
\* idempotency key, stays as the lost thread left it.
CreatedIsSwept ==
  \A r \in Request : payment[r].state = "CREATED" ~> payment[r].state # "CREATED"

\* A charge the provider accepted and resolved reaches its outcome although no
\* callback need ever arrive, and although the sweeper may have been faster
\* than the answer to the initiate call.
AcceptedIsResolved ==
  \A r \in Request :
    (reply[r].code = "created" /\ call[r].ack = "accepted" /\ charge[r] \in Final)
      ~> Terminal(r)

\* Nothing stays UNKNOWN: it is resolved, or a person is asked.
UnknownIsEscalated ==
  \A r \in Request : payment[r].state = "UNKNOWN" ~> payment[r].state # "UNKNOWN"

-----------------------------------------------------------------------------
(* Refinement: the service implements MoneyPromise. *)

StatusOf(r) ==
  CASE payment[r].state = "ABSENT" -> "absent"
    [] payment[r].state \in {"CREATED", "PENDING", "UNKNOWN", "NEEDS_REVIEW"} -> "open"
    [] payment[r].state = "SUCCEEDED" -> "paid"
    [] payment[r].state \in {"DECLINED", "EXPIRED"} -> "closed"

Promise == INSTANCE MoneyPromise WITH
  Movement <- Request,
  Ref <- Request,
  Purpose <- Sale,
  status <- [r \in Request |-> StatusOf(r)],
  purpose <- [r \in Request |-> IF Exists(r) THEN SaleOf[payment[r].payload] ELSE None],
  booked <- [r \in Request |-> {e.ref : e \in {c \in ledger : c.id = r}}]

\* Every behaviour of the service is one that MoneyPromise allows.
KeepsPromise == Promise!Spec
=============================================================================
