------------------------------ MODULE Payouts -------------------------------
(***************************************************************************)
(* Payouts in the Payments service, services/payments/core/payouts.py over *)
(* core/store.py: Commission asks for a transfer to an attendant, once per *)
(* idempotency key and once per attendant and period; its outcome arrives  *)
(* by result callback or by a status query, and a success is debited once. *)
(* A failure that will hit every payout switches all of them off.          *)
(*                                                                         *)
(* As in Payments, a database transaction is one action, and each read and *)
(* each provider call outside a transaction is a step of its own.  A call  *)
(* of create_payout draws a fresh uuid, from which the service derives the *)
(* provider's reference: both are named by the call, a member of Request.  *)
(* The conversation id the provider adds is never used to decide anything  *)
(* and is left out.  A deadline may have passed or not whenever the code   *)
(* compares it with the clock.                                             *)
(***************************************************************************)
EXTENDS States, FiniteSets

CONSTANTS
  Request,    \* calls of create_payout
  Key,        \* values of the Idempotency-Key header
  Payload,    \* request bodies, up to their fingerprint
  InLimits,   \* the bodies whose amount is within the limits
  Period,     \* payout keys: an attendant's period
  PeriodOf,   \* derive_payout_key of a body
  ReceiptOf,  \* the provider's receipt number for a transfer
  Worker,     \* threads that run a sweep or a reconcile request
  Final,      \* verdicts the adapter's result-code table can report
  Stray,      \* claims a result may make besides the transfer's verdict
  None

\* What the provider says of a transfer.  BLOCKED is a failure for one of the
\* TRIPPING_REASONS, FAILED one for any other reason.
Verdict == {"SUCCEEDED", "FAILED", "BLOCKED"}

ASSUME PayoutsAssumption ==
  /\ InLimits \subseteq Payload
  /\ PeriodOf \in [Payload -> Period]
  /\ DOMAIN ReceiptOf = Request
  /\ Final \subseteq Verdict
  /\ Stray \subseteq [verdict : Final \cup {"UNKNOWN"}, amountOk : BOOLEAN]
  /\ None \notin Request \cup Key \cup Payload \cup Period

VARIABLES
  payout,    \* the disbursements table
  idem,      \* the idempotency_keys table
  ledger,    \* ledger_entries
  outbox,    \* outbox
  audit,     \* provider_callbacks: results matched with a payout
  inbox,     \* unmatched_callbacks
  anomaly,   \* anomalies
  enabled,   \* the flag payouts_enabled
  call,      \* the thread of each create_payout call
  reply,     \* what each call returned
  worker,    \* the thread of each sweep or reconcile request
  transfer,  \* the provider's transfer of each disburse call
  sent       \* results the provider may deliver, any number of times

tables == <<payout, idem, ledger, outbox, audit, inbox, anomaly, enabled>>
threads == <<call, reply, worker>>
provider == <<transfer, sent>>
vars == <<tables, threads, provider>>

-----------------------------------------------------------------------------
(* Types *)

State == DisbursementState \cup {"ABSENT"}
Reason == {"none", "refused", "tripping"}

Row == [state : State, key : Key \cup {None}, payload : Payload \cup {None},
        oid : Request \cup {None}, reason : Reason]
PublicBody == [id : Request \cup {None}, state : State, reason : Reason]
IdemRow == [status : {"ABSENT", "IN_FLIGHT", "COMPLETED"},
            payload : Payload \cup {None}, body : PublicBody]
Event == [ref : Request, verdict : Final \cup {"UNKNOWN"}, amountOk : BOOLEAN]
Reply == [code : {"none", "created", "replayed", "refused", "disabled", "conflict"},
          key : Key \cup {None}, body : PublicBody]
Anomaly == [id : Request,
            kind : {"illegal_transition", "amount_mismatch", "window_elapsed",
                    "payouts_paused", "constraint_violation"},
            from : State]

CallThread == [pc : {"ready", "checked", "admitted", "conflict", "calling",
                     "finishing", "done", "lost"},
               key : Key \cup {None}, payload : Payload \cup {None},
               ack : {"none", "accepted", "refused", "tripping", "unknown"}]
WorkerThread == [pc : {"idle", "listing", "looping", "querying", "applying",
                       "inconclusive"},
                 todo : SUBSET Request, at : Request \cup {None},
                 answer : Final \cup {"UNKNOWN"}]

NoRow == [state |-> "ABSENT", key |-> None, payload |-> None, oid |-> None,
          reason |-> "none"]
NoBody == [id |-> None, state |-> "ABSENT", reason |-> "none"]
NoKey == [status |-> "ABSENT", payload |-> None, body |-> NoBody]
NoReply == [code |-> "none", key |-> None, body |-> NoBody]
NewCall == [pc |-> "ready", key |-> None, payload |-> None, ack |-> "none"]
IdleWorker == [pc |-> "idle", todo |-> {}, at |-> None, answer |-> "UNKNOWN"]

TypeOK ==
  /\ payout \in [Request -> Row]
  /\ idem \in [Key -> IdemRow]
  /\ ledger \subseteq [id : Request, ref : Request]
  /\ outbox \subseteq [id : Request, type : DisbursementTerminal]
  /\ audit \subseteq Event
  /\ inbox \subseteq Event
  /\ anomaly \subseteq Anomaly
  /\ enabled \in BOOLEAN
  /\ call \in [Request -> CallThread]
  /\ reply \in [Request -> Reply]
  /\ worker \in [Worker -> WorkerThread]
  /\ transfer \in [Request -> {"none", "rejected", "open"} \cup Final]
  /\ sent \subseteq Event

\* The flag starts as the setting payouts_enabled says.
Init ==
  /\ payout = [r \in Request |-> NoRow]
  /\ idem = [k \in Key |-> NoKey]
  /\ ledger = {} /\ outbox = {} /\ audit = {} /\ inbox = {} /\ anomaly = {}
  /\ enabled \in BOOLEAN
  /\ call = [r \in Request |-> NewCall]
  /\ reply = [r \in Request |-> NoReply]
  /\ worker = [w \in Worker |-> IdleWorker]
  /\ transfer = [r \in Request |-> "none"]
  /\ sent = {}

Exists(r) == payout[r].state # "ABSENT"
Terminal(r) == payout[r].state \in DisbursementTerminal

\* Mutant: a payout of unknown outcome does not count as live.
LiveIfKnown(r) == payout[r].state \in {"CREATED", "PENDING", "SUCCEEDED"}

Live(r) == Exists(r) /\ payout[r].state # "FAILED"

\* _public: what Commission may read of a payout.
Public(r) == [id |-> r, state |-> payout[r].state, reason |-> payout[r].reason]

Moved(r, s) == [payout EXCEPT ![r].state = s]

-----------------------------------------------------------------------------
(* create_payout up to the insert: three reads, then a transaction that    *)
(* repeats the first of them.                                              *)

\* Mutant: a key in flight is not looked at.
IdemClassifyIgnoringFlight(k, p) ==
  CASE idem[k].status # "COMPLETED" -> "new"
    [] idem[k].status = "COMPLETED" /\ idem[k].payload # p -> "mismatch"
    [] idem[k].status = "COMPLETED" /\ idem[k].payload = p -> "replay"

IdemClassify(k, p) ==
  CASE idem[k].status = "ABSENT" -> "new"
    [] idem[k].status # "ABSENT" /\ idem[k].payload # p -> "mismatch"
    [] idem[k].status = "COMPLETED" /\ idem[k].payload = p -> "replay"
    [] idem[k].status = "IN_FLIGHT" /\ idem[k].payload = p -> "in_flight"

Replied(r, code, k, body) ==
  /\ call' = [call EXCEPT ![r] = [NewCall EXCEPT !.pc = "done"]]
  /\ reply' = [reply EXCEPT ![r] = [code |-> code, key |-> k, body |-> body]]
  /\ UNCHANGED <<tables, worker, provider>>

\* _idem_reply: a key that is known already is answered from its row.
IdemReplied(r, k, p) ==
  \/ IdemClassify(k, p) = "replay" /\ Replied(r, "replayed", k, idem[k].body)
  \/ IdemClassify(k, p) \in {"mismatch", "in_flight"} /\ Replied(r, "refused", k, NoBody)

CreateAnsweredEarly(r, k, p) ==
  /\ call[r].pc = "ready"
  /\ IdemReplied(r, k, p)

\* 422.
CreateOverLimit(r, k, p) ==
  /\ call[r].pc = "ready"
  /\ IdemClassify(k, p) = "new" /\ p \notin InLimits
  /\ Replied(r, "refused", k, NoBody)

CreateChecked(r, k, p) ==
  /\ call[r].pc = "ready"
  /\ IdemClassify(k, p) = "new" /\ p \in InLimits
  /\ call' = [call EXCEPT ![r] = [NewCall EXCEPT !.pc = "checked", !.key = k, !.payload = p]]
  /\ UNCHANGED <<tables, reply, worker, provider>>

CreateAdmitted(r) ==
  /\ call[r].pc = "checked" /\ enabled
  /\ call' = [call EXCEPT ![r].pc = "admitted"]
  /\ UNCHANGED <<tables, reply, worker, provider>>

\* 503 payouts_disabled.
CreateDisabled(r) ==
  /\ call[r].pc = "checked" /\ ~enabled
  /\ Replied(r, "disabled", call[r].key, NoBody)

\* The first check again, now in the transaction.
CreateAnsweredLate(r) ==
  /\ call[r].pc = "admitted"
  /\ IdemReplied(r, call[r].key, call[r].payload)

\* Mutant: only a payout that was made holds its period.
RivalsIfPaid(p) ==
  {q \in Request : /\ payout[q].state = "SUCCEEDED"
                   /\ PeriodOf[payout[q].payload] = PeriodOf[p]}

Rivals(p) == {q \in Request : Live(q) /\ PeriodOf[payout[q].payload] = PeriodOf[p]}

\* originator_id_for: the provider's reference is the service's own choice, and
\* is in the row before the provider is called.
CreateBegun(r) ==
  LET k == call[r].key
      p == call[r].payload
  IN  /\ call[r].pc = "admitted"
      /\ IdemClassify(k, p) = "new" /\ Rivals(p) = {}
      /\ idem' = [idem EXCEPT ![k] =
                    [status |-> "IN_FLIGHT", payload |-> p, body |-> NoBody]]
      /\ payout' = [payout EXCEPT ![r] =
                      [state |-> "CREATED", key |-> k, payload |-> p,
                       oid |-> r, reason |-> "none"]]
      /\ call' = [call EXCEPT ![r].pc = "calling"]
      /\ UNCHANGED <<ledger, outbox, audit, inbox, anomaly, enabled, reply, worker,
                     provider>>

\* The unique index disbursements_one_live_per_payout rejects the insert, and
\* the transaction is rolled back.
CreateConflict(r) ==
  /\ call[r].pc = "admitted"
  /\ IdemClassify(call[r].key, call[r].payload) = "new"
  /\ Rivals(call[r].payload) # {}
  /\ call' = [call EXCEPT ![r].pc = "conflict"]
  /\ UNCHANGED <<tables, reply, worker, provider>>

\* 409 payout_already_requested, naming the live payout of the period, which
\* is looked up only now and may have failed meanwhile.
ConflictReplied(r) ==
  /\ call[r].pc = "conflict"
  /\ \/ \E q \in Rivals(call[r].payload) :
          Replied(r, "conflict", call[r].key, [NoBody EXCEPT !.id = q])
     \/ /\ Rivals(call[r].payload) = {}
        /\ Replied(r, "conflict", call[r].key, NoBody)

-----------------------------------------------------------------------------
(* create_payout from the provider call on *)

\* disburse returns or raises.  Anything that is neither an acceptance nor a
\* DisbursementRejectedError is "unknown", and a transfer may then exist.
DisburseReturned(r, made, ack) ==
  /\ call[r].pc = "calling"
  /\ transfer' = [transfer EXCEPT ![r] = made]
  /\ call' = [call EXCEPT ![r].pc = "finishing", ![r].ack = ack]
  /\ UNCHANGED <<tables, reply, worker, sent>>

TransferAccepted(r) == DisburseReturned(r, "open", "accepted")
TransferRejected(r, reason) == DisburseReturned(r, "rejected", reason)
TransferAnswerLost(r) == DisburseReturned(r, "open", "unknown")
TransferNotReached(r) == DisburseReturned(r, "none", "unknown")

Flag(r, kind, from) ==
  anomaly' = anomaly \cup {[id |-> r, kind |-> kind, from |-> from]}

\* Mutant: only the result callback trips the kill switch.
TripsUnlessCreated(r, reason) == reason = "tripping" /\ payout[r].state # "CREATED"

Trips(r, reason) == reason = "tripping"

\* _fail, with _trip.
Fail(r, reason) ==
  /\ payout' = [payout EXCEPT ![r].state = "FAILED", ![r].reason = reason]
  /\ outbox' = outbox \cup {[id |-> r, type |-> "FAILED"]}
  /\ IF Trips(r, reason)
       THEN enabled' = FALSE /\ Flag(r, "payouts_paused", "ABSENT")
       ELSE UNCHANGED <<enabled, anomaly>>
  /\ UNCHANGED ledger

\* Mutant: a timeout is taken for a failure that frees the period.
AnswerStateFailing(ack) == IF ack = "accepted" THEN "PENDING" ELSE "FAILED"

AnswerState(ack) == IF ack = "accepted" THEN "PENDING" ELSE "UNKNOWN"

\* _finish_create: the answer decides the state if the payout is still CREATED.
\* If a result or the sweeper was faster it changes nothing, not even when it
\* is a rejection.  The key is completed in any case.
FinishCreate(r) ==
  /\ call[r].pc = "finishing"
  /\ \/ /\ payout[r].state = "CREATED" /\ call[r].ack \in {"refused", "tripping"}
        /\ Fail(r, call[r].ack)
     \/ /\ payout[r].state = "CREATED" /\ call[r].ack \in {"accepted", "unknown"}
        /\ payout' = Moved(r, AnswerState(call[r].ack))
        /\ UNCHANGED <<ledger, outbox, anomaly, enabled>>
     \/ /\ payout[r].state # "CREATED"
        /\ UNCHANGED <<payout, ledger, outbox, anomaly, enabled>>
  /\ idem' = [idem EXCEPT ![payout[r].key] =
                [@ EXCEPT !.status = "COMPLETED", !.body = Public(r)']]
  /\ call' = [call EXCEPT ![r] = [NewCall EXCEPT !.pc = "done"]]
  /\ reply' = [reply EXCEPT ![r] =
                 [code |-> "created", key |-> payout[r].key, body |-> Public(r)']]
  /\ UNCHANGED <<audit, inbox, worker, provider>>

\* The process dies around the provider call.
RequestLost(r) ==
  /\ call[r].pc \in {"calling", "finishing"}
  /\ call' = [call EXCEPT ![r] = [NewCall EXCEPT !.pc = "lost"]]
  /\ UNCHANGED <<tables, reply, worker, provider>>

-----------------------------------------------------------------------------
(* Outcomes, shared by results and reconciliation *)

CanReview(r) == payout[r].state \in {"CREATED", "PENDING", "UNKNOWN"}

\* _to_review: CREATED passes through PENDING, and PENDING through UNKNOWN.
ToReview(r, kind) ==
  /\ payout' = IF CanReview(r) THEN Moved(r, "NEEDS_REVIEW") ELSE payout
  /\ Flag(r, kind, IF CanReview(r) THEN "UNKNOWN" ELSE payout[r].state)
  /\ UNCHANGED <<ledger, outbox, enabled>>

Target(v) == IF v = "SUCCEEDED" THEN "SUCCEEDED" ELSE "FAILED"

\* Mutant: a terminal state is not checked.
CanSettleAnyway(r, v) == v # "UNKNOWN" /\ payout[r].state # Target(v)

\* CREATED passes through PENDING first, by two legal transitions.
CanSettle(r, v) ==
  /\ v # "UNKNOWN"
  /\ \/ <<payout[r].state, Target(v)>> \in DisbursementLegal
     \/ payout[r].state = "CREATED"

\* The transition to SUCCEEDED would store a receipt another payout holds.
ReceiptTaken(r, v) ==
  /\ CanSettle(r, v) /\ v = "SUCCEEDED"
  /\ \E q \in Request \ {r} :
       /\ payout[q].state = "SUCCEEDED"
       /\ ReceiptOf[payout[q].oid] = ReceiptOf[payout[r].oid]

\* Store.ledger: ON CONFLICT DO NOTHING on the provider reference.
Debited(r) ==
  IF \A e \in ledger : e.ref # payout[r].oid
    THEN ledger \cup {[id |-> r, ref |-> payout[r].oid]} ELSE ledger

Settle(r, v) ==
  /\ CanSettle(r, v) /\ ~ReceiptTaken(r, v)
  /\ \/ /\ v = "SUCCEEDED"
        /\ payout' = Moved(r, "SUCCEEDED")
        /\ ledger' = Debited(r)
        /\ outbox' = outbox \cup {[id |-> r, type |-> "SUCCEEDED"]}
        /\ UNCHANGED <<anomaly, enabled>>
     \/ v = "FAILED" /\ Fail(r, "refused")
     \/ v = "BLOCKED" /\ Fail(r, "tripping")

\* Mutant: only a result that takes back a success is reported.
ContradictionLoggedIfPaid(r) ==
  IF payout[r].state = "SUCCEEDED"
    THEN Flag(r, "illegal_transition", payout[r].state) ELSE UNCHANGED anomaly

ContradictionLogged(r) == Flag(r, "illegal_transition", payout[r].state)

\* _apply_outcome.
ApplyOutcome(r, v) ==
  \/ Settle(r, v)
  \/ /\ v = "UNKNOWN" /\ payout[r].state = "PENDING"
     /\ payout' = Moved(r, "UNKNOWN")
     /\ UNCHANGED <<ledger, outbox, anomaly, enabled>>
  \/ /\ \/ v = "UNKNOWN" /\ payout[r].state # "PENDING"
        \/ payout[r].state = Target(v)
     /\ UNCHANGED <<payout, ledger, outbox, anomaly, enabled>>
  \/ /\ v # "UNKNOWN" /\ payout[r].state # Target(v) /\ ~CanSettle(r, v)
     /\ ContradictionLogged(r)
     /\ UNCHANGED <<payout, ledger, outbox, enabled>>

-----------------------------------------------------------------------------
(* handle_result: one transaction, for the stored reference makes a result *)
(* match its payout from the start.                                        *)

\* Mutant: a result is matched by what the acknowledgement brought.
MatchesOnceAcknowledged(r, e) == payout[r].oid = e.ref /\ payout[r].state # "CREATED"

Matches(r, e) == payout[r].oid = e.ref

ResultUnmatched(e) ==
  /\ \A r \in Request : ~Matches(r, e)
  /\ inbox' = inbox \cup {e}
  /\ UNCHANGED <<payout, ledger, outbox, audit, anomaly, enabled>>

\* A success claim for another amount than was asked for.
Doubtful(r, e) == e.verdict = "SUCCEEDED" /\ ~Terminal(r) /\ ~e.amountOk

ResultMatched(r, e) ==
  /\ Matches(r, e)
  /\ audit' = audit \cup {e}
  /\ \/ Doubtful(r, e) /\ ToReview(r, "amount_mismatch")
     \/ ~Doubtful(r, e) /\ ApplyOutcome(r, e.verdict)
  /\ UNCHANGED inbox

\* Mutant: the state change is committed although the debit is not.
ResultConflictHalfway(r, e) ==
  /\ Matches(r, e) /\ ~Doubtful(r, e) /\ ReceiptTaken(r, e.verdict)
  /\ Flag(r, "constraint_violation", "ABSENT")
  /\ payout' = Moved(r, e.verdict)
  /\ UNCHANGED <<ledger, outbox, audit, inbox, enabled>>

\* The transaction breaks a unique constraint: rolled back, and logged in one
\* of its own.
ResultConflict(r, e) ==
  /\ Matches(r, e) /\ ~Doubtful(r, e) /\ ReceiptTaken(r, e.verdict)
  /\ Flag(r, "constraint_violation", "ABSENT")
  /\ UNCHANGED <<payout, ledger, outbox, audit, inbox, enabled>>

ResultArrives(e) ==
  /\ \/ ResultUnmatched(e)
     \/ \E r \in Request : ResultMatched(r, e) \/ ResultConflict(r, e)
  /\ UNCHANGED <<idem, threads, provider>>

-----------------------------------------------------------------------------
(* sweep and reconcile_payout *)

\* Mutant: the sweep forgets the rows that never left CREATED.
RowsSweptIfPending(late, lost) ==
  [r \in Request |-> IF r \in lost
     THEN [payout[r] EXCEPT !.state = "UNKNOWN"] ELSE payout[r]]

\* Mutant: the sweep ends what it finds late.
RowsSweptAsExpired(late, lost) ==
  [r \in Request |-> IF r \in late \cup lost
     THEN [payout[r] EXCEPT !.state = "EXPIRED"] ELSE payout[r]]

\* late and lost are the CREATED and the PENDING rows past their deadline.
RowsSwept(late, lost) ==
  [r \in Request |-> IF r \in late \cup lost
     THEN [payout[r] EXCEPT !.state = "UNKNOWN"] ELSE payout[r]]

\* Mutant: the sweep takes a late row over and not its key.
KeysSweptNever(late) == idem

\* The key of a late row is completed with the body a client would now read.
KeysSwept(late) ==
  [k \in Key |-> IF \E r \in late : payout[r].key = k
     THEN [idem[k] EXCEPT !.status = "COMPLETED",
             !.body = [Public(CHOOSE r \in late : payout[r].key = k)
                         EXCEPT !.state = "UNKNOWN"]]
     ELSE idem[k]]

SweepExpire(w, late, lost) ==
  /\ worker[w].pc = "idle"
  /\ late \subseteq {r \in Request : payout[r].state = "CREATED"}
  /\ lost \subseteq {r \in Request : payout[r].state = "PENDING"}
  /\ payout' = RowsSwept(late, lost)
  /\ idem' = KeysSwept(late)
  /\ worker' = [worker EXCEPT ![w].pc = "listing"]
  /\ UNCHANGED <<ledger, outbox, audit, inbox, anomaly, enabled, call, reply,
                 provider>>

\* Mutant: what is under review is no longer asked about.
UnresolvedIfUnknown(r) == payout[r].state = "UNKNOWN"

Unresolved(r) == payout[r].state \in {"UNKNOWN", "NEEDS_REVIEW"}

\* due: the unresolved payouts whose next_reconcile_at has come.
SweepList(w, due) ==
  /\ worker[w].pc = "listing"
  /\ due \subseteq {r \in Request : Unresolved(r)}
  /\ worker' = [worker EXCEPT ![w].pc = "looping", ![w].todo = due]
  /\ UNCHANGED <<tables, call, reply, provider>>

\* The head of reconcile_payout: there is always a reference to ask with.
ReconcileRead(w, r, rest) ==
  /\ worker' = [worker EXCEPT ![w] =
       [pc |-> IF Unresolved(r) THEN "querying" ELSE "looping",
        todo |-> rest,
        at |-> IF Unresolved(r) THEN r ELSE None,
        answer |-> "UNKNOWN"]]
  /\ UNCHANGED <<tables, call, reply, provider>>

Resume(w) ==
  worker' = [worker EXCEPT ![w] =
    [pc |-> "looping", todo |-> worker[w].todo, at |-> None, answer |-> "UNKNOWN"]]

SweepPick(w, r) ==
  /\ worker[w].pc = "looping" /\ r \in worker[w].todo
  /\ ReconcileRead(w, r, worker[w].todo \ {r})

SweepDone(w) ==
  /\ worker[w].pc = "looping" /\ worker[w].todo = {}
  /\ worker' = [worker EXCEPT ![w] = IdleWorker]
  /\ UNCHANGED <<tables, call, reply, provider>>

\* POST /payouts/{id}/reconcile.
ReconcileRequested(w, r) ==
  /\ worker[w].pc = "idle" /\ Exists(r)
  /\ ReconcileRead(w, r, {})

QueryAnswered(w) ==
  /\ worker[w].pc = "querying"
  /\ LET truth == transfer[payout[worker[w].at].oid]
     IN  /\ truth \in Final
         /\ worker' = [worker EXCEPT ![w].pc = "applying", ![w].answer = truth]
  /\ UNCHANGED <<tables, call, reply, provider>>

\* A timeout, an unknown reference, or an answer that the transfer is open.
QueryInconclusive(w) ==
  /\ worker[w].pc = "querying"
  /\ worker' = [worker EXCEPT ![w].pc = "inconclusive"]
  /\ UNCHANGED <<tables, call, reply, provider>>

\* Applied to the row as it is now, not as it was when the query was sent.
ReconcileApply(w) ==
  /\ worker[w].pc = "applying"
  /\ ApplyOutcome(worker[w].at, worker[w].answer)
  /\ Resume(w)
  /\ UNCHANGED <<idem, audit, inbox, call, reply, provider>>

\* A broken unique constraint is not caught here: it ends the whole sweep.
ReconcileAborted(w) ==
  /\ worker[w].pc = "applying"
  /\ ReceiptTaken(worker[w].at, worker[w].answer)
  /\ worker' = [worker EXCEPT ![w] = IdleWorker]
  /\ UNCHANGED <<tables, call, reply, provider>>

\* Mutant: the reconcile window never elapses.
GivesUpNever(w, elapsed) == FALSE

GivesUp(w, elapsed) == elapsed /\ payout[worker[w].at].state = "UNKNOWN"

\* _inconclusive: back off, or give up when the reconcile window has elapsed.
ReconcileInconclusive(w, elapsed) ==
  /\ worker[w].pc = "inconclusive"
  /\ IF GivesUp(w, elapsed)
       THEN ToReview(worker[w].at, "window_elapsed")
       ELSE UNCHANGED <<payout, ledger, outbox, anomaly, enabled>>
  /\ Resume(w)
  /\ UNCHANGED <<idem, audit, inbox, call, reply, provider>>

WorkerLost(w) ==
  /\ worker[w].pc # "idle"
  /\ worker' = [worker EXCEPT ![w] = IdleWorker]
  /\ UNCHANGED <<tables, call, reply, provider>>

-----------------------------------------------------------------------------
(* The operator and the provider *)

\* The flag is set back, or set, in the database (ADR 0008, Kill switch).
OperatorSets(on) ==
  /\ enabled # on
  /\ enabled' = on
  /\ UNCHANGED <<payout, idem, ledger, outbox, audit, inbox, anomaly, threads,
                 provider>>

\* The transfer is made or fails.  That never changes, and the result may now
\* arrive, late, again and again, or never.
TransferResolved(r, v) ==
  /\ transfer[r] = "open"
  /\ transfer' = [transfer EXCEPT ![r] = v]
  /\ sent' = sent \cup {[ref |-> r, verdict |-> v, amountOk |-> TRUE]}
  /\ UNCHANGED <<tables, threads>>

\* A result that does not tell the transfer's verdict.
ResultStray(r, s) ==
  /\ transfer[r] \in {"open"} \cup Final
  /\ sent' = sent \cup {[ref |-> r, verdict |-> s.verdict, amountOk |-> s.amountOk]}
  /\ UNCHANGED <<tables, threads, transfer>>

-----------------------------------------------------------------------------
RequestStep(r) ==
  \/ \E k \in Key, p \in Payload :
       \/ CreateAnsweredEarly(r, k, p) \/ CreateOverLimit(r, k, p)
       \/ CreateChecked(r, k, p)
  \/ CreateAdmitted(r) \/ CreateDisabled(r)
  \/ CreateAnsweredLate(r) \/ CreateBegun(r) \/ CreateConflict(r)
  \/ ConflictReplied(r)
  \/ TransferAccepted(r) \/ TransferAnswerLost(r) \/ TransferNotReached(r)
  \/ \E reason \in {"refused", "tripping"} : TransferRejected(r, reason)
  \/ FinishCreate(r) \/ RequestLost(r)

WorkerStep(w) ==
  \/ \E late, lost \in SUBSET Request : SweepExpire(w, late, lost)
  \/ \E due \in SUBSET Request : SweepList(w, due)
  \/ SweepDone(w)
  \/ \E r \in Request : SweepPick(w, r) \/ ReconcileRequested(w, r)
  \/ QueryAnswered(w) \/ QueryInconclusive(w)
  \/ ReconcileApply(w) \/ ReconcileAborted(w)
  \/ \E elapsed \in BOOLEAN : ReconcileInconclusive(w, elapsed)
  \/ WorkerLost(w)

ProviderStep(r) ==
  \/ \E v \in Final : TransferResolved(r, v)
  \/ \E s \in Stray : ResultStray(r, s)

Next ==
  \/ \E r \in Request : RequestStep(r) \/ ProviderStep(r)
  \/ \E e \in sent : ResultArrives(e)
  \/ \E w \in Worker : WorkerStep(w)
  \/ \E on \in BOOLEAN : OperatorSets(on)

Spec == Init /\ [][Next]_vars

\* As in Payments: sweeps are started again and again and find every row past
\* its deadline, not every one is killed, not every query fails, and the
\* reconcile window is finite.  Nothing is assumed of Commission, of the
\* threads of create_payout, of results or of the operator.
Fairness ==
  \A w \in Worker :
    /\ SF_vars(SweepExpire(w, {r \in Request : payout[r].state = "CREATED"},
                              {r \in Request : payout[r].state = "PENDING"}))
    /\ SF_vars(SweepList(w, {r \in Request : Unresolved(r)}))
    /\ \A r \in Request : SF_vars(SweepPick(w, r))
    /\ SF_vars(SweepDone(w))
    /\ SF_vars(QueryAnswered(w) \/ QueryInconclusive(w))
    /\ SF_vars(QueryAnswered(w))
    /\ SF_vars(ReconcileApply(w))
    /\ SF_vars(ReconcileInconclusive(w, TRUE))

FairSpec == Spec /\ Fairness

-----------------------------------------------------------------------------
(* Safety *)

\* A SUCCEEDED payout has exactly one debit, for its own provider reference,
\* and no other payout has any; a payout announced its outcome exactly when it
\* reached one; and exactly the payouts that failed for a tripping reason have
\* paused the others, whether the reason came with the answer to the request,
\* with a result or with a query.
EffectsMatchState ==
  \A r \in Request :
    /\ {e \in ledger : e.id = r}
         = IF payout[r].state = "SUCCEEDED"
             THEN {[id |-> r, ref |-> payout[r].oid]} ELSE {}
    /\ {e \in outbox : e.id = r}
         = IF Terminal(r) THEN {[id |-> r, type |-> payout[r].state]} ELSE {}
    /\ (\E a \in anomaly : a.id = r /\ a.kind = "payouts_paused")
         <=> payout[r].reason = "tripping"

\* An attendant is never sent a period twice, whatever keys are used: of its
\* transfers at most one is open or made (ADR 0008, P1, P2, P9).
PaidOncePerPeriod ==
  \A r, q \in Request :
    (/\ r # q
     /\ transfer[r] \in {"open", "SUCCEEDED"} /\ transfer[q] \in {"open", "SUCCEEDED"})
      => PeriodOf[payout[r].payload] # PeriodOf[payout[q].payload]

\* A terminal state is the provider's word, never a deadline or a timeout
\* (ADR 0008, P7, P14).
OutcomeIsTheProviders ==
  \A r \in Request : Terminal(r) =>
    \/ transfer[r] = "rejected" /\ payout[r].state = "FAILED"
    \/ transfer[r] \in Final /\ payout[r].state = Target(transfer[r])

Accepted2xx(r) == reply[r].code \in {"created", "replayed"}

\* The payouts a key stands for: those sent to the provider under it, and those
\* that a call with it was told of in a 2xx answer.
Served(k) ==
  {r \in Request : transfer[r] # "none" /\ payout[r].key = k}
    \cup {reply[r].body.id : r \in {q \in Request : Accepted2xx(q) /\ reply[q].key = k}}

\* A key stands for one payout: however its calls interleave, one of them
\* reaches the provider, and all of them are told of that one (ADR 0008,
\* section 3).
KeyMeansOnePayout ==
  \A k \in Key : \A id, other \in Served(k) : id = other /\ id \in Request

\* What a key in flight waits for: the thread of its call, which runs or has
\* died, and whose payout is still CREATED, so that the sweep will find it, unless
\* its result was faster.
AwaitsAnswer(r, k) ==
  /\ Exists(r) /\ payout[r].key = k
  /\ call[r].pc \in {"calling", "finishing", "lost"}
  /\ payout[r].state # "CREATED" => \E e \in audit : e.ref = r

\* A key that goes on answering 409 has a call that is still out, a payout the
\* sweep will find, or one that a result moved on before its call was answered:
\* a crash strands a key only after such a result, whatever sweeps, queries and
\* other calls did meanwhile.
OnlyResultsStrandKeys ==
  \A k \in Key : idem[k].status = "IN_FLIGHT" => \E r \in Request : AwaitsAnswer(r, k)

\* No result of a transfer is filed as unmatched, not even one that is faster
\* than the answer to the request, or whose answer never came.
EveryResultMatches == inbox = {}

\* A result that says the opposite of the outcome on record has raised an
\* alert: a FAILED payout that is reported paid is never passed over
\* (ADR 0008, P6), in whichever order the results and the query came.
ContradictionIsAlarmed ==
  \A r \in Request, e \in audit :
    (/\ Matches(r, e) /\ Terminal(r)
     /\ e.verdict # "UNKNOWN" /\ Target(e.verdict) # payout[r].state)
      => \E a \in anomaly : a.id = r /\ a.kind \in {"illegal_transition", "amount_mismatch"}

\* A terminal payout never changes again, and no debit, event or alert is ever
\* taken back.
TerminalIsFinal ==
  [][/\ \A r \in Request : Terminal(r) => payout'[r] = payout[r]
     /\ ledger \subseteq ledger' /\ outbox \subseteq outbox'
     /\ anomaly \subseteq anomaly']_vars

\* The step that records a tripping failure switches payouts off, and only the
\* operator switches them on.
SwitchFollowsFailure ==
  [][/\ \A r \in Request :
          (payout[r].reason # "tripping" /\ payout'[r].reason = "tripping") => ~enabled'
     /\ (~enabled /\ enabled') => UNCHANGED <<payout, threads>>]_vars

-----------------------------------------------------------------------------
(* Liveness *)

\* A crash between the intent and the answer is swept up.
CreatedIsSwept ==
  \A r \in Request : payout[r].state = "CREATED" ~> payout[r].state # "CREATED"

\* Every transfer the provider resolves reaches its outcome, although no result
\* need ever arrive and the thread that asked for it may have died: the
\* reference to ask with was stored before the call.
TransferIsResolved ==
  \A r \in Request : transfer[r] \in Final ~> Terminal(r)

\* Nothing stays UNKNOWN: it is resolved, or a person is asked.
UnknownIsEscalated ==
  \A r \in Request : payout[r].state = "UNKNOWN" ~> payout[r].state # "UNKNOWN"

-----------------------------------------------------------------------------
(* Refinement: payouts implement MoneyPromise, for a period each. *)

StatusOf(r) ==
  CASE payout[r].state = "ABSENT" -> "absent"
    [] payout[r].state \in {"CREATED", "PENDING", "UNKNOWN", "NEEDS_REVIEW"} -> "open"
    [] payout[r].state = "SUCCEEDED" -> "paid"
    [] payout[r].state = "FAILED" -> "closed"

Promise == INSTANCE MoneyPromise WITH
  Movement <- Request,
  Ref <- Request,
  Purpose <- Period,
  status <- [r \in Request |-> StatusOf(r)],
  purpose <- [r \in Request |-> IF Exists(r) THEN PeriodOf[payout[r].payload] ELSE None],
  booked <- [r \in Request |-> {e.ref : e \in {c \in ledger : c.id = r}}]

\* Every behaviour of payouts is one that MoneyPromise allows.
KeepsPromise == Promise!Spec
=============================================================================
