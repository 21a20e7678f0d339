---------------------------- MODULE PayoutsProofs -----------------------------
(***************************************************************************)
(* What is proved of Payouts, for any number of calls, keys, bodies,       *)
(* periods and workers, and for any set of stray results but where a       *)
(* theorem asks for a provider that tells the truth.                       *)
(*                                                                         *)
(* The proofs go through what a step can be as far as the payouts and      *)
(* their effects are concerned: one payout is begun, one succeeds, one     *)
(* fails, or open payouts change from one open state to another            *)
(* (StepKinds).                                                            *)
(***************************************************************************)
EXTENDS Payouts, TLAPS

Open == {"CREATED", "PENDING", "UNKNOWN", "NEEDS_REVIEW"}

\* A row is empty or whole, its reference is its own, and only a failed one
\* has a reason.
Rows ==
  \A r \in Request :
    /\ payout[r].state = "ABSENT" => payout[r] = NoRow
    /\ Exists(r) => /\ payout[r].oid = r
                    /\ payout[r].key \in Key /\ payout[r].payload \in Payload
    /\ payout[r].reason # "none" => payout[r].state = "FAILED"

\* Where a call stands tells whether it has a payout and a transfer.
Calls ==
  \A r \in Request :
    /\ call[r].pc \in {"checked", "admitted", "conflict"} =>
         call[r].key \in Key /\ call[r].payload \in Payload
    /\ call[r].pc \in {"ready", "checked", "admitted", "conflict"} => ~Exists(r)
    /\ call[r].pc \in {"calling", "finishing"} => Exists(r)
    /\ call[r].pc = "calling" => transfer[r] = "none"
    /\ transfer[r] # "none" => Exists(r)

\* A worker that asks or has asked knows about which payout.
Threads ==
  \A w \in Worker :
    worker[w].pc \in {"querying", "applying", "inconclusive"} =>
      worker[w].at \in Request /\ Exists(worker[w].at)

Names(id, k) == id \in Request /\ Exists(id) /\ payout[id].key = k

\* A payout's key is taken, by it alone, and a completed key names it.
Keys ==
  /\ \A r \in Request : Exists(r) => idem[payout[r].key].status # "ABSENT"
  /\ \A r, q \in Request :
       Exists(r) /\ Exists(q) /\ payout[r].key = payout[q].key => r = q
  /\ \A k \in Key : idem[k].status = "COMPLETED" => Names(idem[k].body.id, k)

\* A 2xx answer names the payout with its key.
Answers ==
  \A r \in Request :
    Accepted2xx(r) => reply[r].key \in Key /\ Names(reply[r].body.id, reply[r].key)

\* A result is about a payout that is there.
Results == \A e \in sent \cup audit : Exists(e.ref)

\* A period has one live payout.
OneLivePerPeriod ==
  \A r, q \in Request :
    (Live(r) /\ Live(q) /\ PeriodOf[payout[r].payload] = PeriodOf[payout[q].payload])
      => r = q

\* A definite result was applied, or an alert was raised.
Alarmed(r) ==
  \E a \in anomaly : a.id = r /\ a.kind \in {"illegal_transition", "amount_mismatch"}
Audited ==
  \A e \in audit :
    e.verdict = "UNKNOWN" \/ payout[e.ref].state = Target(e.verdict) \/ Alarmed(e.ref)

Consistent ==
  TypeOK /\ Rows /\ Calls /\ Threads /\ Keys /\ Answers /\ Results
    /\ OneLivePerPeriod /\ Audited /\ EffectsMatchState /\ EveryResultMatches

-----------------------------------------------------------------------------
(* The kinds of step                                                       *)

Succeeds(r) ==
  /\ payout[r].state \in Open /\ ~ReceiptTaken(r, "SUCCEEDED")
  /\ payout' = Moved(r, "SUCCEEDED")
  /\ ledger' = Debited(r)
  /\ outbox' = outbox \cup {[id |-> r, type |-> "SUCCEEDED"]}
  /\ UNCHANGED <<anomaly, enabled>>
Fails(r) ==
  /\ payout[r].state \in Open
  /\ \E reason \in {"refused", "tripping"} : Fail(r, reason)
RowMoves(x) ==
  /\ payout[x].state \in Open
  /\ \E s \in Open \ {"CREATED"} : payout'[x] = [payout[x] EXCEPT !.state = s]
RowsMove ==
  /\ payout' \in [Request -> Row]
  /\ \A x \in Request : payout'[x] = payout[x] \/ RowMoves(x)
AlertsAdded ==
  /\ anomaly \subseteq anomaly' /\ anomaly' \subseteq Anomaly
  /\ \A a \in anomaly' \ anomaly : a.kind # "payouts_paused"
Quiet == RowsMove /\ AlertsAdded /\ UNCHANGED <<ledger, outbox>>

\* Who says that a payout has an outcome: a result, or a query's answer; and who
\* says that it was never made: the answer to the request.
Told(r, v) ==
  \/ \E e \in sent : e.ref = r /\ e.verdict = v
  \/ \E w \in Worker :
       worker[w].pc = "applying" /\ worker[w].at = r /\ worker[w].answer = v
Refused(r) == call[r].pc = "finishing" /\ call[r].ack \in {"refused", "tripping"}

Paid(r) == Succeeds(r) /\ Told(r, "SUCCEEDED")
Failed(r) == Fails(r) /\ (Refused(r) \/ Told(r, "FAILED") \/ Told(r, "BLOCKED"))

\* What a transaction leaves alone is as it was.
LEMMA QuietRows ==
  ASSUME TypeOK, UNCHANGED payout
  PROVE  RowsMove
BY DEF TypeOK, RowsMove

\* Nor is an alert added then.
LEMMA QuietAlerts ==
  ASSUME TypeOK, UNCHANGED anomaly
  PROVE  AlertsAdded
BY DEF TypeOK, AlertsAdded

\* A step that touches none of the four tables is quiet.
LEMMA QuietTables ==
  ASSUME TypeOK, UNCHANGED <<payout, ledger, outbox, anomaly>>
  PROVE  Quiet
BY QuietRows, QuietAlerts DEF Quiet

\* DISBURSEMENT_LEGAL lets only an open payout reach an outcome.
LEMMA OpenStates ==
  ASSUME TypeOK, NEW r \in Request
  PROVE  /\ payout[r] \in Row
         /\ payout[r].state \in Open \cup {"ABSENT", "SUCCEEDED", "FAILED"}
         /\ \A v : CanSettle(r, v) => payout[r].state \in Open
BY DEF TypeOK, Row, State, DisbursementState, Open, CanSettle, DisbursementLegal,
       DisbursementTerminal, Target

\* Store.transition from one open state to another is quiet.
LEMMA QuietMove ==
  ASSUME TypeOK, NEW r \in Request, NEW s \in Open \ {"CREATED"},
         payout[r].state \in Open, payout' = Moved(r, s)
  PROVE  RowsMove
<1>1. payout \in [Request -> Row] /\ payout[r] \in Row
  BY DEF TypeOK
<1>2. payout' = [payout EXCEPT ![r] = [payout[r] EXCEPT !.state = s]]
  BY <1>1 DEF Moved
<1>3. [payout[r] EXCEPT !.state = s] \in Row
  BY <1>1 DEF Row, State, DisbursementState, Open
<1> QED BY <1>1, <1>2, <1>3 DEF RowsMove, RowMoves

\* So is an alert other than that payouts are paused.
LEMMA QuietAlert ==
  ASSUME TypeOK, NEW r \in Request, NEW from \in State,
         NEW kind \in {"illegal_transition", "amount_mismatch", "window_elapsed",
                       "constraint_violation"},
         Flag(r, kind, from)
  PROVE  AlertsAdded
<1> DEFINE a == [id |-> r, kind |-> kind, from |-> from]
<1>1. a \in Anomaly /\ a.kind # "payouts_paused"
  BY DEF Anomaly
<1>2. anomaly' = anomaly \cup {a}
  BY DEF Flag
<1>3. anomaly \subseteq Anomaly
  BY DEF TypeOK
<1> HIDE DEF a
<1> QED BY <1>1, <1>2, <1>3 DEF AlertsAdded

\* _to_review is quiet: a payout under review is open.
LEMMA ReviewKind ==
  ASSUME TypeOK, NEW r \in Request,
         NEW kind \in {"amount_mismatch", "window_elapsed"}, ToReview(r, kind)
  PROVE  Quiet
<1> DEFINE from == IF CanReview(r) THEN "UNKNOWN" ELSE payout[r].state
<1>1. from \in State
  BY OpenStates DEF State, DisbursementState, Row
<1>2. Flag(r, kind, from)
  BY DEF ToReview
<1> HIDE DEF from
<1>3. AlertsAdded
  BY <1>1, <1>2, QuietAlert
<1>4. RowsMove
  <2>1. CASE CanReview(r)
    BY <2>1, QuietMove DEF ToReview, CanReview, Open
  <2>2. CASE ~CanReview(r)
    BY <2>2, QuietRows DEF ToReview
  <2> QED BY <2>1, <2>2
<1> QED BY <1>3, <1>4 DEF Quiet, ToReview

\* _apply_outcome succeeds or fails the payout as it is told, or is quiet.
LEMMA OutcomeKind ==
  ASSUME TypeOK, NEW r \in Request, NEW v \in Final \cup {"UNKNOWN"},
         ApplyOutcome(r, v)
  PROVE  \/ Succeeds(r) /\ v = "SUCCEEDED"
         \/ Fails(r) /\ v \in {"FAILED", "BLOCKED"}
         \/ Quiet
<1>1. CASE Settle(r, v)
  <2>1. payout[r].state \in Open
    BY <1>1, OpenStates DEF Settle
  <2> QED BY <1>1, <2>1 DEF Settle, Succeeds, Fails
<1>2. CASE /\ v = "UNKNOWN" /\ payout[r].state = "PENDING"
           /\ payout' = Moved(r, "UNKNOWN")
           /\ UNCHANGED <<ledger, outbox, anomaly, enabled>>
  <2>1. RowsMove
    BY <1>2, QuietMove DEF Open
  <2> QED BY <1>2, <2>1, QuietAlerts DEF Quiet
<1>3. CASE UNCHANGED <<payout, ledger, outbox, anomaly, enabled>>
  BY <1>3, QuietRows, QuietAlerts DEF Quiet
<1>4. CASE ContradictionLogged(r) /\ UNCHANGED <<payout, ledger, outbox, enabled>>
  <2>1. payout[r].state \in State
    BY OpenStates DEF Row
  <2>2. AlertsAdded
    BY <1>4, <2>1, QuietAlert DEF ContradictionLogged
  <2> QED BY <1>4, <2>2, QuietRows DEF Quiet
<1> QED BY <1>1, <1>2, <1>3, <1>4 DEF ApplyOutcome

\* _finish_create fails the payout if it was refused, or is quiet.
LEMMA FinishKind ==
  ASSUME TypeOK, NEW r \in Request, FinishCreate(r)
  PROVE  Failed(r) \/ Quiet
<1>1. CASE call[r].ack \in {"refused", "tripping"} /\ payout[r].state = "CREATED"
  BY <1>1 DEF FinishCreate, Failed, Fails, Refused, Open
<1>2. CASE /\ payout[r].state = "CREATED" /\ payout' = Moved(r, AnswerState(call[r].ack))
           /\ UNCHANGED <<ledger, outbox, anomaly, enabled>>
  <2>1. AnswerState(call[r].ack) \in Open \ {"CREATED"}
    BY DEF AnswerState, Open
  <2>2. RowsMove
    BY <1>2, <2>1, QuietMove DEF Open
  <2> QED BY <1>2, <2>2, QuietAlerts DEF Quiet
<1>3. CASE UNCHANGED <<payout, ledger, outbox, anomaly, enabled>>
  BY <1>3, QuietRows, QuietAlerts DEF Quiet
<1> QED BY <1>1, <1>2, <1>3 DEF FinishCreate

\* The sweep's own transaction is quiet.
LEMMA SweepKind ==
  ASSUME TypeOK, NEW w \in Worker, NEW late \in SUBSET Request,
         NEW lost \in SUBSET Request, SweepExpire(w, late, lost)
  PROVE  Quiet
<1>1. payout \in [Request -> Row]
  BY DEF TypeOK
<1>2. \A x \in late \cup lost : payout[x].state \in {"CREATED", "PENDING"}
  BY DEF SweepExpire
<1>3. \A x \in Request : payout'[x] = IF x \in late \cup lost
         THEN [payout[x] EXCEPT !.state = "UNKNOWN"] ELSE payout[x]
  BY DEF SweepExpire, RowsSwept
<1>4. \A x \in Request : [payout[x] EXCEPT !.state = "UNKNOWN"] \in Row
  BY <1>1 DEF Row, State, DisbursementState
<1>5. payout' \in [Request -> Row]
  <2>1. payout' = [x \in Request |-> payout'[x]]
    BY DEF SweepExpire, RowsSwept
  <2>2. \A x \in Request : payout'[x] \in Row
    BY <1>1, <1>3, <1>4
  <2> QED BY <2>1, <2>2
<1>6. \A x \in Request : payout'[x] = payout[x] \/ RowMoves(x)
  <2> SUFFICES ASSUME NEW x \in Request, x \in late \cup lost
               PROVE  RowMoves(x)
    BY <1>3
  <2>1. payout'[x] = [payout[x] EXCEPT !.state = "UNKNOWN"]
    BY <1>3
  <2> QED BY <1>2, <2>1 DEF RowMoves, Open
<1> QED BY <1>5, <1>6, QuietAlerts DEF RowsMove, Quiet, SweepExpire

\* A result matches the payout it names.
LEMMA MatchedRow ==
  ASSUME Consistent, NEW e \in sent, NEW r \in Request, Matches(r, e)
  PROVE  r = e.ref /\ e.ref \in Request /\ Exists(r)
<1>1. e.ref \in Request
  BY DEF Consistent, TypeOK, Event
<1>2. Exists(r)
  <2>1. NoRow.oid = None /\ e.ref # None
    BY <1>1, PayoutsAssumption DEF NoRow
  <2> QED BY <2>1 DEF Consistent, Rows, Exists, Matches
<1> QED BY <1>1, <1>2 DEF Consistent, Rows, Matches

\* A result is applied, doubted, in conflict or unmatched.
LEMMA ResultKind ==
  ASSUME Consistent, NEW e \in sent, ResultArrives(e)
  PROVE  Quiet \/ \E r \in Request : Paid(r) \/ Failed(r)
<1>1. TypeOK /\ e.verdict \in Final \cup {"UNKNOWN"}
  BY DEF Consistent, TypeOK, Event
<1>2. CASE ResultUnmatched(e)
  BY <1>1, <1>2, QuietTables DEF ResultUnmatched
<1>3. ASSUME NEW r \in Request, ResultMatched(r, e)
      PROVE  Quiet \/ Paid(r) \/ Failed(r)
  <2>1. r = e.ref
    BY <1>3, MatchedRow DEF ResultMatched
  <2>2. CASE ToReview(r, "amount_mismatch")
    BY <1>1, <2>2, ReviewKind
  <2>3. CASE ApplyOutcome(r, e.verdict)
    <3>1. \A v : e.verdict = v => Told(r, v)
      BY <2>1 DEF Told
    <3> QED BY <1>1, <2>3, <3>1, OutcomeKind DEF Paid, Failed
  <2> QED BY <1>3, <2>2, <2>3 DEF ResultMatched
<1>4. ASSUME NEW r \in Request, ResultConflict(r, e)
      PROVE  Quiet
  <2>1. AlertsAdded
    BY <1>1, <1>4, QuietAlert DEF ResultConflict, State
  <2> QED BY <1>1, <1>4, <2>1, QuietRows DEF ResultConflict, Quiet
<1> QED BY <1>2, <1>3, <1>4 DEF ResultArrives

\* So is a step of a sweep or a reconcile request.
LEMMA WorkerKind ==
  ASSUME Consistent, NEW w \in Worker, WorkerStep(w)
  PROVE  Quiet \/ \E r \in Request : Paid(r) \/ Failed(r)
<1>1. TypeOK
  BY DEF Consistent
<1>2. CASE ReconcileApply(w)
  <2> DEFINE r == worker[w].at
             v == worker[w].answer
  <2>1. worker[w].pc = "applying" /\ r \in Request /\ v \in Final \cup {"UNKNOWN"}
    BY <1>2 DEF ReconcileApply, Consistent, Threads, TypeOK, WorkerThread
  <2>2. Told(r, v)
    BY <2>1 DEF Told
  <2>3. ApplyOutcome(r, v)
    BY <1>2 DEF ReconcileApply
  <2> HIDE DEF r, v
  <2> QED BY <1>1, <2>1, <2>2, <2>3, OutcomeKind DEF Paid, Failed
<1>3. ASSUME NEW elapsed \in BOOLEAN, ReconcileInconclusive(w, elapsed)
      PROVE  Quiet
  <2>1. worker[w].at \in Request
    BY <1>3 DEF ReconcileInconclusive, Consistent, Threads
  <2>2. CASE ToReview(worker[w].at, "window_elapsed")
    BY <1>1, <2>1, <2>2, ReviewKind
  <2>3. CASE UNCHANGED <<payout, ledger, outbox, anomaly>>
    BY <1>1, <2>3, QuietTables
  <2> QED BY <1>3, <2>2, <2>3 DEF ReconcileInconclusive
<1>4. CASE UNCHANGED tables
  BY <1>1, <1>4, QuietTables DEF tables
<1>5. ASSUME NEW late \in SUBSET Request, NEW lost \in SUBSET Request,
             SweepExpire(w, late, lost)
      PROVE  Quiet
  BY <1>1, <1>5, SweepKind
<1> QED BY <1>2, <1>3, <1>4, <1>5
        DEF WorkerStep, SweepList, SweepDone, SweepPick, ReconcileRequested,
            ReconcileRead, QueryAnswered, QueryInconclusive, ReconcileAborted,
            WorkerLost

\* The steps of a call other than the two that write.
CallOnly(r) ==
  /\ UNCHANGED <<tables, worker, sent>>
  /\ RequestStep(r)

\* A call writes when it begins its payout and when it finishes it.
LEMMA RequestKinds ==
  ASSUME NEW r \in Request, RequestStep(r)
  PROVE  CreateBegun(r) \/ FinishCreate(r) \/ CallOnly(r)
BY DEF CallOnly, RequestStep, CreateAnsweredEarly, CreateOverLimit, CreateChecked,
       CreateAdmitted, CreateDisabled, CreateAnsweredLate, CreateConflict,
       ConflictReplied, IdemReplied, Replied, TransferAccepted, TransferAnswerLost,
       TransferNotReached, TransferRejected, DisburseReturned, RequestLost, provider

\* The kinds of step are all there are.
LEMMA StepKinds ==
  ASSUME Consistent, [Next]_vars
  PROVE  Quiet \/ \E r \in Request : CreateBegun(r) \/ Paid(r) \/ Failed(r)
<1>1. TypeOK
  BY DEF Consistent
<1>2. CASE UNCHANGED <<payout, ledger, outbox, anomaly>>
  BY <1>1, <1>2, QuietTables
<1>3. ASSUME NEW r \in Request, RequestStep(r)
      PROVE  Quiet \/ CreateBegun(r) \/ Failed(r)
  <2>1. CASE CallOnly(r)
    BY <1>1, <2>1, QuietTables DEF CallOnly, tables
  <2> QED BY <1>1, <1>3, <2>1, FinishKind, RequestKinds
<1>4. ASSUME NEW r \in Request, ProviderStep(r)
      PROVE  UNCHANGED <<payout, ledger, outbox, anomaly>>
  BY <1>4 DEF ProviderStep, TransferResolved, ResultStray, tables
<1>5. ASSUME NEW on \in BOOLEAN, OperatorSets(on)
      PROVE  UNCHANGED <<payout, ledger, outbox, anomaly>>
  BY <1>5 DEF OperatorSets
<1>6. UNCHANGED vars => UNCHANGED <<payout, ledger, outbox, anomaly>>
  BY DEF vars, tables
<1> QED BY <1>2, <1>3, <1>4, <1>5, <1>6, ResultKind, WorkerKind DEF Next

-----------------------------------------------------------------------------
(* What a step does to one payout                                          *)

NewRow(x) ==
  [state |-> "CREATED", key |-> call[x].key, payload |-> call[x].payload,
   oid |-> x, reason |-> "none"]

\* An open payout moves on, with its key, body and reference.
RowMoved(x) ==
  /\ payout[x].state \in Open
  /\ payout'[x].key = payout[x].key /\ payout'[x].payload = payout[x].payload
  /\ payout'[x].oid = payout[x].oid
  /\ \/ /\ payout'[x].state \in Open \ {"CREATED"}
        /\ payout'[x].reason = payout[x].reason
     \/ /\ payout'[x].state = "SUCCEEDED" /\ payout'[x].reason = payout[x].reason
        /\ Told(x, "SUCCEEDED")
     \/ /\ payout'[x].state = "FAILED" /\ payout'[x].reason \in {"refused", "tripping"}
        /\ Refused(x) \/ Told(x, "FAILED") \/ Told(x, "BLOCKED")

RowStep(x) ==
  \/ payout'[x] = payout[x]
  \/ CreateBegun(x) /\ payout'[x] = NewRow(x)
  \/ RowMoved(x)

\* A call that begins a payout has found its key unknown and its period free.
LEMMA BegunCall ==
  ASSUME Consistent, NEW r \in Request, CreateBegun(r)
  PROVE  /\ ~Exists(r) /\ call[r].key \in Key /\ call[r].payload \in Payload
         /\ idem[call[r].key].status = "ABSENT"
         /\ \A x \in Request : Exists(x) => payout[x].key # call[r].key
         /\ Rivals(call[r].payload) = {}
         /\ \A x \in Request : payout'[x] = IF x = r THEN NewRow(r) ELSE payout[x]
<1>1. call[r].pc = "admitted"
  BY DEF CreateBegun
<1>2. ~Exists(r) /\ call[r].key \in Key /\ call[r].payload \in Payload
  BY <1>1 DEF Consistent, Calls
<1>3. idem[call[r].key].status = "ABSENT"
  <2>1. idem[call[r].key].status \in {"ABSENT", "IN_FLIGHT", "COMPLETED"}
    BY <1>2 DEF Consistent, TypeOK, IdemRow
  <2>2. IdemClassify(call[r].key, call[r].payload) = "new"
    BY DEF CreateBegun
  <2> QED BY <2>1, <2>2 DEF IdemClassify
<1>4. \A x \in Request : Exists(x) => payout[x].key # call[r].key
  BY <1>3 DEF Consistent, Keys
<1>5. payout' = [payout EXCEPT ![r] = NewRow(r)] /\ Rivals(call[r].payload) = {}
  BY DEF CreateBegun, NewRow
<1>6. \A x \in Request : payout'[x] = IF x = r THEN NewRow(r) ELSE payout[x]
  <2> HIDE DEF NewRow
  <2> QED BY <1>5 DEF Consistent, TypeOK
<1> QED BY <1>2, <1>3, <1>4, <1>5, <1>6

\* A success and a failure change one row.
LEMMA PaidRow ==
  ASSUME TypeOK, NEW r \in Request, Succeeds(r), NEW x \in Request
  PROVE  /\ payout'[x].state = IF x = r THEN "SUCCEEDED" ELSE payout[x].state
         /\ payout'[x].key = payout[x].key /\ payout'[x].payload = payout[x].payload
         /\ payout'[x].oid = payout[x].oid /\ payout'[x].reason = payout[x].reason
         /\ x # r => payout'[x] = payout[x]
         /\ payout'[x] \in Row
BY DEF Succeeds, Moved, TypeOK, Row, State, DisbursementState

\* A failure changes one row, and gives it a reason.
LEMMA FailedRow ==
  ASSUME TypeOK, NEW r \in Request, Fails(r), NEW x \in Request
  PROVE  /\ payout'[x].state = IF x = r THEN "FAILED" ELSE payout[x].state
         /\ payout'[x].key = payout[x].key /\ payout'[x].payload = payout[x].payload
         /\ payout'[x].oid = payout[x].oid
         /\ x # r => payout'[x] = payout[x]
         /\ payout'[r].reason \in {"refused", "tripping"}
         /\ payout'[x] \in Row
<1>1. PICK reason \in {"refused", "tripping"} : Fail(r, reason)
  BY DEF Fails
<1>2. payout' = [payout EXCEPT ![r] =
                   [payout[r] EXCEPT !.state = "FAILED", !.reason = reason]]
  BY <1>1 DEF Fail, TypeOK
<1>3. payout \in [Request -> Row]
  BY DEF TypeOK
<1>4. \A row \in Row :
        LET new == [row EXCEPT !.state = "FAILED", !.reason = reason]
        IN  /\ new.state = "FAILED" /\ new.reason = reason /\ new.key = row.key
            /\ new.payload = row.payload /\ new.oid = row.oid /\ new \in Row
  BY DEF Row, Reason, State, DisbursementState
<1>5. \A y \in Request : y # r => payout'[y] = payout[y]
  BY <1>2, <1>3
<1>6. payout'[r] = [payout[r] EXCEPT !.state = "FAILED", !.reason = reason]
  BY <1>2, <1>3
<1>7. /\ payout'[r].state = "FAILED" /\ payout'[r].key = payout[r].key
      /\ payout'[r].payload = payout[r].payload /\ payout'[r].oid = payout[r].oid
      /\ payout'[r].reason = reason /\ payout'[r] \in Row
  BY <1>3, <1>4, <1>6
<1>8. CASE x = r
  BY <1>7, <1>8
<1>9. CASE x # r
  BY <1>3, <1>5, <1>7, <1>9
<1> QED BY <1>8, <1>9

\* Every step does to every payout what RowStep says.
LEMMA RowSteps ==
  ASSUME Consistent, [Next]_vars
  PROVE  /\ payout' \in [Request -> Row]
         /\ \A x \in Request : RowStep(x)
<1>1. TypeOK
  BY DEF Consistent
<1>2. CASE Quiet
  <2>1. payout' \in [Request -> Row]
    BY <1>2 DEF Quiet, RowsMove
  <2>2. \A x \in Request : payout'[x] = payout[x] \/ RowMoves(x)
    BY <1>2 DEF Quiet, RowsMove
  <2>3. ASSUME NEW x \in Request, RowMoves(x)
        PROVE  RowMoved(x)
    BY <1>1, <2>3 DEF RowMoves, RowMoved, TypeOK, Row
  <2> QED BY <2>1, <2>2, <2>3 DEF RowStep
<1>3. ASSUME NEW r \in Request, CreateBegun(r)
      PROVE  payout' \in [Request -> Row] /\ \A x \in Request : RowStep(x)
  <2>1. \A x \in Request : payout'[x] = IF x = r THEN NewRow(r) ELSE payout[x]
    BY <1>3, BegunCall
  <2>2. NewRow(r) \in Row
    BY <1>3, BegunCall DEF NewRow, Row, Reason, State, DisbursementState
  <2>3. payout' = [payout EXCEPT ![r] = NewRow(r)]
    BY <1>3 DEF CreateBegun, NewRow
  <2>4. payout' \in [Request -> Row]
    BY <1>1, <2>2, <2>3 DEF TypeOK
  <2> QED BY <1>3, <2>1, <2>4 DEF RowStep
<1>4. ASSUME NEW r \in Request, Paid(r)
      PROVE  payout' \in [Request -> Row] /\ \A x \in Request : RowStep(x)
  <2>1. payout' = Moved(r, "SUCCEEDED") /\ payout[r].state \in Open /\ Succeeds(r)
    BY <1>4 DEF Paid, Succeeds
  <2>2. payout' \in [Request -> Row]
    BY <1>1, <2>1, PaidRow DEF Moved, TypeOK
  <2>3. RowMoved(r)
    BY <1>1, <1>4, <2>1, PaidRow DEF RowMoved, Paid
  <2>4. \A x \in Request : x # r => payout'[x] = payout[x]
    BY <1>1, <2>1, PaidRow
  <2> QED BY <2>2, <2>3, <2>4 DEF RowStep
<1>5. ASSUME NEW r \in Request, Failed(r)
      PROVE  payout' \in [Request -> Row] /\ \A x \in Request : RowStep(x)
  <2>1. Fails(r) /\ payout[r].state \in Open
    BY <1>5 DEF Failed, Fails
  <2>2. payout' \in [Request -> Row]
    <3>1. PICK row : payout' = [payout EXCEPT ![r] = row]
      BY <2>1 DEF Fails, Fail
    <3>2. payout'[r] \in Row
      BY <1>1, <2>1, FailedRow
    <3> QED BY <1>1, <3>1, <3>2 DEF TypeOK
  <2>3. RowMoved(r)
    BY <1>1, <1>5, <2>1, FailedRow DEF RowMoved, Failed
  <2>4. \A x \in Request : x # r => payout'[x] = payout[x]
    BY <1>1, <2>1, FailedRow
  <2> QED BY <2>2, <2>3, <2>4 DEF RowStep
<1> QED BY <1>2, <1>3, <1>4, <1>5, StepKinds

\* A payout that is there stays what it is for.
LEMMA RowsStay ==
  ASSUME Consistent, [Next]_vars, NEW x \in Request, Exists(x)
  PROVE  /\ payout'[x].state # "ABSENT" /\ payout'[x].key = payout[x].key
         /\ payout'[x].payload = payout[x].payload /\ payout'[x].oid = payout[x].oid
<1>1. RowStep(x)
  BY RowSteps
<1>2. ~CreateBegun(x)
  BY BegunCall
<1> QED BY <1>1, <1>2 DEF RowStep, RowMoved, Open, Exists

\* And a terminal one changes no more.
LEMMA TerminalStays ==
  ASSUME Consistent, [Next]_vars, NEW x \in Request, Terminal(x)
  PROVE  payout'[x] = payout[x]
<1>1. RowStep(x)
  BY RowSteps
<1>2. ~CreateBegun(x)
  BY BegunCall DEF Terminal, Exists, DisbursementTerminal
<1> QED BY <1>1, <1>2 DEF RowStep, RowMoved, Open, Terminal, DisbursementTerminal

-----------------------------------------------------------------------------
(* The invariant's parts: rows, periods and effects                        *)

\* A row stays whole, its reference its own.
LEMMA NextRows ==
  ASSUME Consistent, [Next]_vars
  PROVE  Rows'
<1> SUFFICES ASSUME NEW x \in Request
             PROVE  /\ payout'[x].state = "ABSENT" => payout'[x] = NoRow
                    /\ payout'[x].state # "ABSENT" =>
                         /\ payout'[x].oid = x
                         /\ payout'[x].key \in Key /\ payout'[x].payload \in Payload
                    /\ payout'[x].reason # "none" => payout'[x].state = "FAILED"
  BY DEF Rows, Exists
<1>1. RowStep(x)
  BY RowSteps
<1>2. CASE payout'[x] = payout[x]
  BY <1>2 DEF Consistent, Rows, Exists
<1>3. CASE CreateBegun(x) /\ payout'[x] = NewRow(x)
  BY <1>3, BegunCall DEF NewRow
<1>4. CASE RowMoved(x)
  <2>1. Exists(x) /\ payout[x].state # "FAILED"
    BY <1>4 DEF RowMoved, Open, Exists
  <2> QED BY <1>4, <2>1 DEF Consistent, Rows, RowMoved, Open
<1> QED BY <1>1, <1>2, <1>3, <1>4 DEF RowStep

\* The unique index stands in the way of a second live payout of a period.
LEMMA NextPeriods ==
  ASSUME Consistent, [Next]_vars
  PROVE  OneLivePerPeriod'
<1> DEFINE LiveRow(row) == row.state # "ABSENT" /\ row.state # "FAILED"
<1>1. \A x \in Request : Live(x) <=> LiveRow(payout[x])
  BY DEF Live, Exists
<1>2. SUFFICES ASSUME NEW x \in Request, NEW y \in Request,
                      LiveRow(payout'[x]), LiveRow(payout'[y]),
                      PeriodOf[payout'[x].payload] = PeriodOf[payout'[y].payload]
               PROVE  x = y
  BY DEF OneLivePerPeriod, Live, Exists
<1>3. ASSUME NEW z \in Request, LiveRow(payout'[z]), ~CreateBegun(z)
      PROVE  Live(z) /\ payout'[z].payload = payout[z].payload
  <2>1. RowStep(z)
    BY RowSteps
  <2> QED BY <1>1, <1>3, <2>1 DEF RowStep, RowMoved, Open
<1>4. CASE ~CreateBegun(x) /\ ~CreateBegun(y)
  BY <1>2, <1>3, <1>4 DEF Consistent, OneLivePerPeriod
<1>5. ASSUME NEW r \in Request, NEW q \in Request, CreateBegun(r), r # q,
             LiveRow(payout'[q])
      PROVE  PeriodOf[payout'[q].payload] # PeriodOf[payout'[r].payload]
  <2>1. payout'[r] = NewRow(r) /\ payout'[q] = payout[q]
        /\ Rivals(call[r].payload) = {}
    BY <1>5, BegunCall
  <2>2. Live(q)
    BY <1>1, <1>5, <2>1
  <2> QED BY <2>1, <2>2 DEF Rivals, NewRow
<1> QED BY <1>2, <1>4, <1>5

\* Debits are found by their payout, so a payout that is not paid has none under
\* its reference: ON CONFLICT DO NOTHING never drops a debit.
LEMMA DebitIsNew ==
  ASSUME Consistent, NEW r \in Request, payout[r].state # "SUCCEEDED", NEW e \in ledger
  PROVE  e.ref # r
<1> SUFFICES ASSUME e.ref = r PROVE FALSE
  OBVIOUS
<1>1. e.id \in Request
  BY DEF Consistent, TypeOK
<1>2. e \in {c \in ledger : c.id = e.id}
  OBVIOUS
<1>3. payout[e.id].state = "SUCCEEDED" /\ e = [id |-> e.id, ref |-> payout[e.id].oid]
  BY <1>1, <1>2 DEF Consistent, EffectsMatchState
<1>4. payout[e.id].oid = e.id
  BY <1>1, <1>3 DEF Consistent, Rows, Exists
<1> QED BY <1>3, <1>4

\* A success is debited under the payout's own reference, and announced.
LEMMA PaidEffects ==
  ASSUME Consistent, NEW r \in Request, Succeeds(r)
  PROVE  /\ ledger' = ledger \cup {[id |-> r, ref |-> r]}
         /\ outbox' = outbox \cup {[id |-> r, type |-> "SUCCEEDED"]}
         /\ UNCHANGED <<anomaly, enabled>>
<1>1. payout[r].state # "SUCCEEDED" /\ Exists(r)
  BY DEF Succeeds, Open, Exists
<1>2. payout[r].oid = r
  BY <1>1 DEF Consistent, Rows
<1>3. \A e \in ledger : e.ref # r
  BY <1>1, DebitIsNew
<1> QED BY <1>2, <1>3 DEF Succeeds, Debited

Paused(r) == \E a \in anomaly : a.id = r /\ a.kind = "payouts_paused"

\* A failure is announced, and throws the switch exactly when it is tripping.
LEMMA FailedEffects ==
  ASSUME Consistent, NEW r \in Request, Fails(r)
  PROVE  /\ ledger' = ledger
         /\ outbox' = outbox \cup {[id |-> r, type |-> "FAILED"]}
         /\ anomaly \subseteq anomaly' /\ anomaly' \subseteq Anomaly
         /\ payout'[r].reason = "tripping" => enabled' = FALSE
         /\ payout'[r].reason # "tripping" => enabled' = enabled
         /\ \A x \in Request :
              Paused(x)' <=> Paused(x) \/ (x = r /\ payout'[r].reason = "tripping")
<1>1. PICK reason \in {"refused", "tripping"} : Fail(r, reason)
  BY DEF Fails
<1>2. payout'[r].reason = reason
  <2>1. payout' = [payout EXCEPT ![r] =
                     [payout[r] EXCEPT !.state = "FAILED", !.reason = reason]]
    BY <1>1 DEF Fail, Consistent, TypeOK
  <2>2. payout \in [Request -> Row] /\ payout[r] \in Row
    BY DEF Consistent, TypeOK
  <2>3. \A row \in Row : [row EXCEPT !.state = "FAILED", !.reason = reason].reason = reason
    BY DEF Row
  <2>4. payout'[r] = [payout[r] EXCEPT !.state = "FAILED", !.reason = reason]
    BY <2>1, <2>2
  <2> QED BY <2>2, <2>3, <2>4
<1>3. ledger' = ledger /\ outbox' = outbox \cup {[id |-> r, type |-> "FAILED"]}
  BY <1>1 DEF Fail
<1>4. CASE reason = "tripping"
  <2> DEFINE a == [id |-> r, kind |-> "payouts_paused", from |-> "ABSENT"]
  <2>1. anomaly' = anomaly \cup {a} /\ enabled' = FALSE
    BY <1>1, <1>4 DEF Fail, Trips, Flag
  <2>2. a \in Anomaly /\ a.id = r /\ a.kind = "payouts_paused"
    BY DEF Anomaly, State
  <2>3. anomaly \subseteq Anomaly
    BY DEF Consistent, TypeOK
  <2> HIDE DEF a
  <2>4. \A x \in Request : Paused(x)' <=> Paused(x) \/ x = r
    BY <2>1, <2>2 DEF Paused
  <2> QED BY <1>2, <1>3, <1>4, <2>1, <2>2, <2>3, <2>4
<1>5. CASE reason # "tripping"
  <2>1. UNCHANGED <<anomaly, enabled>>
    BY <1>1, <1>5 DEF Fail, Trips
  <2>2. \A x \in Request : Paused(x)' <=> Paused(x)
    BY <2>1 DEF Paused
  <2> QED BY <1>2, <1>3, <1>5, <2>1, <2>2 DEF Consistent, TypeOK
<1> QED BY <1>4, <1>5

\* EffectsMatchState is kept, for one payout at a time.
LEMMA NextEffects ==
  ASSUME Consistent, [Next]_vars
  PROVE  EffectsMatchState'
<1> DEFINE Debits(q) == {e \in ledger : e.id = q}
           Events(q) == {e \in outbox : e.id = q}
           Expected(row, q, debits, events, paused) ==
             /\ debits = IF row.state = "SUCCEEDED"
                           THEN {[id |-> q, ref |-> row.oid]} ELSE {}
             /\ events = IF row.state \in DisbursementTerminal
                           THEN {[id |-> q, type |-> row.state]} ELSE {}
             /\ paused <=> row.reason = "tripping"
<1>1. \A q \in Request : Expected(payout[q], q, Debits(q), Events(q), Paused(q))
  BY DEF Consistent, EffectsMatchState, Terminal, Paused
<1>2. SUFFICES ASSUME NEW q \in Request
               PROVE  Expected(payout'[q], q, Debits(q)', Events(q)', Paused(q)')
  BY DEF EffectsMatchState, Terminal, Paused
<1>3. TypeOK
  BY DEF Consistent
<1>4. CASE Quiet
  <2>1. Debits(q)' = Debits(q) /\ Events(q)' = Events(q) /\ (Paused(q)' <=> Paused(q))
    BY <1>4 DEF Quiet, AlertsAdded, Paused
  <2>2. CASE payout'[q] = payout[q]
    BY <1>1, <2>1, <2>2
  <2>3. CASE RowMoves(q)
    <3>1. /\ payout[q].state \in Open /\ payout'[q].state \in Open
          /\ payout'[q].reason = payout[q].reason
      BY <1>3, <2>3 DEF RowMoves, TypeOK, Row
    <3> QED BY <1>1, <2>1, <3>1 DEF Open, DisbursementTerminal
  <2> QED BY <1>4, <2>2, <2>3 DEF Quiet, RowsMove
<1>5. ASSUME NEW r \in Request, CreateBegun(r)
      PROVE  Expected(payout'[q], q, Debits(q)', Events(q)', Paused(q)')
  <2>1. UNCHANGED <<ledger, outbox, anomaly>>
    BY <1>5 DEF CreateBegun
  <2>2. Debits(q)' = Debits(q) /\ Events(q)' = Events(q) /\ (Paused(q)' <=> Paused(q))
    BY <2>1 DEF Paused
  <2>3. payout'[q] = IF q = r THEN NewRow(r) ELSE payout[q]
    BY <1>5, BegunCall
  <2>4. payout[r] = NoRow
    BY <1>5, BegunCall DEF Consistent, Rows, Exists
  <2>5. q = r => /\ payout'[q].state = "CREATED" /\ payout'[q].reason = "none"
                 /\ payout[q].state = "ABSENT" /\ payout[q].reason = "none"
    BY <2>3, <2>4 DEF NewRow, NoRow
  <2> QED BY <1>1, <2>2, <2>3, <2>5 DEF DisbursementTerminal
<1>6. ASSUME NEW r \in Request, Succeeds(r)
      PROVE  Expected(payout'[q], q, Debits(q)', Events(q)', Paused(q)')
  <2>1. /\ ledger' = ledger \cup {[id |-> r, ref |-> r]}
        /\ outbox' = outbox \cup {[id |-> r, type |-> "SUCCEEDED"]}
        /\ UNCHANGED anomaly
    BY <1>6, PaidEffects
  <2>2. /\ Debits(q)' = IF q = r THEN Debits(q) \cup {[id |-> r, ref |-> r]} ELSE Debits(q)
        /\ Events(q)' = IF q = r THEN Events(q) \cup {[id |-> r, type |-> "SUCCEEDED"]}
                        ELSE Events(q)
    BY <2>1
  <2>3. Paused(q)' <=> Paused(q)
    BY <2>1 DEF Paused
  <2>4. /\ payout[r].state \in Open
        /\ q # r => payout'[q] = payout[q]
        /\ payout'[r].state = "SUCCEEDED"
        /\ payout'[r].oid = payout[r].oid /\ payout'[r].reason = payout[r].reason
    BY <1>3, <1>6, PaidRow DEF Succeeds
  <2>5. payout[r].oid = r
    BY <2>4 DEF Consistent, Rows, Exists, Open
  <2>6. CASE q = r
    <3>1. Debits(r) = {} /\ Events(r) = {}
      BY <1>1, <2>4 DEF Open, DisbursementTerminal
    <3> QED BY <1>1, <2>2, <2>3, <2>4, <2>5, <2>6, <3>1 DEF DisbursementTerminal
  <2>7. CASE q # r
    BY <1>1, <2>2, <2>3, <2>4, <2>7
  <2> QED BY <2>6, <2>7
<1>7. ASSUME NEW r \in Request, Fails(r)
      PROVE  Expected(payout'[q], q, Debits(q)', Events(q)', Paused(q)')
  <2>1. /\ ledger' = ledger
        /\ outbox' = outbox \cup {[id |-> r, type |-> "FAILED"]}
        /\ Paused(q)' <=> Paused(q) \/ (q = r /\ payout'[r].reason = "tripping")
    BY <1>7, FailedEffects
  <2>2. /\ Debits(q)' = Debits(q)
        /\ Events(q)' = IF q = r THEN Events(q) \cup {[id |-> r, type |-> "FAILED"]}
                        ELSE Events(q)
    BY <2>1
  <2>3. /\ payout[r].state \in Open
        /\ q # r => payout'[q] = payout[q]
        /\ payout'[r].state = "FAILED"
    BY <1>3, <1>7, FailedRow DEF Fails
  <2>4. CASE q = r
    <3>1. Debits(r) = {} /\ Events(r) = {}
      BY <1>1, <2>3 DEF Open, DisbursementTerminal
    <3>2. ~Paused(r)
      BY <1>1, <2>3 DEF Consistent, Rows, Open
    <3> QED BY <2>1, <2>2, <2>3, <2>4, <3>1, <3>2 DEF DisbursementTerminal
  <2>5. CASE q # r
    BY <1>1, <2>1, <2>2, <2>3, <2>5
  <2> QED BY <2>4, <2>5
<1> HIDE DEF Expected
<1> QED BY <1>4, <1>5, <1>6, <1>7, StepKinds DEF Paid, Failed

\* No alert is taken back.
LEMMA AlertsStay ==
  ASSUME Consistent, [Next]_vars
  PROVE  /\ ledger \subseteq ledger' /\ outbox \subseteq outbox'
         /\ anomaly \subseteq anomaly'
<1>1. CASE Quiet
  BY <1>1 DEF Quiet, AlertsAdded
<1>2. ASSUME NEW r \in Request, CreateBegun(r)
      PROVE  UNCHANGED <<ledger, outbox, anomaly>>
  BY <1>2 DEF CreateBegun
<1>3. ASSUME NEW r \in Request, Paid(r)
      PROVE  ledger \subseteq ledger' /\ outbox \subseteq outbox' /\ UNCHANGED anomaly
  BY <1>3, PaidEffects DEF Paid
<1>4. ASSUME NEW r \in Request, Failed(r)
      PROVE  UNCHANGED ledger /\ outbox \subseteq outbox' /\ anomaly \subseteq anomaly'
  BY <1>4, FailedEffects DEF Failed
<1> QED BY <1>1, <1>2, <1>3, <1>4, StepKinds

-----------------------------------------------------------------------------
(* Results                                                                 *)

\* Results come from transfers, and only a result on its way arrives.
LEMMA SentSteps ==
  ASSUME Consistent, [Next]_vars
  PROVE  /\ sent \subseteq sent'
         /\ \A e \in sent' \ sent :
              e \in Event /\ transfer[e.ref] \in {"open"} \cup Final
         /\ \/ audit' = audit
            \/ \E e \in sent, r \in Request : ResultMatched(r, e)
<1>1. CASE UNCHANGED <<sent, audit>>
  BY <1>1
<1>2. ASSUME NEW r \in Request, RequestStep(r)
      PROVE  UNCHANGED <<sent, audit>>
  BY <1>2, RequestKinds DEF CreateBegun, FinishCreate, CallOnly, tables, provider
<1>3. ASSUME NEW r \in Request, ProviderStep(r)
      PROVE  /\ UNCHANGED audit /\ sent \subseteq sent'
             /\ \A e \in sent' \ sent :
                  e \in Event /\ transfer[e.ref] \in {"open"} \cup Final
  <2>1. ASSUME NEW v \in Final, TransferResolved(r, v)
        PROVE  /\ UNCHANGED audit /\ sent \subseteq sent'
               /\ \A e \in sent' \ sent : e \in Event /\ transfer[e.ref] = "open"
    <3> DEFINE e == [ref |-> r, verdict |-> v, amountOk |-> TRUE]
    <3>1. sent' = sent \cup {e} /\ transfer[r] = "open" /\ UNCHANGED audit
      BY <2>1 DEF TransferResolved, tables
    <3>2. \A b \in BOOLEAN : [ref |-> r, verdict |-> v, amountOk |-> b] \in Event
      BY DEF Event
    <3>3. e \in Event /\ e.ref = r
      BY <3>2
    <3> HIDE DEF e
    <3> QED BY <3>1, <3>3
  <2>2. ASSUME NEW s \in Stray, ResultStray(r, s)
        PROVE  /\ UNCHANGED audit /\ sent \subseteq sent'
               /\ \A e \in sent' \ sent :
                    e \in Event /\ transfer[e.ref] \in {"open"} \cup Final
    <3>1. s \in [verdict : Final \cup {"UNKNOWN"}, amountOk : BOOLEAN]
      BY PayoutsAssumption
    <3>2. [ref |-> r, verdict |-> s.verdict, amountOk |-> s.amountOk] \in Event
      BY <3>1 DEF Event
    <3> QED BY <2>2, <3>2 DEF ResultStray, tables
  <2> QED BY <1>3, <2>1, <2>2 DEF ProviderStep
<1>4. ASSUME NEW e \in sent, ResultArrives(e)
      PROVE  UNCHANGED sent /\ (audit' = audit \/ \E r \in Request : ResultMatched(r, e))
  BY <1>4 DEF ResultArrives, ResultUnmatched, ResultConflict, provider
<1>5. ASSUME NEW w \in Worker, WorkerStep(w)
      PROVE  UNCHANGED <<sent, audit>>
  BY <1>5 DEF WorkerStep, SweepExpire, SweepList, SweepDone, SweepPick,
       ReconcileRequested, ReconcileRead, QueryAnswered, QueryInconclusive,
       ReconcileApply, ReconcileAborted, ReconcileInconclusive, WorkerLost,
       tables, provider
<1>6. ASSUME NEW on \in BOOLEAN, OperatorSets(on)
      PROVE  UNCHANGED <<sent, audit>>
  BY <1>6 DEF OperatorSets, provider
<1>7. UNCHANGED vars => UNCHANGED <<sent, audit>>
  BY DEF vars, tables, provider
<1> QED BY <1>1, <1>2, <1>3, <1>4, <1>5, <1>6, <1>7 DEF Next

\* A result is about a payout that is there, and stays there.
LEMMA NextResults ==
  ASSUME Consistent, [Next]_vars
  PROVE  Results'
<1>1. \A e \in sent \cup audit : e.ref \in Request /\ Exists(e.ref)
  BY DEF Consistent, Results, TypeOK, Event
<1>2. \A e \in sent' \ sent : e.ref \in Request /\ Exists(e.ref)
  <2> SUFFICES ASSUME NEW e \in sent' \ sent
               PROVE  e.ref \in Request /\ Exists(e.ref)
    OBVIOUS
  <2>1. e \in Event /\ transfer[e.ref] \in {"open"} \cup Final
    BY SentSteps
  <2>2. "none" \notin {"open"} \cup Final
    BY PayoutsAssumption DEF Verdict
  <2> QED BY <2>1, <2>2 DEF Event, Consistent, Calls
<1>3. audit' \subseteq audit \cup sent
  BY SentSteps DEF ResultMatched
<1>4. \A e \in sent' \cup audit' : e.ref \in Request /\ Exists(e.ref)
  BY <1>1, <1>2, <1>3
<1>5. \A e \in sent' \cup audit' : payout'[e.ref].state # "ABSENT"
  BY <1>4, RowsStay
<1> QED BY <1>5 DEF Results, Exists

\* A definite result is applied, or an alert says that it was not.
LEMMA NextAudited ==
  ASSUME Consistent, [Next]_vars
  PROVE  Audited'
<1> DEFINE Settled(e) == \/ e.verdict = "UNKNOWN" \/ payout'[e.ref].state = Target(e.verdict)
                         \/ Alarmed(e.ref)'
<1>1. ASSUME NEW e \in audit
      PROVE  Settled(e)
  <2>1. e.ref \in Request
    BY DEF Consistent, TypeOK, Event
  <2>2. e.verdict = "UNKNOWN" \/ payout[e.ref].state = Target(e.verdict) \/ Alarmed(e.ref)
    BY DEF Consistent, Audited
  <2>3. CASE Alarmed(e.ref)
    BY <2>3, AlertsStay DEF Alarmed
  <2>4. CASE payout[e.ref].state = Target(e.verdict)
    <3>1. Terminal(e.ref)
      BY <2>4 DEF Terminal, Target, DisbursementTerminal
    <3> QED BY <2>1, <2>4, <3>1, TerminalStays
  <2> QED BY <2>2, <2>3, <2>4
<1>2. ASSUME NEW e \in sent, NEW r \in Request, ResultMatched(r, e)
      PROVE  Settled(e)
  <2>1. r = e.ref /\ TypeOK
    BY <1>2, MatchedRow DEF ResultMatched, Consistent
  <2>2. ASSUME NEW kind \in {"amount_mismatch", "illegal_transition"}, NEW from,
               Flag(r, kind, from)
        PROVE  Settled(e)
    <3> DEFINE a == [id |-> r, kind |-> kind, from |-> from]
    <3>1. a \in anomaly' /\ a.id = e.ref /\ a.kind \in {"illegal_transition", "amount_mismatch"}
      BY <2>1, <2>2 DEF Flag
    <3> HIDE DEF a
    <3> QED BY <3>1 DEF Alarmed
  <2>3. CASE ToReview(r, "amount_mismatch")
    BY <2>2, <2>3 DEF ToReview
  <2>4. CASE Settle(r, e.verdict)
    <3>2. payout[r].state \in Open
      BY <2>1, <2>4, OpenStates DEF Settle
    <3>3. CASE e.verdict = "SUCCEEDED"
      <4>1. Succeeds(r)
        BY <2>4, <3>2, <3>3 DEF Settle, Succeeds
      <4> QED BY <2>1, <3>3, <4>1, PaidRow DEF Target
    <3>4. CASE e.verdict \in {"FAILED", "BLOCKED"}
      <4>1. Fails(r)
        BY <2>4, <3>2, <3>4 DEF Settle, Fails
      <4> QED BY <2>1, <3>4, <4>1, FailedRow DEF Target
    <3> QED BY <2>4, <3>3, <3>4 DEF Settle
  <2>5. CASE /\ payout[r].state = Target(e.verdict)
             /\ UNCHANGED payout
    BY <2>1, <2>5
  <2>6. CASE ContradictionLogged(r)
    BY <2>2, <2>6 DEF ContradictionLogged
  <2>7. CASE e.verdict = "UNKNOWN"
    BY <2>7
  <2> QED BY <1>2, <2>3, <2>4, <2>5, <2>6, <2>7 DEF ResultMatched, ApplyOutcome
<1>3. \A e \in audit' : Settled(e)
  <2>1. CASE audit' = audit
    BY <1>1, <2>1
  <2>2. ASSUME NEW e \in sent, NEW r \in Request, ResultMatched(r, e)
        PROVE  \A d \in audit' : Settled(d)
    <3>1. audit' = audit \cup {e} /\ Settled(e)
      BY <1>2, <2>2 DEF ResultMatched
    <3> HIDE DEF Settled
    <3> QED BY <1>1, <3>1
  <2> HIDE DEF Settled
  <2> QED BY <2>1, <2>2, SentSteps
<1> QED BY <1>3 DEF Audited

\* Every result finds its payout, for the reference is stored before the call.
LEMMA NextInbox ==
  ASSUME Consistent, [Next]_vars
  PROVE  EveryResultMatches'
<1>1. inbox = {}
  BY DEF Consistent, EveryResultMatches
<1>2. ASSUME NEW e \in sent, ResultArrives(e)
      PROVE  UNCHANGED inbox
  <2>1. Matches(e.ref, e) /\ e.ref \in Request
    BY DEF Consistent, Results, Rows, Matches, TypeOK, Event
  <2>2. ~ResultUnmatched(e)
    BY <2>1 DEF ResultUnmatched
  <2> QED BY <1>2, <2>2 DEF ResultArrives, ResultMatched, ResultConflict
<1>3. ASSUME NEW r \in Request, RequestStep(r)
      PROVE  UNCHANGED inbox
  BY <1>3, RequestKinds DEF CreateBegun, FinishCreate, CallOnly, tables
<1>4. ASSUME NEW w \in Worker, WorkerStep(w)
      PROVE  UNCHANGED inbox
  BY <1>4 DEF WorkerStep, SweepExpire, SweepList, SweepDone, SweepPick,
       ReconcileRequested, ReconcileRead, QueryAnswered, QueryInconclusive,
       ReconcileApply, ReconcileAborted, ReconcileInconclusive, WorkerLost, tables
<1>5. ASSUME NEW r \in Request, ProviderStep(r)
      PROVE  UNCHANGED inbox
  BY <1>5 DEF ProviderStep, TransferResolved, ResultStray, tables
<1>6. UNCHANGED inbox
  BY <1>2, <1>3, <1>4, <1>5 DEF Next, OperatorSets, vars, tables
<1> QED BY <1>1, <1>6 DEF EveryResultMatches

-----------------------------------------------------------------------------
(* Threads                                                                 *)

\* The thread of another call is left alone, and so are all of them by workers,
\* results, the provider and the operator.
LEMMA CallSteps ==
  ASSUME Consistent, [Next]_vars
  PROVE  \/ UNCHANGED <<call, reply>>
         \/ \E r \in Request : RequestStep(r)
<1>1. ASSUME NEW r \in Request, ProviderStep(r)
      PROVE  UNCHANGED <<call, reply>>
  BY <1>1 DEF ProviderStep, TransferResolved, ResultStray, threads
<1>2. ASSUME NEW e \in sent, ResultArrives(e)
      PROVE  UNCHANGED <<call, reply>>
  BY <1>2 DEF ResultArrives, threads
<1>3. ASSUME NEW w \in Worker, WorkerStep(w)
      PROVE  UNCHANGED <<call, reply>>
  BY <1>3 DEF WorkerStep, SweepExpire, SweepList, SweepDone, SweepPick,
       ReconcileRequested, ReconcileRead, QueryAnswered, QueryInconclusive,
       ReconcileApply, ReconcileAborted, ReconcileInconclusive, WorkerLost
<1>4. ASSUME NEW on \in BOOLEAN, OperatorSets(on)
      PROVE  UNCHANGED <<call, reply>>
  BY <1>4 DEF OperatorSets, threads
<1>5. UNCHANGED vars => UNCHANGED <<call, reply>>
  BY DEF vars, threads
<1> QED BY <1>1, <1>2, <1>3, <1>4, <1>5 DEF Next

\* The provider's transfers change by a call's own request and by their verdict.
LEMMA TransferSteps ==
  ASSUME Consistent, [Next]_vars
  PROVE  /\ transfer' \in [Request -> {"none", "rejected", "open"} \cup Final]
         /\ \A x \in Request :
              \/ transfer'[x] = transfer[x]
              \/ transfer[x] = "open" /\ transfer'[x] \in Final
              \/ /\ call[x].pc = "calling" /\ call'[x].pc = "finishing"
                 /\ \/ transfer'[x] = "open" /\ call'[x].ack \in {"accepted", "unknown"}
                    \/ transfer'[x] = "none" /\ call'[x].ack = "unknown"
                    \/ transfer'[x] = "rejected" /\ call'[x].ack \in {"refused", "tripping"}
<1> DEFINE Transfers == {"none", "rejected", "open"} \cup Final
<1>1. transfer \in [Request -> Transfers] /\ call \in [Request -> CallThread]
  BY DEF Consistent, TypeOK
<1>2. CASE UNCHANGED transfer
  BY <1>1, <1>2
<1>3. ASSUME NEW r \in Request, NEW made \in {"none", "rejected", "open"}, NEW ack,
             DisburseReturned(r, made, ack)
      PROVE  /\ transfer' \in [Request -> Transfers]
             /\ \A x \in Request : x # r => transfer'[x] = transfer[x]
             /\ transfer'[r] = made /\ call[r].pc = "calling"
             /\ call'[r].pc = "finishing" /\ call'[r].ack = ack
  <2>1. transfer' = [transfer EXCEPT ![r] = made] /\ call[r].pc = "calling"
    BY <1>3 DEF DisburseReturned
  <2>2. call' = [call EXCEPT ![r] = [call[r] EXCEPT !.pc = "finishing", !.ack = ack]]
    BY <1>1, <1>3 DEF DisburseReturned
  <2>3. \A t \in CallThread : LET new == [t EXCEPT !.pc = "finishing", !.ack = ack]
                              IN  new.pc = "finishing" /\ new.ack = ack
    BY DEF CallThread
  <2>4. call[r] \in CallThread /\ call'[r] = [call[r] EXCEPT !.pc = "finishing", !.ack = ack]
    BY <1>1, <2>2
  <2> QED BY <1>1, <2>1, <2>3, <2>4
<1>4. ASSUME NEW r \in Request, NEW v \in Final, TransferResolved(r, v)
      PROVE  /\ transfer' \in [Request -> Transfers]
             /\ \A x \in Request : x # r => transfer'[x] = transfer[x]
             /\ transfer'[r] = v /\ transfer[r] = "open"
  <2>1. transfer' = [transfer EXCEPT ![r] = v] /\ transfer[r] = "open"
    BY <1>4 DEF TransferResolved
  <2> QED BY <1>1, <2>1
<1>5. ASSUME NEW r \in Request, RequestStep(r)
      PROVE  \/ UNCHANGED transfer
             \/ TransferAccepted(r) \/ TransferAnswerLost(r) \/ TransferNotReached(r)
             \/ \E reason \in {"refused", "tripping"} : TransferRejected(r, reason)
  BY <1>5 DEF RequestStep, CreateAnsweredEarly, CreateOverLimit, CreateChecked,
       CreateAdmitted, CreateDisabled, CreateAnsweredLate, CreateBegun, CreateConflict,
       ConflictReplied, IdemReplied, Replied, FinishCreate, RequestLost, provider
<1>6. \/ UNCHANGED transfer
      \/ \E r \in Request : RequestStep(r)
      \/ \E r \in Request, v \in Final : TransferResolved(r, v)
  BY DEF Next, WorkerStep, SweepExpire, SweepList, SweepDone, SweepPick,
       ReconcileRequested, ReconcileRead, QueryAnswered, QueryInconclusive,
       ReconcileApply, ReconcileAborted, ReconcileInconclusive, WorkerLost,
       ProviderStep, ResultStray, ResultArrives, OperatorSets, vars, provider
<1> HIDE DEF Transfers
<1>7. ASSUME NEW r \in Request, RequestStep(r)
      PROVE  \/ UNCHANGED transfer
             \/ /\ transfer' \in [Request -> Transfers]
                /\ \A x \in Request : x # r => transfer'[x] = transfer[x]
                /\ call[r].pc = "calling" /\ call'[r].pc = "finishing"
                /\ \/ transfer'[r] = "open" /\ call'[r].ack \in {"accepted", "unknown"}
                   \/ transfer'[r] = "none" /\ call'[r].ack = "unknown"
                   \/ transfer'[r] = "rejected" /\ call'[r].ack \in {"refused", "tripping"}
  BY <1>3, <1>5, <1>7 DEF TransferAccepted, TransferAnswerLost, TransferNotReached,
                          TransferRejected
<1> QED BY <1>2, <1>4, <1>6, <1>7 DEF Transfers

\* What a step of call r makes of its own thread.
LEMMA CallStep ==
  ASSUME Consistent, NEW r \in Request, RequestStep(r)
  PROVE  /\ call' \in [Request -> CallThread]
         /\ \A x \in Request : x # r => call'[x] = call[x]
         /\ \/ call'[r].pc \in {"done", "lost"}
            \/ /\ call[r].pc = "ready" /\ call'[r].pc = "checked"
               /\ call'[r].key \in Key /\ call'[r].payload \in Payload
            \/ /\ call[r].pc \in {"checked", "admitted"}
               /\ call'[r].pc \in {"admitted", "conflict"}
               /\ call'[r].key = call[r].key /\ call'[r].payload = call[r].payload
            \/ CreateBegun(r) /\ call'[r].pc = "calling"
            \/ call[r].pc = "calling" /\ call'[r].pc = "finishing"
<1>1. call \in [Request -> CallThread] /\ call[r] \in CallThread
  BY DEF Consistent, TypeOK
<1>2. NewCall \in CallThread /\ NewCall.pc = "ready"
  BY DEF NewCall, CallThread
<1>3. ASSUME NEW pc \in {"done", "lost"}, call' = [call EXCEPT ![r] = [NewCall EXCEPT !.pc = pc]]
      PROVE  /\ call' \in [Request -> CallThread] /\ call'[r].pc = pc
             /\ \A x \in Request : x # r => call'[x] = call[x]
  <2>1. [NewCall EXCEPT !.pc = pc] \in CallThread /\ [NewCall EXCEPT !.pc = pc].pc = pc
    BY DEF NewCall, CallThread
  <2> QED BY <1>1, <1>3, <2>1
<1>4. ASSUME NEW pc \in {"admitted", "conflict", "calling"}, call' = [call EXCEPT ![r].pc = pc]
      PROVE  /\ call' \in [Request -> CallThread]
             /\ call'[r].pc = pc /\ call'[r].key = call[r].key
             /\ call'[r].payload = call[r].payload
             /\ \A x \in Request : x # r => call'[x] = call[x]
  BY <1>1, <1>4 DEF CallThread
<1>5. ASSUME NEW k \in Key, NEW p \in Payload, CreateChecked(r, k, p)
      PROVE  /\ call' \in [Request -> CallThread]
             /\ call[r].pc = "ready" /\ call'[r].pc = "checked"
             /\ call'[r].key \in Key /\ call'[r].payload \in Payload
             /\ \A x \in Request : x # r => call'[x] = call[x]
  <2> DEFINE t == [NewCall EXCEPT !.pc = "checked", !.key = k, !.payload = p]
  <2>1. t \in CallThread /\ t.pc = "checked" /\ t.key = k /\ t.payload = p
    BY DEF NewCall, CallThread
  <2>2. call' = [call EXCEPT ![r] = t] /\ call[r].pc = "ready"
    BY <1>5 DEF CreateChecked
  <2> HIDE DEF t
  <2> QED BY <1>1, <2>1, <2>2
<1>6. ASSUME NEW made, NEW ack \in {"accepted", "refused", "tripping", "unknown"},
             DisburseReturned(r, made, ack)
      PROVE  /\ call' \in [Request -> CallThread]
             /\ call[r].pc = "calling" /\ call'[r].pc = "finishing"
             /\ \A x \in Request : x # r => call'[x] = call[x]
  <2>1. call' = [call EXCEPT ![r] = [call[r] EXCEPT !.pc = "finishing", !.ack = ack]]
    BY <1>1, <1>6 DEF DisburseReturned
  <2>2. \A t \in CallThread : LET new == [t EXCEPT !.pc = "finishing", !.ack = ack]
                              IN  new \in CallThread /\ new.pc = "finishing"
    BY DEF CallThread
  <2>3. call[r].pc = "calling"
    BY <1>6 DEF DisburseReturned
  <2> QED BY <1>1, <2>1, <2>2, <2>3
<1>7. \/ call' = [call EXCEPT ![r] = [NewCall EXCEPT !.pc = "done"]]
      \/ call' = [call EXCEPT ![r] = [NewCall EXCEPT !.pc = "lost"]]
      \/ \E k \in Key, p \in Payload : CreateChecked(r, k, p)
      \/ CreateAdmitted(r) \/ CreateConflict(r) \/ CreateBegun(r)
      \/ \E made, ack : /\ ack \in {"accepted", "refused", "tripping", "unknown"}
                        /\ DisburseReturned(r, made, ack)
  BY DEF RequestStep, CreateAnsweredEarly, CreateOverLimit, CreateDisabled,
       CreateAnsweredLate, ConflictReplied, IdemReplied, Replied, FinishCreate,
       RequestLost, TransferAccepted, TransferAnswerLost, TransferNotReached,
       TransferRejected
<1>8. CreateAdmitted(r) =>
        call[r].pc = "checked" /\ call' = [call EXCEPT ![r].pc = "admitted"]
  BY DEF CreateAdmitted
<1>9. CreateConflict(r) =>
        call[r].pc = "admitted" /\ call' = [call EXCEPT ![r].pc = "conflict"]
  BY DEF CreateConflict
<1>10. CreateBegun(r) => call' = [call EXCEPT ![r].pc = "calling"]
  BY DEF CreateBegun
<1> QED BY <1>3, <1>4, <1>5, <1>6, <1>7, <1>8, <1>9, <1>10

\* A call that has not begun has no payout, and one that is calling no transfer.
LEMMA NextCalls ==
  ASSUME Consistent, [Next]_vars
  PROVE  Calls'
<1> SUFFICES ASSUME NEW x \in Request
             PROVE  /\ call'[x].pc \in {"checked", "admitted", "conflict"} =>
                         call'[x].key \in Key /\ call'[x].payload \in Payload
                    /\ call'[x].pc \in {"ready", "checked", "admitted", "conflict"} =>
                         payout'[x].state = "ABSENT"
                    /\ call'[x].pc \in {"calling", "finishing"} => payout'[x].state # "ABSENT"
                    /\ call'[x].pc = "calling" => transfer'[x] = "none"
                    /\ transfer'[x] # "none" => payout'[x].state # "ABSENT"
  BY DEF Calls, Exists
<1>1. /\ call[x].pc \in {"checked", "admitted", "conflict"} =>
           call[x].key \in Key /\ call[x].payload \in Payload
      /\ call[x].pc \in {"ready", "checked", "admitted", "conflict"} => ~Exists(x)
      /\ call[x].pc \in {"calling", "finishing"} => Exists(x)
      /\ call[x].pc = "calling" => transfer[x] = "none"
      /\ transfer[x] # "none" => Exists(x)
  BY DEF Consistent, Calls
<1>2. Exists(x) => payout'[x].state # "ABSENT"
  BY RowsStay
<1>3. ~Exists(x) => payout'[x] = payout[x] \/ CreateBegun(x)
  BY RowSteps DEF RowStep, RowMoved, Open, Exists
<1>4. CreateBegun(x) => payout'[x].state # "ABSENT" /\ call'[x].pc = "calling" /\ ~Exists(x)
  <2> SUFFICES ASSUME CreateBegun(x)
               PROVE  payout'[x].state # "ABSENT" /\ call'[x].pc = "calling" /\ ~Exists(x)
    OBVIOUS
  <2>1. payout'[x] = NewRow(x) /\ ~Exists(x)
    BY BegunCall
  <2>2. call'[x].pc = "calling"
    BY DEF CreateBegun, Consistent, TypeOK, CallThread
  <2> QED BY <2>1, <2>2 DEF NewRow
<1>5. \/ transfer'[x] = transfer[x]
      \/ transfer[x] = "open" /\ transfer'[x] \in Final
      \/ call[x].pc = "calling" /\ call'[x].pc = "finishing"
  BY TransferSteps
<1>6. CASE call'[x] = call[x]
  <2>1. ~CreateBegun(x)
    BY <1>1, <1>4, <1>6
  <2> QED BY <1>1, <1>2, <1>3, <1>5, <1>6, <2>1 DEF Exists
<1>7. CASE RequestStep(x)
  <2>1. \/ call'[x].pc \in {"done", "lost"}
        \/ /\ call[x].pc = "ready" /\ call'[x].pc = "checked"
           /\ call'[x].key \in Key /\ call'[x].payload \in Payload
        \/ /\ call[x].pc \in {"checked", "admitted"}
           /\ call'[x].pc \in {"admitted", "conflict"}
           /\ call'[x].key = call[x].key /\ call'[x].payload = call[x].payload
        \/ CreateBegun(x) /\ call'[x].pc = "calling"
        \/ call[x].pc = "calling" /\ call'[x].pc = "finishing"
    BY <1>7, CallStep
  <2> QED BY <1>1, <1>2, <1>3, <1>4, <1>5, <2>1 DEF Exists
<1>8. ASSUME NEW r \in Request, RequestStep(r), r # x
      PROVE  call'[x] = call[x]
  BY <1>8, CallStep
<1> QED BY <1>6, <1>7, <1>8, CallSteps

\* What a step of worker w makes of its own thread.
LEMMA WorkerThreadStep ==
  ASSUME Consistent, NEW w \in Worker, WorkerStep(w)
  PROVE  /\ worker' \in [Worker -> WorkerThread]
         /\ \A v \in Worker : v # w => worker'[v] = worker[v]
         /\ \/ worker'[w].pc \in {"idle", "listing", "looping"}
            \/ /\ worker'[w].pc = "querying"
               /\ worker'[w].at \in Request /\ Unresolved(worker'[w].at)
            \/ /\ worker[w].pc = "querying" /\ worker'[w].at = worker[w].at
               /\ \/ worker'[w].pc = "inconclusive"
                  \/ /\ worker'[w].pc = "applying"
                     /\ worker'[w].answer = transfer[worker[w].at]
                     /\ transfer[worker[w].at] \in Final
<1>1. worker \in [Worker -> WorkerThread] /\ worker[w] \in WorkerThread
  BY DEF Consistent, TypeOK
<1> DEFINE Good ==
      /\ worker' \in [Worker -> WorkerThread]
      /\ \A v \in Worker : v # w => worker'[v] = worker[v]
<1>2. ASSUME NEW t \in WorkerThread, worker' = [worker EXCEPT ![w] = t]
      PROVE  Good /\ worker'[w] = t
  BY <1>1, <1>2
<1> HIDE DEF Good
<1>3. IdleWorker \in WorkerThread /\ IdleWorker.pc = "idle"
  BY DEF IdleWorker, WorkerThread
<1>4. ASSUME worker' = [worker EXCEPT ![w] = IdleWorker]
      PROVE  Good /\ worker'[w].pc = "idle"
  BY <1>2, <1>3, <1>4
<1>5. ASSUME worker' = [worker EXCEPT ![w].pc = "listing"]
      PROVE  Good /\ worker'[w].pc = "listing"
  <2>1. worker' = [worker EXCEPT ![w] = [worker[w] EXCEPT !.pc = "listing"]]
    BY <1>1, <1>5
  <2>2. \A t \in WorkerThread :
          [t EXCEPT !.pc = "listing"] \in WorkerThread /\ [t EXCEPT !.pc = "listing"].pc = "listing"
    BY DEF WorkerThread
  <2> QED BY <1>1, <1>2, <2>1, <2>2
<1>6. ASSUME NEW due \in SUBSET Request, SweepList(w, due)
      PROVE  Good /\ worker'[w].pc = "looping"
  <2>1. worker' = [worker EXCEPT ![w] = [worker[w] EXCEPT !.pc = "looping", !.todo = due]]
    BY <1>1, <1>6 DEF SweepList
  <2>2. \A t \in WorkerThread :
          LET new == [t EXCEPT !.pc = "looping", !.todo = due]
          IN  new \in WorkerThread /\ new.pc = "looping"
    BY DEF WorkerThread
  <2> QED BY <1>1, <1>2, <2>1, <2>2
<1>7. ASSUME Resume(w)
      PROVE  Good /\ worker'[w].pc = "looping"
  <2> DEFINE t == [pc |-> "looping", todo |-> worker[w].todo, at |-> None,
                   answer |-> "UNKNOWN"]
  <2>1. t \in WorkerThread /\ t.pc = "looping"
    BY <1>1 DEF WorkerThread
  <2>2. worker' = [worker EXCEPT ![w] = t]
    BY <1>7 DEF Resume
  <2> HIDE DEF t
  <2> QED BY <1>2, <2>1, <2>2
<1>8. ASSUME NEW r \in Request, NEW rest \in SUBSET Request, ReconcileRead(w, r, rest)
      PROVE  /\ Good
             /\ \/ worker'[w].pc = "looping"
                \/ worker'[w].pc = "querying" /\ worker'[w].at = r /\ Unresolved(r)
  <2> DEFINE t == [pc |-> IF Unresolved(r) THEN "querying" ELSE "looping",
                   todo |-> rest, at |-> IF Unresolved(r) THEN r ELSE None,
                   answer |-> "UNKNOWN"]
  <2>1. /\ t \in WorkerThread
        /\ t.pc = "looping" \/ (t.pc = "querying" /\ t.at = r /\ Unresolved(r))
    BY DEF WorkerThread
  <2>2. worker' = [worker EXCEPT ![w] = t]
    BY <1>8 DEF ReconcileRead
  <2> HIDE DEF t
  <2> QED BY <1>2, <2>1, <2>2
<1>9. ASSUME NEW r \in Request, SweepPick(w, r) \/ ReconcileRequested(w, r)
      PROVE  /\ Good
             /\ \/ worker'[w].pc = "looping"
                \/ worker'[w].pc = "querying" /\ worker'[w].at = r /\ Unresolved(r)
  <2>1. worker[w].todo \ {r} \in SUBSET Request /\ {} \in SUBSET Request
    BY <1>1 DEF WorkerThread
  <2> QED BY <1>8, <1>9, <2>1 DEF SweepPick, ReconcileRequested
<1>10. CASE QueryAnswered(w)
  <2>1. worker[w].pc = "querying" /\ worker[w].at \in Request /\ Exists(worker[w].at)
    BY <1>10 DEF QueryAnswered, Consistent, Threads
  <2>2. payout[worker[w].at].oid = worker[w].at
    BY <2>1 DEF Consistent, Rows
  <2> DEFINE v == transfer[worker[w].at]
  <2>3. /\ v \in Final
        /\ worker' = [worker EXCEPT ![w] = [worker[w] EXCEPT !.pc = "applying", !.answer = v]]
    BY <1>1, <1>10, <2>2 DEF QueryAnswered
  <2> HIDE DEF v
  <2>4. \A t \in WorkerThread :
          LET new == [t EXCEPT !.pc = "applying", !.answer = v]
          IN  /\ new \in WorkerThread /\ new.pc = "applying"
              /\ new.answer = v /\ new.at = t.at
    BY <2>3 DEF WorkerThread
  <2>5. /\ Good /\ worker'[w].pc = "applying"
        /\ worker'[w].answer = v /\ worker'[w].at = worker[w].at
    BY <1>1, <1>2, <2>3, <2>4
  <2> QED BY <2>1, <2>3, <2>5 DEF v, Good
<1>11. CASE QueryInconclusive(w)
  <2>1. /\ worker[w].pc = "querying"
        /\ worker' = [worker EXCEPT ![w] = [worker[w] EXCEPT !.pc = "inconclusive"]]
    BY <1>1, <1>11 DEF QueryInconclusive
  <2>2. \A t \in WorkerThread :
          LET new == [t EXCEPT !.pc = "inconclusive"]
          IN  new \in WorkerThread /\ new.pc = "inconclusive" /\ new.at = t.at
    BY DEF WorkerThread
  <2>3. Good /\ worker'[w].pc = "inconclusive" /\ worker'[w].at = worker[w].at
    BY <1>1, <1>2, <2>1, <2>2
  <2> QED BY <2>1, <2>3 DEF Good
<1>12. \/ worker' = [worker EXCEPT ![w] = IdleWorker]
       \/ worker' = [worker EXCEPT ![w].pc = "listing"]
       \/ \E due \in SUBSET Request : SweepList(w, due)
       \/ \E r \in Request : SweepPick(w, r) \/ ReconcileRequested(w, r)
       \/ QueryAnswered(w) \/ QueryInconclusive(w) \/ Resume(w)
  BY DEF WorkerStep, SweepExpire, SweepDone, ReconcileApply, ReconcileAborted,
         ReconcileInconclusive, WorkerLost
<1>13. CASE Good /\ worker'[w].pc \in {"idle", "listing", "looping"}
  BY <1>13 DEF Good
<1>14. CASE \E r \in Request : /\ Good /\ worker'[w].pc = "querying"
                               /\ worker'[w].at = r /\ Unresolved(r)
  BY <1>14 DEF Good
<1> QED BY <1>4, <1>5, <1>6, <1>7, <1>9, <1>10, <1>11, <1>12, <1>13, <1>14

\* Only a worker's step touches workers.
LEMMA WorkerSteps ==
  ASSUME Consistent, [Next]_vars
  PROVE  UNCHANGED worker \/ \E w \in Worker : WorkerStep(w)
<1>1. ASSUME NEW r \in Request, RequestStep(r)
      PROVE  UNCHANGED worker
  BY <1>1, RequestKinds DEF CreateBegun, FinishCreate, CallOnly
<1>2. ASSUME NEW r \in Request, ProviderStep(r)
      PROVE  UNCHANGED worker
  BY <1>2 DEF ProviderStep, TransferResolved, ResultStray, threads
<1> QED BY <1>1, <1>2 DEF Next, ResultArrives, OperatorSets, vars, threads

\* A worker goes on knowing a payout that is there.
LEMMA NextThreads ==
  ASSUME Consistent, [Next]_vars
  PROVE  Threads'
<1> SUFFICES ASSUME NEW v \in Worker,
                    worker'[v].pc \in {"querying", "applying", "inconclusive"}
             PROVE  worker'[v].at \in Request /\ payout'[worker'[v].at].state # "ABSENT"
  BY DEF Threads, Exists
<1>1. ASSUME worker[v].pc \in {"querying", "applying", "inconclusive"}
      PROVE  worker[v].at \in Request /\ Exists(worker[v].at)
  BY <1>1 DEF Consistent, Threads
<1>2. worker'[v].at \in Request /\ Exists(worker'[v].at)
  <2>1. CASE worker'[v] = worker[v]
    BY <1>1, <2>1
  <2>2. CASE WorkerStep(v)
    BY <1>1, <2>2, WorkerThreadStep DEF Unresolved, Exists
  <2>3. ASSUME NEW w \in Worker, WorkerStep(w), w # v
        PROVE  worker'[v] = worker[v]
    BY <2>3, WorkerThreadStep
  <2> QED BY <2>1, <2>2, <2>3, WorkerSteps
<1> QED BY <1>2, RowsStay

-----------------------------------------------------------------------------
(* Keys and answers                                                        *)

\* A key is begun with the payout that has it, and completed with its name.
KeyStep(k) ==
  \/ idem'[k] = idem[k]
  \/ \E r \in Request : /\ CreateBegun(r) /\ call[r].key = k
                        /\ idem'[k].status = "IN_FLIGHT"
  \/ \E r \in Request : /\ Names(r, k)
                        /\ idem'[k].status = "COMPLETED" /\ idem'[k].body.id = r

\* Completing a key, as _finish_create and the sweep do it.
LEMMA KeyCompleted ==
  ASSUME NEW row \in IdemRow, NEW b
  PROVE  LET new == [row EXCEPT !.status = "COMPLETED", !.body = b]
         IN  /\ new.status = "COMPLETED" /\ new.body = b
             /\ b \in PublicBody => new \in IdemRow
BY DEF IdemRow

\* CreateBegun marks its own key.
LEMMA BegunKeys ==
  ASSUME Consistent, NEW r \in Request, CreateBegun(r)
  PROVE  /\ idem' \in [Key -> IdemRow]
         /\ \A k \in Key : KeyStep(k)
<1> DEFINE row == [status |-> "IN_FLIGHT", payload |-> call[r].payload, body |-> NoBody]
<1>1. row \in IdemRow /\ row.status = "IN_FLIGHT"
  BY BegunCall DEF IdemRow, NoBody, PublicBody, State, Reason
<1>2. idem' = [idem EXCEPT ![call[r].key] = row] /\ idem \in [Key -> IdemRow]
      /\ call[r].key \in Key
  BY BegunCall DEF CreateBegun, Consistent, TypeOK
<1> HIDE DEF row
<1>3. \A k \in Key : idem'[k] = IF k = call[r].key THEN row ELSE idem[k]
  BY <1>2
<1> QED BY <1>1, <1>2, <1>3 DEF KeyStep

\* _finish_create completes the key and answers the call, with the payout's name.
LEMMA FinishedKeys ==
  ASSUME Consistent, payout' \in [Request -> Row], NEW r \in Request, FinishCreate(r)
  PROVE  /\ idem' \in [Key -> IdemRow] /\ reply' \in [Request -> Reply]
         /\ \A k \in Key : KeyStep(k)
         /\ \A x \in Request : x # r => reply'[x] = reply[x]
         /\ Names(reply'[r].body.id, reply'[r].key) /\ reply'[r].key \in Key
         /\ idem'[payout[r].key].status = "COMPLETED"
<1> DEFINE k == payout[r].key
           b == Public(r)'
<1>1. Exists(r) /\ k \in Key
  BY DEF FinishCreate, Consistent, Calls, Rows
<1>2. b.id = r /\ b \in PublicBody
  BY DEF Public, PublicBody, Row
<1>3. /\ idem' = [idem EXCEPT ![k] = [idem[k] EXCEPT !.status = "COMPLETED", !.body = b]]
      /\ reply' = [reply EXCEPT ![r] = [code |-> "created", key |-> k, body |-> b]]
      /\ idem \in [Key -> IdemRow] /\ reply \in [Request -> Reply]
  BY <1>1 DEF FinishCreate, Consistent, TypeOK
<1>4. Names(r, k)
  BY <1>1 DEF Names
<1> HIDE DEF k, b
<1>5. /\ idem'[k].status = "COMPLETED" /\ idem'[k].body = b /\ idem' \in [Key -> IdemRow]
      /\ \A l \in Key : l # k => idem'[l] = idem[l]
  BY <1>1, <1>2, <1>3, KeyCompleted
<1>6. /\ reply' \in [Request -> Reply]
      /\ reply'[r].key = k /\ reply'[r].body = b
      /\ \A x \in Request : x # r => reply'[x] = reply[x]
  BY <1>1, <1>2, <1>3 DEF Reply
<1>7. \A l \in Key : KeyStep(l)
  BY <1>2, <1>4, <1>5 DEF KeyStep
<1> QED BY <1>1, <1>2, <1>4, <1>5, <1>6, <1>7 DEF k

\* The sweep completes the keys of the rows it finds late, with their names.
LEMMA SweptKeys ==
  ASSUME Consistent, NEW w \in Worker, NEW late \in SUBSET Request,
         NEW lost \in SUBSET Request, SweepExpire(w, late, lost)
  PROVE  /\ idem' \in [Key -> IdemRow]
         /\ \A k \in Key : KeyStep(k)
         /\ \A r \in late : idem'[payout[r].key].status = "COMPLETED"
<1>1. idem \in [Key -> IdemRow] /\ payout \in [Request -> Row]
  BY DEF Consistent, TypeOK
<1>2. idem' = KeysSwept(late) /\ late \subseteq {r \in Request : payout[r].state = "CREATED"}
  BY DEF SweepExpire
<1>3. ASSUME NEW k \in Key
      PROVE  /\ idem'[k] \in IdemRow /\ KeyStep(k)
             /\ (\E r \in late : payout[r].key = k) => idem'[k].status = "COMPLETED"
  <2>1. CASE \E r \in late : payout[r].key = k
    <3> DEFINE c == CHOOSE r \in late : payout[r].key = k
               b == [Public(c) EXCEPT !.state = "UNKNOWN"]
    <3>1. c \in late /\ payout[c].key = k
      BY <2>1
    <3>2. idem'[k] = [idem[k] EXCEPT !.status = "COMPLETED", !.body = b]
      BY <1>2, <2>1 DEF KeysSwept
    <3> HIDE DEF c
    <3>3. c \in Request /\ Names(c, k)
      BY <1>2, <3>1 DEF Names, Exists
    <3>4. b.id = c /\ b \in PublicBody
      BY <1>1, <3>3 DEF Public, PublicBody, Row, State, DisbursementState
    <3> HIDE DEF b
    <3>5. idem'[k] \in IdemRow /\ idem'[k].status = "COMPLETED" /\ idem'[k].body = b
      <4>1. idem[k] \in IdemRow
        BY <1>1
      <4> DEFINE new == [idem[k] EXCEPT !.status = "COMPLETED", !.body = b]
      <4>2. new.status = "COMPLETED" /\ new.body = b /\ new \in IdemRow
        BY <3>4, <4>1, KeyCompleted
      <4>3. idem'[k] = new
        BY <3>2
      <4> HIDE DEF new
      <4> QED BY <4>2, <4>3
    <3> QED BY <3>3, <3>4, <3>5 DEF KeyStep
  <2>2. CASE ~\E r \in late : payout[r].key = k
    <3>1. idem'[k] = idem[k]
      BY <1>2, <2>2 DEF KeysSwept
    <3> QED BY <1>1, <2>2, <3>1 DEF KeyStep
  <2> QED BY <2>1, <2>2
<1>4. idem' = [k \in Key |-> idem'[k]]
  BY <1>2 DEF KeysSwept
<1>5. \A r \in late : payout[r].key \in Key
  BY <1>2 DEF Consistent, Rows, Exists
<1> QED BY <1>3, <1>4, <1>5

\* Every step does to every key what KeyStep says.
LEMMA KeySteps ==
  ASSUME Consistent, [Next]_vars
  PROVE  /\ idem' \in [Key -> IdemRow]
         /\ \A k \in Key : KeyStep(k)
<1>1. CASE UNCHANGED idem
  BY <1>1 DEF Consistent, TypeOK, KeyStep
<1>2. ASSUME NEW r \in Request, RequestStep(r)
      PROVE  \/ UNCHANGED idem
             \/ idem' \in [Key -> IdemRow] /\ \A k \in Key : KeyStep(k)
  BY <1>2, BegunKeys, FinishedKeys, RowSteps, RequestKinds DEF CallOnly, tables
<1>3. ASSUME NEW w \in Worker, WorkerStep(w)
      PROVE  \/ UNCHANGED idem
             \/ idem' \in [Key -> IdemRow] /\ \A k \in Key : KeyStep(k)
  <2>1. \/ UNCHANGED idem
        \/ \E late, lost \in SUBSET Request : SweepExpire(w, late, lost)
    BY <1>3 DEF WorkerStep, SweepList, SweepDone, SweepPick, ReconcileRequested,
         ReconcileRead, QueryAnswered, QueryInconclusive, ReconcileApply,
         ReconcileAborted, ReconcileInconclusive, WorkerLost, tables
  <2> QED BY <2>1, SweptKeys
<1>4. ASSUME NEW r \in Request, ProviderStep(r)
      PROVE  UNCHANGED idem
  BY <1>4 DEF ProviderStep, TransferResolved, ResultStray, tables
<1> QED BY <1>1, <1>2, <1>3, <1>4 DEF Next, ResultArrives, OperatorSets, vars, tables

\* What a key or an answer names, it goes on naming.
LEMMA NamesStay ==
  ASSUME Consistent, [Next]_vars, NEW id, NEW k, Names(id, k)
  PROVE  Names(id, k)'
BY RowsStay DEF Names, Exists

\* A key stays with one payout, and is taken as long as that is there.
LEMMA NextKeys ==
  ASSUME Consistent, [Next]_vars
  PROVE  Keys'
<1>1. ASSUME NEW x \in Request, payout'[x].state # "ABSENT"
      PROVE  CreateBegun(x) \/ (Exists(x) /\ payout'[x].key = payout[x].key)
  BY <1>1, RowSteps DEF RowStep, RowMoved, Open, Exists
<1>2. ASSUME NEW x \in Request, CreateBegun(x)
      PROVE  /\ payout'[x].key = call[x].key /\ call[x].key \in Key
             /\ idem'[call[x].key].status = "IN_FLIGHT"
             /\ \A y \in Request : y # x => payout'[y] = payout[y]
             /\ \A y \in Request : Exists(y) => payout[y].key # call[x].key
  <2>1. payout'[x] = NewRow(x) /\ call[x].key \in Key
    BY <1>2, BegunCall
  <2>2. idem'[call[x].key].status = "IN_FLIGHT"
    BY <1>2, <2>1 DEF CreateBegun, Consistent, TypeOK
  <2> QED BY <1>2, <2>1, <2>2, BegunCall DEF NewRow
<1>3. ASSUME NEW x \in Request, payout'[x].state # "ABSENT"
      PROVE  idem'[payout'[x].key].status # "ABSENT"
  <2>1. CASE CreateBegun(x)
    BY <1>2, <2>1
  <2>2. CASE Exists(x) /\ payout'[x].key = payout[x].key
    <3>1. payout[x].key \in Key /\ idem[payout[x].key].status # "ABSENT"
      BY <2>2 DEF Consistent, Rows, Keys
    <3>2. KeyStep(payout[x].key)
      BY <3>1, KeySteps
    <3> QED BY <2>2, <3>1, <3>2 DEF KeyStep
  <2> QED BY <1>1, <1>3, <2>1, <2>2
<1>4. ASSUME NEW x \in Request, NEW y \in Request,
             payout'[x].state # "ABSENT", payout'[y].state # "ABSENT",
             payout'[x].key = payout'[y].key
      PROVE  x = y
  <2>1. CASE CreateBegun(x) \/ CreateBegun(y)
    BY <1>1, <1>2, <1>4, <2>1 DEF Exists
  <2>2. CASE ~CreateBegun(x) /\ ~CreateBegun(y)
    BY <1>1, <1>4, <2>2 DEF Consistent, Keys
  <2> QED BY <2>1, <2>2
<1>5. ASSUME NEW k \in Key, idem'[k].status = "COMPLETED"
      PROVE  Names(idem[k].body.id, k)'
  <2>1. KeyStep(k)
    BY KeySteps
  <2>2. Names(idem'[k].body.id, k)
    <3>1. idem[k].status = "COMPLETED" => Names(idem[k].body.id, k)
      BY DEF Consistent, Keys
    <3> QED BY <1>5, <2>1, <3>1 DEF KeyStep
  <2> DEFINE id == idem'[k].body.id
  <2>3. id \in Request /\ Exists(id) /\ payout[id].key = k
    BY <2>2 DEF Names
  <2>4. payout'[id].state # "ABSENT" /\ payout'[id].key = k
    BY <2>3, RowsStay
  <2> QED BY <2>3, <2>4 DEF Names, Exists
<1> QED BY <1>3, <1>4, <1>5 DEF Keys, Exists

\* An answer is refused, or names the payout of its key.
LEMMA ReplySteps ==
  ASSUME Consistent, [Next]_vars
  PROVE  /\ reply' \in [Request -> Reply]
         /\ \A x \in Request :
              \/ reply'[x] = reply[x]
              \/ reply'[x].code \notin {"created", "replayed"}
              \/ reply'[x].key \in Key /\ Names(reply'[x].body.id, reply'[x].key)
<1> DEFINE Told2xx(x) ==
      \/ reply'[x] = reply[x]
      \/ reply'[x].code \notin {"created", "replayed"}
      \/ reply'[x].key \in Key /\ Names(reply'[x].body.id, reply'[x].key)
<1>1. reply \in [Request -> Reply]
  BY DEF Consistent, TypeOK
<1>2. CASE UNCHANGED reply
  BY <1>1, <1>2
<1>3. ASSUME NEW r \in Request, NEW code \in {"replayed", "refused", "disabled", "conflict"},
             NEW k \in Key, NEW body \in PublicBody, Replied(r, code, k, body),
             code = "replayed" => Names(body.id, k)
      PROVE  reply' \in [Request -> Reply] /\ \A x \in Request : Told2xx(x)
  <2> DEFINE a == [code |-> code, key |-> k, body |-> body]
  <2>1. a \in Reply /\ a.code = code /\ a.key = k /\ a.body = body
    BY DEF Reply
  <2>2. reply' = [reply EXCEPT ![r] = a]
    BY <1>3 DEF Replied
  <2> HIDE DEF a
  <2>3. reply' \in [Request -> Reply] /\ reply'[r] = a
        /\ \A x \in Request : x # r => reply'[x] = reply[x]
    BY <1>1, <2>1, <2>2
  <2> QED BY <1>3, <2>1, <2>3
<1>4. NoBody \in PublicBody /\ \A q \in Request : [NoBody EXCEPT !.id = q] \in PublicBody
  BY DEF NoBody, PublicBody, State, Reason
<1> DEFINE Done == reply' \in [Request -> Reply] /\ \A x \in Request : Told2xx(x)
<1> HIDE DEF Told2xx
<1>5. ASSUME NEW r \in Request, NEW k \in Key, NEW p, IdemReplied(r, k, p)
      PROVE  Done
  <2>1. CASE IdemClassify(k, p) = "replay" /\ Replied(r, "replayed", k, idem[k].body)
    <3>1. idem[k].status \in {"ABSENT", "IN_FLIGHT", "COMPLETED"} /\ idem[k].body \in PublicBody
      BY DEF Consistent, TypeOK, IdemRow
    <3>2. idem[k].status = "COMPLETED"
      BY <2>1, <3>1 DEF IdemClassify
    <3>3. Names(idem[k].body.id, k)
      BY <3>2 DEF Consistent, Keys
    <3> QED BY <1>3, <2>1, <3>1, <3>3
  <2>2. CASE Replied(r, "refused", k, NoBody)
    BY <1>3, <1>4, <2>2
  <2> QED BY <1>5, <2>1, <2>2 DEF IdemReplied
<1>6. ASSUME NEW r \in Request, RequestStep(r)
      PROVE  UNCHANGED reply \/ Done
  <2>1. ASSUME NEW k \in Key, NEW p \in Payload,
               CreateAnsweredEarly(r, k, p) \/ CreateOverLimit(r, k, p)
        PROVE  Done
    BY <1>3, <1>4, <1>5, <2>1 DEF CreateAnsweredEarly, CreateOverLimit
  <2>2. CASE CreateDisabled(r) \/ CreateAnsweredLate(r) \/ ConflictReplied(r)
    <3>1. call[r].key \in Key
      BY <2>2 DEF CreateDisabled, CreateAnsweredLate, ConflictReplied, Consistent, Calls
    <3>2. CASE CreateDisabled(r)
      BY <1>3, <1>4, <3>1, <3>2 DEF CreateDisabled
    <3>3. CASE CreateAnsweredLate(r)
      BY <1>5, <3>1, <3>3 DEF CreateAnsweredLate
    <3>4. CASE ConflictReplied(r)
      <4>1. ASSUME NEW q \in Rivals(call[r].payload)
            PROVE  [NoBody EXCEPT !.id = q] \in PublicBody
        BY <1>4 DEF Rivals
      <4> QED BY <1>3, <1>4, <3>1, <3>4, <4>1 DEF ConflictReplied
    <3> QED BY <2>2, <3>2, <3>3, <3>4
  <2>3. CASE FinishCreate(r)
    BY <2>3, FinishedKeys, RowSteps DEF Told2xx
  <2>4. CASE UNCHANGED reply
    BY <2>4
  <2>5. \/ UNCHANGED reply
        \/ \E k \in Key, p \in Payload :
             CreateAnsweredEarly(r, k, p) \/ CreateOverLimit(r, k, p)
        \/ CreateDisabled(r) \/ CreateAnsweredLate(r) \/ ConflictReplied(r)
        \/ FinishCreate(r)
    BY <1>6 DEF RequestStep, CreateChecked, CreateAdmitted, CreateBegun, CreateConflict,
         TransferAccepted, TransferAnswerLost, TransferNotReached, TransferRejected,
         DisburseReturned, RequestLost
  <2> QED BY <2>1, <2>2, <2>3, <2>4, <2>5
<1>7. UNCHANGED reply \/ Done
  BY <1>6, CallSteps
<1> QED BY <1>2, <1>7 DEF Told2xx

\* An answer stays true.
LEMMA NextAnswers ==
  ASSUME Consistent, [Next]_vars
  PROVE  Answers'
<1> SUFFICES ASSUME NEW x \in Request, reply'[x].code \in {"created", "replayed"}
             PROVE  /\ reply'[x].key \in Key
                    /\ reply'[x].body.id \in Request
                    /\ payout'[reply'[x].body.id].state # "ABSENT"
                    /\ payout'[reply'[x].body.id].key = reply'[x].key
  BY DEF Answers, Accepted2xx, Names, Exists
<1>1. reply[x].code \in {"created", "replayed"} =>
        reply[x].key \in Key /\ Names(reply[x].body.id, reply[x].key)
  BY DEF Consistent, Answers, Accepted2xx
<1>2. reply'[x].key \in Key /\ Names(reply'[x].body.id, reply'[x].key)
  BY <1>1, ReplySteps
<1> DEFINE id == reply'[x].body.id
<1>3. id \in Request /\ Exists(id) /\ payout[id].key = reply'[x].key
  BY <1>2 DEF Names
<1>4. payout'[id].state # "ABSENT" /\ payout'[id].key = payout[id].key
  BY <1>3, RowsStay
<1> QED BY <1>2, <1>3, <1>4

-----------------------------------------------------------------------------
(* Types                                                                   *)

\* Debits, events and alerts stay well formed.
LEMMA TableTypes ==
  ASSUME Consistent, [Next]_vars
  PROVE  /\ ledger' \subseteq [id : Request, ref : Request]
         /\ outbox' \subseteq [id : Request, type : DisbursementTerminal]
         /\ anomaly' \subseteq Anomaly
<1>1. /\ ledger \subseteq [id : Request, ref : Request]
      /\ outbox \subseteq [id : Request, type : DisbursementTerminal]
      /\ anomaly \subseteq Anomaly
  BY DEF Consistent, TypeOK
<1>2. CASE Quiet
  BY <1>1, <1>2 DEF Quiet, AlertsAdded
<1>3. ASSUME NEW r \in Request, CreateBegun(r)
      PROVE  UNCHANGED <<ledger, outbox, anomaly>>
  BY <1>3 DEF CreateBegun
<1>4. ASSUME NEW r \in Request, Paid(r)
      PROVE  /\ ledger' \subseteq [id : Request, ref : Request]
             /\ outbox' \subseteq [id : Request, type : DisbursementTerminal]
             /\ anomaly' = anomaly
  BY <1>1, <1>4, PaidEffects DEF Paid, DisbursementTerminal
<1>5. ASSUME NEW r \in Request, Failed(r)
      PROVE  /\ ledger' = ledger
             /\ outbox' \subseteq [id : Request, type : DisbursementTerminal]
             /\ anomaly' \subseteq Anomaly
  <2>1. /\ ledger' = ledger /\ anomaly' \subseteq Anomaly
        /\ outbox' = outbox \cup {[id |-> r, type |-> "FAILED"]}
    BY <1>5, FailedEffects DEF Failed
  <2> QED BY <1>1, <2>1 DEF DisbursementTerminal
<1> QED BY <1>1, <1>2, <1>3, <1>4, <1>5, StepKinds

\* The switch is thrown by a failure, or by the operator.
LEMMA SwitchSteps ==
  ASSUME Consistent, [Next]_vars
  PROVE  \/ enabled' = enabled
         \/ enabled' = FALSE /\ \E r \in Request : Fails(r)
         \/ enabled' \in BOOLEAN /\ UNCHANGED <<payout, threads>>
<1>1. TypeOK
  BY DEF Consistent
<1>2. ASSUME NEW r \in Request, Fails(r)
      PROVE  enabled' = enabled \/ enabled' = FALSE
  BY <1>2, FailedEffects
<1>3. ASSUME NEW r \in Request, NEW v, ApplyOutcome(r, v)
      PROVE  enabled' = enabled \/ Fails(r)
  <2>1. CASE Settle(r, v)
    <3>1. payout[r].state \in Open
      BY <1>1, <2>1, OpenStates DEF Settle
    <3> QED BY <2>1, <3>1 DEF Settle, Fails
  <2> QED BY <1>3, <2>1 DEF ApplyOutcome
<1>4. ASSUME NEW e \in sent, ResultArrives(e)
      PROVE  enabled' = enabled \/ \E r \in Request : Fails(r)
  BY <1>3, <1>4 DEF ResultArrives, ResultUnmatched, ResultMatched, ResultConflict, ToReview
<1>5. ASSUME NEW r \in Request, RequestStep(r)
      PROVE  enabled' = enabled \/ Fails(r)
  <2>1. CASE FinishCreate(r)
    BY <2>1 DEF FinishCreate, Fails, Open
  <2> QED BY <1>5, <2>1, RequestKinds DEF CreateBegun, CallOnly, tables
<1>6. ASSUME NEW w \in Worker, WorkerStep(w)
      PROVE  enabled' = enabled \/ \E r \in Request : Fails(r)
  <2>1. CASE ReconcileApply(w)
    <3>1. worker[w].at \in Request
      BY <2>1 DEF ReconcileApply, Consistent, Threads
    <3> QED BY <1>3, <2>1, <3>1 DEF ReconcileApply
  <2> QED BY <1>6, <2>1 DEF WorkerStep, SweepExpire, SweepList, SweepDone, SweepPick,
           ReconcileRequested, ReconcileRead, QueryAnswered, QueryInconclusive,
           ReconcileAborted, ReconcileInconclusive, ToReview, WorkerLost, tables
<1>7. ASSUME NEW r \in Request, ProviderStep(r)
      PROVE  enabled' = enabled
  BY <1>7 DEF ProviderStep, TransferResolved, ResultStray, tables
<1>8. ASSUME NEW on \in BOOLEAN, OperatorSets(on)
      PROVE  enabled' \in BOOLEAN /\ UNCHANGED <<payout, threads>>
  BY <1>8 DEF OperatorSets
<1>9. UNCHANGED vars => enabled' = enabled
  BY DEF vars, tables
<1> QED BY <1>2, <1>4, <1>5, <1>6, <1>7, <1>8, <1>9 DEF Next

\* Every step keeps every type.
LEMMA NextTypes ==
  ASSUME Consistent, [Next]_vars
  PROVE  TypeOK'
<1>1. TypeOK
  BY DEF Consistent
<1>2. payout' \in [Request -> Row] /\ idem' \in [Key -> IdemRow]
      /\ reply' \in [Request -> Reply]
  BY RowSteps, KeySteps, ReplySteps
<1>3. call' \in [Request -> CallThread]
  BY <1>1, CallSteps, CallStep DEF TypeOK
<1>4. worker' \in [Worker -> WorkerThread]
  BY <1>1, WorkerSteps, WorkerThreadStep DEF TypeOK
<1>5. audit' \subseteq Event /\ sent' \subseteq Event
  <2>1. sent' \subseteq Event
    BY <1>1, SentSteps DEF TypeOK
  <2>2. audit' \subseteq audit \cup sent
    BY SentSteps DEF ResultMatched
  <2> QED BY <1>1, <2>1, <2>2 DEF TypeOK
<1>6. inbox' \subseteq Event
  BY NextInbox DEF EveryResultMatches
<1>7. enabled' \in BOOLEAN
  BY <1>1, SwitchSteps DEF TypeOK
<1>8. transfer' \in [Request -> {"none", "rejected", "open"} \cup Final]
  BY TransferSteps
<1> QED BY <1>2, <1>3, <1>4, <1>5, <1>6, <1>7, <1>8, TableTypes DEF TypeOK

-----------------------------------------------------------------------------
(* The theorems                                                            *)

\* The empty database is consistent.
LEMMA ConsistentInit == Init => Consistent
<1> SUFFICES ASSUME Init PROVE Consistent
  OBVIOUS
<1>1. TypeOK
  <2>1. NoRow \in Row
    BY DEF NoRow, Row, State, Reason
  <2>2. NoBody \in PublicBody
    BY DEF NoBody, PublicBody, State, Reason
  <2>3. NoKey \in IdemRow /\ NoReply \in Reply
    BY <2>2 DEF NoKey, IdemRow, NoReply, Reply
  <2>4. NewCall \in CallThread /\ IdleWorker \in WorkerThread
    BY DEF NewCall, CallThread, IdleWorker, WorkerThread
  <2> QED BY <2>1, <2>3, <2>4 DEF Init, TypeOK
<1>2. \A r \in Request : payout[r] = NoRow /\ ~Exists(r)
  BY DEF Init, Exists, NoRow
<1>3. Rows
  BY <1>2 DEF Rows, NoRow
<1>4. Calls
  BY <1>2 DEF Calls, Init, NewCall
<1>5. Threads
  BY DEF Init, Threads, IdleWorker
<1>6. Keys
  BY <1>2 DEF Keys, Init, NoKey
<1>7. Answers
  BY DEF Init, Answers, Accepted2xx, NoReply
<1>8. Results /\ Audited /\ EveryResultMatches
  BY DEF Init, Results, Audited, EveryResultMatches
<1>9. OneLivePerPeriod
  BY <1>2 DEF OneLivePerPeriod, Live
<1>10. EffectsMatchState
  BY <1>2 DEF Init, EffectsMatchState, Terminal, DisbursementTerminal, NoRow
<1> QED BY <1>1, <1>3, <1>4, <1>5, <1>6, <1>7, <1>8, <1>9, <1>10 DEF Consistent

\* Every step keeps the invariant.
LEMMA ConsistentNext == Consistent /\ [Next]_vars => Consistent'
BY NextTypes, NextRows, NextCalls, NextThreads, NextKeys, NextAnswers, NextResults,
   NextPeriods, NextAudited, NextEffects, NextInbox DEF Consistent

\* Consistent holds in every state of every instance.
THEOREM Consistency == Spec => []Consistent
BY ConsistentInit, ConsistentNext, PTL DEF Spec

\* Every table, thread and message keeps its type.
THEOREM TypeCorrect == Spec => []TypeOK
<1>1. Consistent => TypeOK
  BY DEF Consistent
<1> QED BY <1>1, Consistency, PTL

\* A payout is debited exactly when it is SUCCEEDED, once and under its own
\* reference, announced exactly when it is terminal, and pauses the others exactly
\* when it failed for a tripping reason, whatever results, sweeps and reconcile
\* requests do at the same time.
THEOREM EffectsAlwaysMatch == Spec => []EffectsMatchState
<1>1. Consistent => EffectsMatchState
  BY DEF Consistent
<1> QED BY <1>1, Consistency, PTL

\* A key stands for one payout, the one that is sent and the one that every 2xx
\* answer names.
THEOREM OnePayoutPerKey == Spec => []KeyMeansOnePayout
<1>1. Consistent => KeyMeansOnePayout
  <2> SUFFICES ASSUME Consistent, NEW k \in Key, NEW id \in Served(k), NEW other \in Served(k)
               PROVE  id = other /\ id \in Request
    BY DEF KeyMeansOnePayout
  <2>1. ASSUME NEW x \in Served(k)
        PROVE  Names(x, k)
    <3>1. CASE x \in Request /\ transfer[x] # "none" /\ payout[x].key = k
      BY <3>1 DEF Consistent, Calls, Names
    <3>2. CASE \E q \in Request : Accepted2xx(q) /\ reply[q].key = k /\ x = reply[q].body.id
      BY <3>2 DEF Consistent, Answers
    <3> QED BY <2>1, <3>1, <3>2 DEF Served
  <2>2. Names(id, k) /\ Names(other, k)
    BY <2>1
  <2> QED BY <2>2 DEF Names, Consistent, Keys
<1> QED BY <1>1, Consistency, PTL

\* A result finds its payout however early it comes.
THEOREM NoResultIsStranded == Spec => []EveryResultMatches
<1>1. Consistent => EveryResultMatches
  BY DEF Consistent
<1> QED BY <1>1, Consistency, PTL

\* A result that says the opposite of the recorded outcome has raised an alert.
THEOREM ContradictionsAreAlarmed == Spec => []ContradictionIsAlarmed
<1>1. Consistent => ContradictionIsAlarmed
  <2> SUFFICES ASSUME Consistent, NEW r \in Request, NEW e \in audit, Matches(r, e),
                      Terminal(r), e.verdict # "UNKNOWN",
                      Target(e.verdict) # payout[r].state
               PROVE  Alarmed(r)
    BY DEF ContradictionIsAlarmed, Alarmed
  <2>1. payout[r].oid = r
    BY DEF Consistent, Rows, Terminal, Exists, DisbursementTerminal
  <2> QED BY <2>1 DEF Consistent, Audited, Matches
<1> QED BY <1>1, Consistency, PTL

\* A terminal payout is never changed again, and no effect is taken back.
THEOREM TerminalStaysFinal == Spec => TerminalIsFinal
<1>1. Consistent /\ [Next]_vars =>
        [/\ \A r \in Request : Terminal(r) => payout'[r] = payout[r]
         /\ ledger \subseteq ledger' /\ outbox \subseteq outbox'
         /\ anomaly \subseteq anomaly']_vars
  BY TerminalStays, AlertsStay
<1> QED BY <1>1, Consistency, PTL DEF Spec, TerminalIsFinal

\* SwitchFollowsFailure, for one step.
LEMMA SwitchStep ==
  ASSUME Consistent, [Next]_vars
  PROVE  /\ \A r \in Request :
              (payout[r].reason # "tripping" /\ payout'[r].reason = "tripping") => ~enabled'
         /\ (~enabled /\ enabled') => UNCHANGED <<payout, threads>>
<1>1. TypeOK
  BY DEF Consistent
<1>2. ASSUME NEW x \in Request, payout[x].reason # "tripping", payout'[x].reason = "tripping"
      PROVE  ~enabled'
  <2>1. CASE Quiet
    <3>1. RowMoves(x) => payout'[x].reason = payout[x].reason
      BY <1>1 DEF RowMoves, TypeOK, Row
    <3> QED BY <1>2, <2>1, <3>1 DEF Quiet, RowsMove
  <2>2. ASSUME NEW r \in Request, CreateBegun(r)
        PROVE  FALSE
    <3>1. payout'[x] = IF x = r THEN NewRow(r) ELSE payout[x]
      BY <2>2, BegunCall
    <3> QED BY <1>2, <3>1 DEF NewRow
  <2>3. ASSUME NEW r \in Request, Paid(r)
        PROVE  FALSE
    BY <1>1, <1>2, <2>3, PaidRow DEF Paid
  <2>4. ASSUME NEW r \in Request, Failed(r)
        PROVE  ~enabled'
    <3>1. Fails(r)
      BY <2>4 DEF Failed
    <3>2. x = r
      BY <1>1, <1>2, <3>1, FailedRow
    <3> QED BY <1>2, <3>1, <3>2, FailedEffects
  <2> QED BY <2>1, <2>2, <2>3, <2>4, StepKinds
<1>3. (~enabled /\ enabled') => UNCHANGED <<payout, threads>>
  BY SwitchSteps
<1> QED BY <1>2, <1>3

\* The step that records a tripping failure switches payouts off, and only a step
\* that moves no payout switches them on again.
THEOREM SwitchAlwaysFollows == Spec => SwitchFollowsFailure
<1>1. Consistent /\ [Next]_vars =>
        [/\ \A r \in Request :
              (payout[r].reason # "tripping" /\ payout'[r].reason = "tripping") => ~enabled'
         /\ (~enabled /\ enabled') => UNCHANGED <<payout, threads>>]_vars
  BY SwitchStep
<1> QED BY <1>1, Consistency, PTL DEF Spec, SwitchFollowsFailure

-----------------------------------------------------------------------------
(* A provider that tells the truth                                         *)

\* Every result tells the transfer's verdict or nothing.
Honest == \A s \in Stray : s.verdict = "UNKNOWN"

\* What results, queries and answers to requests tell is what became of the transfer.
Truthful ==
  /\ \A e \in sent : e.verdict = "UNKNOWN" \/ e.verdict = transfer[e.ref]
  /\ \A w \in Worker : worker[w].pc = "applying" =>
       worker[w].answer = transfer[worker[w].at] /\ worker[w].answer \in Final
  /\ \A r \in Request : Refused(r) => transfer[r] = "rejected"
  /\ OutcomeIsTheProviders

\* A transfer's end is final.
LEMMA EndStays ==
  ASSUME Consistent, [Next]_vars, NEW x \in Request, transfer[x] \in {"rejected"} \cup Final
  PROVE  transfer'[x] = transfer[x]
<1>1. transfer[x] \notin {"none", "open"}
  BY PayoutsAssumption DEF Verdict
<1>2. call[x].pc # "calling"
  BY <1>1 DEF Consistent, Calls
<1> QED BY <1>1, <1>2, TransferSteps

\* Who tells of an outcome tells the truth.
LEMMA ToldTruly ==
  ASSUME Consistent, Truthful, NEW r \in Request, NEW v \in Verdict, Told(r, v)
  PROVE  transfer[r] = v /\ v \in Final
<1>1. v # "UNKNOWN"
  BY DEF Verdict
<1>2. \A e \in sent : e.verdict \in Final \cup {"UNKNOWN"}
  BY DEF Consistent, TypeOK, Event
<1> QED BY <1>1, <1>2 DEF Told, Truthful

\* What comes from an honest provider is its verdict.
LEMMA SentTruly ==
  ASSUME Honest, Consistent, [Next]_vars, NEW e \in sent' \ sent
  PROVE  e.verdict = "UNKNOWN" \/ e.verdict = transfer'[e.ref]
<1>1. ASSUME NEW r \in Request, RequestStep(r)
      PROVE  UNCHANGED sent
  BY <1>1, RequestKinds DEF CreateBegun, FinishCreate, CallOnly, provider
<1>2. ASSUME NEW w \in Worker, WorkerStep(w)
      PROVE  UNCHANGED sent
  BY <1>2 DEF WorkerStep, SweepExpire, SweepList, SweepDone, SweepPick,
       ReconcileRequested, ReconcileRead, QueryAnswered, QueryInconclusive,
       ReconcileApply, ReconcileAborted, ReconcileInconclusive, WorkerLost, provider
<1>3. PICK r \in Request : ProviderStep(r)
  BY <1>1, <1>2 DEF Next, ResultArrives, OperatorSets, vars, provider
<1>4. ASSUME NEW v \in Final, TransferResolved(r, v)
      PROVE  e.verdict = transfer'[e.ref]
  BY <1>4 DEF TransferResolved, Consistent, TypeOK
<1>5. ASSUME NEW s \in Stray, ResultStray(r, s)
      PROVE  e.verdict = "UNKNOWN"
  BY <1>5 DEF ResultStray, Honest
<1> QED BY <1>3, <1>4, <1>5 DEF ProviderStep

\* A request that is answered by a refusal has no transfer.
LEMMA RefusedTruly ==
  ASSUME Consistent, Truthful, [Next]_vars, NEW x \in Request,
         call'[x].pc = "finishing", call'[x].ack \in {"refused", "tripping"}
  PROVE  transfer'[x] = "rejected"
<1>1. CASE call'[x] = call[x]
  <2>1. transfer[x] = "rejected"
    BY <1>1 DEF Truthful, Refused
  <2> QED BY <2>1, EndStays
<1>2. CASE RequestStep(x)
  <2>1. ASSUME NEW made, NEW ack, DisburseReturned(x, made, ack)
        PROVE  call'[x].ack = ack /\ transfer'[x] = made
    BY <2>1 DEF DisburseReturned, Consistent, TypeOK, CallThread
  <2>2. \/ TransferAccepted(x) \/ TransferAnswerLost(x) \/ TransferNotReached(x)
        \/ \E reason \in {"refused", "tripping"} : TransferRejected(x, reason)
    <3>1. call'[x].pc # "finishing" \/ call[x].pc = "calling"
      BY <1>2, CallStep
    <3>2. call[x].pc = "calling"
      BY <3>1
    <3>3. ~RequestLost(x)
      BY DEF RequestLost, NewCall, Consistent, TypeOK
    <3> QED BY <1>2, <3>2, <3>3
         DEF RequestStep, CreateAnsweredEarly, CreateOverLimit, CreateChecked,
             CreateAdmitted, CreateDisabled, CreateAnsweredLate, CreateBegun,
             CreateConflict, ConflictReplied, FinishCreate
  <2> QED BY <2>1, <2>2
       DEF TransferAccepted, TransferAnswerLost, TransferNotReached, TransferRejected
<1>3. ASSUME NEW r \in Request, RequestStep(r), r # x
      PROVE  call'[x] = call[x]
  BY <1>3, CallStep
<1> QED BY <1>1, <1>2, <1>3, CallSteps

\* At first nothing has been told.
LEMMA TruthfulInit == Init => Truthful
BY DEF Init, Truthful, Refused, OutcomeIsTheProviders, Terminal, NoRow, NewCall,
       IdleWorker, DisbursementTerminal

\* Every step keeps to the truth if the provider does.
LEMMA TruthfulNext ==
  ASSUME Honest, Consistent, Truthful, [Next]_vars
  PROVE  Truthful'
<1>1. ASSUME NEW e \in sent'
      PROVE  e.verdict = "UNKNOWN" \/ e.verdict = transfer'[e.ref]
  <2>1. CASE e \in sent
    <3>1. e.ref \in Request /\ e.verdict \in Final \cup {"UNKNOWN"}
      BY <2>1 DEF Consistent, TypeOK, Event
    <3>2. e.verdict = "UNKNOWN" \/ e.verdict = transfer[e.ref]
      BY <2>1 DEF Truthful
    <3> QED BY <3>1, <3>2, EndStays
  <2> QED BY <1>1, <2>1, SentTruly
<1>2. ASSUME NEW v \in Worker, worker'[v].pc = "applying"
      PROVE  worker'[v].answer = transfer'[worker'[v].at] /\ worker'[v].answer \in Final
  <2>1. worker[v].pc \in {"querying", "applying"} => worker[v].at \in Request
    BY DEF Consistent, Threads
  <2>2. CASE worker'[v] = worker[v]
    <3>1. worker[v].answer = transfer[worker[v].at] /\ worker[v].answer \in Final
      BY <1>2, <2>2 DEF Truthful
    <3> QED BY <1>2, <2>1, <2>2, <3>1, EndStays
  <2>3. CASE WorkerStep(v)
    <3>1. /\ worker[v].pc = "querying" /\ worker'[v].at = worker[v].at
          /\ worker'[v].answer = transfer[worker[v].at] /\ transfer[worker[v].at] \in Final
      BY <1>2, <2>3, WorkerThreadStep
    <3> QED BY <2>1, <3>1, EndStays
  <2>4. ASSUME NEW w \in Worker, WorkerStep(w), w # v
        PROVE  worker'[v] = worker[v]
    BY <2>4, WorkerThreadStep
  <2> QED BY <2>2, <2>3, <2>4, WorkerSteps
<1>3. \A x \in Request : Refused(x)' => transfer'[x] = "rejected"
  BY RefusedTruly DEF Refused
<1>4. ASSUME NEW x \in Request, payout'[x].state \in DisbursementTerminal
      PROVE  \/ transfer'[x] = "rejected" /\ payout'[x].state = "FAILED"
             \/ transfer'[x] \in Final /\ payout'[x].state = Target(transfer'[x])
  <2>1. SUFFICES \/ transfer[x] = "rejected" /\ payout'[x].state = "FAILED"
                 \/ transfer[x] \in Final /\ payout'[x].state = Target(transfer[x])
    BY EndStays
  <2>2. CASE Terminal(x)
    <3>1. payout'[x] = payout[x]
      BY <2>2, TerminalStays
    <3> QED BY <2>2, <3>1 DEF Truthful, OutcomeIsTheProviders
  <2>3. CASE ~Terminal(x)
    <3>1. RowMoved(x)
      <4>1. payout'[x] # payout[x]
        BY <1>4, <2>3 DEF Terminal
      <4>2. payout'[x] # NewRow(x)
        BY <1>4 DEF NewRow, DisbursementTerminal
      <4> QED BY <4>1, <4>2, RowSteps DEF RowStep
    <3>2. CASE payout'[x].state = "SUCCEEDED" /\ Told(x, "SUCCEEDED")
      BY <3>2, ToldTruly DEF Verdict, Target
    <3>3. CASE payout'[x].state = "FAILED" /\ Refused(x)
      BY <3>3 DEF Truthful
    <3>4. CASE payout'[x].state = "FAILED" /\ (Told(x, "FAILED") \/ Told(x, "BLOCKED"))
      BY <3>4, ToldTruly DEF Verdict, Target
    <3> QED BY <1>4, <3>1, <3>2, <3>3, <3>4 DEF RowMoved, Open, DisbursementTerminal
  <2> QED BY <2>2, <2>3
<1> QED BY <1>1, <1>2, <1>3, <1>4 DEF Truthful, OutcomeIsTheProviders, Terminal

\* With an honest provider the outcome on record is the transfer's, whatever is
\* lost, late, repeated or answered in another order: no deadline and no timeout
\* ends a payout.
THEOREM OutcomeIsTrue == Honest => (Spec => []OutcomeIsTheProviders)
<1> SUFFICES ASSUME Honest PROVE Spec => []OutcomeIsTheProviders
  OBVIOUS
<1>1. Consistent /\ Truthful /\ [Next]_vars => Truthful'
  BY TruthfulNext
<1>2. Truthful => OutcomeIsTheProviders
  BY DEF Truthful
<1> QED BY <1>1, <1>2, TruthfulInit, Consistency, PTL DEF Spec

\* A transfer that is open or made belongs to a live payout.
LEMMA MadeIsLive ==
  ASSUME Consistent, OutcomeIsTheProviders, NEW r \in Request,
         transfer[r] \in {"open", "SUCCEEDED"}
  PROVE  Live(r)
<1>1. Exists(r)
  BY DEF Consistent, Calls
<1>2. ASSUME payout[r].state = "FAILED"
      PROVE  FALSE
  <2>1. transfer[r] = "rejected" \/ (transfer[r] \in Final /\ "FAILED" = Target(transfer[r]))
    BY <1>2 DEF OutcomeIsTheProviders, Terminal, DisbursementTerminal
  <2> QED BY <2>1, PayoutsAssumption DEF Target, Verdict
<1> QED BY <1>1, <1>2 DEF Live

\* With an honest provider no attendant is sent a period twice, whatever keys
\* Commission uses, however often it asks again after a failure.
THEOREM PeriodPaidOnce == Honest => (Spec => []PaidOncePerPeriod)
<1> SUFFICES ASSUME Honest PROVE Spec => []PaidOncePerPeriod
  OBVIOUS
<1>1. Consistent /\ OutcomeIsTheProviders => PaidOncePerPeriod
  BY MadeIsLive DEF Consistent, OneLivePerPeriod, PaidOncePerPeriod
<1>2. Spec => []OutcomeIsTheProviders
  BY OutcomeIsTrue
<1> QED BY <1>1, <1>2, Consistency, PTL

-----------------------------------------------------------------------------
(* Refinement                                                              *)

PeriodFor(r) == IF Exists(r) THEN PeriodOf[payout[r].payload] ELSE None
DebitOf(r) == {e.ref : e \in {c \in ledger : c.id = r}}

\* The debits of a payout, said without the ledger.
DebitsByState ==
  \A r \in Request :
    DebitOf(r) = IF payout[r].state = "SUCCEEDED" THEN {r} ELSE {}

\* EffectsMatchState and Rows give it.
LEMMA DebitOfPaid == Consistent => DebitsByState
<1> SUFFICES ASSUME Consistent, NEW r \in Request
             PROVE  DebitOf(r) = IF payout[r].state = "SUCCEEDED" THEN {r} ELSE {}
  BY DEF DebitsByState
<1> DEFINE debits == {c \in ledger : c.id = r}
<1>1. debits = IF payout[r].state = "SUCCEEDED"
                 THEN {[id |-> r, ref |-> payout[r].oid]} ELSE {}
  BY DEF Consistent, EffectsMatchState
<1>2. payout[r].state = "SUCCEEDED" => payout[r].oid = r
  BY DEF Consistent, Rows, Exists
<1>3. DebitOf(r) = {e.ref : e \in debits}
  BY DEF DebitOf
<1> HIDE DEF debits
<1>4. CASE payout[r].state = "SUCCEEDED"
  <2>1. debits = {[id |-> r, ref |-> r]}
    BY <1>1, <1>2, <1>4
  <2>2. DebitOf(r) = {r}
    BY <1>3, <2>1
  <2> QED BY <1>4, <2>2
<1>5. CASE payout[r].state # "SUCCEEDED"
  BY <1>1, <1>3, <1>5
<1> QED BY <1>4, <1>5

\* The empty database maps to the promise's initial state.
LEMMA PromiseInit == Init => Promise!Init
<1> SUFFICES ASSUME Init PROVE Promise!Init
  OBVIOUS
<1>1. \A r \in Request : payout[r].state = "ABSENT" /\ ledger = {}
  BY DEF Init, NoRow
<1> QED BY <1>1 DEF Promise!Init, StatusOf, Exists

\* What the promise sees of a payout stays as it is.
Same(x) ==
  /\ StatusOf(x)' = StatusOf(x) /\ PeriodFor(x)' = PeriodFor(x)
  /\ payout'[x].state = "SUCCEEDED" <=> payout[x].state = "SUCCEEDED"

\* A row that is left alone looks the same.
LEMMA SameRow ==
  ASSUME NEW x \in Request, payout'[x] = payout[x]
  PROVE  Same(x)
BY DEF Same, StatusOf, PeriodFor, Exists

\* A step that leaves every payout open, closed or paid as it was, and for its
\* period, is no step of the promise.
LEMMA PromiseStutter ==
  ASSUME DebitsByState, DebitsByState', \A x \in Request : Same(x)
  PROVE  UNCHANGED Promise!vars
<1>1. \A x \in Request : DebitOf(x)' = DebitOf(x)
  BY DEF DebitsByState, Same
<1> QED BY <1>1 DEF Promise!vars, PeriodFor, DebitOf, Same

\* A step that changes what the promise sees of one payout only.
LEMMA PromiseFrame ==
  ASSUME DebitsByState, DebitsByState', NEW r \in Request,
         \A x \in Request \ {r} : Same(x)
  PROVE  /\ [x \in Request |-> StatusOf(x)]'
              = [[x \in Request |-> StatusOf(x)] EXCEPT ![r] = StatusOf(r)']
         /\ [x \in Request |-> PeriodFor(x)]'
              = [[x \in Request |-> PeriodFor(x)] EXCEPT ![r] = PeriodFor(r)']
         /\ [x \in Request |-> DebitOf(x)]'
              = [[x \in Request |-> DebitOf(x)] EXCEPT ![r] = DebitOf(r)']
<1>1. \A x \in Request \ {r} : DebitOf(x)' = DebitOf(x)
  BY DEF DebitsByState, Same
<1> QED BY <1>1 DEF Same

\* Every step of payouts is one step of the promise or none.
LEMMA PromiseStep ==
  ASSUME Consistent, DebitsByState, DebitsByState', [Next]_vars
  PROVE  [Promise!Next]_(Promise!vars)
<1>1. TypeOK
  BY DEF Consistent
<1> DEFINE sts == [x \in Request |-> StatusOf(x)]
           pds == [x \in Request |-> PeriodFor(x)]
           dbs == [x \in Request |-> DebitOf(x)]
\* The promise's actions, on the mapped state.
<1>2. ASSUME NEW r \in Request, NEW s \in Period, sts[r] = "absent",
             \A q \in Request : sts[q] \in {"open", "paid"} => pds[q] # s,
             sts' = [sts EXCEPT ![r] = "open"], pds' = [pds EXCEPT ![r] = s], dbs' = dbs
      PROVE  Promise!Next
  <2>1. Promise!Open(r, s)
    BY <1>2 DEF Promise!Open, PeriodFor, DebitOf
  <2> QED BY <2>1 DEF Promise!Next
<1>3. ASSUME NEW r \in Request, NEW f \in Request, sts[r] = "open",
             \A q \in Request : f \notin dbs[q],
             sts' = [sts EXCEPT ![r] = "paid"], dbs' = [dbs EXCEPT ![r] = {f}], pds' = pds
      PROVE  Promise!Next
  <2>1. Promise!Pay(r, f)
    BY <1>3 DEF Promise!Pay, PeriodFor, DebitOf
  <2> QED BY <2>1 DEF Promise!Next
<1>4. ASSUME NEW r \in Request, sts[r] = "open",
             sts' = [sts EXCEPT ![r] = "closed"], pds' = pds, dbs' = dbs
      PROVE  Promise!Next
  <2>1. Promise!Close(r)
    BY <1>4 DEF Promise!Close, PeriodFor, DebitOf
  <2> QED BY <2>1 DEF Promise!Next
\* The kinds of step.
<1>5. CASE Quiet
  <2>1. ASSUME NEW x \in Request, RowMoves(x)
        PROVE  Same(x)
    <3>1. /\ payout[x].state \in Open /\ payout'[x].state \in Open
          /\ payout'[x].payload = payout[x].payload
      BY <1>1, <2>1 DEF RowMoves, TypeOK, Row
    <3> QED BY <3>1 DEF Same, StatusOf, PeriodFor, Exists, Open
  <2>2. \A x \in Request : Same(x)
    BY <1>5, <2>1, SameRow DEF Quiet, RowsMove
  <2>3. UNCHANGED Promise!vars
    BY <2>2, PromiseStutter
  <2> QED BY <2>3
<1>6. ASSUME NEW r \in Request, CreateBegun(r)
      PROVE  Promise!Next
  <2> DEFINE s == PeriodOf[call[r].payload]
  <2>1. /\ ~Exists(r) /\ call[r].payload \in Payload /\ Rivals(call[r].payload) = {}
        /\ \A x \in Request : payout'[x] = IF x = r THEN NewRow(r) ELSE payout[x]
    BY <1>6, BegunCall
  <2>2. /\ StatusOf(r) = "absent" /\ PeriodFor(r) = None /\ DebitOf(r) = {}
        /\ StatusOf(r)' = "open" /\ PeriodFor(r)' = s /\ DebitOf(r)' = {}
    BY <2>1 DEF StatusOf, PeriodFor, Exists, DebitsByState, NewRow
  <2>3. \A x \in Request \ {r} : Same(x)
    BY <2>1, SameRow
  <2>4. /\ sts' = [sts EXCEPT ![r] = "open"] /\ pds' = [pds EXCEPT ![r] = s]
        /\ dbs' = [dbs EXCEPT ![r] = {}]
    BY <2>2, <2>3, PromiseFrame
  <2>5. s \in Period
    BY <2>1, PayoutsAssumption
  <2>6. \A q \in Request : sts[q] \in {"open", "paid"} => pds[q] # s
    <3> SUFFICES ASSUME NEW q \in Request, StatusOf(q) \in {"open", "paid"}
                 PROVE  PeriodFor(q) # s
      OBVIOUS
    <3>1. Live(q)
      <4>1. payout[q].state \in Open \cup {"ABSENT", "SUCCEEDED", "FAILED"}
        BY <1>1, OpenStates
      <4>2. payout[q].state \notin {"ABSENT", "FAILED"}
        BY DEF StatusOf
      <4> QED BY <4>2 DEF Live, Exists
    <3> QED BY <2>1, <3>1 DEF Rivals, Live, PeriodFor
  <2>7. dbs' = dbs
    BY <2>2, <2>4
  <2> HIDE DEF s
  <2> QED BY <1>2, <2>2, <2>4, <2>5, <2>6, <2>7
<1>7. ASSUME NEW r \in Request, Succeeds(r)
      PROVE  Promise!Next
  <2>1. /\ payout[r].state \in Open /\ payout'[r].state = "SUCCEEDED"
        /\ payout'[r].payload = payout[r].payload
        /\ \A x \in Request : x # r => payout'[x] = payout[x]
    BY <1>1, <1>7, PaidRow DEF Succeeds
  <2>2. /\ StatusOf(r) = "open" /\ StatusOf(r)' = "paid"
        /\ PeriodFor(r)' = PeriodFor(r) /\ DebitOf(r)' = {r}
        /\ \A q \in Request : r \notin DebitOf(q)
    BY <2>1 DEF StatusOf, PeriodFor, Exists, DebitsByState, Open
  <2>3. \A x \in Request \ {r} : Same(x)
    BY <2>1, SameRow
  <2>4. /\ sts' = [sts EXCEPT ![r] = "paid"] /\ pds' = [pds EXCEPT ![r] = PeriodFor(r)]
        /\ dbs' = [dbs EXCEPT ![r] = {r}]
    BY <2>2, <2>3, PromiseFrame
  <2>5. pds' = pds
    BY <2>4
  <2> QED BY <1>3, <2>2, <2>4, <2>5
<1>8. ASSUME NEW r \in Request, Fails(r)
      PROVE  Promise!Next
  <2>1. /\ payout[r].state \in Open /\ payout'[r].state = "FAILED"
        /\ payout'[r].payload = payout[r].payload
        /\ \A x \in Request : x # r => payout'[x] = payout[x]
    BY <1>1, <1>8, FailedRow DEF Fails
  <2>2. /\ StatusOf(r) = "open" /\ StatusOf(r)' = "closed"
        /\ PeriodFor(r)' = PeriodFor(r) /\ DebitOf(r)' = DebitOf(r)
    BY <2>1 DEF StatusOf, PeriodFor, Exists, DebitsByState, Open
  <2>3. \A x \in Request \ {r} : Same(x)
    BY <2>1, SameRow
  <2>4. /\ sts' = [sts EXCEPT ![r] = "closed"] /\ pds' = [pds EXCEPT ![r] = PeriodFor(r)]
        /\ dbs' = [dbs EXCEPT ![r] = DebitOf(r)]
    BY <2>2, <2>3, PromiseFrame
  <2>5. pds' = pds /\ dbs' = dbs
    BY <2>4
  <2> QED BY <1>4, <2>2, <2>4, <2>5
<1> QED BY <1>5, <1>6, <1>7, <1>8, StepKinds DEF Paid, Failed

\* Payouts, with their keys, results, sweeps and crashes, do only what MoneyPromise
\* allows.
THEOREM PayoutsKeepPromise == Spec => KeepsPromise
<1>1. Consistent /\ DebitsByState /\ DebitsByState' /\ [Next]_vars =>
        [Promise!Next]_(Promise!vars)
  BY PromiseStep
<1> QED BY <1>1, PromiseInit, DebitOfPaid, Consistency, PTL
        DEF Spec, KeepsPromise, Promise!Spec

-----------------------------------------------------------------------------
(* What the promise is worth                                               *)

Promised == INSTANCE PromiseProofs WITH
  Movement <- Request,
  Ref <- Request,
  Purpose <- Period,
  status <- [r \in Request |-> StatusOf(r)],
  purpose <- [r \in Request |-> IF Exists(r) THEN PeriodOf[payout[r].payload] ELSE None],
  booked <- [r \in Request |-> {e.ref : e \in {c \in ledger : c.id = r}}]

\* What is proved of the promise is true of the service.
LEMMA PromiseApplies ==
  Spec => /\ []Promised!PurposeServedOnce
          /\ []Promised!BooksMatch
<1>1. Promise!Init => Promised!Init
  BY DEF Promise!Init, Promised!Init
<1>2. [Promise!Next]_(Promise!vars) => [Promised!Next]_(Promised!vars)
  BY DEF Promise!vars, Promise!Next, Promise!Open, Promise!Pay, Promise!Close,
         Promised!vars, Promised!Next, Promised!Open, Promised!Pay, Promised!Close
<1>3. KeepsPromise => Promised!Spec
  BY <1>1, <1>2, PTL DEF KeepsPromise, Promise!Spec, Promised!Spec
<1>4. Promised!Spec => []Promised!PurposeServedOnce
  BY Promised!NoPurposeTwice
<1>5. Promised!Spec => []Promised!BooksMatch
  BY Promised!BooksAlwaysMatch
<1> QED BY <1>3, <1>4, <1>5, PayoutsKeepPromise, PTL

\* No period of an attendant has two payouts that are open or paid, whatever is
\* claimed in results and under whatever keys it is asked for.
THEOREM PeriodServedOnce == Spec => []Promise!PurposeServedOnce
<1>1. Promised!PurposeServedOnce => Promise!PurposeServedOnce
  BY DEF Promised!PurposeServedOnce, Promise!PurposeServedOnce, Promised!Live,
         Promise!Live
<1> QED BY <1>1, PromiseApplies, PTL

\* A paid payout has one debit, no other has any, and no reference is debited to
\* two payouts, though results repeat and lie.
THEOREM DebitsBookedOnce == Spec => []Promise!BooksMatch
<1>1. Promised!BooksMatch => Promise!BooksMatch
  BY DEF Promised!BooksMatch, Promise!BooksMatch
<1> QED BY <1>1, PromiseApplies, PTL
-----------------------------------------------------------------------------
(* Keys in flight                                                          *)

\* A worker asks about no payout that its own call has yet to answer.
Asked ==
  \A w \in Worker :
    worker[w].pc \in {"querying", "applying", "inconclusive"} =>
      payout[worker[w].at].state # "CREATED"

\* A payout that left CREATED does not come back to it.
LEMMA NextAsked ==
  ASSUME Consistent, Asked, [Next]_vars
  PROVE  Asked'
<1> SUFFICES ASSUME NEW v \in Worker,
                    worker'[v].pc \in {"querying", "applying", "inconclusive"}
             PROVE  payout'[worker'[v].at].state # "CREATED"
  BY DEF Asked
<1>1. ASSUME worker[v].pc \in {"querying", "applying", "inconclusive"}
      PROVE  /\ worker[v].at \in Request /\ Exists(worker[v].at)
             /\ payout[worker[v].at].state # "CREATED"
  BY <1>1 DEF Consistent, Threads, Asked
<1>2. /\ worker'[v].at \in Request /\ Exists(worker'[v].at)
      /\ payout[worker'[v].at].state # "CREATED"
  <2>1. CASE worker'[v] = worker[v]
    BY <1>1, <2>1
  <2>2. CASE WorkerStep(v)
    BY <1>1, <2>2, WorkerThreadStep DEF Unresolved, Exists
  <2>3. ASSUME NEW w \in Worker, WorkerStep(w), w # v
        PROVE  worker'[v] = worker[v]
    BY <2>3, WorkerThreadStep
  <2> QED BY <2>1, <2>2, <2>3, WorkerSteps
<1>3. RowStep(worker'[v].at) /\ ~CreateBegun(worker'[v].at)
  BY <1>2, RowSteps, BegunCall
<1> QED BY <1>2, <1>3 DEF RowStep, RowMoved

\* An outcome changes the row it is about, and no other.
LEMMA OneRow ==
  ASSUME TypeOK, NEW r \in Request, NEW x \in Request, x # r,
         \/ UNCHANGED payout
         \/ \E s : payout' = Moved(r, s)
         \/ \E reason : Fail(r, reason)
         \/ \E kind : ToReview(r, kind)
         \/ \E v : ApplyOutcome(r, v)
  PROVE  payout'[x] = payout[x]
<1>1. \/ UNCHANGED payout
      \/ \E s : payout' = Moved(r, s)
      \/ \E reason : Fail(r, reason)
  BY DEF ToReview, ApplyOutcome, Settle
<1>2. ASSUME NEW s, payout' = Moved(r, s)
      PROVE  payout'[x] = payout[x]
  BY <1>2 DEF Moved, TypeOK
<1>3. ASSUME NEW reason, Fail(r, reason)
      PROVE  payout'[x] = payout[x]
  BY <1>3 DEF Fail, TypeOK
<1> QED BY <1>1, <1>2, <1>3

\* A payout leaves CREATED when its call is answered, when the sweep finds it
\* late, or when its result is faster than both.
LEMMA LeavesCreated ==
  ASSUME Consistent, Asked, [Next]_vars, NEW r \in Request,
         payout[r].state = "CREATED", payout'[r].state # "CREATED"
  PROVE  \/ FinishCreate(r)
         \/ \E w \in Worker, late, lost \in SUBSET Request :
              SweepExpire(w, late, lost) /\ r \in late
         \/ \E e \in sent : ResultMatched(r, e)
<1>1. TypeOK /\ Exists(r)
  BY DEF Consistent, Exists
<1>2. ASSUME NEW x \in Request, RequestStep(x)
      PROVE  FinishCreate(r)
  <2>1. CASE CreateBegun(x)
    <3>1. x # r /\ payout'[r] = payout[r]
      BY <1>1, <2>1, BegunCall
    <3> QED BY <3>1
  <2>2. CASE FinishCreate(x)
    <3>1. x # r => payout'[r] = payout[r]
      BY <1>1, <2>2, OneRow DEF FinishCreate
    <3> QED BY <2>2, <3>1
  <2>3. CASE CallOnly(x)
    BY <2>3 DEF CallOnly, tables
  <2> QED BY <1>2, <2>1, <2>2, <2>3, RequestKinds
<1>3. ASSUME NEW e \in sent, ResultArrives(e)
      PROVE  ResultMatched(r, e)
  <2>1. ASSUME NEW x \in Request, ResultMatched(x, e), x # r
        PROVE  FALSE
    <3>1. payout'[r] = payout[r]
      BY <1>1, <2>1, OneRow DEF ResultMatched
    <3> QED BY <3>1
  <2> QED BY <1>3, <2>1 DEF ResultArrives, ResultUnmatched, ResultConflict
<1>4. ASSUME NEW w \in Worker, WorkerStep(w)
      PROVE  \E late, lost \in SUBSET Request : SweepExpire(w, late, lost) /\ r \in late
  <2>1. ASSUME NEW late \in SUBSET Request, NEW lost \in SUBSET Request,
               SweepExpire(w, late, lost)
        PROVE  r \in late
    BY <2>1 DEF SweepExpire, RowsSwept
  <2>2. ASSUME ReconcileApply(w) \/ \E elapsed \in BOOLEAN : ReconcileInconclusive(w, elapsed)
        PROVE  FALSE
    <3>1. worker[w].pc \in {"applying", "inconclusive"}
      BY <2>2 DEF ReconcileApply, ReconcileInconclusive
    <3>2. worker[w].at \in Request /\ worker[w].at # r
      BY <3>1 DEF Consistent, Threads, Asked
    <3>3. payout'[r] = payout[r]
      BY <1>1, <2>2, <3>2, OneRow DEF ReconcileApply, ReconcileInconclusive
    <3> QED BY <3>3
  <2>3. \/ UNCHANGED payout
        \/ ReconcileApply(w) \/ \E elapsed \in BOOLEAN : ReconcileInconclusive(w, elapsed)
        \/ \E late, lost \in SUBSET Request : SweepExpire(w, late, lost)
    BY <1>4 DEF WorkerStep, SweepList, SweepDone, SweepPick, ReconcileRequested,
         ReconcileRead, QueryAnswered, QueryInconclusive, ReconcileAborted, WorkerLost,
         tables
  <2> QED BY <2>1, <2>2, <2>3
<1>5. ASSUME NEW x \in Request, ProviderStep(x)
      PROVE  FALSE
  BY <1>5 DEF ProviderStep, TransferResolved, ResultStray, tables
<1> QED BY <1>2, <1>3, <1>4, <1>5 DEF Next, OperatorSets, vars, tables

\* A thread that called the provider, or died, ends only with _finish_create.
LEMMA AnsweringThread ==
  ASSUME Consistent, [Next]_vars, NEW r \in Request,
         call[r].pc \in {"calling", "finishing", "lost"}
  PROVE  FinishCreate(r) \/ call'[r].pc \in {"calling", "finishing", "lost"}
<1>1. CASE RequestStep(r)
  <2>1. FinishCreate(r) \/ RequestLost(r) \/ \E made, ack : DisburseReturned(r, made, ack)
    BY <1>1 DEF RequestStep, CreateAnsweredEarly, CreateOverLimit, CreateChecked,
         CreateAdmitted, CreateDisabled, CreateAnsweredLate, CreateBegun, CreateConflict,
         ConflictReplied, TransferAccepted, TransferAnswerLost, TransferNotReached,
         TransferRejected
  <2>2. RequestLost(r) => call'[r].pc = "lost"
    BY DEF RequestLost, NewCall, Consistent, TypeOK
  <2>3. ASSUME NEW made, NEW ack, DisburseReturned(r, made, ack)
        PROVE  call'[r].pc = "finishing"
    <3>1. call'[r] = [call[r] EXCEPT !.pc = "finishing", !.ack = ack]
      BY <2>3 DEF DisburseReturned, Consistent, TypeOK
    <3>2. call[r] \in CallThread
      BY DEF Consistent, TypeOK
    <3> QED BY <3>1, <3>2 DEF CallThread
  <2> QED BY <2>1, <2>2, <2>3
<1>2. ASSUME NEW x \in Request, RequestStep(x), x # r
      PROVE  call'[r] = call[r]
  BY <1>2, CallStep
<1> QED BY <1>1, <1>2, CallSteps

\* What explains a key goes on explaining it as long as it is in flight.
LEMMA AnsweringStays ==
  ASSUME Consistent, Asked, [Next]_vars, NEW r \in Request, NEW k \in Key,
         AwaitsAnswer(r, k), idem'[k].status = "IN_FLIGHT"
  PROVE  AwaitsAnswer(r, k)'
<1>1. Exists(r) /\ payout[r].key = k /\ call[r].pc \in {"calling", "finishing", "lost"}
  BY DEF AwaitsAnswer
<1>2. payout'[r].state # "ABSENT" /\ payout'[r].key = k
  BY <1>1, RowsStay
<1>3. ~FinishCreate(r)
  BY <1>1, FinishedKeys, RowSteps
<1>4. call'[r].pc \in {"calling", "finishing", "lost"}
  BY <1>1, <1>3, AnsweringThread
<1>5. audit \subseteq audit'
  BY SentSteps DEF ResultMatched
<1>6. ASSUME payout'[r].state # "CREATED"
      PROVE  \E e \in audit' : e.ref = r
  <2>1. CASE payout[r].state # "CREATED"
    BY <1>5, <2>1 DEF AwaitsAnswer
  <2>2. CASE payout[r].state = "CREATED"
    <3>1. ASSUME NEW w \in Worker, NEW late \in SUBSET Request, NEW lost \in SUBSET Request,
                 SweepExpire(w, late, lost), r \in late
          PROVE  FALSE
      BY <1>1, <3>1, SweptKeys
    <3>2. PICK e \in sent : ResultMatched(r, e)
      BY <1>3, <1>6, <2>2, <3>1, LeavesCreated
    <3>3. e \in audit' /\ e.ref = r
      BY <3>2, MatchedRow DEF ResultMatched
    <3> QED BY <3>3
  <2> QED BY <2>1, <2>2
<1> QED BY <1>2, <1>4, <1>6 DEF AwaitsAnswer, Exists

\* A key is put in flight together with the payout that explains it.
LEMMA NextFlights ==
  ASSUME Consistent, Asked, OnlyResultsStrandKeys, [Next]_vars
  PROVE  OnlyResultsStrandKeys'
<1> SUFFICES ASSUME NEW k \in Key, idem'[k].status = "IN_FLIGHT"
             PROVE  \E r \in Request : AwaitsAnswer(r, k)'
  BY DEF OnlyResultsStrandKeys
<1>1. CASE idem'[k] = idem[k]
  BY <1>1, AnsweringStays DEF OnlyResultsStrandKeys
<1>2. ASSUME NEW r \in Request, CreateBegun(r), call[r].key = k
      PROVE  AwaitsAnswer(r, k)'
  <2>1. payout'[r] = NewRow(r)
    BY <1>2, BegunCall
  <2>2. call'[r].pc = "calling"
    BY <1>2 DEF CreateBegun, Consistent, TypeOK, CallThread
  <2> QED BY <1>2, <2>1, <2>2 DEF AwaitsAnswer, Exists, NewRow
<1> QED BY <1>1, <1>2, KeySteps DEF KeyStep

\* A key goes on answering 409 only for a call that is still out, a payout the
\* sweep will find, or a payout whose result overtook the answer to its call.
THEOREM OnlyAResultStrandsAKey == Spec => []OnlyResultsStrandKeys
<1>1. Init => Asked /\ OnlyResultsStrandKeys
  BY DEF Init, Asked, OnlyResultsStrandKeys, IdleWorker, NoKey
<1>2. /\ Consistent /\ Asked /\ OnlyResultsStrandKeys /\ [Next]_vars
      => Asked' /\ OnlyResultsStrandKeys'
  BY NextAsked, NextFlights
<1> QED BY <1>1, <1>2, Consistency, PTL DEF Spec
=============================================================================
