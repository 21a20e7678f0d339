--------------------------- MODULE PaymentsProofs ---------------------------
(***************************************************************************)
(* What is proved of Payments, for any number of calls, keys, bodies,      *)
(* sales, callbacks, threads and sweeps, whatever the provider claims;     *)
(* and what more is true if it tells the truth.                            *)
(*                                                                         *)
(* Consistent is the inductive invariant.  Its parts lean on one another:  *)
(* a credit matches its payment (EffectsMatchState) because a reference    *)
(* belongs to one row (Rows), which holds because a thread that still has  *)
(* to store one finds the row untouched (Threads).                         *)
(***************************************************************************)
EXTENDS Payments, TLAPS

\* A row's reference is the one of its own initiate call; an unanswered row has
\* none, and a paid one does.
Rows ==
  \A r \in Request :
    /\ payment[r].ref \in {None, r}
    /\ payment[r].state \in {"ABSENT", "CREATED"} => payment[r].ref = None
    /\ payment[r].state = "SUCCEEDED" => payment[r].ref = r
    /\ Exists(r) => payment[r].key \in Key /\ payment[r].payload \in Payload

\* What a thread of create_payment may rely on between its two transactions.
Calls ==
  \A r \in Request :
    /\ (call[r].pc = "ready") => ~Exists(r)
    /\ call[r].pc \in {"calling", "finishing"} =>
         /\ payment[r].state \in {"CREATED", "UNKNOWN", "NEEDS_REVIEW"}
         /\ payment[r].ref = None
    /\ call[r].pc = "finishing" => call[r].ack # "none"
    /\ charge[r] # "none" => Exists(r)

\* What the threads of callbacks and of sweeps hold.
Threads ==
  /\ \A h \in Handler : handler[h].pc # "idle" => handler[h].event \in Event
  /\ \A w \in Worker :
       /\ worker[w].pc \in {"querying", "applying", "inconclusive"} =>
            worker[w].at \in Request
       /\ worker[w].pc \in {"querying", "applying"} =>
            payment[worker[w].at].ref = worker[w].at

\* A key belongs to one payment, and knows how far that payment is.
Keys ==
  /\ \A r, q \in Request :
       Exists(r) /\ Exists(q) /\ payment[r].key = payment[q].key => r = q
  /\ InFlightIffCreated

\* A completed key, and a call that was answered, name the key's payment.
Answers ==
  /\ \A k \in Key : idem[k].status = "COMPLETED" =>
       /\ idem[k].body.id \in Request
       /\ Exists(idem[k].body.id)
       /\ payment[idem[k].body.id].key = k
  /\ \A r \in Request : Accepted2xx(r) =>
       /\ reply[r].body.id \in Request
       /\ Exists(reply[r].body.id)
       /\ payment[reply[r].body.id].key = reply[r].key

Consistent ==
  TypeOK /\ Rows /\ Calls /\ Threads /\ Keys /\ Answers
    /\ EffectsMatchState /\ ReceiptsAreUnique

-----------------------------------------------------------------------------
(* Types *)

\* Rows and keys keep their type when a transaction updates them.
LEMMA RowUpdated ==
  ASSUME NEW row \in Row, NEW s \in State, NEW f \in Request \cup {None}
  PROVE  /\ [row EXCEPT !.state = s] \in Row
         /\ [row EXCEPT !.ref = f, !.state = s] \in Row
BY DEF Row

\* Store.idem_complete keeps a key's row well formed.
LEMMA KeyCompleted ==
  ASSUME NEW row \in IdemRow, NEW b \in PublicBody
  PROVE  [row EXCEPT !.status = "COMPLETED", !.body = b] \in IdemRow
BY DEF IdemRow

\* Moving a row by Store.transition keeps the table's type.
LEMMA MovedType ==
  ASSUME payment \in [Request -> Row], NEW r \in Request, NEW s \in State
  PROVE  Moved(r, s) \in [Request -> Row]
BY RowUpdated DEF Moved

\* An alert is well formed.
LEMMA FlagType ==
  ASSUME anomaly \subseteq Anomaly, NEW r \in Request,
         NEW kind \in {"illegal_transition", "unconfirmed_success",
                       "amount_mismatch", "window_elapsed", "constraint_violation"},
         NEW from \in State, NEW event \in Outcome \cup {None},
         Flag(r, kind, from, event)
  PROVE  anomaly' \subseteq Anomaly
BY DEF Flag, Anomaly

\* _to_review keeps every type.
LEMMA ToReviewType ==
  ASSUME TypeOK, NEW r \in Request,
         NEW kind \in {"amount_mismatch", "window_elapsed"},
         ToReview(r, kind)
  PROVE  payment' \in [Request -> Row] /\ anomaly' \subseteq Anomaly
<1>1. payment' \in [Request -> Row]
  BY MovedType DEF ToReview, TypeOK, State, PaymentState
<1>2. payment[r].state \in State
  BY DEF TypeOK, Row
<1>3. anomaly' \subseteq Anomaly
  BY <1>2, FlagType DEF ToReview, TypeOK, State, PaymentState
<1> QED BY <1>1, <1>3

\* _apply_outcome keeps every type, on a row that has its reference.
LEMMA ApplyOutcomeType ==
  ASSUME TypeOK, NEW r \in Request, NEW o \in Outcome,
         payment[r].ref \in Request, ApplyOutcome(r, o)
  PROVE  /\ payment' \in [Request -> Row]
         /\ ledger' \subseteq [id : Request, ref : Request]
         /\ outbox' \subseteq [id : Request, type : PaymentTerminal]
         /\ anomaly' \subseteq Anomaly
<1>1. payment[r].state \in State
  BY DEF TypeOK, Row
<1>2. CASE Settle(r, o)
  <2>1. o \in PaymentTerminal
    BY <1>2, PaymentsAssumption DEF Settle, CanSettle, Outcome
  <2>2. payment' \in [Request -> Row]
    BY <1>2, <2>1, MovedType DEF Settle, TypeOK, State, PaymentState, PaymentTerminal
  <2>3. ledger' \subseteq [id : Request, ref : Request]
    BY <1>2 DEF Settle, Credited, TypeOK
  <2>4. outbox' \subseteq [id : Request, type : PaymentTerminal]
    BY <1>2, <2>1 DEF Settle, TypeOK
  <2> QED BY <1>2, <2>2, <2>3, <2>4 DEF Settle, TypeOK
<1>3. CASE o = "UNKNOWN" /\ payment' = Moved(r, "UNKNOWN")
             /\ UNCHANGED <<ledger, outbox, anomaly>>
  BY <1>3, MovedType DEF TypeOK, State, PaymentState
<1>4. CASE UNCHANGED <<payment, ledger, outbox, anomaly>>
  BY <1>4 DEF TypeOK
<1>5. CASE /\ Flag(r, "illegal_transition", payment[r].state, o)
           /\ UNCHANGED <<payment, ledger, outbox>>
  BY <1>1, <1>5, FlagType DEF TypeOK
<1> QED BY <1>2, <1>3, <1>4, <1>5 DEF ApplyOutcome

\* A callback's transaction keeps every type.
LEMMA CallbackApplyType ==
  ASSUME TypeOK, NEW h \in Handler, handler[h].event \in Event, CallbackApply(h)
  PROVE  TypeOK'
<1> DEFINE e == handler[h].event
<1>1. /\ e \in Event /\ e.ref \in Request /\ e.outcome \in Outcome
      /\ \A r \in Request : payment[r].state \in State
  BY DEF TypeOK, Event, Row
<1>2. /\ payment' \in [Request -> Row]
      /\ ledger' \subseteq [id : Request, ref : Request]
      /\ outbox' \subseteq [id : Request, type : PaymentTerminal]
      /\ audit' \subseteq Event /\ inbox' \subseteq Event
      /\ anomaly' \subseteq Anomaly
  <2>1. CASE CallbackUnmatched(h, e)
    BY <1>1, <2>1 DEF CallbackUnmatched, TypeOK
  <2>2. ASSUME NEW r \in Request, CallbackMatched(h, e, r), CallbackDoubted(h, e, r)
        PROVE  /\ payment' \in [Request -> Row]
               /\ ledger' = ledger /\ outbox' = outbox
               /\ anomaly' \subseteq Anomaly
    <3>1. CASE ToReview(r, "amount_mismatch")
      BY <3>1, ToReviewType DEF ToReview
    <3>2. CASE /\ Flag(r, "unconfirmed_success", payment[r].state, "SUCCEEDED")
               /\ Claims(r, e)
               /\ UNCHANGED <<payment, ledger, outbox>>
      BY <1>1, <3>2, FlagType DEF TypeOK, Claims
    <3>3. CASE /\ payment' = IF payment[r].state = "PENDING"
                               THEN Moved(r, "UNKNOWN") ELSE payment
               /\ UNCHANGED <<ledger, outbox, anomaly>>
      BY <3>3, MovedType DEF TypeOK, State, PaymentState
    <3> QED BY <2>2, <3>1, <3>2, <3>3 DEF CallbackDoubted
  <2>3. ASSUME NEW r \in Request, CallbackMatched(h, e, r), ApplyOutcome(r, e.outcome)
        PROVE  /\ payment' \in [Request -> Row]
               /\ ledger' \subseteq [id : Request, ref : Request]
               /\ outbox' \subseteq [id : Request, type : PaymentTerminal]
               /\ anomaly' \subseteq Anomaly
    <3>1. payment[r].ref \in Request
      BY <1>1, <2>3 DEF CallbackMatched
    <3> QED BY <1>1, <2>3, <3>1, ApplyOutcomeType
  <2>4. ASSUME NEW r \in Request, CallbackMatched(h, e, r)
        PROVE  audit' \subseteq Event /\ inbox' \subseteq Event
    BY <1>1, <2>4 DEF CallbackMatched, TypeOK
  <2>5. ASSUME NEW r \in Request, CallbackConflict(h, e, r)
        PROVE  anomaly' \subseteq Anomaly
    BY <2>5, FlagType DEF CallbackConflict, State, TypeOK
  <2> QED
    BY <2>1, <2>2, <2>3, <2>4, <2>5
       DEF CallbackApply, CallbackMatched, CallbackConflict, TypeOK
<1>3. handler' = [handler EXCEPT ![h] = IdleHandler]
  BY DEF CallbackApply
<1>4. UNCHANGED <<idem, call, reply, worker, charge, sent>>
  BY DEF CallbackApply, provider
<1>5. handler' \in [Handler -> HandlerThread]
  BY <1>3 DEF TypeOK, IdleHandler, HandlerThread
<1> QED BY <1>2, <1>4, <1>5 DEF TypeOK

\* A create_payment thread's steps keep every type.
LEMMA RequestStepType ==
  ASSUME TypeOK, Calls, NEW r \in Request, RequestStep(r)
  PROVE  TypeOK'
<1>1. ASSUME NEW k \in Key, NEW p \in Payload, CreateRefused(r, k, p)
      PROVE  TypeOK'
  <2>1. NoBody \in PublicBody
    BY DEF NoBody, PublicBody, State
  <2>2. reply' \in [Request -> Reply]
    BY <1>1, <2>1 DEF CreateRefused, Answered, TypeOK, Reply
  <2> QED BY <1>1, <2>2 DEF CreateRefused, Answered, TypeOK, CallThread, tables, provider
<1>2. ASSUME NEW k \in Key, NEW p \in Payload, CreateReplayed(r, k, p)
      PROVE  TypeOK'
  <2>1. idem[k].body \in PublicBody
    BY DEF TypeOK, IdemRow
  <2>2. reply' \in [Request -> Reply]
    BY <1>2, <2>1 DEF CreateReplayed, Answered, TypeOK, Reply
  <2> QED BY <1>2, <2>2 DEF CreateReplayed, Answered, TypeOK, CallThread, tables, provider
<1>3. ASSUME NEW k \in Key, NEW p \in Payload, CreateBegun(r, k, p)
      PROVE  TypeOK'
  <2>1. idem' \in [Key -> IdemRow]
    BY <1>3 DEF CreateBegun, TypeOK, IdemRow, NoBody, PublicBody, State
  <2>2. payment' \in [Request -> Row]
    BY <1>3 DEF CreateBegun, TypeOK, Row, State, PaymentState
  <2> QED BY <1>3, <2>1, <2>2 DEF CreateBegun, TypeOK, CallThread, provider
<1>4. ASSUME NEW made \in {"none", "rejected", "open"},
             NEW ack \in {"accepted", "declined", "unknown"},
             InitiateReturned(r, made, ack)
      PROVE  TypeOK'
  BY <1>4 DEF InitiateReturned, TypeOK, CallThread, tables
<1>5. CASE FinishCreate(r)
  <2>1. payment' \in [Request -> Row]
    <3>1. KeptRef(r) \in Request \cup {None}
      BY DEF KeptRef, TypeOK, Row
    <3>2. call[r].ack \in {"accepted", "declined", "unknown"}
      BY <1>5 DEF FinishCreate, Calls, TypeOK, CallThread
    <3>3. AnswerState(call[r].ack) \in State
      BY <3>2 DEF AnswerState, State, PaymentState
    <3>4. payment \in [Request -> Row] /\ payment[r] \in Row
          /\ payment[r].state \in State
      BY DEF TypeOK, Row
    <3>5. [payment[r] EXCEPT !.ref = KeptRef(r), !.state = KeptState(r)] \in Row
      BY <3>1, <3>3, <3>4, RowUpdated DEF KeptState
    <3> QED BY <1>5, <3>4, <3>5 DEF FinishCreate
  <2>2. Public(r)' \in PublicBody
    BY <2>1 DEF Public, PublicBody, Row
  <2>3. idem' \in [Key -> IdemRow]
    <3>1. \A k \in Key :
            [idem[k] EXCEPT !.status = "COMPLETED", !.body = Public(r)'] \in IdemRow
      BY <2>2, KeyCompleted DEF TypeOK
    <3> QED BY <1>5, <3>1 DEF FinishCreate, TypeOK
  <2>4. payment[r].key \in Key \cup {None}
    BY DEF TypeOK, Row
  <2>5. reply' \in [Request -> Reply]
    BY <1>5, <2>2, <2>4 DEF FinishCreate, Answered, TypeOK, Reply
  <2>6. outbox' \subseteq [id : Request, type : PaymentTerminal]
    BY <1>5 DEF FinishCreate, TypeOK, PaymentTerminal
  <2> QED BY <1>5, <2>1, <2>3, <2>5, <2>6 DEF FinishCreate, Answered, TypeOK, CallThread,
                                            provider
<1>6. CASE RequestLost(r)
  BY <1>6 DEF RequestLost, TypeOK, CallThread, tables, provider
<1> QED
  BY <1>1, <1>2, <1>3, <1>4, <1>5, <1>6
     DEF RequestStep, ChargeAccepted, ChargeRejected, ChargeAnswerLost,
         ChargeNotReached

\* A callback thread's steps keep every type.
LEMMA HandlerStepType ==
  ASSUME TypeOK, Threads, NEW h \in Handler, HandlerStep(h)
  PROVE  TypeOK'
<1>1. ASSUME NEW e \in sent, CallbackRead(h, e)
      PROVE  TypeOK'
  BY <1>1 DEF CallbackRead, TypeOK, HandlerThread, tables, provider
<1>2. CASE CallbackConfirm(h)
  <2>1. PICK v \in {"confirmed", "contradicted", "inconclusive"} :
          handler' = [handler EXCEPT ![h] =
                        [@ EXCEPT !.pc = "applying", !.confirmed = v]]
    BY <1>2 DEF CallbackConfirm
  <2>2. \A t \in HandlerThread :
          [t EXCEPT !.pc = "applying", !.confirmed = v] \in HandlerThread
    BY DEF HandlerThread
  <2>3. handler' \in [Handler -> HandlerThread]
    BY <2>1, <2>2 DEF TypeOK
  <2> QED BY <1>2, <2>3 DEF CallbackConfirm, TypeOK, tables, provider
<1>3. CASE CallbackApply(h)
  <2>1. handler[h].event \in Event
    BY <1>3 DEF CallbackApply, Threads
  <2> QED BY <1>3, <2>1, CallbackApplyType
<1>4. CASE CallbackLost(h)
  BY <1>4 DEF CallbackLost, TypeOK, IdleHandler, HandlerThread, tables, provider
<1> QED BY <1>1, <1>2, <1>3, <1>4 DEF HandlerStep

\* The sweep's transaction keeps every type.
LEMMA SweepExpireType ==
  ASSUME TypeOK, NEW w \in Worker, NEW late \in SUBSET Request,
         NEW lost \in SUBSET Request, SweepExpire(w, late, lost)
  PROVE  TypeOK'
<1>1. payment' \in [Request -> Row]
  <2>1. \A r \in Request : [payment[r] EXCEPT !.state = "UNKNOWN"] \in Row
    BY RowUpdated DEF TypeOK, State, PaymentState
  <2>2. payment' = RowsSwept(late, lost)
    BY DEF SweepExpire
  <2> QED BY <2>1, <2>2 DEF RowsSwept, TypeOK
<1>2. idem' \in [Key -> IdemRow]
  <2> SUFFICES ASSUME NEW k \in Key, NEW r \in late, payment[r].key = k
               PROVE  KeysSwept(late)[k] \in IdemRow
    BY DEF SweepExpire, KeysSwept, TypeOK
  <2> DEFINE c == CHOOSE x \in late : payment[x].key = k
  <2>1. c \in Request
    OBVIOUS
  <2>2. [Public(c) EXCEPT !.state = "UNKNOWN"] \in PublicBody
    BY <2>1 DEF Public, PublicBody, TypeOK, Row, State, PaymentState
  <2> HIDE DEF c
  <2>3. [idem[k] EXCEPT !.status = "COMPLETED",
           !.body = [Public(c) EXCEPT !.state = "UNKNOWN"]] \in IdemRow
    <3>1. idem[k] \in IdemRow
      BY DEF SweepExpire, KeysSwept, TypeOK
    <3> QED BY <2>2, <3>1, KeyCompleted
  <2> QED BY <2>3 DEF KeysSwept, c
<1>3. worker' = [worker EXCEPT ![w].pc = "listing"]
  BY DEF SweepExpire
<1>4. UNCHANGED <<ledger, outbox, audit, inbox, anomaly, call, reply, handler,
                  charge, sent>>
  BY DEF SweepExpire, provider
<1> QED BY <1>1, <1>2, <1>3, <1>4 DEF TypeOK, WorkerThread

\* A worker's steps keep every type.
LEMMA WorkerStepType ==
  ASSUME TypeOK, Rows, Threads, NEW w \in Worker, WorkerStep(w)
  PROVE  TypeOK'
<1>1. ASSUME NEW late \in SUBSET Request, NEW lost \in SUBSET Request,
             SweepExpire(w, late, lost)
      PROVE  TypeOK'
  BY <1>1, SweepExpireType
<1>2. ASSUME NEW due \in SUBSET Request, SweepList(w, due)
      PROVE  TypeOK'
  BY <1>2 DEF SweepList, TypeOK, WorkerThread, tables, provider
<1>3. CASE SweepDone(w)
  BY <1>3 DEF SweepDone, TypeOK, WorkerThread, IdleWorker, Outcome, tables, provider
<1>4. ASSUME NEW r \in Request, NEW rest \in SUBSET Request, ReconcileRead(w, r, rest)
      PROVE  TypeOK'
  <2>1. worker' \in [Worker -> WorkerThread]
    BY <1>4 DEF ReconcileRead, TypeOK, WorkerThread, Outcome
  <2> QED BY <1>4, <2>1 DEF ReconcileRead, TypeOK, tables, provider
<1>5. ASSUME NEW r \in Request, SweepPick(w, r) \/ ReconcileRequested(w, r)
      PROVE  TypeOK'
  <2>1. worker[w].todo \ {r} \in SUBSET Request
    BY DEF TypeOK, WorkerThread
  <2> QED BY <1>4, <1>5, <2>1 DEF SweepPick, ReconcileRequested
<1>6. CASE QueryAnswered(w)
  <2>1. PICK o \in Final :
          worker' = [worker EXCEPT ![w] = [@ EXCEPT !.pc = "applying", !.answer = o]]
    BY <1>6 DEF QueryAnswered
  <2>2. \A t \in WorkerThread :
          [t EXCEPT !.pc = "applying", !.answer = o] \in WorkerThread
    BY DEF WorkerThread, Outcome
  <2>3. worker' \in [Worker -> WorkerThread]
    BY <2>1, <2>2 DEF TypeOK
  <2> QED BY <1>6, <2>3 DEF QueryAnswered, TypeOK, tables, provider
<1>7. CASE QueryInconclusive(w)
  BY <1>7 DEF QueryInconclusive, TypeOK, WorkerThread, tables, provider
<1>8. ASSUME Resume(w)
      PROVE  worker' \in [Worker -> WorkerThread]
  BY <1>8 DEF Resume, TypeOK, WorkerThread, Outcome
<1>9. CASE ReconcileApply(w)
  <2>1. /\ worker[w].at \in Request /\ worker[w].answer \in Outcome
        /\ payment[worker[w].at].ref \in Request
    BY <1>9 DEF ReconcileApply, Threads, TypeOK, WorkerThread
  <2>2. /\ payment' \in [Request -> Row]
        /\ ledger' \subseteq [id : Request, ref : Request]
        /\ outbox' \subseteq [id : Request, type : PaymentTerminal]
        /\ anomaly' \subseteq Anomaly
    BY <1>9, <2>1, ApplyOutcomeType DEF ReconcileApply
  <2> QED BY <1>8, <1>9, <2>2 DEF ReconcileApply, TypeOK, provider
<1>10. CASE ReconcileAborted(w) \/ WorkerLost(w)
  BY <1>10 DEF ReconcileAborted, WorkerLost, TypeOK, WorkerThread, IdleWorker,
               Outcome, tables, provider
<1>11. ASSUME NEW elapsed \in BOOLEAN, ReconcileInconclusive(w, elapsed)
       PROVE  TypeOK'
  <2>1. worker[w].at \in Request
    BY <1>11 DEF ReconcileInconclusive, Threads
  <2>2. payment' \in [Request -> Row] /\ anomaly' \subseteq Anomaly
        /\ UNCHANGED <<ledger, outbox>>
    BY <1>11, <2>1, ToReviewType DEF ReconcileInconclusive, ToReview, TypeOK
  <2> QED BY <1>8, <1>11, <2>2 DEF ReconcileInconclusive, TypeOK, provider
<1> QED
  BY <1>1, <1>2, <1>3, <1>5, <1>6, <1>7, <1>9, <1>10, <1>11 DEF WorkerStep

\* The provider's steps keep every type.
LEMMA ProviderStepType ==
  ASSUME TypeOK, NEW r \in Request, ProviderStep(r)
  PROVE  TypeOK'
<1>1. ASSUME NEW o \in Final, ChargeResolved(r, o)
      PROVE  TypeOK'
  <2>1. sent' \subseteq Event
    <3>1. TRUE \in BOOLEAN
      OBVIOUS
    <3>2. \A b \in BOOLEAN : [ref |-> r, outcome |-> o, amountOk |-> b] \in Event
      BY DEF Event, Outcome
    <3> QED BY <1>1, <3>1, <3>2 DEF ChargeResolved, TypeOK
  <2>2. charge' \in [Request -> {"none", "rejected", "open"} \cup Final]
    BY <1>1 DEF ChargeResolved, TypeOK
  <2> QED BY <1>1, <2>1, <2>2 DEF ChargeResolved, TypeOK, tables, threads
<1>2. ASSUME NEW s \in Stray, CallbackStray(r, s)
      PROVE  TypeOK'
  <2>1. s.outcome \in Outcome /\ s.amountOk \in BOOLEAN
    BY PaymentsAssumption DEF Outcome
  <2> QED BY <1>2, <2>1 DEF CallbackStray, TypeOK, Event, tables, threads
<1> QED BY <1>1, <1>2 DEF ProviderStep

\* Every step keeps every type.
LEMMA NextType == TypeOK /\ Rows /\ Calls /\ Threads /\ [Next]_vars => TypeOK'
<1> SUFFICES ASSUME TypeOK, Rows, Calls, Threads, [Next]_vars
             PROVE  TypeOK'
  OBVIOUS
<1>1. CASE UNCHANGED vars
  BY <1>1 DEF TypeOK, vars, tables, threads, provider
<1> QED
  BY <1>1, RequestStepType, HandlerStepType, WorkerStepType, ProviderStepType DEF Next

-----------------------------------------------------------------------------
(* What a step may do to payments, ledger, outbox and keys                 *)

\* An outcome of payment r is committed: a terminal one with its event and, if it
\* is a success, with the only credit of r and a receipt no other payment has.
OutcomeStep(r, s) ==
  /\ payment[r].state \in {"PENDING", "UNKNOWN", "NEEDS_REVIEW"}
  /\ payment' = Moved(r, s)
  /\ \/ s \in {"UNKNOWN", "NEEDS_REVIEW"} /\ UNCHANGED <<ledger, outbox>>
     \/ /\ s \in PaymentTerminal
        /\ payment[r].ref = r
        /\ outbox' = outbox \cup {[id |-> r, type |-> s]}
        /\ ledger' = IF s = "SUCCEEDED"
                       THEN ledger \cup {[id |-> r, ref |-> r]} ELSE ledger
        /\ s = "SUCCEEDED" => \A q \in Request \ {r} :
             payment[q].state = "SUCCEEDED" =>
               ReceiptOf[payment[q].ref] # ReceiptOf[r]

OutcomeSteps ==
  \/ UNCHANGED <<payment, ledger, outbox>>
  \/ \E r \in Request, s \in State : OutcomeStep(r, s)

\* Credits are found by their payment, so a payment that is not paid has none
\* under its reference: ON CONFLICT DO NOTHING never drops a credit.
LEMMA CreditIsNew ==
  ASSUME TypeOK, Rows, EffectsMatchState, NEW r \in Request,
         payment[r].state # "SUCCEEDED", NEW e \in ledger
  PROVE  e.ref # r
<1> SUFFICES ASSUME e.ref = r PROVE FALSE
  OBVIOUS
<1>1. e.id \in Request
  BY DEF TypeOK
<1>2. e \in {x \in ledger : x.id = e.id}
  OBVIOUS
<1>3. payment[e.id].state = "SUCCEEDED" /\ e = [id |-> e.id, ref |-> payment[e.id].ref]
  BY <1>1, <1>2 DEF EffectsMatchState
<1>4. payment[e.id].ref = e.id
  BY <1>1, <1>3 DEF Rows
<1> QED BY <1>3, <1>4

\* _apply_outcome, on a row that has its reference, is an outcome step or nothing.
LEMMA ApplyOutcomeStep ==
  ASSUME TypeOK, Rows, EffectsMatchState, NEW r \in Request, NEW o \in Outcome,
         payment[r].ref = r, ApplyOutcome(r, o)
  PROVE  OutcomeSteps
<1>1. payment[r].state \notin {"ABSENT", "CREATED"}
  BY PaymentsAssumption DEF Rows
<1>2. CASE Settle(r, o)
  <2>1. o \in PaymentTerminal /\ o \in State
    BY <1>2, PaymentsAssumption
       DEF Settle, CanSettle, Outcome, State, PaymentState, PaymentTerminal
  <2>2. payment[r].state \in {"PENDING", "UNKNOWN", "NEEDS_REVIEW"}
    BY <1>1, <1>2 DEF Settle, CanSettle, PaymentLegal
  <2>3. \A e \in ledger : e.ref # r
    BY <2>2, CreditIsNew
  <2>4. OutcomeStep(r, o)
    BY <1>2, <2>1, <2>2, <2>3 DEF Settle, Credited, ReceiptTaken, OutcomeStep
  <2> QED BY <2>1, <2>4 DEF OutcomeSteps
<1>3. CASE /\ o = "UNKNOWN" /\ payment[r].state = "PENDING"
           /\ payment' = Moved(r, "UNKNOWN")
           /\ UNCHANGED <<ledger, outbox, anomaly>>
  <2>1. OutcomeStep(r, "UNKNOWN")
    BY <1>3 DEF OutcomeStep
  <2> QED BY <2>1 DEF OutcomeSteps, State, PaymentState
<1>4. CASE UNCHANGED <<payment, ledger, outbox>>
  BY <1>4 DEF OutcomeSteps
<1> QED BY <1>2, <1>3, <1>4 DEF ApplyOutcome

\* _to_review is an outcome step or leaves the row alone.
LEMMA ToReviewStep ==
  ASSUME NEW r \in Request, NEW kind, ToReview(r, kind)
  PROVE  OutcomeSteps
<1>1. CASE payment[r].state \in {"PENDING", "UNKNOWN"}
  <2>1. OutcomeStep(r, "NEEDS_REVIEW")
    BY <1>1 DEF ToReview, OutcomeStep
  <2> QED BY <2>1 DEF OutcomeSteps, State, PaymentState
<1>2. CASE payment[r].state \notin {"PENDING", "UNKNOWN"}
  BY <1>2 DEF ToReview, OutcomeSteps
<1> QED BY <1>1, <1>2

\* The transaction of handle_callback, in every one of its branches.
LEMMA CallbackStep ==
  ASSUME TypeOK, Rows, Threads, EffectsMatchState, NEW h \in Handler, CallbackApply(h)
  PROVE  OutcomeSteps
<1> DEFINE e == handler[h].event
<1>1. e.ref \in Request /\ e.outcome \in Outcome
  BY DEF Threads, CallbackApply, Event
<1>2. CASE CallbackUnmatched(h, e)
  BY <1>2 DEF CallbackUnmatched, OutcomeSteps
<1>3. ASSUME NEW r \in Request, CallbackConflict(h, e, r)
      PROVE  OutcomeSteps
  BY <1>3 DEF CallbackConflict, OutcomeSteps
<1>4. ASSUME NEW r \in Request, payment[r].ref = e.ref, CallbackDoubted(h, e, r)
      PROVE  OutcomeSteps
  <2>1. CASE ToReview(r, "amount_mismatch")
    BY <2>1, ToReviewStep
  <2>2. CASE UNCHANGED <<payment, ledger, outbox>>
    BY <2>2 DEF OutcomeSteps
  <2>3. CASE /\ payment[r].state = "PENDING" /\ payment' = Moved(r, "UNKNOWN")
             /\ UNCHANGED <<ledger, outbox>>
    <3>1. OutcomeStep(r, "UNKNOWN")
      BY <2>3 DEF OutcomeStep
    <3> QED BY <3>1 DEF OutcomeSteps, State, PaymentState
  <2> QED BY <1>4, <2>1, <2>2, <2>3 DEF CallbackDoubted
<1>5. ASSUME NEW r \in Request, payment[r].ref = e.ref, ApplyOutcome(r, e.outcome)
      PROVE  OutcomeSteps
  <2>1. payment[r].ref = r
    BY <1>1, <1>5, PaymentsAssumption DEF Rows
  <2> QED BY <1>1, <1>5, <2>1, ApplyOutcomeStep
<1> QED BY <1>2, <1>3, <1>4, <1>5 DEF CallbackApply, CallbackMatched

\* A callback's thread touches payments only by an outcome step.
LEMMA HandlerOutcome ==
  ASSUME TypeOK, Rows, Threads, EffectsMatchState, NEW h \in Handler, HandlerStep(h)
  PROVE  OutcomeSteps /\ UNCHANGED <<idem, call, reply, worker, charge, sent>>
<1>1. CASE CallbackApply(h)
  BY <1>1, CallbackStep DEF CallbackApply, provider
<1>2. CASE ~CallbackApply(h)
  BY <1>2 DEF HandlerStep, CallbackRead, CallbackConfirm, CallbackLost, OutcomeSteps,
              tables, provider
<1> QED BY <1>1, <1>2

\* So does a sweep or a reconcile request, but for the sweep's own transaction.
LEMMA WorkerOutcome ==
  ASSUME TypeOK, Rows, Threads, EffectsMatchState, NEW w \in Worker, WorkerStep(w)
  PROVE  \/ \E late, lost \in SUBSET Request : SweepExpire(w, late, lost)
         \/ OutcomeSteps /\ UNCHANGED <<idem, call, reply, handler, charge, sent>>
<1>1. CASE ReconcileApply(w)
  <2>1. /\ worker[w].at \in Request /\ worker[w].answer \in Outcome
        /\ payment[worker[w].at].ref = worker[w].at
    BY <1>1 DEF ReconcileApply, Threads, TypeOK, WorkerThread
  <2>2. OutcomeSteps
    BY <1>1, <2>1, ApplyOutcomeStep DEF ReconcileApply
  <2> QED BY <1>1, <2>2 DEF ReconcileApply, provider
<1>2. ASSUME NEW elapsed \in BOOLEAN, ReconcileInconclusive(w, elapsed)
      PROVE  OutcomeSteps /\ UNCHANGED <<idem, call, reply, handler, charge, sent>>
  <2>1. worker[w].at \in Request
    BY <1>2 DEF ReconcileInconclusive, Threads
  <2>2. OutcomeSteps
    BY <1>2, <2>1, ToReviewStep DEF ReconcileInconclusive, OutcomeSteps
  <2> QED BY <1>2, <2>2 DEF ReconcileInconclusive, provider
<1>3. CASE UNCHANGED <<tables, call, reply, handler, provider>>
  BY <1>3 DEF OutcomeSteps, tables, provider
<1> QED
  BY <1>1, <1>2, <1>3
     DEF WorkerStep, SweepList, SweepDone, SweepPick, ReconcileRequested,
         ReconcileRead, QueryAnswered, QueryInconclusive, ReconcileAborted, WorkerLost

\* Every step of the system, seen from these four tables.
TableSteps ==
  \/ UNCHANGED <<payment, ledger, outbox, idem>>
  \/ \E r \in Request, k \in Key, p \in Payload : CreateBegun(r, k, p)
  \/ \E r \in Request : FinishCreate(r)
  \/ OutcomeSteps /\ UNCHANGED idem
  \/ \E w \in Worker, late, lost \in SUBSET Request : SweepExpire(w, late, lost)

\* The steps of the system are the five above.
LEMMA TableStep ==
  ASSUME TypeOK, Rows, Threads, EffectsMatchState, [Next]_vars
  PROVE  TableSteps
<1>1. CASE UNCHANGED vars
  BY <1>1 DEF TableSteps, vars, tables
<1>2. ASSUME NEW r \in Request, RequestStep(r)
      PROVE  TableSteps
  <2>1. ASSUME NEW k \in Key, NEW p \in Payload,
               CreateRefused(r, k, p) \/ CreateReplayed(r, k, p)
        PROVE  TableSteps
    BY <2>1 DEF CreateRefused, CreateReplayed, TableSteps, tables
  <2>2. ASSUME NEW made, NEW ack, InitiateReturned(r, made, ack)
        PROVE  TableSteps
    BY <2>2 DEF InitiateReturned, TableSteps, tables
  <2>3. CASE RequestLost(r)
    BY <2>3 DEF RequestLost, TableSteps, tables
  <2>4. CASE FinishCreate(r)
    BY <2>4 DEF TableSteps
  <2>5. ASSUME NEW k \in Key, NEW p \in Payload, CreateBegun(r, k, p)
        PROVE  TableSteps
    BY <2>5 DEF TableSteps
  <2> QED
    BY <1>2, <2>1, <2>2, <2>3, <2>4, <2>5
       DEF RequestStep, ChargeAccepted, ChargeRejected, ChargeAnswerLost,
           ChargeNotReached
<1>3. ASSUME NEW r \in Request, ProviderStep(r)
      PROVE  TableSteps
  BY <1>3 DEF ProviderStep, ChargeResolved, CallbackStray, TableSteps, tables
<1>4. ASSUME NEW h \in Handler, HandlerStep(h)
      PROVE  TableSteps
  BY <1>4, HandlerOutcome DEF TableSteps
<1>5. ASSUME NEW w \in Worker, WorkerStep(w)
      PROVE  TableSteps
  BY <1>5, WorkerOutcome DEF TableSteps
<1> QED BY <1>1, <1>2, <1>3, <1>4, <1>5 DEF Next

\* The sweep only marks rows UNKNOWN.
LEMMA SweptRow ==
  ASSUME TypeOK, NEW w \in Worker, NEW late \in SUBSET Request,
         NEW lost \in SUBSET Request, SweepExpire(w, late, lost), NEW r \in Request
  PROVE  /\ r \in late \cup lost =>
              /\ payment[r].state = IF r \in late THEN "CREATED" ELSE "PENDING"
              /\ payment'[r].state = "UNKNOWN"
         /\ r \notin late \cup lost => payment'[r] = payment[r]
         /\ payment'[r].key = payment[r].key
         /\ payment'[r].payload = payment[r].payload
         /\ payment'[r].ref = payment[r].ref
<1>1. payment[r] \in Row
  BY DEF TypeOK
<1>2. payment'[r] = IF r \in late \cup lost
                      THEN [payment[r] EXCEPT !.state = "UNKNOWN"] ELSE payment[r]
  BY DEF SweepExpire, RowsSwept
<1>3. \A row \in Row : LET swept == [row EXCEPT !.state = "UNKNOWN"]
                       IN  /\ swept.state = "UNKNOWN" /\ swept.key = row.key
                           /\ swept.payload = row.payload /\ swept.ref = row.ref
  BY DEF Row
<1> QED BY <1>1, <1>2, <1>3 DEF SweepExpire

\* An outcome changes the state of one row.
LEMMA OutcomeRow ==
  ASSUME TypeOK, NEW r \in Request, NEW s \in State, OutcomeStep(r, s),
         NEW q \in Request
  PROVE  /\ payment'[q].state = IF q = r THEN s ELSE payment[q].state
         /\ payment'[q].key = payment[q].key
         /\ payment'[q].payload = payment[q].payload
         /\ payment'[q].ref = payment[q].ref
BY DEF OutcomeStep, Moved, TypeOK, Row

\* FinishCreate changes one row, which its thread finds as it left it but for a
\* sweep that may have been faster.
LEMMA FinishedRow ==
  ASSUME TypeOK, Calls, NEW r \in Request, FinishCreate(r), NEW q \in Request
  PROVE  /\ payment'[q].state = IF q = r THEN KeptState(r) ELSE payment[q].state
         /\ payment'[q].ref = IF q = r THEN KeptRef(r) ELSE payment[q].ref
         /\ payment'[q].key = payment[q].key
         /\ payment'[q].payload = payment[q].payload
         /\ payment[r].ref = None /\ KeptRef(r) \in {None, r}
         /\ payment[r].state \in {"CREATED", "UNKNOWN", "NEEDS_REVIEW"}
         /\ KeptState(r) = IF payment[r].state = "CREATED"
                             THEN AnswerState(call[r].ack) ELSE payment[r].state
         /\ AnswerState(call[r].ack) \in {"PENDING", "DECLINED", "UNKNOWN"}
<1>1. payment[r].ref = None
      /\ payment[r].state \in {"CREATED", "UNKNOWN", "NEEDS_REVIEW"}
      /\ call[r].ack \in {"accepted", "declined", "unknown"}
  BY DEF FinishCreate, Calls, TypeOK, CallThread
<1>2. AnswerState(call[r].ack) \in {"PENDING", "DECLINED", "UNKNOWN"}
  BY <1>1 DEF AnswerState
<1>3. KeptRef(r) \in {None, r}
  BY <1>1 DEF KeptRef
<1>4. payment' = [payment EXCEPT ![r] =
                    [@ EXCEPT !.ref = KeptRef(r), !.state = KeptState(r)]]
  BY DEF FinishCreate
<1>5. \A row \in Row : \A f, s :
        LET new == [row EXCEPT !.ref = f, !.state = s]
        IN  /\ new.state = s /\ new.ref = f
            /\ new.key = row.key /\ new.payload = row.payload
  BY DEF Row
<1>6. payment[r] \in Row
  BY DEF TypeOK
<1>7. q = r => /\ payment'[q].state = KeptState(r) /\ payment'[q].ref = KeptRef(r)
               /\ payment'[q].key = payment[q].key
               /\ payment'[q].payload = payment[q].payload
  BY <1>4, <1>5, <1>6 DEF TypeOK
<1>8. q # r => payment'[q] = payment[q]
  BY <1>4 DEF TypeOK
<1> QED BY <1>1, <1>2, <1>3, <1>7, <1>8 DEF KeptState

\* CreateBegun writes one row.
LEMMA BegunRow ==
  ASSUME TypeOK, NEW r \in Request, NEW k \in Key, NEW p \in Payload,
         CreateBegun(r, k, p), NEW q \in Request
  PROVE  payment'[q] = IF q = r
           THEN [state |-> "CREATED", key |-> k, payload |-> p, ref |-> None]
           ELSE payment[q]
BY DEF CreateBegun, TypeOK

\* A payment never disappears, never changes its key, its body or a reference it
\* has, and appears only by CreateBegun.
RowKept(r) ==
  /\ Exists(r) => /\ payment'[r].state # "ABSENT"
                  /\ payment'[r].key = payment[r].key
                  /\ payment'[r].payload = payment[r].payload
  /\ payment[r].ref # None => payment'[r].ref = payment[r].ref

\* Every step keeps what RowKept lists.
LEMMA RowsAreKept ==
  ASSUME TypeOK, Rows, Calls, TableSteps, NEW q \in Request
  PROVE  RowKept(q)
<1>1. CASE UNCHANGED <<payment, ledger, outbox, idem>>
  BY <1>1 DEF RowKept, Exists
<1>2. ASSUME NEW r \in Request, NEW k \in Key, NEW p \in Payload, CreateBegun(r, k, p)
      PROVE  RowKept(q)
  <2>1. ~Exists(r) /\ payment[r].ref = None
    BY <1>2 DEF CreateBegun, Calls, Rows, Exists
  <2> QED BY <1>2, <2>1, BegunRow DEF RowKept, Exists
<1>3. ASSUME NEW r \in Request, FinishCreate(r)
      PROVE  RowKept(q)
  BY <1>3, FinishedRow DEF RowKept, Exists
<1>4. CASE OutcomeSteps
  <2>1. CASE UNCHANGED <<payment, ledger, outbox>>
    BY <2>1 DEF RowKept, Exists
  <2>2. ASSUME NEW r \in Request, NEW s \in State, OutcomeStep(r, s)
        PROVE  RowKept(q)
    <3>1. s # "ABSENT"
      BY <2>2 DEF OutcomeStep, PaymentTerminal
    <3> QED BY <2>2, <3>1, OutcomeRow DEF RowKept, Exists
  <2> QED BY <1>4, <2>1, <2>2 DEF OutcomeSteps
<1>5. ASSUME NEW w \in Worker, NEW late \in SUBSET Request,
             NEW lost \in SUBSET Request, SweepExpire(w, late, lost)
      PROVE  RowKept(q)
  BY <1>5, SweptRow DEF RowKept, Exists
<1> QED BY <1>1, <1>2, <1>3, <1>4, <1>5 DEF TableSteps

-----------------------------------------------------------------------------
(* The invariant's parts *)

\* A reference gets to its own row only, and an unanswered row stays without.
LEMMA NextRows ==
  ASSUME TypeOK, Rows, Calls, TableSteps
  PROVE  Rows'
<1> SUFFICES ASSUME NEW q \in Request
             PROVE  /\ payment'[q].ref \in {None, q}
                    /\ payment'[q].state \in {"ABSENT", "CREATED"} =>
                         payment'[q].ref = None
                    /\ payment'[q].state = "SUCCEEDED" => payment'[q].ref = q
                    /\ payment'[q].state # "ABSENT" =>
                         payment'[q].key \in Key /\ payment'[q].payload \in Payload
  BY DEF Rows, Exists
<1>1. CASE UNCHANGED <<payment, ledger, outbox, idem>>
  BY <1>1 DEF Rows, Exists
<1>2. ASSUME NEW r \in Request, NEW k \in Key, NEW p \in Payload, CreateBegun(r, k, p)
      PROVE  Rows'
  <2>1. \A x \in Request : payment'[x] = IF x = r
          THEN [state |-> "CREATED", key |-> k, payload |-> p, ref |-> None]
          ELSE payment[x]
    BY <1>2, BegunRow
  <2> QED BY <2>1 DEF Rows, Exists
<1>3. ASSUME NEW r \in Request, FinishCreate(r)
      PROVE  Rows'
  BY <1>3, FinishedRow DEF Rows, Exists
<1>4. CASE OutcomeSteps
  <2>1. ASSUME NEW r \in Request, NEW s \in State, OutcomeStep(r, s)
        PROVE  Rows'
    <3>1. /\ s \notin {"ABSENT", "CREATED"}
          /\ s = "SUCCEEDED" => payment[r].ref = r
          /\ payment[r].state \in {"PENDING", "UNKNOWN", "NEEDS_REVIEW"}
      BY <2>1 DEF OutcomeStep, PaymentTerminal
    <3> QED BY <2>1, <3>1, OutcomeRow DEF Rows, Exists
  <2> QED BY <1>4, <2>1 DEF OutcomeSteps, Rows, Exists
<1>5. ASSUME NEW w \in Worker, NEW late \in SUBSET Request,
             NEW lost \in SUBSET Request, SweepExpire(w, late, lost)
      PROVE  Rows'
  <2>1. \A x \in Request :
          /\ payment'[x].state \in {"UNKNOWN", payment[x].state}
          /\ payment'[x].state # payment[x].state =>
               payment[x].state \in {"CREATED", "PENDING"}
          /\ payment'[x].key = payment[x].key
          /\ payment'[x].payload = payment[x].payload
          /\ payment'[x].ref = payment[x].ref
    BY <1>5, SweptRow
  <2> QED BY <2>1 DEF Rows, Exists
<1> QED BY <1>1, <1>2, <1>3, <1>4, <1>5 DEF TableSteps, Rows, Exists

\* EffectsMatchState for one row, as the four steps preserve it.
LEMMA NextEffects ==
  ASSUME TypeOK, Rows, Calls, EffectsMatchState, TableSteps
  PROVE  EffectsMatchState'
<1> DEFINE Credits(q) == {e \in ledger : e.id = q}
           Events(q) == {e \in outbox : e.id = q}
<1>1. CASE UNCHANGED <<payment, ledger, outbox, idem>>
  BY <1>1 DEF EffectsMatchState, Terminal
<1>2. ASSUME NEW r \in Request, NEW k \in Key, NEW p \in Payload, CreateBegun(r, k, p)
      PROVE  EffectsMatchState'
  <2>1. UNCHANGED <<ledger, outbox>> /\ payment[r].state = "ABSENT"
    BY <1>2 DEF CreateBegun, Calls, Exists
  <2>2. \A x \in Request :
          /\ x # r => payment'[x] = payment[x]
          /\ x = r => payment'[x].state = "CREATED" /\ payment[x].state = "ABSENT"
    <3>1. \A x \in Request : payment'[x] = IF x = r
            THEN [state |-> "CREATED", key |-> k, payload |-> p, ref |-> None]
            ELSE payment[x]
      BY <1>2, BegunRow
    <3> QED BY <2>1, <3>1
  <2>3. \A x \in Request :
          /\ payment'[x].state = "SUCCEEDED" <=> payment[x].state = "SUCCEEDED"
          /\ payment'[x].state \in PaymentTerminal <=> payment[x].state \in PaymentTerminal
          /\ payment[x].state \in PaymentTerminal => payment'[x] = payment[x]
    BY <2>2 DEF PaymentTerminal
  <2> QED BY <2>1, <2>3 DEF EffectsMatchState, Terminal, PaymentTerminal
<1>3. ASSUME NEW r \in Request, FinishCreate(r)
      PROVE  EffectsMatchState'
  <2> SUFFICES ASSUME NEW q \in Request
               PROVE  /\ Credits(q)' = IF payment'[q].state = "SUCCEEDED"
                           THEN {[id |-> q, ref |-> payment'[q].ref]} ELSE {}
                      /\ Events(q)' = IF payment'[q].state \in PaymentTerminal
                           THEN {[id |-> q, type |-> payment'[q].state]} ELSE {}
    BY DEF EffectsMatchState, Terminal
  <2>1. /\ Credits(q) = IF payment[q].state = "SUCCEEDED"
              THEN {[id |-> q, ref |-> payment[q].ref]} ELSE {}
        /\ Events(q) = IF payment[q].state \in PaymentTerminal
              THEN {[id |-> q, type |-> payment[q].state]} ELSE {}
    BY DEF EffectsMatchState, Terminal
  <2>2. UNCHANGED ledger
    BY <1>3 DEF FinishCreate
  <2>3. CASE payment[r].state = "CREATED" /\ call[r].ack = "declined"
    <3>1. outbox' = outbox \cup {[id |-> r, type |-> "DECLINED"]}
      BY <1>3, <2>3 DEF FinishCreate
    <3>2. Events(q)' = IF q = r THEN Events(q) \cup {[id |-> r, type |-> "DECLINED"]}
                       ELSE Events(q)
      BY <3>1
    <3>3. payment'[r].state = "DECLINED"
      BY <1>3, <2>3, FinishedRow DEF AnswerState
    <3> QED BY <1>3, <2>1, <2>2, <2>3, <3>2, <3>3, FinishedRow DEF PaymentTerminal
  <2>4. CASE ~(payment[r].state = "CREATED" /\ call[r].ack = "declined")
    <3>1. UNCHANGED outbox
      BY <1>3, <2>4 DEF FinishCreate
    <3>2. payment'[r].state \in {"PENDING", "UNKNOWN", "NEEDS_REVIEW"}
          /\ payment[r].state \notin PaymentTerminal
      <4>1. call[r].ack \in {"accepted", "declined", "unknown"}
        BY <1>3 DEF FinishCreate, Calls, TypeOK, CallThread
      <4> QED BY <1>3, <2>4, <4>1, FinishedRow DEF AnswerState, PaymentTerminal
    <3> QED BY <1>3, <2>1, <2>2, <3>1, <3>2, FinishedRow DEF PaymentTerminal
  <2> QED BY <2>3, <2>4
<1>4. CASE OutcomeSteps
  <2>1. CASE UNCHANGED <<payment, ledger, outbox>>
    BY <2>1 DEF EffectsMatchState, Terminal
  <2>2. ASSUME NEW r \in Request, NEW s \in State, OutcomeStep(r, s)
        PROVE  EffectsMatchState'
    <3> SUFFICES ASSUME NEW q \in Request
                 PROVE  /\ Credits(q)' = IF payment'[q].state = "SUCCEEDED"
                             THEN {[id |-> q, ref |-> payment'[q].ref]} ELSE {}
                        /\ Events(q)' = IF payment'[q].state \in PaymentTerminal
                             THEN {[id |-> q, type |-> payment'[q].state]} ELSE {}
      BY DEF EffectsMatchState, Terminal
    <3>1. /\ Credits(q) = IF payment[q].state = "SUCCEEDED"
                THEN {[id |-> q, ref |-> payment[q].ref]} ELSE {}
          /\ Events(q) = IF payment[q].state \in PaymentTerminal
                THEN {[id |-> q, type |-> payment[q].state]} ELSE {}
      BY DEF EffectsMatchState, Terminal
    <3>2. payment[r].state \notin PaymentTerminal
      BY <2>2 DEF OutcomeStep, PaymentTerminal
    <3>3. CASE s \in {"UNKNOWN", "NEEDS_REVIEW"} /\ UNCHANGED <<ledger, outbox>>
      BY <2>2, <3>1, <3>2, <3>3, OutcomeRow DEF PaymentTerminal
    <3>4. CASE /\ s \in PaymentTerminal
               /\ payment[r].ref = r
               /\ outbox' = outbox \cup {[id |-> r, type |-> s]}
               /\ ledger' = IF s = "SUCCEEDED"
                              THEN ledger \cup {[id |-> r, ref |-> r]} ELSE ledger
      <4>1. Events(q)' = IF q = r THEN Events(q) \cup {[id |-> r, type |-> s]}
                         ELSE Events(q)
        BY <3>4
      <4>2. Credits(q)' = IF q = r /\ s = "SUCCEEDED"
                            THEN Credits(q) \cup {[id |-> r, ref |-> r]} ELSE Credits(q)
        BY <3>4
      <4> QED BY <2>2, <3>1, <3>2, <3>4, <4>1, <4>2, OutcomeRow DEF PaymentTerminal
    <3> QED BY <2>2, <3>3, <3>4 DEF OutcomeStep
  <2> QED BY <1>4, <2>1, <2>2 DEF OutcomeSteps
<1>5. ASSUME NEW w \in Worker, NEW late \in SUBSET Request,
             NEW lost \in SUBSET Request, SweepExpire(w, late, lost)
      PROVE  EffectsMatchState'
  <2>1. UNCHANGED <<ledger, outbox>>
    BY <1>5 DEF SweepExpire
  <2>2. \A x \in Request :
          /\ payment'[x].state \in {"UNKNOWN", payment[x].state}
          /\ payment'[x].state # payment[x].state =>
               payment[x].state \in {"CREATED", "PENDING"}
          /\ payment'[x].ref = payment[x].ref
    BY <1>5, SweptRow
  <2> QED BY <2>1, <2>2 DEF EffectsMatchState, Terminal, PaymentTerminal
<1> QED BY <1>1, <1>2, <1>3, <1>4, <1>5 DEF TableSteps

\* ReceiptsAreUnique is kept: the unique constraint stands in the only way.
LEMMA NextReceipts ==
  ASSUME TypeOK, Rows, Calls, ReceiptsAreUnique, TableSteps
  PROVE  ReceiptsAreUnique'
\* Only an outcome step makes a payment SUCCEEDED.
<1>1. ASSUME \A x \in Request : payment'[x].state = "SUCCEEDED" =>
               payment[x].state = "SUCCEEDED" /\ payment'[x].ref = payment[x].ref
      PROVE  ReceiptsAreUnique'
  BY <1>1 DEF ReceiptsAreUnique
<1>2. CASE UNCHANGED <<payment, ledger, outbox, idem>>
  BY <1>1, <1>2
<1>3. ASSUME NEW r \in Request, NEW k \in Key, NEW p \in Payload, CreateBegun(r, k, p)
      PROVE  ReceiptsAreUnique'
  <2>1. \A x \in Request : payment'[x] = IF x = r
          THEN [state |-> "CREATED", key |-> k, payload |-> p, ref |-> None]
          ELSE payment[x]
    BY <1>3, BegunRow
  <2> QED BY <1>1, <2>1
<1>4. ASSUME NEW r \in Request, FinishCreate(r)
      PROVE  ReceiptsAreUnique'
  BY <1>1, <1>4, FinishedRow
<1>5. CASE OutcomeSteps
  <2>1. ASSUME NEW r \in Request, NEW s \in State, OutcomeStep(r, s)
        PROVE  ReceiptsAreUnique'
    <3>1. CASE s # "SUCCEEDED"
      BY <1>1, <2>1, <3>1, OutcomeRow
    <3>2. CASE s = "SUCCEEDED"
      <4>1. /\ payment[r].ref = r
            /\ \A q \in Request \ {r} : payment[q].state = "SUCCEEDED" =>
                 ReceiptOf[payment[q].ref] # ReceiptOf[r]
        BY <2>1, <3>2 DEF OutcomeStep
      <4> QED BY <2>1, <3>2, <4>1, OutcomeRow DEF ReceiptsAreUnique
    <3> QED BY <3>1, <3>2
  <2> QED BY <1>1, <1>5, <2>1 DEF OutcomeSteps
<1>6. ASSUME NEW w \in Worker, NEW late \in SUBSET Request,
             NEW lost \in SUBSET Request, SweepExpire(w, late, lost)
      PROVE  ReceiptsAreUnique'
  <2>1. \A x \in Request : /\ payment'[x].state \in {"UNKNOWN", payment[x].state}
                           /\ payment'[x].ref = payment[x].ref
    BY <1>6, SweptRow
  <2> QED BY <1>1, <2>1
<1> QED BY <1>2, <1>3, <1>4, <1>5, <1>6 DEF TableSteps

\* A key stays with one payment, and is completed by the steps that answer it.
LEMMA NextKeys ==
  ASSUME TypeOK, Rows, Calls, Keys, TableSteps
  PROVE  Keys'
<1>1. CASE UNCHANGED <<payment, ledger, outbox, idem>>
  BY <1>1 DEF Keys, InFlightIffCreated, Exists
<1>2. ASSUME NEW r \in Request, NEW k \in Key, NEW p \in Payload, CreateBegun(r, k, p)
      PROVE  Keys'
  <2>1. \A x \in Request : payment'[x] = IF x = r
          THEN [state |-> "CREATED", key |-> k, payload |-> p, ref |-> None]
          ELSE payment[x]
    BY <1>2, BegunRow
  <2>2. idem[k].status = "ABSENT"
    BY <1>2 DEF CreateBegun, IdemClassify, TypeOK, IdemRow
  <2>3. \A x \in Request : Exists(x) => payment[x].key # k /\ payment[x].key \in Key
    BY <2>2 DEF Keys, InFlightIffCreated, Rows
  <2>4. \A l \in Key : idem'[l] = IF l = k
          THEN [status |-> "IN_FLIGHT", payload |-> p, body |-> NoBody] ELSE idem[l]
    BY <1>2 DEF CreateBegun, TypeOK
  <2>5. \A x, y \in Request :
          (Exists(x) /\ Exists(y) /\ payment[x].key = payment[y].key => x = y)'
    BY <2>1, <2>3 DEF Keys, Exists
  <2>6. InFlightIffCreated'
    BY <2>1, <2>3, <2>4 DEF Keys, InFlightIffCreated, Exists
  <2> QED BY <2>5, <2>6 DEF Keys
<1>3. ASSUME NEW r \in Request, FinishCreate(r)
      PROVE  Keys'
  <2>1. \A x \in Request :
          /\ payment'[x].key = payment[x].key
          /\ payment'[x].payload = payment[x].payload
          /\ payment'[x].state # "ABSENT" <=> Exists(x)
          /\ x # r => payment'[x].state = payment[x].state
          /\ x = r => payment'[x].state # "CREATED" /\ Exists(x)
    BY <1>3, FinishedRow DEF Exists
  <2>2. payment[r].key \in Key
    BY <2>1 DEF Rows
  <2>3. \A k \in Key : /\ k # payment[r].key => idem'[k] = idem[k]
                       /\ k = payment[r].key =>
                            /\ idem'[k].status = "COMPLETED"
                            /\ idem'[k].payload = idem[k].payload
    <3>1. \A row \in IdemRow : \A b :
            LET new == [row EXCEPT !.status = "COMPLETED", !.body = b]
            IN  new.status = "COMPLETED" /\ new.payload = row.payload
      BY DEF IdemRow
    <3> QED BY <1>3, <2>2, <3>1 DEF FinishCreate, TypeOK
  <2>4. InFlightIffCreated'
    <3> SUFFICES ASSUME NEW x \in Request, Exists(x)
                 PROVE  /\ idem'[payment[x].key].payload = payment[x].payload
                        /\ idem'[payment[x].key].status =
                             IF payment'[x].state = "CREATED"
                               THEN "IN_FLIGHT" ELSE "COMPLETED"
      BY <2>1 DEF InFlightIffCreated, Exists
    <3>1. payment[x].key \in Key
      BY DEF Rows
    <3>2. payment[x].key = payment[r].key => x = r
      BY <2>1 DEF Keys
    <3> QED BY <2>1, <2>3, <3>1, <3>2 DEF Keys, InFlightIffCreated
  <2>5. \A x, y \in Request :
          (Exists(x) /\ Exists(y) /\ payment[x].key = payment[y].key => x = y)'
    BY <2>1 DEF Keys, Exists
  <2> QED BY <2>4, <2>5 DEF Keys
<1>4. CASE OutcomeSteps /\ UNCHANGED idem
  <2>1. ASSUME NEW r \in Request, NEW s \in State, OutcomeStep(r, s)
        PROVE  Keys'
    <3>1. \A x \in Request :
            /\ payment'[x].key = payment[x].key
            /\ payment'[x].payload = payment[x].payload
            /\ payment'[x].state = "CREATED" <=> payment[x].state = "CREATED"
            /\ payment'[x].state = "ABSENT" <=> payment[x].state = "ABSENT"
      BY <2>1, OutcomeRow DEF OutcomeStep, PaymentTerminal
    <3> QED BY <1>4, <3>1 DEF Keys, InFlightIffCreated, Exists
  <2> QED BY <1>1, <1>4, <2>1 DEF OutcomeSteps
<1>5. ASSUME NEW w \in Worker, NEW late \in SUBSET Request,
             NEW lost \in SUBSET Request, SweepExpire(w, late, lost)
      PROVE  Keys'
  <2>1. \A x \in Request :
          /\ payment'[x].key = payment[x].key
          /\ payment'[x].payload = payment[x].payload
          /\ payment'[x].state # "ABSENT" <=> Exists(x)
          /\ x \in late => payment'[x].state = "UNKNOWN"
          /\ x \notin late => (payment'[x].state = "CREATED" <=> payment[x].state = "CREATED")
          /\ x \in late => Exists(x)
    BY <1>5, SweptRow DEF Exists
  <2>2. \A k \in Key :
          /\ (\A x \in late : payment[x].key # k) => idem'[k] = idem[k]
          /\ (\E x \in late : payment[x].key = k) =>
               idem'[k].status = "COMPLETED" /\ idem'[k].payload = idem[k].payload
    <3>1. \A row \in IdemRow : \A b :
            LET new == [row EXCEPT !.status = "COMPLETED", !.body = b]
            IN  new.status = "COMPLETED" /\ new.payload = row.payload
      BY DEF IdemRow
    <3> TAKE k \in Key
    <3>2. PICK b : idem'[k] = IF \E x \in late : payment[x].key = k
            THEN [idem[k] EXCEPT !.status = "COMPLETED", !.body = b] ELSE idem[k]
      BY <1>5 DEF SweepExpire, KeysSwept
    <3>3. idem[k] \in IdemRow
      BY DEF TypeOK
    <3>4. CASE \E x \in late : payment[x].key = k
      BY <3>1, <3>2, <3>3, <3>4
    <3>5. CASE \A x \in late : payment[x].key # k
      BY <3>2, <3>5
    <3> QED BY <3>4, <3>5
  <2>3. InFlightIffCreated'
    <3> SUFFICES ASSUME NEW x \in Request, Exists(x)
                 PROVE  /\ idem'[payment[x].key].payload = payment[x].payload
                        /\ idem'[payment[x].key].status =
                             IF payment'[x].state = "CREATED"
                               THEN "IN_FLIGHT" ELSE "COMPLETED"
      BY <2>1 DEF InFlightIffCreated, Exists
    <3>1. payment[x].key \in Key
      BY DEF Rows
    <3>2. \A y \in late : payment[x].key = payment[y].key => x = y
      BY <2>1 DEF Keys
    <3> QED BY <2>1, <2>2, <3>1, <3>2 DEF Keys, InFlightIffCreated
  <2>4. \A x, y \in Request :
          (Exists(x) /\ Exists(y) /\ payment[x].key = payment[y].key => x = y)'
    BY <2>1 DEF Keys, Exists
  <2> QED BY <2>3, <2>4 DEF Keys
<1> QED BY <1>1, <1>2, <1>3, <1>4, <1>5 DEF TableSteps

\* A thread of create_payment relies on nothing another thread can spoil: until it
\* commits, its row has no reference, so no callback and no query finds it.
LEMMA NextCalls ==
  ASSUME TypeOK, Rows, Calls, Threads, EffectsMatchState, [Next]_vars
  PROVE  Calls'
<1> DEFINE CallOK(c, ch, row) ==
      /\ (c.pc = "ready") => row.state = "ABSENT"
      /\ c.pc \in {"calling", "finishing"} =>
           row.state \in {"CREATED", "UNKNOWN", "NEEDS_REVIEW"} /\ row.ref = None
      /\ c.pc = "finishing" => c.ack # "none"
      /\ ch # "none" => row.state # "ABSENT"
<1>1. \A x \in Request : CallOK(call[x], charge[x], payment[x])
  BY DEF Calls, Exists
<1>2. (\A x \in Request : CallOK(call'[x], charge'[x], payment'[x])) => Calls'
  BY DEF Calls, Exists
<1>3. TableSteps
  BY TableStep
<1>4. \A x \in Request : RowKept(x)
  BY <1>3, RowsAreKept
<1>5. ASSUME UNCHANGED <<payment, call, charge>>
      PROVE  \A x \in Request : CallOK(call'[x], charge'[x], payment'[x])
  BY <1>1, <1>5
\* Steps of other threads.
<1>6. ASSUME OutcomeSteps, UNCHANGED <<call, charge>>
      PROVE  \A x \in Request : CallOK(call'[x], charge'[x], payment'[x])
  <2>1. ASSUME NEW r \in Request, NEW s \in State, OutcomeStep(r, s)
        PROVE  \A x \in Request : CallOK(call'[x], charge'[x], payment'[x])
    <3>1. /\ s \in PaymentTerminal => payment[r].ref # None
          /\ s \in {"UNKNOWN", "NEEDS_REVIEW"} \cup PaymentTerminal
          /\ payment[r].state # "ABSENT"
      <4>1. r # None
        BY PaymentsAssumption
      <4>2. CASE s \in {"UNKNOWN", "NEEDS_REVIEW"}
        BY <2>1, <4>2 DEF OutcomeStep, PaymentTerminal
      <4>3. CASE s \in PaymentTerminal /\ payment[r].ref = r
        BY <2>1, <4>1, <4>3 DEF OutcomeStep
      <4> QED BY <2>1, <4>2, <4>3 DEF OutcomeStep
    <3>2. s # "ABSENT"
      BY <3>1 DEF PaymentTerminal
    <3> SUFFICES ASSUME NEW x \in Request
                 PROVE  CallOK(call[x], charge[x], payment'[x])
      BY <1>6
    <3> QED BY <1>1, <2>1, <3>1, <3>2, OutcomeRow
  <2> QED BY <1>5, <1>6, <2>1 DEF OutcomeSteps
<1>7. ASSUME NEW w \in Worker, NEW late \in SUBSET Request,
             NEW lost \in SUBSET Request, SweepExpire(w, late, lost)
      PROVE  \A x \in Request : CallOK(call'[x], charge'[x], payment'[x])
  <2>1. \A x \in Request :
          /\ payment'[x].state \in {"UNKNOWN", payment[x].state}
          /\ payment'[x].state # payment[x].state => payment[x].state # "ABSENT"
          /\ payment'[x].ref = payment[x].ref
    BY <1>7, SweptRow
  <2>2. UNCHANGED <<call, charge>>
    BY <1>7 DEF SweepExpire, provider
  <2> QED BY <1>1, <2>1, <2>2
\* Steps of call r.
<1>8. ASSUME NEW r \in Request, RequestStep(r)
      PROVE  \A x \in Request : CallOK(call'[x], charge'[x], payment'[x])
  <2>1. ASSUME NEW k \in Key, NEW p \in Payload,
               CreateRefused(r, k, p) \/ CreateReplayed(r, k, p)
        PROVE  \A x \in Request : CallOK(call'[x], charge'[x], payment'[x])
    <3>1. /\ UNCHANGED <<payment, charge>>
          /\ \A x \in Request : /\ x # r => call'[x] = call[x]
                                /\ x = r => call'[x].pc = "done"
      BY <2>1 DEF CreateRefused, CreateReplayed, Answered, tables, provider, TypeOK,
                  CallThread
    <3> QED BY <1>1, <3>1
  <2>2. ASSUME NEW k \in Key, NEW p \in Payload, CreateBegun(r, k, p)
        PROVE  \A x \in Request : CallOK(call'[x], charge'[x], payment'[x])
    <3>1. \A x \in Request : payment'[x] = IF x = r
            THEN [state |-> "CREATED", key |-> k, payload |-> p, ref |-> None]
            ELSE payment[x]
      BY <2>2, BegunRow
    <3>2. /\ UNCHANGED charge
          /\ \A x \in Request : /\ x # r => call'[x] = call[x]
                                /\ x = r => call'[x].pc = "calling"
      BY <2>2 DEF CreateBegun, provider, TypeOK, CallThread
    <3> QED BY <1>1, <3>1, <3>2
  <2>3. ASSUME NEW made \in {"none", "rejected", "open"},
               NEW ack \in {"accepted", "declined", "unknown"},
               InitiateReturned(r, made, ack)
        PROVE  \A x \in Request : CallOK(call'[x], charge'[x], payment'[x])
    <3>1. /\ UNCHANGED payment
          /\ call[r].pc = "calling"
          /\ \A x \in Request :
               /\ x # r => call'[x] = call[x] /\ charge'[x] = charge[x]
               /\ x = r => call'[x].pc = "finishing" /\ call'[x].ack = ack
      BY <2>3 DEF InitiateReturned, tables, TypeOK, CallThread
    <3> QED BY <1>1, <3>1
  <2>4. CASE FinishCreate(r) \/ RequestLost(r)
    <3>1. /\ UNCHANGED charge
          /\ \A x \in Request : /\ x # r => call'[x] = call[x]
                                /\ x = r => call'[x].pc \in {"done", "lost"}
      BY <2>4 DEF FinishCreate, RequestLost, Answered, provider, TypeOK, CallThread
    <3>2. \A x \in Request : /\ x # r => /\ payment'[x].state = payment[x].state
                                         /\ payment'[x].ref = payment[x].ref
                             /\ payment[x].state # "ABSENT" => payment'[x].state # "ABSENT"
      <4>1. CASE FinishCreate(r)
        BY <1>4, <4>1, FinishedRow DEF RowKept, Exists
      <4>2. CASE RequestLost(r)
        BY <4>2 DEF RequestLost, tables
      <4> QED BY <2>4, <4>1, <4>2
    <3> QED BY <1>1, <3>1, <3>2
  <2> QED
    BY <1>8, <2>1, <2>2, <2>3, <2>4
       DEF RequestStep, ChargeAccepted, ChargeRejected, ChargeAnswerLost,
           ChargeNotReached
<1>9. ASSUME NEW r \in Request, ProviderStep(r)
      PROVE  \A x \in Request : CallOK(call'[x], charge'[x], payment'[x])
  <2>1. /\ UNCHANGED <<payment, call>>
        /\ \A x \in Request : charge'[x] # "none" => charge[x] # "none"
    BY <1>9 DEF ProviderStep, ChargeResolved, CallbackStray, tables, threads, TypeOK
  <2> QED BY <1>1, <2>1
<1> HIDE DEF CallOK
<1>10. ASSUME NEW h \in Handler, HandlerStep(h)
       PROVE  \A x \in Request : CallOK(call'[x], charge'[x], payment'[x])
  BY <1>6, <1>10, HandlerOutcome
<1>11. ASSUME NEW w \in Worker, WorkerStep(w)
       PROVE  \A x \in Request : CallOK(call'[x], charge'[x], payment'[x])
  BY <1>6, <1>7, <1>11, WorkerOutcome
<1> QED
  BY <1>2, <1>5, <1>8, <1>9, <1>10, <1>11 DEF Next, vars, tables, threads, provider

\* Threads of callbacks and sweeps hold what they read: events are well formed,
\* and a reference, once it is there, stays.
LEMMA NextThreads ==
  ASSUME TypeOK, Rows, Calls, Threads, EffectsMatchState, [Next]_vars
  PROVE  Threads'
<1> DEFINE HandlerOK(t) == t.pc # "idle" => t.event \in Event
           WorkerOK(t, rows) ==
             /\ t.pc \in {"querying", "applying", "inconclusive"} => t.at \in Request
             /\ t.pc \in {"querying", "applying"} => rows[t.at].ref = t.at
<1>1. /\ \A h \in Handler : HandlerOK(handler[h])
      /\ \A w \in Worker : WorkerOK(worker[w], payment)
  BY DEF Threads
<1>2. \A r \in Request : payment[r].ref # None => payment'[r].ref = payment[r].ref
  BY TableStep, RowsAreKept DEF RowKept
<1>3. \A w \in Worker : WorkerOK(worker[w], payment')
  <2> SUFFICES ASSUME NEW w \in Worker
               PROVE  WorkerOK(worker[w], payment')
    OBVIOUS
  <2>1. CASE worker[w].pc \in {"querying", "applying"}
    <3>1. worker[w].at \in Request /\ payment[worker[w].at].ref = worker[w].at
      BY <1>1, <2>1
    <3>2. payment[worker[w].at].ref # None
      BY <3>1, PaymentsAssumption
    <3> QED BY <1>2, <3>1, <3>2
  <2>2. CASE worker[w].pc \notin {"querying", "applying"}
    BY <1>1, <2>2
  <2> QED BY <2>1, <2>2
<1>4. ASSUME NEW h \in Handler, HandlerStep(h)
      PROVE  /\ \A g \in Handler : HandlerOK(handler'[g])
             /\ UNCHANGED worker
  <2>1. UNCHANGED worker
    BY <1>4, HandlerOutcome
  <2>2. handler'[h].pc = "idle" \/ handler'[h].event \in Event
    <3>1. ASSUME NEW e \in sent, CallbackRead(h, e)
          PROVE  handler'[h].event \in Event
      BY <3>1 DEF CallbackRead, TypeOK
    <3>2. CASE CallbackConfirm(h)
      <4>1. PICK v : handler' = [handler EXCEPT ![h] =
                       [@ EXCEPT !.pc = "applying", !.confirmed = v]]
        BY <3>2 DEF CallbackConfirm
      <4>2. handler[h] \in HandlerThread /\ handler[h].event \in Event
        BY <1>1, <3>2 DEF CallbackConfirm, TypeOK
      <4>3. \A t \in HandlerThread :
              [t EXCEPT !.pc = "applying", !.confirmed = v].event = t.event
        BY DEF HandlerThread
      <4> QED BY <4>1, <4>2, <4>3 DEF TypeOK
    <3>3. CASE CallbackApply(h) \/ CallbackLost(h)
      BY <3>3 DEF CallbackApply, CallbackLost, IdleHandler, TypeOK
    <3> QED BY <1>4, <3>1, <3>2, <3>3 DEF HandlerStep
  <2>3. \A g \in Handler : g # h => handler'[g] = handler[g]
    BY <1>4 DEF HandlerStep, CallbackRead, CallbackConfirm, CallbackApply, CallbackLost,
                TypeOK
  <2> QED BY <1>1, <2>1, <2>2, <2>3
<1>5. ASSUME NEW w \in Worker, WorkerStep(w)
      PROVE  /\ \A v \in Worker : WorkerOK(worker'[v], payment')
             /\ UNCHANGED handler
  <2>1. UNCHANGED handler
    BY <1>5, WorkerOutcome DEF SweepExpire
  <2>2. \A v \in Worker : v # w => worker'[v] = worker[v]
    BY <1>5 DEF WorkerStep, SweepExpire, SweepList, SweepDone, SweepPick,
         ReconcileRequested, ReconcileRead, QueryAnswered, QueryInconclusive,
         ReconcileApply, ReconcileAborted, ReconcileInconclusive, Resume, WorkerLost,
         TypeOK
  <2>3. WorkerOK(worker'[w], payment')
    <3>1. ASSUME NEW r \in Request, NEW rest, ReconcileRead(w, r, rest)
          PROVE  WorkerOK(worker'[w], payment')
      <4>1. payment' = payment /\ payment[r].ref \in {None, r}
        BY <3>1 DEF ReconcileRead, tables, Rows
      <4>2. worker'[w] =
              [pc |-> CASE ~Unresolved(r) -> "looping"
                        [] Unresolved(r) /\ payment[r].ref = None -> "inconclusive"
                        [] Unresolved(r) /\ payment[r].ref # None -> "querying",
               todo |-> rest, at |-> IF Unresolved(r) THEN r ELSE None,
               answer |-> "UNKNOWN"]
        BY <3>1 DEF ReconcileRead, TypeOK
      <4>3. CASE ~Unresolved(r)
        BY <4>2, <4>3
      <4>4. CASE Unresolved(r) /\ payment[r].ref = None
        BY <4>2, <4>4
      <4>5. CASE Unresolved(r) /\ payment[r].ref # None
        BY <4>1, <4>2, <4>5
      <4> QED BY <4>3, <4>4, <4>5
    <3>2. CASE QueryAnswered(w)
      <4>1. PICK o : worker' = [worker EXCEPT ![w] =
                       [@ EXCEPT !.pc = "applying", !.answer = o]]
        BY <3>2 DEF QueryAnswered
      <4>2. worker[w] \in WorkerThread /\ worker[w].pc = "querying"
        BY <3>2 DEF QueryAnswered, TypeOK
      <4>3. \A t \in WorkerThread :
              [t EXCEPT !.pc = "applying", !.answer = o].at = t.at
        BY DEF WorkerThread
      <4>4. worker'[w].at = worker[w].at
        BY <4>1, <4>2, <4>3 DEF TypeOK
      <4> QED BY <1>3, <4>2, <4>4
    <3>3. CASE QueryInconclusive(w)
      <4>1. /\ worker'[w].pc = "inconclusive" /\ worker'[w].at = worker[w].at
            /\ worker[w].pc = "querying"
        BY <3>3 DEF QueryInconclusive, TypeOK, WorkerThread
      <4> QED BY <1>1, <4>1
    <3>4. CASE worker'[w].pc \in {"idle", "listing", "looping"}
      BY <3>4
    <3>5. /\ \A late, lost \in SUBSET Request :
               SweepExpire(w, late, lost) => worker'[w].pc = "listing"
          /\ \A due \in SUBSET Request : SweepList(w, due) => worker'[w].pc = "looping"
      BY DEF SweepExpire, SweepList, TypeOK, WorkerThread
    <3>6. SweepDone(w) \/ ReconcileAborted(w) \/ WorkerLost(w) => worker'[w].pc = "idle"
      BY DEF SweepDone, ReconcileAborted, WorkerLost, IdleWorker, TypeOK
    <3>7. Resume(w) => worker'[w].pc = "looping"
      BY DEF Resume, TypeOK
    <3> QED
      BY <1>5, <3>1, <3>2, <3>3, <3>4, <3>5, <3>6, <3>7
         DEF WorkerStep, SweepPick, ReconcileRequested, ReconcileApply,
             ReconcileInconclusive
  <2> QED BY <1>3, <2>1, <2>2, <2>3
<1>6. ASSUME NEW r \in Request, RequestStep(r) \/ ProviderStep(r)
      PROVE  UNCHANGED <<handler, worker>>
  BY <1>6 DEF RequestStep, CreateRefused, CreateReplayed, CreateBegun, ChargeAccepted,
       ChargeRejected, ChargeAnswerLost, ChargeNotReached, InitiateReturned,
       FinishCreate, RequestLost, ProviderStep, ChargeResolved, CallbackStray, threads
<1>7. /\ \A h \in Handler : HandlerOK(handler'[h])
      /\ \A w \in Worker : WorkerOK(worker'[w], payment')
  <2> HIDE DEF HandlerOK, WorkerOK
  <2> QED BY <1>1, <1>3, <1>4, <1>5, <1>6 DEF Next, vars, threads
<1> QED BY <1>7 DEF Threads

-----------------------------------------------------------------------------
\* What a key or a reply names is a payment of that key, and stays one.
LEMMA NextAnswers ==
  ASSUME TypeOK, Rows, Calls, Threads, Keys, Answers, EffectsMatchState, [Next]_vars
  PROVE  Answers'
<1> DEFINE Names(rows, id, k) ==
      id \in Request /\ rows[id].state # "ABSENT" /\ rows[id].key = k
<1>1. /\ \A k \in Key : idem[k].status = "COMPLETED" =>
           Names(payment, idem[k].body.id, k)
      /\ \A x \in Request : reply[x].code \in {"created", "replayed"} =>
           Names(payment, reply[x].body.id, reply[x].key)
  BY DEF Answers, Accepted2xx, Exists
<1>2. \A id, k : Names(payment, id, k) => Names(payment', id, k)
  BY TableStep, RowsAreKept DEF RowKept, Exists
<1>3. ASSUME \A k \in Key : idem'[k].status = "COMPLETED" =>
               Names(payment', idem'[k].body.id, k),
             \A x \in Request : reply'[x].code \in {"created", "replayed"} =>
               Names(payment', reply'[x].body.id, reply'[x].key)
      PROVE  Answers'
  BY <1>3 DEF Answers, Accepted2xx, Exists
<1> HIDE DEF Names
<1>4. ASSUME UNCHANGED <<idem, reply>>
      PROVE  Answers'
  BY <1>1, <1>2, <1>3, <1>4
<1>5. ASSUME NEW r \in Request, RequestStep(r)
      PROVE  Answers'
  <2>1. ASSUME NEW k \in Key, NEW p \in Payload, CreateRefused(r, k, p)
        PROVE  Answers'
    <3>1. UNCHANGED idem
          /\ \A x \in Request : /\ x # r => reply'[x] = reply[x]
                                /\ x = r => reply'[x].code = "refused"
      BY <2>1 DEF CreateRefused, Answered, tables, TypeOK
    <3> QED BY <1>1, <1>2, <1>3, <3>1
  <2>2. ASSUME NEW k \in Key, NEW p \in Payload, CreateReplayed(r, k, p)
        PROVE  Answers'
    <3>1. UNCHANGED idem
          /\ \A x \in Request : /\ x # r => reply'[x] = reply[x]
                                /\ x = r => reply'[x].key = k
                                            /\ reply'[x].body = idem[k].body
      BY <2>2 DEF CreateReplayed, Answered, tables, TypeOK
    <3>2. idem[k].status = "COMPLETED"
      BY <2>2 DEF CreateReplayed, IdemClassify, TypeOK, IdemRow
    <3> QED BY <1>1, <1>2, <1>3, <3>1, <3>2
  <2>3. ASSUME NEW k \in Key, NEW p \in Payload, CreateBegun(r, k, p)
        PROVE  Answers'
    <3>1. UNCHANGED reply
          /\ \A l \in Key : /\ l # k => idem'[l] = idem[l]
                            /\ l = k => idem'[l].status = "IN_FLIGHT"
      BY <2>3 DEF CreateBegun, TypeOK
    <3> QED BY <1>1, <1>2, <1>3, <3>1
  <2>4. CASE FinishCreate(r)
    <3>1. payment[r].state # "ABSENT" /\ payment[r].key \in Key
      BY <2>4 DEF FinishCreate, Calls, Rows, Exists
    <3>2. Public(r)'.id = r
      BY DEF Public
    <3>3. \A row \in IdemRow : \A b : [row EXCEPT !.status = "COMPLETED", !.body = b].body = b
      BY DEF IdemRow
    <3>4. \A k \in Key : /\ k # payment[r].key => idem'[k] = idem[k]
                         /\ k = payment[r].key => idem'[k].body = Public(r)'
      BY <2>4, <3>1, <3>3 DEF FinishCreate, TypeOK
    <3>5. \A x \in Request : /\ x # r => reply'[x] = reply[x]
                             /\ x = r => reply'[x].key = payment[r].key
                                         /\ reply'[x].body = Public(r)'
      BY <2>4 DEF FinishCreate, Answered, TypeOK
    <3>6. Names(payment', r, payment[r].key)
      <4>1. Names(payment, r, payment[r].key)
        BY <3>1 DEF Names
      <4>2. payment'[r].key = payment[r].key
        BY <2>4, FinishedRow
      <4> QED BY <1>2, <4>1, <4>2
    <3> QED BY <1>1, <1>2, <1>3, <3>2, <3>4, <3>5, <3>6
  <2>5. CASE UNCHANGED <<idem, reply>>
    BY <1>4, <2>5
  <2> QED
    BY <1>5, <2>1, <2>2, <2>3, <2>4, <2>5
       DEF RequestStep, ChargeAccepted, ChargeRejected, ChargeAnswerLost,
           ChargeNotReached, InitiateReturned, RequestLost, tables
<1>6. ASSUME NEW w \in Worker, NEW late \in SUBSET Request,
             NEW lost \in SUBSET Request, SweepExpire(w, late, lost)
      PROVE  Answers'
  <2>1. UNCHANGED reply
    BY <1>6 DEF SweepExpire
  <2>2. ASSUME NEW k \in Key, \E x \in late : payment[x].key = k
        PROVE  Names(payment', idem'[k].body.id, k)
    <3> DEFINE c == CHOOSE x \in late : payment[x].key = k
    <3>1. c \in late /\ payment[c].key = k
      BY <2>2
    <3>2. Names(payment', c, k)
      <4>1. c \in Request /\ payment[c].state = "CREATED"
        BY <1>6, <3>1 DEF SweepExpire
      <4>2. Names(payment, c, k)
        BY <3>1, <4>1 DEF Names
      <4> QED BY <1>2, <4>2
    <3>3. idem'[k] = [idem[k] EXCEPT !.status = "COMPLETED",
                        !.body = [Public(c) EXCEPT !.state = "UNKNOWN"]]
      BY <1>6, <2>2 DEF SweepExpire, KeysSwept
    <3> HIDE DEF c
    <3>4. ASSUME NEW row \in IdemRow, NEW b
          PROVE  [row EXCEPT !.status = "COMPLETED", !.body = b].body = b
      BY DEF IdemRow
    <3>5. [Public(c) EXCEPT !.state = "UNKNOWN"].id = c
      BY DEF Public
    <3>6. idem[k] \in IdemRow
      BY DEF TypeOK
    <3>7. idem'[k].body = [Public(c) EXCEPT !.state = "UNKNOWN"]
      <4> DEFINE b == [Public(c) EXCEPT !.state = "UNKNOWN"]
                 row == [idem[k] EXCEPT !.status = "COMPLETED", !.body = b]
      <4>1. row.body = b
        <5> HIDE DEF b
        <5> QED BY <3>4, <3>6
      <4> QED BY <3>3, <4>1
    <3> QED BY <3>2, <3>5, <3>7
  <2>3. \A k \in Key : (\A x \in late : payment[x].key # k) => idem'[k] = idem[k]
    BY <1>6 DEF SweepExpire, KeysSwept
  <2> QED BY <1>1, <1>2, <1>3, <2>1, <2>2, <2>3
<1>7. ASSUME NEW r \in Request, ProviderStep(r)
      PROVE  Answers'
  BY <1>4, <1>7 DEF ProviderStep, ChargeResolved, CallbackStray, tables, threads
<1>8. ASSUME NEW h \in Handler, HandlerStep(h)
      PROVE  Answers'
  BY <1>4, <1>8, HandlerOutcome
<1>9. ASSUME NEW w \in Worker, WorkerStep(w)
      PROVE  Answers'
  BY <1>4, <1>6, <1>9, WorkerOutcome
<1> QED BY <1>4, <1>5, <1>7, <1>8, <1>9 DEF Next, vars, tables, threads

-----------------------------------------------------------------------------
(* The theorems                                                            *)

\* The empty database is consistent.
LEMMA ConsistentInit == Init => Consistent
<1> SUFFICES ASSUME Init PROVE Consistent
  OBVIOUS
<1>1. TypeOK
  <2>1. NoRow \in Row
    BY DEF NoRow, Row, State
  <2>2. NoBody \in PublicBody
    BY DEF NoBody, PublicBody, State
  <2>3. NoKey \in IdemRow /\ NoReply \in Reply
    BY <2>2 DEF NoKey, IdemRow, NoReply, Reply
  <2>4. IdleHandler \in HandlerThread /\ IdleWorker \in WorkerThread
    BY DEF IdleHandler, HandlerThread, IdleWorker, WorkerThread, Outcome
  <2> QED BY <2>1, <2>3, <2>4 DEF Init, TypeOK, CallThread
<1>2. \A r \in Request : payment[r] = NoRow /\ ~Exists(r)
  BY DEF Init, Exists, NoRow
<1>3. Rows
  BY <1>2 DEF Rows, NoRow, Exists
<1>4. Calls
  BY <1>2 DEF Calls, Init
<1>5. Threads
  BY DEF Init, Threads, IdleHandler, IdleWorker
<1>6. Keys
  BY <1>2 DEF Keys, InFlightIffCreated
<1>7. Answers
  BY DEF Init, Answers, Accepted2xx, NoKey, NoReply
<1>8. EffectsMatchState
  BY <1>2 DEF Init, EffectsMatchState, Terminal, PaymentTerminal, NoRow
<1>9. ReceiptsAreUnique
  BY <1>2 DEF ReceiptsAreUnique, NoRow
<1> QED BY <1>1, <1>3, <1>4, <1>5, <1>6, <1>7, <1>8, <1>9 DEF Consistent

\* Every step keeps the invariant.
LEMMA ConsistentNext == Consistent /\ [Next]_vars => Consistent'
<1> SUFFICES ASSUME Consistent, [Next]_vars PROVE Consistent'
  OBVIOUS
<1> USE DEF Consistent
<1>1. TableSteps
  BY TableStep
<1>2. TypeOK'
  BY NextType
<1>3. Rows' /\ Keys' /\ EffectsMatchState' /\ ReceiptsAreUnique'
  BY <1>1, NextRows, NextKeys, NextEffects, NextReceipts
<1>4. Calls' /\ Threads' /\ Answers'
  BY NextCalls, NextThreads, NextAnswers
<1> QED BY <1>2, <1>3, <1>4

\* Consistent holds in every state of every instance.
THEOREM Consistency == Spec => []Consistent
BY ConsistentInit, ConsistentNext, PTL DEF Spec

\* Every table, thread and message keeps its type.
THEOREM TypeCorrect == Spec => []TypeOK
<1>1. Consistent => TypeOK
  BY DEF Consistent
<1> QED BY <1>1, Consistency, PTL

\* A payment is credited exactly when it is SUCCEEDED, once and under its own
\* reference, and its outcome is announced exactly once, whatever callbacks,
\* sweeps and reconcile requests do at the same time.
THEOREM EffectsAlwaysMatch == Spec => []EffectsMatchState
<1>1. Consistent => EffectsMatchState
  BY DEF Consistent
<1> QED BY <1>1, Consistency, PTL

\* No two paid payments have one receipt, even if the provider repeats it.
THEOREM ReceiptsStayUnique == Spec => []ReceiptsAreUnique
<1>1. Consistent => ReceiptsAreUnique
  BY DEF Consistent
<1> QED BY <1>1, Consistency, PTL

\* A key answers 409 "in flight" exactly while its payment is CREATED, which only
\* a sweep ends when the thread that made it is gone.
THEOREM KeysFollowPayments == Spec => []InFlightIffCreated
<1>1. Consistent => InFlightIffCreated
  BY DEF Consistent, Keys
<1> QED BY <1>1, Consistency, PTL

\* However many calls carry one key, one of them reaches the provider.
THEOREM OneChargePerKey == Spec => []ChargedOncePerKey
<1>1. Consistent => ChargedOncePerKey
  <2> SUFFICES ASSUME Consistent, NEW r \in Request, NEW q \in Request,
                      r # q, charge[r] # "none", charge[q] # "none"
               PROVE  payment[r].key # payment[q].key
    BY DEF ChargedOncePerKey
  <2>1. Exists(r) /\ Exists(q)
    BY DEF Consistent, Calls
  <2> QED BY <2>1 DEF Consistent, Keys
<1> QED BY <1>1, Consistency, PTL

\* Every call of one key that is answered 2xx is told of the same payment.
THEOREM OnePaymentPerKey == Spec => []RepliesNameOnePayment
<1>1. Consistent => RepliesNameOnePayment
  <2> SUFFICES ASSUME Consistent, NEW r \in Request, NEW q \in Request,
                      Accepted2xx(r), Accepted2xx(q), reply[r].key = reply[q].key
               PROVE  /\ reply[r].body.id # None
                      /\ reply[r].body.id = reply[q].body.id
    BY DEF RepliesNameOnePayment
  <2> DEFINE a == reply[r].body.id
             b == reply[q].body.id
  <2>1. /\ a \in Request /\ Exists(a) /\ payment[a].key = reply[r].key
        /\ b \in Request /\ Exists(b) /\ payment[b].key = reply[r].key
    BY DEF Consistent, Answers
  <2>2. a = b
    BY <2>1 DEF Consistent, Keys
  <2> QED BY <2>1, <2>2, PaymentsAssumption
<1> QED BY <1>1, Consistency, PTL

-----------------------------------------------------------------------------
(* Terminal payments *)

\* An alert is never taken back.
LEMMA AlertsStay == [Next]_vars => anomaly \subseteq anomaly'
<1> SUFFICES ASSUME [Next]_vars, UNCHANGED anomaly => anomaly \subseteq anomaly'
             PROVE  anomaly \subseteq anomaly'
  OBVIOUS
<1>1. ASSUME NEW r, NEW o, ApplyOutcome(r, o)
      PROVE  anomaly \subseteq anomaly'
  BY <1>1 DEF ApplyOutcome, Settle, Flag
<1>2. ASSUME NEW r, NEW kind, ToReview(r, kind)
      PROVE  anomaly \subseteq anomaly'
  BY <1>2 DEF ToReview, Flag
<1>3. ASSUME NEW h \in Handler, HandlerStep(h)
      PROVE  anomaly \subseteq anomaly'
  <2>1. CASE CallbackApply(h)
    BY <1>1, <1>2, <2>1 DEF CallbackApply, CallbackUnmatched, CallbackMatched,
         CallbackDoubted, CallbackConflict, Flag
  <2>2. CASE ~CallbackApply(h)
    BY <1>3, <2>2 DEF HandlerStep, CallbackRead, CallbackConfirm, CallbackLost, tables
  <2> QED BY <2>1, <2>2
<1>4. ASSUME NEW w \in Worker, WorkerStep(w)
      PROVE  anomaly \subseteq anomaly'
  BY <1>1, <1>2, <1>4
     DEF WorkerStep, SweepExpire, SweepList, SweepDone, SweepPick, ReconcileRequested,
         ReconcileRead, QueryAnswered, QueryInconclusive, ReconcileApply,
         ReconcileAborted, ReconcileInconclusive, WorkerLost, tables
<1>5. ASSUME NEW r \in Request, RequestStep(r) \/ ProviderStep(r)
      PROVE  anomaly \subseteq anomaly'
  BY <1>5 DEF RequestStep, CreateRefused, CreateReplayed, CreateBegun, ChargeAccepted,
       ChargeRejected, ChargeAnswerLost, ChargeNotReached, InitiateReturned,
       FinishCreate, RequestLost, ProviderStep, ChargeResolved, CallbackStray, tables
<1> QED BY <1>3, <1>4, <1>5 DEF Next, vars, tables

\* No step changes a terminal row or removes an effect.
LEMMA TerminalStep ==
  ASSUME Consistent, [Next]_vars
  PROVE  /\ \A x \in Request : Terminal(x) => payment'[x] = payment[x]
         /\ ledger \subseteq ledger' /\ outbox \subseteq outbox'
<1> USE DEF Consistent
<1> DEFINE Kept == \A x \in Request : Terminal(x) => payment'[x] = payment[x]
<1>1. CASE UNCHANGED <<payment, ledger, outbox, idem>>
  BY <1>1
<1>2. ASSUME NEW r \in Request, NEW k \in Key, NEW p \in Payload, CreateBegun(r, k, p)
      PROVE  Kept /\ UNCHANGED <<ledger, outbox>>
  <2>1. payment[r].state = "ABSENT"
    BY <1>2 DEF CreateBegun, Calls, Exists
  <2>2. \A x \in Request : x # r => payment'[x] = payment[x]
    BY <1>2 DEF CreateBegun, TypeOK
  <2> QED BY <1>2, <2>1, <2>2 DEF CreateBegun, Terminal, PaymentTerminal
<1>3. ASSUME NEW r \in Request, FinishCreate(r)
      PROVE  Kept /\ UNCHANGED ledger /\ outbox \subseteq outbox'
  <2>1. payment[r].state \in {"CREATED", "UNKNOWN", "NEEDS_REVIEW"}
    BY <1>3, FinishedRow
  <2>2. \A x \in Request : x # r => payment'[x] = payment[x]
    BY <1>3 DEF FinishCreate, TypeOK
  <2>3. UNCHANGED ledger /\ outbox \subseteq outbox'
    BY <1>3 DEF FinishCreate
  <2> QED BY <2>1, <2>2, <2>3 DEF Terminal, PaymentTerminal
<1>4. ASSUME NEW r \in Request, NEW s \in State, OutcomeStep(r, s)
      PROVE  Kept /\ ledger \subseteq ledger' /\ outbox \subseteq outbox'
  <2>1. payment[r].state \notin PaymentTerminal
    BY <1>4 DEF OutcomeStep, PaymentTerminal
  <2>2. \A x \in Request : x # r => payment'[x] = payment[x]
    BY <1>4 DEF OutcomeStep, Moved, TypeOK
  <2>3. ledger \subseteq ledger' /\ outbox \subseteq outbox'
    BY <1>4 DEF OutcomeStep
  <2> QED BY <2>1, <2>2, <2>3 DEF Terminal
<1>5. ASSUME NEW w \in Worker, NEW late \in SUBSET Request,
             NEW lost \in SUBSET Request, SweepExpire(w, late, lost)
      PROVE  Kept /\ UNCHANGED <<ledger, outbox>>
  <2>1. \A x \in late \cup lost : payment[x].state \notin PaymentTerminal
    BY <1>5 DEF SweepExpire, PaymentTerminal
  <2>2. \A x \in Request : x \notin late \cup lost => payment'[x] = payment[x]
    BY <1>5 DEF SweepExpire, RowsSwept
  <2> QED BY <1>5, <2>1, <2>2 DEF SweepExpire, Terminal
<1>6. TableSteps
  BY TableStep
<1> QED BY <1>1, <1>2, <1>3, <1>4, <1>5, <1>6 DEF TableSteps, OutcomeSteps

\* A terminal payment is never changed again, and no effect is taken back.
THEOREM TerminalStaysFinal == Spec => TerminalIsFinal
<1>1. Consistent /\ [Next]_vars =>
        [/\ \A r \in Request : Terminal(r) => payment'[r] = payment[r]
         /\ ledger \subseteq ledger' /\ outbox \subseteq outbox'
         /\ anomaly \subseteq anomaly']_vars
  BY TerminalStep, AlertsStay
<1> QED BY <1>1, Consistency, PTL DEF Spec, TerminalIsFinal

-----------------------------------------------------------------------------
(* A provider that tells the truth                                         *)

\* An answered query tells what became of the charge, whoever sends callbacks.
Queried ==
  \A w \in Worker : worker[w].pc = "applying" =>
    worker[w].answer = charge[worker[w].at] /\ worker[w].answer \in Final

\* There is no charge before it is asked for, and the answer to the request tells
\* whether it was rejected.
Charged ==
  \A r \in Request :
    /\ call[r].pc \in {"ready", "calling"} => charge[r] = "none"
    /\ call[r].pc = "finishing" /\ call[r].ack = "declined" => charge[r] = "rejected"

\* Every callback tells the charge's outcome or nothing.
Honest == \A s \in Stray : s.outcome = "UNKNOWN"

Tells(e) == e.outcome = "UNKNOWN" \/ e.outcome = charge[e.ref]

\* What callbacks, queries and the answers to requests tell is what became of the
\* charge.
Truthful ==
  /\ \A e \in sent : Tells(e)
  /\ \A h \in Handler : handler[h].pc # "idle" => Tells(handler[h].event)
  /\ Queried /\ Charged
  /\ OutcomeIsTheProviders

\* The one payment of a sale that has not failed, as the unique index keeps it.
OneLivePerSale ==
  \A r, q \in Request :
    (/\ Live(r) /\ Live(q) /\ SaleOf[payment[r].payload] # None
     /\ SaleOf[payment[r].payload] = SaleOf[payment[q].payload]) => r = q

\* An initiate call makes a charge, the customer ends it, and nothing else does
\* anything to it.
LEMMA ChargeSteps ==
  ASSUME TypeOK, Rows, Threads, EffectsMatchState, [Next]_vars, NEW x \in Request
  PROVE  \/ charge'[x] = charge[x]
         \/ call[x].pc = "calling"
         \/ charge[x] = "open" /\ charge'[x] \in Final
<1>1. ASSUME NEW r \in Request, RequestStep(r)
      PROVE  charge'[x] = charge[x] \/ call[x].pc = "calling"
  BY <1>1 DEF RequestStep, CreateRefused, CreateReplayed, CreateBegun, ChargeAccepted,
       ChargeRejected, ChargeAnswerLost, ChargeNotReached, InitiateReturned,
       FinishCreate, RequestLost, provider, TypeOK
<1>2. ASSUME NEW r \in Request, ProviderStep(r)
      PROVE  charge'[x] = charge[x] \/ (charge[x] = "open" /\ charge'[x] \in Final)
  BY <1>2 DEF ProviderStep, ChargeResolved, CallbackStray, TypeOK
<1>3. ASSUME NEW h \in Handler, HandlerStep(h)
      PROVE  UNCHANGED charge
  BY <1>3, HandlerOutcome
<1>4. ASSUME NEW w \in Worker, WorkerStep(w)
      PROVE  UNCHANGED charge
  BY <1>4, WorkerOutcome DEF SweepExpire, provider
<1> QED BY <1>1, <1>2, <1>3, <1>4 DEF Next, vars, provider

\* A charge's end is final.
LEMMA EndStays ==
  ASSUME Consistent, Charged, [Next]_vars, NEW x \in Request,
         charge[x] \in {"rejected"} \cup Final
  PROVE  charge'[x] = charge[x]
<1>1. charge[x] \notin {"none", "open"}
  BY PaymentsAssumption DEF PaymentTerminal
<1>2. call[x].pc # "calling"
  BY <1>1 DEF Charged
<1> QED BY <1>1, <1>2, ChargeSteps DEF Consistent

\* What was told stays true.
LEMMA ToldStays ==
  ASSUME Consistent, Truthful, [Next]_vars, NEW e \in Event, Tells(e)
  PROVE  e.outcome = "UNKNOWN" \/ e.outcome = charge'[e.ref]
<1>1. e.ref \in Request /\ e.outcome \in Final \cup {"UNKNOWN"}
  BY DEF Event, Outcome
<1> QED BY <1>1, EndStays DEF Tells, Truthful

\* What comes from an honest provider is true.
LEMMA SentTruly ==
  ASSUME Honest, Consistent, Truthful, [Next]_vars, NEW e \in sent'
  PROVE  e.outcome = "UNKNOWN" \/ e.outcome = charge'[e.ref]
<1>1. CASE e \in sent
  BY <1>1, ToldStays DEF Truthful, Consistent, TypeOK
<1>2. CASE e \notin sent
  <2>1. ASSUME NEW r \in Request, RequestStep(r)
        PROVE  UNCHANGED sent
    BY <2>1 DEF RequestStep, CreateRefused, CreateReplayed, CreateBegun, ChargeAccepted,
         ChargeRejected, ChargeAnswerLost, ChargeNotReached, InitiateReturned,
         FinishCreate, RequestLost, provider
  <2>2. ASSUME NEW h \in Handler, HandlerStep(h)
        PROVE  UNCHANGED sent
    BY <2>2, HandlerOutcome DEF Consistent
  <2>3. ASSUME NEW w \in Worker, WorkerStep(w)
        PROVE  UNCHANGED sent
    BY <2>3, WorkerOutcome DEF SweepExpire, provider, Consistent
  <2>4. PICK r \in Request : ProviderStep(r)
    BY <1>2, <2>1, <2>2, <2>3 DEF Next, vars, provider
  <2>5. ASSUME NEW o \in Final, ChargeResolved(r, o)
        PROVE  e.outcome = charge'[e.ref]
    BY <1>2, <2>5 DEF ChargeResolved, Consistent, TypeOK
  <2>6. ASSUME NEW s \in Stray, CallbackStray(r, s)
        PROVE  e.outcome = "UNKNOWN"
    BY <1>2, <2>6 DEF CallbackStray, Honest
  <2> QED BY <2>4, <2>5, <2>6 DEF ProviderStep
<1> QED BY <1>1, <1>2

\* The thread of a callback holds what was sent.
LEMMA HeldTruly ==
  ASSUME Consistent, Truthful, [Next]_vars, NEW h \in Handler, handler'[h].pc # "idle"
  PROVE  LET e == handler'[h].event
         IN  e.outcome = "UNKNOWN" \/ e.outcome = charge'[e.ref]
<1> DEFINE e == handler'[h].event
<1>1. SUFFICES e \in Event /\ Tells(e)
  BY ToldStays
<1>2. CASE handler'[h] = handler[h]
  BY <1>2 DEF Consistent, Threads, Truthful
<1>3. CASE HandlerStep(h)
  <2>1. ASSUME NEW f \in sent, CallbackRead(h, f)
        PROVE  e = f
    BY <2>1 DEF CallbackRead, Consistent, TypeOK
  <2>2. CASE CallbackConfirm(h)
    <3>1. PICK v : handler' = [handler EXCEPT ![h] =
                     [@ EXCEPT !.pc = "applying", !.confirmed = v]]
      BY <2>2 DEF CallbackConfirm
    <3>2. handler[h] \in HandlerThread /\ handler[h].pc # "idle"
      BY <2>2 DEF CallbackConfirm, Consistent, TypeOK
    <3>3. \A t \in HandlerThread :
            [t EXCEPT !.pc = "applying", !.confirmed = v].event = t.event
      BY DEF HandlerThread
    <3>4. e = handler[h].event
      BY <3>1, <3>2, <3>3 DEF Consistent, TypeOK
    <3> QED BY <3>2, <3>4 DEF Consistent, Threads, Truthful
  <2>3. ~CallbackApply(h) /\ ~CallbackLost(h)
    BY DEF CallbackApply, CallbackLost, IdleHandler, Consistent, TypeOK
  <2> QED BY <1>3, <2>1, <2>2, <2>3 DEF HandlerStep, Truthful, Consistent, TypeOK
<1>4. ASSUME NEW g \in Handler, HandlerStep(g), g # h
      PROVE  handler'[h] = handler[h]
  BY <1>4 DEF HandlerStep, CallbackRead, CallbackConfirm, CallbackApply, CallbackLost,
              Consistent, TypeOK
<1>5. ASSUME NEW w \in Worker, WorkerStep(w)
      PROVE  UNCHANGED handler
  BY <1>5, WorkerOutcome DEF SweepExpire, Consistent
<1>6. ASSUME NEW r \in Request, RequestStep(r) \/ ProviderStep(r)
      PROVE  UNCHANGED handler
  BY <1>6 DEF RequestStep, CreateRefused, CreateReplayed, CreateBegun, ChargeAccepted,
       ChargeRejected, ChargeAnswerLost, ChargeNotReached, InitiateReturned,
       FinishCreate, RequestLost, ProviderStep, ChargeResolved, CallbackStray, threads
<1> QED BY <1>2, <1>3, <1>4, <1>5, <1>6 DEF Next, vars, threads

\* The thread of a sweep applies what the provider answered.
LEMMA AnsweredTruly ==
  ASSUME Consistent, Queried, Charged, [Next]_vars, NEW v \in Worker,
         worker'[v].pc = "applying"
  PROVE  worker'[v].answer = charge'[worker'[v].at] /\ worker'[v].answer \in Final
<1>1. worker[v].pc \in {"querying", "applying"} =>
        worker[v].at \in Request /\ payment[worker[v].at].ref = worker[v].at
  BY DEF Consistent, Threads
<1>2. CASE worker'[v] = worker[v]
  <2>1. worker[v].answer = charge[worker[v].at] /\ worker[v].answer \in Final
    BY <1>2 DEF Queried
  <2> QED BY <1>1, <1>2, <2>1, EndStays
<1>3. CASE WorkerStep(v)
  <2>1. CASE QueryAnswered(v)
    <3>1. /\ worker[v].pc = "querying"
          /\ charge[payment[worker[v].at].ref] \in Final
          /\ worker' = [worker EXCEPT ![v] =
               [@ EXCEPT !.pc = "applying", !.answer = charge[payment[worker[v].at].ref]]]
      BY <2>1 DEF QueryAnswered
    <3>2. /\ worker'[v].at = worker[v].at
          /\ worker'[v].answer = charge[payment[worker[v].at].ref]
      BY <3>1 DEF Consistent, TypeOK, WorkerThread
    <3> QED BY <1>1, <3>1, <3>2, EndStays
  <2>2. ASSUME NEW r \in Request, NEW rest, ReconcileRead(v, r, rest)
        PROVE  FALSE
    <3>1. worker'[v].pc = CASE ~Unresolved(r) -> "looping"
                            [] Unresolved(r) /\ payment[r].ref = None -> "inconclusive"
                            [] Unresolved(r) /\ payment[r].ref # None -> "querying"
      BY <2>2 DEF ReconcileRead, Consistent, TypeOK
    <3> QED BY <3>1
  <2>3. ~QueryInconclusive(v) /\ ~SweepDone(v) /\ ~ReconcileAborted(v) /\ ~WorkerLost(v)
    BY DEF QueryInconclusive, SweepDone, ReconcileAborted, WorkerLost, IdleWorker,
           Consistent, TypeOK, WorkerThread
  <2>4. ~Resume(v)
    BY DEF Resume, Consistent, TypeOK
  <2>5. /\ \A late, lost \in SUBSET Request : ~SweepExpire(v, late, lost)
        /\ \A due \in SUBSET Request : ~SweepList(v, due)
    BY DEF SweepExpire, SweepList, Consistent, TypeOK, WorkerThread
  <2> QED BY <1>3, <2>1, <2>2, <2>3, <2>4, <2>5
       DEF WorkerStep, SweepPick, ReconcileRequested, ReconcileApply,
           ReconcileInconclusive
<1>4. ASSUME NEW w \in Worker, WorkerStep(w), w # v
      PROVE  worker'[v] = worker[v]
  BY <1>4 DEF WorkerStep, SweepExpire, SweepList, SweepDone, SweepPick,
       ReconcileRequested, ReconcileRead, QueryAnswered, QueryInconclusive,
       ReconcileApply, ReconcileAborted, ReconcileInconclusive, Resume, WorkerLost,
       Consistent, TypeOK
<1>5. ASSUME NEW h \in Handler, HandlerStep(h)
      PROVE  UNCHANGED worker
  BY <1>5, HandlerOutcome DEF Consistent
<1>6. ASSUME NEW r \in Request, RequestStep(r) \/ ProviderStep(r)
      PROVE  UNCHANGED worker
  BY <1>6 DEF RequestStep, CreateRefused, CreateReplayed, CreateBegun, ChargeAccepted,
       ChargeRejected, ChargeAnswerLost, ChargeNotReached, InitiateReturned,
       FinishCreate, RequestLost, ProviderStep, ChargeResolved, CallbackStray, threads
<1> QED BY <1>2, <1>3, <1>4, <1>5, <1>6 DEF Next, vars, threads

\* The answer to an initiate call tells whether it was rejected.
LEMMA CalledTruly ==
  ASSUME Consistent, Charged, [Next]_vars, NEW x \in Request
  PROVE  /\ call'[x].pc \in {"ready", "calling"} => charge'[x] = "none"
         /\ call'[x].pc = "finishing" /\ call'[x].ack = "declined" =>
              charge'[x] = "rejected"
<1>1. CASE call'[x] = call[x] /\ charge'[x] = charge[x]
  BY <1>1 DEF Charged
<1>2. CASE RequestStep(x)
  <2>1. ASSUME NEW made, NEW ack, InitiateReturned(x, made, ack)
        PROVE  call'[x] = [pc |-> "finishing", ack |-> ack] /\ charge'[x] = made
    BY <2>1 DEF InitiateReturned, Consistent, TypeOK
  <2>2. CASE ChargeAccepted(x) \/ ChargeRejected(x) \/ ChargeAnswerLost(x)
               \/ ChargeNotReached(x)
    <3>1. PICK made, ack :
            InitiateReturned(x, made, ack) /\ (ack = "declined" => made = "rejected")
      BY <2>2 DEF ChargeAccepted, ChargeRejected, ChargeAnswerLost, ChargeNotReached
    <3>2. call'[x] = [pc |-> "finishing", ack |-> ack] /\ charge'[x] = made
      BY <2>1, <3>1
    <3> QED BY <3>1, <3>2
  <2>3. ASSUME NEW k \in Key, NEW p \in Payload, CreateBegun(x, k, p)
        PROVE  call'[x].pc = "calling" /\ charge'[x] = "none"
    BY <2>3 DEF CreateBegun, Charged, provider, Consistent, TypeOK, CallThread
  <2>4. ASSUME NEW k \in Key, NEW p \in Payload,
               CreateRefused(x, k, p) \/ CreateReplayed(x, k, p)
        PROVE  call'[x].pc = "done"
    BY <2>4 DEF CreateRefused, CreateReplayed, Answered, Consistent, TypeOK, CallThread
  <2>5. FinishCreate(x) \/ RequestLost(x) => call'[x].pc \in {"done", "lost"}
    BY DEF FinishCreate, RequestLost, Answered, Consistent, TypeOK, CallThread
  <2> QED BY <1>2, <2>2, <2>3, <2>4, <2>5 DEF RequestStep
<1>3. ASSUME NEW r \in Request, RequestStep(r), r # x
      PROVE  call'[x] = call[x] /\ charge'[x] = charge[x]
  BY <1>3 DEF RequestStep, CreateRefused, CreateReplayed, CreateBegun, Answered,
       ChargeAccepted, ChargeRejected, ChargeAnswerLost, ChargeNotReached,
       InitiateReturned, FinishCreate, RequestLost, provider, Consistent, TypeOK
<1>4. CASE UNCHANGED call /\ (charge'[x] = charge[x] \/ charge[x] = "open")
  BY <1>4 DEF Charged
<1>5. ASSUME NEW r \in Request, ProviderStep(r)
      PROVE  UNCHANGED call /\ (charge'[x] = charge[x] \/ charge[x] = "open")
  BY <1>5 DEF ProviderStep, ChargeResolved, CallbackStray, threads, Consistent, TypeOK
<1>6. ASSUME NEW h \in Handler, HandlerStep(h)
      PROVE  UNCHANGED <<call, charge>>
  BY <1>6, HandlerOutcome DEF Consistent
<1>7. ASSUME NEW w \in Worker, WorkerStep(w)
      PROVE  UNCHANGED <<call, charge>>
  BY <1>7, WorkerOutcome DEF SweepExpire, provider, Consistent
<1> QED BY <1>1, <1>2, <1>3, <1>4, <1>5, <1>6, <1>7
         DEF Next, vars, threads, provider

\* _apply_outcome ends no payment but its own, and that by the outcome it was given.
LEMMA AppliedEnds ==
  ASSUME TypeOK, NEW r \in Request, NEW o \in Outcome, ApplyOutcome(r, o),
         NEW x \in Request, payment'[x].state \in PaymentTerminal, ~Terminal(x)
  PROVE  x = r /\ o # "UNKNOWN" /\ payment'[x].state = o
<1>1. payment'[x].state # payment[x].state
  BY DEF Terminal
<1>2. \A s : payment' = Moved(r, s) =>
        payment'[x].state = IF x = r THEN s ELSE payment[x].state
  BY DEF Moved, TypeOK, Row
<1>3. CASE Settle(r, o)
  BY <1>1, <1>2, <1>3 DEF Settle, CanSettle
<1>4. CASE payment' = Moved(r, "UNKNOWN")
  BY <1>1, <1>2, <1>4 DEF PaymentTerminal
<1> QED BY <1>1, <1>3, <1>4 DEF ApplyOutcome

\* _to_review ends nothing.
LEMMA ReviewEndsNothing ==
  ASSUME TypeOK, NEW r \in Request, NEW kind, ToReview(r, kind),
         NEW x \in Request, ~Terminal(x)
  PROVE  payment'[x].state \notin PaymentTerminal
<1>1. payment' = Moved(r, "NEEDS_REVIEW") =>
        payment'[x].state = IF x = r THEN "NEEDS_REVIEW" ELSE payment[x].state
  BY DEF Moved, TypeOK, Row
<1> QED BY <1>1 DEF ToReview, Terminal, PaymentTerminal

\* Whatever ends a payment is told by the provider: a callback, the answer to a
\* query, or a rejected initiate call.
LEMMA EndedTruly ==
  ASSUME Consistent, Truthful, [Next]_vars,
         NEW x \in Request, payment'[x].state \in PaymentTerminal, ~Terminal(x)
  PROVE  \/ payment'[x].state = charge[x]
         \/ payment'[x].state = "DECLINED" /\ charge[x] = "rejected"
<1>1. payment' # payment
  BY DEF Terminal
<1>2. ASSUME NEW r \in Request, RequestStep(r)
      PROVE  payment'[x].state = "DECLINED" /\ charge[x] = "rejected"
  <2>1. CASE FinishCreate(r)
    <3>1. /\ r = x /\ payment'[x].state = AnswerState(call[r].ack)
          /\ AnswerState(call[r].ack) \in {"PENDING", "DECLINED", "UNKNOWN"}
      BY <2>1, FinishedRow DEF Terminal, PaymentTerminal, Consistent
    <3>2. payment'[x].state = "DECLINED"
      BY <3>1 DEF PaymentTerminal
    <3>3. call[r].pc = "finishing" /\ call[r].ack \in {"accepted", "declined", "unknown"}
      BY <2>1 DEF FinishCreate, Consistent, Calls, TypeOK, CallThread
    <3>4. call[r].ack = "declined"
      BY <3>1, <3>2, <3>3 DEF AnswerState
    <3> QED BY <3>1, <3>2, <3>3, <3>4 DEF Truthful, Charged
  <2>2. ASSUME NEW k \in Key, NEW p \in Payload, CreateBegun(r, k, p)
        PROVE  FALSE
    <3>1. payment'[x] = IF x = r
            THEN [state |-> "CREATED", key |-> k, payload |-> p, ref |-> None]
            ELSE payment[x]
      BY <2>2, BegunRow DEF Consistent
    <3> QED BY <3>1 DEF Terminal, PaymentTerminal
  <2> QED BY <1>1, <1>2, <2>1, <2>2
       DEF RequestStep, CreateRefused, CreateReplayed, ChargeAccepted, ChargeRejected,
           ChargeAnswerLost, ChargeNotReached, InitiateReturned, RequestLost, tables
<1>3. ASSUME NEW h \in Handler, HandlerStep(h)
      PROVE  payment'[x].state = charge[x]
  <2> DEFINE e == handler[h].event
  <2>1. CallbackApply(h)
    BY <1>1, <1>3 DEF HandlerStep, CallbackRead, CallbackConfirm, CallbackLost, tables
  <2>2. e \in Event /\ Tells(e) /\ e.ref \in Request /\ e.outcome \in Outcome
    BY <2>1 DEF CallbackApply, Consistent, Threads, Truthful, Event
  <2>3. PICK r \in Request : CallbackMatched(h, e, r)
    BY <1>1, <2>1 DEF CallbackApply, CallbackUnmatched, CallbackConflict
  <2>4. r = e.ref
    BY <2>2, <2>3, PaymentsAssumption DEF CallbackMatched, Consistent, Rows
  <2>5. CASE ApplyOutcome(r, e.outcome)
    BY <2>2, <2>4, <2>5, AppliedEnds DEF Tells, Consistent
  <2>6. CASE CallbackDoubted(h, e, r)
    <3>1. ~ToReview(r, "amount_mismatch")
      BY ReviewEndsNothing DEF Consistent
    <3>2. payment' = Moved(r, "UNKNOWN") =>
            payment'[x].state = IF x = r THEN "UNKNOWN" ELSE payment[x].state
      BY DEF Moved, Consistent, TypeOK, Row
    <3>3. payment' # Moved(r, "UNKNOWN")
      BY <3>2 DEF Terminal, PaymentTerminal
    <3> QED BY <1>1, <2>6, <3>1, <3>3 DEF CallbackDoubted
  <2> QED BY <2>3, <2>5, <2>6 DEF CallbackMatched
<1>4. ASSUME NEW w \in Worker, WorkerStep(w)
      PROVE  payment'[x].state = charge[x]
  <2>1. CASE ReconcileApply(w)
    <3>1. /\ worker[w].at \in Request /\ worker[w].answer \in Outcome
          /\ worker[w].answer = charge[worker[w].at]
      BY <2>1 DEF ReconcileApply, Consistent, Threads, Truthful, Queried, Outcome
    <3> QED BY <2>1, <3>1, AppliedEnds DEF ReconcileApply, Consistent
  <2>2. ASSUME NEW elapsed \in BOOLEAN, ReconcileInconclusive(w, elapsed)
        PROVE  FALSE
    <3>1. worker[w].at \in Request
      BY <2>2 DEF ReconcileInconclusive, Consistent, Threads
    <3> QED BY <1>1, <2>2, <3>1, ReviewEndsNothing DEF ReconcileInconclusive, Consistent
  <2>3. ASSUME NEW late \in SUBSET Request, NEW lost \in SUBSET Request,
               SweepExpire(w, late, lost)
        PROVE  FALSE
    BY <2>3, SweptRow DEF Terminal, PaymentTerminal, Consistent
  <2> QED BY <1>1, <1>4, <2>1, <2>2, <2>3
       DEF WorkerStep, SweepList, SweepDone, SweepPick, ReconcileRequested,
           ReconcileRead, QueryAnswered, QueryInconclusive, ReconcileAborted,
           WorkerLost, tables
<1>5. ASSUME NEW r \in Request, ProviderStep(r)
      PROVE  FALSE
  BY <1>1, <1>5 DEF ProviderStep, ChargeResolved, CallbackStray, tables
<1> QED BY <1>1, <1>2, <1>3, <1>4, <1>5 DEF Next, vars, tables

\* At first nothing has been told.
LEMMA TruthfulInit == Init => Truthful
BY DEF Init, Truthful, Queried, Charged, OutcomeIsTheProviders, Terminal, NoRow,
       IdleHandler, IdleWorker, PaymentTerminal

\* Every step keeps to the truth if the provider does.
LEMMA TruthfulNext ==
  ASSUME Honest, Consistent, Truthful, [Next]_vars
  PROVE  Truthful'
<1>1. /\ \A e \in sent' : Tells(e)'
      /\ \A h \in Handler : handler'[h].pc # "idle" =>
           LET e == handler'[h].event
           IN  e.outcome = "UNKNOWN" \/ e.outcome = charge'[e.ref]
  BY SentTruly, HeldTruly DEF Tells
<1>2. ASSUME NEW x \in Request, payment'[x].state \in PaymentTerminal
      PROVE  \/ payment'[x].state = charge'[x]
             \/ payment'[x].state = "DECLINED" /\ charge'[x] = "rejected"
  <2>1. \/ payment'[x].state = charge[x]
        \/ payment'[x].state = "DECLINED" /\ charge[x] = "rejected"
    <3>1. CASE Terminal(x)
      <4>1. payment'[x] = payment[x]
        BY <3>1, TerminalStep
      <4> QED BY <3>1, <4>1 DEF Truthful, OutcomeIsTheProviders
    <3>2. CASE ~Terminal(x)
      BY <1>2, <3>2, EndedTruly
    <3> QED BY <3>1, <3>2
  <2>2. charge[x] \in {"none", "rejected", "open"} \cup Final
    BY DEF Consistent, TypeOK
  <2>3. charge[x] \in {"rejected"} \cup Final
    BY <1>2, <2>1, <2>2 DEF PaymentTerminal
  <2> QED BY <2>1, <2>3, EndStays DEF Truthful
<1>3. Queried' /\ Charged'
  BY AnsweredTruly, CalledTruly DEF Truthful, Queried, Charged
<1> QED BY <1>1, <1>2, <1>3 DEF Truthful, Tells, OutcomeIsTheProviders, Terminal

\* With an honest provider a terminal payment ended as its charge did, whatever is
\* lost, late, repeated or out of order: no deadline and no timeout ends one.
THEOREM OutcomeIsTrue == Honest => (Spec => []OutcomeIsTheProviders)
<1> SUFFICES ASSUME Honest PROVE Spec => []OutcomeIsTheProviders
  OBVIOUS
<1>1. Consistent /\ Truthful /\ [Next]_vars => Truthful'
  BY TruthfulNext
<1>2. Truthful => OutcomeIsTheProviders
  BY DEF Truthful
<1> QED BY <1>1, <1>2, TruthfulInit, Consistency, PTL DEF Spec

\* A payment that is live was live, unless it has just been inserted.
LEMMA LiveBefore ==
  ASSUME Consistent, [Next]_vars, NEW x \in Request, Live(x)',
         ~\E k \in Key, p \in Payload : CreateBegun(x, k, p)
  PROVE  Live(x) /\ payment'[x].payload = payment[x].payload
<1>1. TableSteps
  BY TableStep DEF Consistent
<1>2. Exists(x)
  <2>1. ASSUME NEW r \in Request, NEW k \in Key, NEW p \in Payload, CreateBegun(r, k, p)
        PROVE  Exists(x)
    BY <2>1, BegunRow DEF Live, Exists, Consistent
  <2>2. ASSUME NEW r \in Request, FinishCreate(r)
        PROVE  Exists(x)
    BY <2>2, FinishedRow DEF Live, Exists, Consistent
  <2>3. ASSUME NEW r \in Request, NEW s \in State, OutcomeStep(r, s)
        PROVE  Exists(x)
    <3>1. payment[r].state # "ABSENT"
      BY <2>3 DEF OutcomeStep
    <3> QED BY <2>3, <3>1, OutcomeRow DEF Live, Exists, Consistent
  <2>4. ASSUME NEW w \in Worker, NEW late \in SUBSET Request,
               NEW lost \in SUBSET Request, SweepExpire(w, late, lost)
        PROVE  Exists(x)
    BY <2>4, SweptRow DEF Live, Exists, Consistent
  <2>5. CASE UNCHANGED payment
    BY <2>5 DEF Live, Exists
  <2> QED BY <1>1, <2>1, <2>2, <2>3, <2>4, <2>5 DEF TableSteps, OutcomeSteps
<1>3. payment'[x].payload = payment[x].payload
  BY <1>1, <1>2, RowsAreKept DEF RowKept, Consistent
<1>4. Terminal(x) => payment'[x] = payment[x]
  BY TerminalStep
<1> QED BY <1>2, <1>3, <1>4 DEF Live, Exists, Terminal, PaymentTerminal

\* The unique index is checked when a payment is inserted, and nothing makes a
\* failed payment live again.
LEMMA OneLiveNext ==
  ASSUME Consistent, OneLivePerSale, [Next]_vars
  PROVE  OneLivePerSale'
<1> SUFFICES ASSUME NEW r \in Request, NEW q \in Request, r # q, Live(r)', Live(q)',
                    SaleOf[payment'[r].payload] # None,
                    SaleOf[payment'[r].payload] = SaleOf[payment'[q].payload]
             PROVE  FALSE
  BY DEF OneLivePerSale
<1>1. ASSUME NEW x \in Request, NEW y \in Request, x # y, Live(y)',
             NEW k \in Key, NEW p \in Payload, CreateBegun(x, k, p),
             SaleOf[payment'[x].payload] # None,
             SaleOf[payment'[x].payload] = SaleOf[payment'[y].payload]
      PROVE  FALSE
  <2>1. payment'[x].payload = p /\ payment'[y] = payment[y]
    <3>1. \A z \in Request : payment'[z] = IF z = x
            THEN [state |-> "CREATED", key |-> k, payload |-> p, ref |-> None]
            ELSE payment[z]
      BY <1>1, BegunRow DEF Consistent
    <3> QED BY <1>1, <3>1
  <2>2. Live(y)
    BY <1>1, <2>1 DEF Live, Exists
  <2> QED BY <1>1, <2>1, <2>2 DEF CreateBegun, SaleTaken
<1>2. ~\E k \in Key, p \in Payload : CreateBegun(r, k, p) \/ CreateBegun(q, k, p)
  BY <1>1
<1>3. /\ Live(r) /\ payment'[r].payload = payment[r].payload
      /\ Live(q) /\ payment'[q].payload = payment[q].payload
  BY <1>2, LiveBefore
<1> QED BY <1>3 DEF OneLivePerSale

\* With an honest provider a customer is never asked twice for one sale, whatever
\* keys the callers use: a payment that has failed has no charge left that could
\* still be paid when the next one is inserted.
THEOREM SaleChargedOnce == Honest => (Spec => []ChargedOncePerSale)
<1> SUFFICES ASSUME Honest PROVE Spec => []ChargedOncePerSale
  OBVIOUS
<1>1. Init => OneLivePerSale
  BY DEF Init, OneLivePerSale, Live, Exists, NoRow
<1>2. Consistent /\ OneLivePerSale /\ [Next]_vars => OneLivePerSale'
  BY OneLiveNext
<1>3. Consistent /\ OutcomeIsTheProviders /\ OneLivePerSale => ChargedOncePerSale
  <2> SUFFICES ASSUME Consistent, OutcomeIsTheProviders, OneLivePerSale
               PROVE  ChargedOncePerSale
    OBVIOUS
  <2>1. ASSUME NEW r \in Request, charge[r] \in {"open", "SUCCEEDED"}
        PROVE  Live(r)
    <3>1. Exists(r)
      BY <2>1 DEF Consistent, Calls
    <3> QED BY <2>1, <3>1 DEF OutcomeIsTheProviders, Live, Terminal, PaymentTerminal
  <2> QED BY <2>1 DEF OneLivePerSale, ChargedOncePerSale
<1>4. Spec => []OutcomeIsTheProviders
  BY OutcomeIsTrue
<1> QED BY <1>1, <1>2, <1>3, <1>4, Consistency, PTL DEF Spec

-----------------------------------------------------------------------------
(* Credits and the provider's money                                        *)

\* Every paid payment's charge was paid.
PaidTruly ==
  \A r \in Request : payment[r].state = "SUCCEEDED" => charge[r] = "SUCCEEDED"

\* A credit belongs to a paid payment and names its own charge.
LEMMA CreditIsPaid ==
  ASSUME Consistent, NEW e \in ledger
  PROVE  e.ref \in Request /\ payment[e.ref].state = "SUCCEEDED"
<1>1. e.id \in Request
  BY DEF Consistent, TypeOK
<1>2. e \in {x \in ledger : x.id = e.id}
  OBVIOUS
<1>3. payment[e.id].state = "SUCCEEDED" /\ e = [id |-> e.id, ref |-> payment[e.id].ref]
  BY <1>1, <1>2 DEF Consistent, EffectsMatchState
<1>4. payment[e.id].ref = e.id
  BY <1>1, <1>3 DEF Consistent, Rows
<1> QED BY <1>1, <1>3, <1>4

\* With an honest provider every credit is money that it has, whether or not
\* successes are confirmed by a query.
THEOREM HonestCreditsAreReal == Honest => (Spec => []CreditsAreReal)
<1> SUFFICES ASSUME Honest PROVE Spec => []CreditsAreReal
  OBVIOUS
<1>1. Consistent /\ OutcomeIsTheProviders => CreditsAreReal
  BY CreditIsPaid DEF OutcomeIsTheProviders, Terminal, PaymentTerminal, CreditsAreReal
<1>2. Spec => []OutcomeIsTheProviders
  BY OutcomeIsTrue
<1> QED BY <1>1, <1>2, Consistency, PTL

\* No thread is between handle_callback's read of the payment and its transaction,
\* with a callback of charge r, when create_payment stores the reference of r.
StoredAlone(r) ==
  FinishCreate(r) /\ call[r].ack = "accepted" =>
    \A h \in Handler : handler[h].pc # "idle" => handler[h].event.ref # r

\* What a thread that is about to apply a callback has learnt: a confirmed charge
\* was paid, and a success that nobody asked about has no payment to end.
Vetted ==
  \A h \in Handler : handler[h].pc = "applying" =>
    LET r == handler[h].event.ref
    IN  /\ handler[h].confirmed = "confirmed" => charge[r] = "SUCCEEDED"
        /\ (handler[h].confirmed = "none" /\ handler[h].event.outcome = "SUCCEEDED")
             => payment[r].ref = None \/ Terminal(r)

\* Only the answer of an accepted charge gives a row its reference.
LEMMA ReferenceStored ==
  ASSUME Consistent, [Next]_vars, NEW r \in Request,
         payment[r].ref = None, payment'[r].ref # None
  PROVE  FinishCreate(r) /\ call[r].ack = "accepted"
<1>1. TableSteps
  BY TableStep DEF Consistent
<1>2. ASSUME NEW x \in Request, NEW k \in Key, NEW p \in Payload, CreateBegun(x, k, p)
      PROVE  FALSE
  <2>1. payment'[r] = IF r = x
          THEN [state |-> "CREATED", key |-> k, payload |-> p, ref |-> None]
          ELSE payment[r]
    BY <1>2, BegunRow DEF Consistent
  <2> QED BY <2>1
<1>3. ASSUME NEW x \in Request, FinishCreate(x)
      PROVE  FinishCreate(r) /\ call[r].ack = "accepted"
  <2>1. x = r /\ KeptRef(x) # None
    BY <1>3, FinishedRow DEF Consistent
  <2> QED BY <1>3, <2>1 DEF KeptRef
<1>4. ASSUME NEW x \in Request, NEW s \in State, OutcomeStep(x, s)
      PROVE  FALSE
  BY <1>4, OutcomeRow DEF Consistent
<1>5. ASSUME NEW w \in Worker, NEW late \in SUBSET Request,
             NEW lost \in SUBSET Request, SweepExpire(w, late, lost)
      PROVE  FALSE
  BY <1>5, SweptRow DEF Consistent
<1> QED BY <1>1, <1>2, <1>3, <1>4, <1>5 DEF TableSteps, OutcomeSteps

\* What a thread has learnt stays true if no answer is stored meanwhile.
LEMMA VettedNext ==
  ASSUME ConfirmSuccess, Consistent, Charged, Vetted, [Next]_vars,
         \A r \in Request : StoredAlone(r)
  PROVE  Vetted'
<1> SUFFICES ASSUME NEW h \in Handler, handler'[h].pc = "applying"
             PROVE  LET r == handler'[h].event.ref
                    IN  /\ handler'[h].confirmed = "confirmed" =>
                             charge'[r] = "SUCCEEDED"
                        /\ /\ handler'[h].confirmed = "none"
                           /\ handler'[h].event.outcome = "SUCCEEDED"
                           => payment'[r].ref = None
                                \/ payment'[r].state \in PaymentTerminal
  BY DEF Vetted, Terminal
<1>1. ASSUME NEW r \in Request, charge[r] = "SUCCEEDED"
      PROVE  charge'[r] = "SUCCEEDED"
  <2>1. charge[r] \in Final
    BY <1>1 DEF Consistent, TypeOK
  <2> QED BY <1>1, <2>1, EndStays
<1>2. ASSUME NEW r \in Request, Terminal(r)
      PROVE  payment'[r].state \in PaymentTerminal
  BY <1>2, TerminalStep DEF Terminal
<1>3. CASE handler'[h] = handler[h]
  <2> DEFINE r == handler[h].event.ref
  <2>1. r \in Request
    BY <1>3 DEF Consistent, Threads, Event
  <2>2. payment[r].ref = None => payment'[r].ref = None
    BY <1>3, <2>1, ReferenceStored DEF StoredAlone
  <2> QED BY <1>1, <1>2, <1>3, <2>1, <2>2 DEF Vetted
<1>4. CASE HandlerStep(h)
  <2>1. ASSUME NEW e \in sent, CallbackRead(h, e)
        PROVE  /\ handler'[h].confirmed = "none" /\ handler'[h].event = e
               /\ UNCHANGED payment
               /\ e.outcome = "SUCCEEDED" => payment[e.ref].ref = None \/ Terminal(e.ref)
    <3>1. e.ref \in Request
      BY DEF Consistent, TypeOK, Event
    <3>2. /\ handler'[h].confirmed = "none" /\ handler'[h].event = e
          /\ ~\E r \in Request : payment[r].ref = e.ref /\ Claims(r, e)
      BY <2>1 DEF CallbackRead, Consistent, TypeOK
    <3>3. payment[e.ref].ref \in {None, e.ref}
      BY <3>1 DEF Consistent, Rows
    <3> QED BY <2>1, <3>1, <3>2, <3>3 DEF CallbackRead, tables, Claims
  <2>2. CASE CallbackConfirm(h)
    <3>1. PICK v \in {"inconclusive", "confirmed", "contradicted"} :
            /\ handler' = [handler EXCEPT ![h] =
                 [@ EXCEPT !.pc = "applying", !.confirmed = v]]
            /\ v = "confirmed" => charge[handler[h].event.ref] = "SUCCEEDED"
      BY <2>2 DEF CallbackConfirm
    <3>2. handler[h] \in HandlerThread /\ handler[h].event.ref \in Request
      BY <2>2 DEF CallbackConfirm, Consistent, TypeOK, Threads, Event
    <3>3. handler'[h].event = handler[h].event /\ handler'[h].confirmed = v
      BY <3>1, <3>2 DEF Consistent, TypeOK, HandlerThread
    <3> QED BY <1>1, <3>1, <3>2, <3>3
  <2>3. ~CallbackApply(h) /\ ~CallbackLost(h)
    BY DEF CallbackApply, CallbackLost, IdleHandler, Consistent, TypeOK
  <2> QED BY <1>4, <2>1, <2>2, <2>3 DEF HandlerStep, Terminal
<1>5. ASSUME NEW g \in Handler, HandlerStep(g), g # h
      PROVE  handler'[h] = handler[h]
  BY <1>5 DEF HandlerStep, CallbackRead, CallbackConfirm, CallbackApply, CallbackLost,
              Consistent, TypeOK
<1>6. ASSUME NEW w \in Worker, WorkerStep(w)
      PROVE  UNCHANGED handler
  BY <1>6, WorkerOutcome DEF SweepExpire, Consistent
<1>7. ASSUME NEW r \in Request, RequestStep(r) \/ ProviderStep(r)
      PROVE  UNCHANGED handler
  BY <1>7 DEF RequestStep, CreateRefused, CreateReplayed, CreateBegun, ChargeAccepted,
       ChargeRejected, ChargeAnswerLost, ChargeNotReached, InitiateReturned,
       FinishCreate, RequestLost, ProviderStep, ChargeResolved, CallbackStray, threads
<1> QED BY <1>3, <1>4, <1>5, <1>6, <1>7 DEF Next, vars, threads

\* A payment becomes SUCCEEDED only by a callback that was vetted or by a query.
LEMMA SucceededTruly ==
  ASSUME Consistent, Queried, Vetted, [Next]_vars,
         NEW x \in Request, payment'[x].state = "SUCCEEDED", ~Terminal(x)
  PROVE  charge[x] = "SUCCEEDED"
<1> USE DEF PaymentTerminal
<1>1. payment' # payment
  BY DEF Terminal
<1>2. ASSUME NEW r \in Request, RequestStep(r)
      PROVE  FALSE
  <2>1. ~FinishCreate(r)
    BY FinishedRow DEF Terminal, Consistent
  <2>2. ASSUME NEW k \in Key, NEW p \in Payload, CreateBegun(r, k, p)
        PROVE  FALSE
    <3>1. payment'[x] = IF x = r
            THEN [state |-> "CREATED", key |-> k, payload |-> p, ref |-> None]
            ELSE payment[x]
      BY <2>2, BegunRow DEF Consistent
    <3> QED BY <3>1 DEF Terminal
  <2> QED BY <1>1, <1>2, <2>1, <2>2
       DEF RequestStep, CreateRefused, CreateReplayed, ChargeAccepted, ChargeRejected,
           ChargeAnswerLost, ChargeNotReached, InitiateReturned, RequestLost, tables
<1>3. ASSUME NEW h \in Handler, HandlerStep(h)
      PROVE  charge[x] = "SUCCEEDED"
  <2> DEFINE e == handler[h].event
  <2>1. CallbackApply(h)
    BY <1>1, <1>3 DEF HandlerStep, CallbackRead, CallbackConfirm, CallbackLost, tables
  <2>2. e.ref \in Request /\ e.outcome \in Outcome /\ handler[h].pc = "applying"
    BY <2>1 DEF CallbackApply, Consistent, Threads, Event
  <2>3. PICK r \in Request : CallbackMatched(h, e, r)
    BY <1>1, <2>1 DEF CallbackApply, CallbackUnmatched, CallbackConflict
  <2>4. r = e.ref /\ payment[r].ref = r
    BY <2>2, <2>3, PaymentsAssumption DEF CallbackMatched, Consistent, Rows
  <2>5. ASSUME Believed(h, e, r), ApplyOutcome(r, e.outcome)
        PROVE  charge[x] = "SUCCEEDED"
    <3>1. x = r /\ e.outcome = "SUCCEEDED"
      BY <2>2, <2>5, AppliedEnds DEF Consistent
    <3>2. handler[h].confirmed \in {"none", "confirmed"}
      BY <2>5, <3>1 DEF Believed, Claims
    <3>3. payment[r].ref # None /\ ~Terminal(r)
      BY <2>4, <3>1, PaymentsAssumption
    <3> QED BY <2>2, <2>4, <3>1, <3>2, <3>3 DEF Vetted
  <2>6. CASE CallbackDoubted(h, e, r)
    <3>1. ~ToReview(r, "amount_mismatch")
      BY ReviewEndsNothing DEF Consistent
    <3>2. payment' = Moved(r, "UNKNOWN") =>
            payment'[x].state = IF x = r THEN "UNKNOWN" ELSE payment[x].state
      BY DEF Moved, Consistent, TypeOK, Row
    <3>3. payment' # Moved(r, "UNKNOWN")
      BY <3>2 DEF Terminal
    <3> QED BY <1>1, <2>6, <3>1, <3>3 DEF CallbackDoubted
  <2> QED BY <2>3, <2>5, <2>6 DEF CallbackMatched
<1>4. ASSUME NEW w \in Worker, WorkerStep(w)
      PROVE  charge[x] = "SUCCEEDED"
  <2>1. CASE ReconcileApply(w)
    <3>1. /\ worker[w].at \in Request /\ worker[w].answer \in Outcome
          /\ worker[w].answer = charge[worker[w].at]
      BY <2>1 DEF ReconcileApply, Consistent, Threads, Queried, Outcome
    <3> QED BY <2>1, <3>1, AppliedEnds DEF ReconcileApply, Consistent
  <2>2. ASSUME NEW elapsed \in BOOLEAN, ReconcileInconclusive(w, elapsed)
        PROVE  FALSE
    <3>1. worker[w].at \in Request
      BY <2>2 DEF ReconcileInconclusive, Consistent, Threads
    <3> QED BY <1>1, <2>2, <3>1, ReviewEndsNothing DEF ReconcileInconclusive, Consistent
  <2>3. ASSUME NEW late \in SUBSET Request, NEW lost \in SUBSET Request,
               SweepExpire(w, late, lost)
        PROVE  FALSE
    BY <2>3, SweptRow DEF Terminal, Consistent
  <2> QED BY <1>1, <1>4, <2>1, <2>2, <2>3
       DEF WorkerStep, SweepList, SweepDone, SweepPick, ReconcileRequested,
           ReconcileRead, QueryAnswered, QueryInconclusive, ReconcileAborted,
           WorkerLost, tables
<1>5. ASSUME NEW r \in Request, ProviderStep(r)
      PROVE  FALSE
  BY <1>1, <1>5 DEF ProviderStep, ChargeResolved, CallbackStray, tables
<1> QED BY <1>1, <1>2, <1>3, <1>4, <1>5 DEF Next, vars, tables

\* The inductive invariant of a service that confirms successes by a query.
Confirming == Queried /\ Charged /\ Vetted /\ PaidTruly

\* Every step keeps it if no answer is stored under a callback.
LEMMA ConfirmingNext ==
  ASSUME ConfirmSuccess, Consistent, Confirming, [Next]_vars,
         \A r \in Request : StoredAlone(r)
  PROVE  Confirming'
<1>1. Queried' /\ Charged'
  BY AnsweredTruly, CalledTruly DEF Confirming, Queried, Charged
<1>2. Vetted'
  BY VettedNext DEF Confirming
<1>3. ASSUME NEW x \in Request, payment'[x].state = "SUCCEEDED"
      PROVE  charge'[x] = "SUCCEEDED"
  <2>1. charge[x] = "SUCCEEDED"
    <3>1. CASE Terminal(x)
      BY <1>3, <3>1, TerminalStep DEF Confirming, PaidTruly
    <3>2. CASE ~Terminal(x)
      BY <1>3, <3>2, SucceededTruly DEF Confirming
    <3> QED BY <3>1, <3>2
  <2>2. charge[x] \in Final
    BY <2>1 DEF Consistent, TypeOK
  <2> QED BY <2>1, <2>2, EndStays DEF Confirming
<1> QED BY <1>1, <1>2, <1>3 DEF Confirming, PaidTruly

\* "Money transitions never trust the body alone" (ADR 0006) holds whatever is
\* claimed in callbacks, forged ones included, if successes are confirmed and no
\* callback is read before create_payment stores the charge's reference and
\* applied after: the window that payments_credits_are_real shows is the only one.
THEOREM ConfirmedCreditsAreReal ==
  ConfirmSuccess => (Spec /\ [][\A r \in Request : StoredAlone(r)]_vars
                       => []CreditsAreReal)
<1> SUFFICES ASSUME ConfirmSuccess
             PROVE  Spec /\ [][\A r \in Request : StoredAlone(r)]_vars
                      => []CreditsAreReal
  OBVIOUS
<1>1. Init => Confirming
  BY DEF Init, Confirming, Queried, Charged, Vetted, PaidTruly, NoRow, IdleHandler,
         IdleWorker
<1>2. Consistent /\ Confirming /\ [Next]_vars
        /\ [\A r \in Request : StoredAlone(r)]_vars => Confirming'
  <2> SUFFICES ASSUME Consistent, Confirming, [Next]_vars,
                      [\A r \in Request : StoredAlone(r)]_vars
               PROVE  Confirming'
    OBVIOUS
  <2>1. CASE \A r \in Request : StoredAlone(r)
    BY <2>1, ConfirmingNext
  <2>2. CASE UNCHANGED vars
    BY <2>2 DEF Confirming, Queried, Charged, Vetted, PaidTruly, Terminal,
                vars, tables, threads, provider
  <2> QED BY <2>1, <2>2
<1>3. Consistent /\ Confirming => CreditsAreReal
  BY CreditIsPaid DEF Confirming, PaidTruly, CreditsAreReal
<1> QED BY <1>1, <1>2, <1>3, Consistency, PTL DEF Spec

-----------------------------------------------------------------------------
(* Refinement *)

SaleFor(r) == IF Exists(r) THEN SaleOf[payment[r].payload] ELSE None
CreditOf(r) == {e.ref : e \in {c \in ledger : c.id = r}}

\* The credits of a payment, said without the ledger.
CreditsByState ==
  \A r \in Request :
    CreditOf(r) = IF payment[r].state = "SUCCEEDED" THEN {r} ELSE {}

\* EffectsMatchState and Rows give it.
LEMMA CreditOfPaid == Consistent => CreditsByState
<1> SUFFICES ASSUME Consistent, NEW r \in Request
             PROVE  CreditOf(r) = IF payment[r].state = "SUCCEEDED" THEN {r} ELSE {}
  BY DEF CreditsByState
<1> DEFINE credits == {c \in ledger : c.id = r}
<1>1. credits = IF payment[r].state = "SUCCEEDED"
                  THEN {[id |-> r, ref |-> payment[r].ref]} ELSE {}
  BY DEF Consistent, EffectsMatchState
<1>2. payment[r].state = "SUCCEEDED" => payment[r].ref = r
  BY DEF Consistent, Rows
<1>3. CreditOf(r) = {e.ref : e \in credits}
  BY DEF CreditOf
<1> HIDE DEF credits
<1>4. CASE payment[r].state = "SUCCEEDED"
  <2>1. credits = {[id |-> r, ref |-> r]}
    BY <1>1, <1>2, <1>4
  <2>2. CreditOf(r) = {r}
    BY <1>3, <2>1
  <2> QED BY <1>4, <2>2
<1>5. CASE payment[r].state # "SUCCEEDED"
  BY <1>1, <1>3, <1>5
<1> QED BY <1>4, <1>5

\* The empty database maps to the promise's initial state.
LEMMA PromiseInit == Init => Promise!Init
<1> SUFFICES ASSUME Init PROVE Promise!Init
  OBVIOUS
<1>1. \A r \in Request : payment[r].state = "ABSENT" /\ ledger = {}
  BY DEF Init, NoRow
<1> QED BY <1>1 DEF Promise!Init, StatusOf, Exists

\* A step that leaves every payment open, closed or paid as it was, and for its
\* sale, is no step of the promise.
LEMMA PromiseStutter ==
  ASSUME CreditsByState, CreditsByState',
         \A x \in Request : /\ StatusOf(x)' = StatusOf(x)
                            /\ SaleFor(x)' = SaleFor(x)
                            /\ payment'[x].state = "SUCCEEDED" <=>
                                 payment[x].state = "SUCCEEDED"
  PROVE  UNCHANGED Promise!vars
<1>1. \A x \in Request : CreditOf(x)' = CreditOf(x)
  BY DEF CreditsByState
<1> QED BY <1>1 DEF Promise!vars, SaleFor, CreditOf

\* A step that changes what the promise sees of one payment only.
LEMMA PromiseFrame ==
  ASSUME CreditsByState, CreditsByState', NEW r \in Request,
         \A x \in Request \ {r} : /\ StatusOf(x)' = StatusOf(x)
                                  /\ SaleFor(x)' = SaleFor(x)
                                  /\ payment'[x].state = "SUCCEEDED" <=>
                                       payment[x].state = "SUCCEEDED"
  PROVE  /\ [x \in Request |-> StatusOf(x)]'
              = [[x \in Request |-> StatusOf(x)] EXCEPT ![r] = StatusOf(r)']
         /\ [x \in Request |-> SaleFor(x)]'
              = [[x \in Request |-> SaleFor(x)] EXCEPT ![r] = SaleFor(r)']
         /\ [x \in Request |-> CreditOf(x)]'
              = [[x \in Request |-> CreditOf(x)] EXCEPT ![r] = CreditOf(r)']
<1>1. \A x \in Request \ {r} : CreditOf(x)' = CreditOf(x)
  BY DEF CreditsByState
<1> QED BY <1>1

\* Every step of the service is one step of the promise or none.
LEMMA PromiseStep ==
  ASSUME Consistent, CreditsByState, CreditsByState', [Next]_vars
  PROVE  [Promise!Next]_(Promise!vars)
<1> USE DEF Consistent
<1> DEFINE sts == [x \in Request |-> StatusOf(x)]
           sls == [x \in Request |-> SaleFor(x)]
           crs == [x \in Request |-> CreditOf(x)]
\* The promise's actions, on the mapped state.
<1>1. ASSUME NEW r \in Request, NEW s \in Sale \cup {None}, sts[r] = "absent",
             s = None \/ \A q \in Request : sts[q] \in {"open", "paid"} => sls[q] # s,
             sts' = [sts EXCEPT ![r] = "open"], sls' = [sls EXCEPT ![r] = s], crs' = crs
      PROVE  Promise!Next
  <2>1. Promise!Open(r, s)
    BY <1>1 DEF Promise!Open, SaleFor, CreditOf
  <2> QED BY <2>1 DEF Promise!Next
<1>2. ASSUME NEW r \in Request, NEW f \in Request, sts[r] = "open",
             \A q \in Request : f \notin crs[q],
             sts' = [sts EXCEPT ![r] = "paid"], crs' = [crs EXCEPT ![r] = {f}], sls' = sls
      PROVE  Promise!Next
  <2>1. Promise!Pay(r, f)
    BY <1>2 DEF Promise!Pay, SaleFor, CreditOf
  <2> QED BY <2>1 DEF Promise!Next
<1>3. ASSUME NEW r \in Request, sts[r] = "open",
             sts' = [sts EXCEPT ![r] = "closed"], sls' = sls, crs' = crs
      PROVE  Promise!Next
  <2>1. Promise!Close(r)
    BY <1>3 DEF Promise!Close, SaleFor, CreditOf
  <2> QED BY <2>1 DEF Promise!Next
\* The service's steps.
<1>4. CASE UNCHANGED <<payment, ledger, outbox, idem>>
  <2>1. UNCHANGED Promise!vars
    BY <1>4, PromiseStutter DEF StatusOf, SaleFor, Exists
  <2> QED BY <2>1
<1>5. ASSUME NEW r \in Request, NEW k \in Key, NEW p \in Payload, CreateBegun(r, k, p)
      PROVE  Promise!Next
  <2>1. \A x \in Request : payment'[x] = IF x = r
          THEN [state |-> "CREATED", key |-> k, payload |-> p, ref |-> None]
          ELSE payment[x]
    BY <1>5, BegunRow
  <2>2. payment[r].state = "ABSENT"
    BY <1>5 DEF CreateBegun, Calls, Exists
  <2>3. /\ StatusOf(r) = "absent" /\ SaleFor(r) = None /\ CreditOf(r) = {}
        /\ StatusOf(r)' = "open" /\ SaleFor(r)' = SaleOf[p] /\ CreditOf(r)' = {}
    BY <2>1, <2>2 DEF StatusOf, SaleFor, Exists, CreditsByState
  <2>4. /\ sts' = [sts EXCEPT ![r] = "open"]
        /\ sls' = [sls EXCEPT ![r] = SaleOf[p]]
        /\ crs' = [crs EXCEPT ![r] = {}]
    <3>1. \A x \in Request \ {r} : /\ StatusOf(x)' = StatusOf(x)
                                   /\ SaleFor(x)' = SaleFor(x)
                                   /\ payment'[x].state = payment[x].state
      BY <2>1 DEF StatusOf, SaleFor, Exists
    <3> QED BY <2>3, <3>1, PromiseFrame
  <2>5. SaleOf[p] \in Sale \cup {None}
    BY PaymentsAssumption
  <2>6. SaleOf[p] = None \/ \A q \in Request :
          sts[q] \in {"open", "paid"} => sls[q] # SaleOf[p]
    BY <1>5 DEF CreateBegun, SaleTaken, Live, StatusOf, SaleFor, Exists
  <2> QED BY <1>1, <2>3, <2>4, <2>5, <2>6
<1>6. ASSUME NEW r \in Request, FinishCreate(r)
      PROVE  [Promise!Next]_(Promise!vars)
  <2>1. \A x \in Request :
          /\ payment'[x].payload = payment[x].payload
          /\ x # r => payment'[x].state = payment[x].state
    BY <1>6, FinishedRow
  <2>2. /\ payment[r].state \in {"CREATED", "UNKNOWN", "NEEDS_REVIEW"}
        /\ payment'[r].state \in {"PENDING", "UNKNOWN", "NEEDS_REVIEW", "DECLINED"}
    BY <1>6, FinishedRow
  <2>3. CASE payment'[r].state # "DECLINED"
    <3>1. StatusOf(r) = "open" /\ StatusOf(r)' = "open"
      BY <2>2, <2>3 DEF StatusOf
    <3>2. \A x \in Request : /\ StatusOf(x)' = StatusOf(x)
                             /\ SaleFor(x)' = SaleFor(x)
                             /\ payment'[x].state = "SUCCEEDED" <=>
                                  payment[x].state = "SUCCEEDED"
      BY <2>1, <2>2, <3>1 DEF StatusOf, SaleFor, Exists
    <3>3. UNCHANGED Promise!vars
      BY <3>2, PromiseStutter
    <3> QED BY <3>3
  <2>4. CASE payment'[r].state = "DECLINED"
    <3>1. /\ StatusOf(r) = "open" /\ StatusOf(r)' = "closed"
          /\ SaleFor(r)' = SaleFor(r) /\ CreditOf(r)' = CreditOf(r)
      BY <2>1, <2>2, <2>4 DEF StatusOf, SaleFor, Exists, CreditsByState
    <3>2. /\ sts' = [sts EXCEPT ![r] = "closed"]
          /\ sls' = [sls EXCEPT ![r] = SaleFor(r)]
          /\ crs' = [crs EXCEPT ![r] = CreditOf(r)]
      <4>1. \A x \in Request \ {r} : /\ StatusOf(x)' = StatusOf(x)
                                     /\ SaleFor(x)' = SaleFor(x)
                                     /\ payment'[x].state = payment[x].state
        BY <2>1 DEF StatusOf, SaleFor, Exists
      <4> QED BY <3>1, <4>1, PromiseFrame
    <3> QED BY <1>3, <3>1, <3>2
  <2> QED BY <2>3, <2>4
<1>7. ASSUME NEW r \in Request, NEW s \in State, OutcomeStep(r, s)
      PROVE  [Promise!Next]_(Promise!vars)
  <2>1. \A x \in Request :
          /\ payment'[x].payload = payment[x].payload
          /\ x # r => payment'[x].state = payment[x].state
          /\ x = r => payment'[x].state = s
    BY <1>7, OutcomeRow
  <2>2. payment[r].state \in {"PENDING", "UNKNOWN", "NEEDS_REVIEW"}
    BY <1>7 DEF OutcomeStep
  <2>3. CASE s \in {"UNKNOWN", "NEEDS_REVIEW"}
    <3>1. UNCHANGED Promise!vars
      BY <2>1, <2>2, <2>3, PromiseStutter DEF StatusOf, SaleFor, Exists
    <3> QED BY <3>1
  <2>4. CASE s \in {"DECLINED", "EXPIRED"}
    <3>1. /\ StatusOf(r) = "open" /\ StatusOf(r)' = "closed"
          /\ SaleFor(r)' = SaleFor(r) /\ CreditOf(r)' = CreditOf(r)
      BY <2>1, <2>2, <2>4 DEF StatusOf, SaleFor, Exists, CreditsByState
    <3>2. /\ sts' = [sts EXCEPT ![r] = "closed"]
          /\ sls' = [sls EXCEPT ![r] = SaleFor(r)]
          /\ crs' = [crs EXCEPT ![r] = CreditOf(r)]
      <4>1. \A x \in Request \ {r} : /\ StatusOf(x)' = StatusOf(x)
                                     /\ SaleFor(x)' = SaleFor(x)
                                     /\ payment'[x].state = payment[x].state
        BY <2>1 DEF StatusOf, SaleFor, Exists
      <4> QED BY <3>1, <4>1, PromiseFrame
    <3> QED BY <1>3, <3>1, <3>2
  <2>5. CASE s = "SUCCEEDED"
    <3>1. /\ StatusOf(r) = "open" /\ StatusOf(r)' = "paid"
          /\ SaleFor(r)' = SaleFor(r) /\ CreditOf(r)' = {r}
          /\ \A q \in Request : r \notin CreditOf(q)
      BY <2>1, <2>2, <2>5 DEF StatusOf, SaleFor, Exists, CreditsByState
    <3>2. /\ sts' = [sts EXCEPT ![r] = "paid"]
          /\ sls' = [sls EXCEPT ![r] = SaleFor(r)]
          /\ crs' = [crs EXCEPT ![r] = {r}]
      <4>1. \A x \in Request \ {r} : /\ StatusOf(x)' = StatusOf(x)
                                     /\ SaleFor(x)' = SaleFor(x)
                                     /\ payment'[x].state = payment[x].state
        BY <2>1 DEF StatusOf, SaleFor, Exists
      <4> QED BY <3>1, <4>1, PromiseFrame
    <3> QED BY <1>2, <3>1, <3>2
  <2> QED BY <1>7, <2>3, <2>4, <2>5 DEF OutcomeStep, PaymentTerminal
<1>8. ASSUME NEW w \in Worker, NEW late \in SUBSET Request,
             NEW lost \in SUBSET Request, SweepExpire(w, late, lost)
      PROVE  UNCHANGED Promise!vars
  <2>1. \A x \in Request :
          /\ payment'[x].payload = payment[x].payload
          /\ payment'[x].state \in {"UNKNOWN", payment[x].state}
          /\ payment'[x].state # payment[x].state =>
               payment[x].state \in {"CREATED", "PENDING"}
    BY <1>8, SweptRow
  <2> QED BY <2>1, PromiseStutter DEF StatusOf, SaleFor, Exists
<1>9. TableSteps
  BY TableStep
<1> QED BY <1>4, <1>5, <1>6, <1>7, <1>8, <1>9 DEF TableSteps, OutcomeSteps

\* The service, with its keys, callbacks, sweeps and crashes, does only what
\* MoneyPromise allows.
THEOREM ServiceKeepsPromise == Spec => KeepsPromise
<1>1. Consistent /\ CreditsByState /\ CreditsByState' /\ [Next]_vars =>
        [Promise!Next]_(Promise!vars)
  BY PromiseStep
<1> QED BY <1>1, PromiseInit, CreditOfPaid, Consistency, PTL
        DEF Spec, KeepsPromise, Promise!Spec

-----------------------------------------------------------------------------
(* What the promise is worth                                               *)

Promised == INSTANCE PromiseProofs WITH
  Movement <- Request,
  Ref <- Request,
  Purpose <- Sale,
  status <- [r \in Request |-> StatusOf(r)],
  purpose <- [r \in Request |-> IF Exists(r) THEN SaleOf[payment[r].payload] ELSE None],
  booked <- [r \in Request |-> {e.ref : e \in {c \in ledger : c.id = r}}]

\* What is proved of the promise is true of the service.
LEMMA PromiseApplies ==
  Spec => /\ []Promised!PurposeServedOnce
          /\ []Promised!BooksMatch
<1>1. Promise!Init => Promised!Init
  BY DEF Promise!Init, Promised!Init
<1>2. [Promise!Next]_(Promise!vars) => [Promised!Next]_(Promised!vars)
  BY DEF Promise!vars, Promise!Next, Promise!Open, Promise!Pay, Promise!Close,
         Promised!vars, Promised!Next, Promised!Open, Promised!Pay, Promised!Close
<1>3. KeepsPromise => Promised!Spec
  BY <1>1, <1>2, PTL DEF KeepsPromise, Promise!Spec, Promised!Spec
<1>4. Promised!Spec => []Promised!PurposeServedOnce
  BY Promised!NoPurposeTwice
<1>5. Promised!Spec => []Promised!BooksMatch
  BY Promised!BooksAlwaysMatch
<1> QED BY <1>3, <1>4, <1>5, ServiceKeepsPromise, PTL

\* No sale has two payments that are open or paid, whatever is claimed in callbacks
\* and under whatever keys it is asked for.
THEOREM SaleServedOnce == Spec => []Promise!PurposeServedOnce
<1>1. Promised!PurposeServedOnce => Promise!PurposeServedOnce
  BY DEF Promised!PurposeServedOnce, Promise!PurposeServedOnce, Promised!Live,
         Promise!Live
<1> QED BY <1>1, PromiseApplies, PTL

\* A paid payment has one credit, no other has any, and no reference of the
\* provider is credited to two payments, though callbacks repeat and lie.
THEOREM CreditsBookedOnce == Spec => []Promise!BooksMatch
<1>1. Promised!BooksMatch => Promise!BooksMatch
  BY DEF Promised!BooksMatch, Promise!BooksMatch
<1> QED BY <1>1, PromiseApplies, PTL
=============================================================================
