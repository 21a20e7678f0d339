------------------------------ MODULE PosProofs -------------------------------
(***************************************************************************)
(* What is proved of Pos, for any number of calls, keys, bodies, sales,    *)
(* handlers and sweeps, over any number of days.                           *)
(*                                                                         *)
(* Consistent is inductive for any number of threads of request_payment.   *)
(* While no two such threads work on one sale, Orderly is inductive as     *)
(* well, and from it follows that PAID is final: the run pos_paid_is_final *)
(* shows that two of them are enough to break it.                          *)
(***************************************************************************)
EXTENDS Pos, TLAPS

Present(s) == sale[s].status # "ABSENT"

\* A call that has not inserted its sale finds no sale of its own.
Creators ==
  \A c \in Call :
    /\ creator[c].pc \in {"ready", "inserting"} => ~Present(c)
    /\ creator[c].pc = "inserting" => creator[c].key \in Key

\* A key is on one sale.
OneSalePerKey ==
  \A s, q \in Call, k \in Key : HasKey(s, k) /\ HasKey(q, k) => s = q

\* A call that was answered 2xx names a sale with its key and its body.
Answers ==
  \A c \in Call : creator[c].code \in {"created", "replayed"} =>
    /\ creator[c].key \in Key
    /\ creator[c].sale \in Call
    /\ HasKey(creator[c].sale, creator[c].key)
    /\ sale[creator[c].sale].payload = creator[c].payload

\* What the threads hold of sales and payments.
Requesters ==
  \A r \in Requester :
    /\ requester[r].pc # "idle" =>
         requester[r].sale \in Call /\ Present(requester[r].sale)
    /\ requester[r].pc = "writing" => payment[requester[r].sale] # "absent"
Workers ==
  \A w \in Worker :
    /\ \A s \in worker[w].todo : Present(s)
    /\ worker[w].pc \in {"asking", "checking", "writing"} =>
         worker[w].at \in Call /\ Present(worker[w].at)
    /\ worker[w].pc \in {"checking", "writing"} =>
         /\ payment[worker[w].at] \in {"paid", "closed"}
         /\ worker[w].verdict = TerminalStateMap[payment[worker[w].at]]

\* A sale that was asked for is there.
AskedSales == \A s \in Call : sale[s].asked => Present(s)

Consistent ==
  TypeOK /\ AskedSales /\ Creators /\ OneSalePerKey /\ Answers /\ Requesters /\ Workers
    /\ SaleFollowsPayment

-----------------------------------------------------------------------------
(* Helpers *)

\* A thread that is done with a sale holds on to those it has left.
LEMMA OnwardThread ==
  ASSUME NEW t \in WorkerThread
  PROVE  /\ Onward(t) \in WorkerThread
         /\ Onward(t).pc \in {"idle", "looping"}
         /\ Onward(t).todo = t.todo
BY DEF Onward, WorkerThread, IdleWorker, SaleStatus, Source, Verdict

\* The outcomes a final payment maps to.
LEMMA VerdictOf ==
  ASSUME NEW p \in {"paid", "closed"}
  PROVE  /\ TerminalStateMap[p] \in Verdict
         /\ TerminalStateMap[p] = "PAID" => p = "paid"
         /\ TerminalStateMap[p] = "PAYMENT_FAILED" => p = "closed"
BY DEF TerminalStateMap, Verdict
LEMMA MapDomain == DOMAIN TerminalStateMap = {"paid", "closed"}
BY DEF TerminalStateMap

-----------------------------------------------------------------------------
(* Types *)

LEMMA TypeInit == Init => TypeOK
BY PosAssumption DEF Init, TypeOK, NoSale, NewCall, IdleRequester, IdleWorker,
   Sale, CreatorThread, RequesterThread, WorkerThread, SaleStatus, Source, Verdict

\* create_sale keeps every type.
LEMMA CreatorType ==
  ASSUME TypeOK, NEW c \in Call,
         \/ \E k \in Key, p \in Payload :
              CreateAnswered(c, k, p) \/ CreateChecked(c, k, p)
         \/ CreateInserted(c) \/ CreateBeaten(c) \/ CreateLost(c)
  PROVE  creator' \in [Call -> CreatorThread] /\ sale' \in [Call -> Sale]
<1> USE DEF TypeOK
<1>1. creator[c] \in CreatorThread
  OBVIOUS
<1>2. ASSUME NEW k \in Key, NEW p \in Payload, CreateAnswered(c, k, p)
      PROVE  creator' \in [Call -> CreatorThread] /\ sale' \in [Call -> Sale]
  BY <1>2 DEF CreateAnswered, AnsweredFrom, CreatorThread
<1>3. ASSUME NEW k \in Key, NEW p \in Payload, CreateChecked(c, k, p)
      PROVE  creator' \in [Call -> CreatorThread] /\ sale' \in [Call -> Sale]
  BY <1>3 DEF CreateChecked, CreatorThread, NewCall
<1>4. CASE CreateInserted(c)
  <2>1. today \in 0..LastDay
    BY PosAssumption
  <2>2. [creator[c] EXCEPT !.pc = "done", !.code = "created", !.sale = c]
          \in CreatorThread
    BY <1>1 DEF CreatorThread
  <2>3. creator' \in [Call -> CreatorThread]
    BY <1>4, <2>2 DEF CreateInserted
  <2>4. [status |-> "READY_FOR_PAYMENT", key |-> creator[c].key,
         payload |-> creator[c].payload, asked |-> FALSE, updated |-> today] \in Sale
    BY <1>1, <2>1 DEF CreatorThread, Sale, SaleStatus
  <2> QED BY <1>4, <2>3, <2>4 DEF CreateInserted
<1>5. CASE CreateBeaten(c)
  BY <1>1, <1>5 DEF CreateBeaten, AnsweredFrom, CreatorThread
<1>6. CASE CreateLost(c)
  BY <1>1, <1>6 DEF CreateLost, CreatorThread
<1> QED BY <1>2, <1>3, <1>4, <1>5, <1>6

\* request_payment keeps every type.
LEMMA RequesterType ==
  ASSUME TypeOK, NEW r \in Requester,
         requester[r].pc # "idle" => requester[r].sale \in Call,
         \/ \E s \in Call : RequestRead(r, s)
         \/ RequestAnswered(r) \/ RequestWritten(r) \/ RequestLost(r)
  PROVE  /\ requester' \in [Requester -> RequesterThread]
         /\ sale' \in [Call -> Sale]
         /\ payment' \in [Call -> {"absent", "open", "paid", "closed"}]
<1> USE DEF TypeOK
<1>1. requester[r] \in RequesterThread
  OBVIOUS
<1>2. CASE \E s \in Call : RequestRead(r, s)
  BY <1>2 DEF RequestRead, RequesterThread
<1>3. CASE RequestAnswered(r)
  <2>1. payment' \in [Call -> {"absent", "open", "paid", "closed"}]
    BY <1>3 DEF RequestAnswered, Payments!Open
  <2>2. [requester[r] EXCEPT !.pc = "writing"] \in RequesterThread
    BY <1>1 DEF RequesterThread
  <2> QED BY <1>3, <2>1, <2>2 DEF RequestAnswered
<1>4. CASE RequestWritten(r)
  <2>1. sale[requester[r].sale] \in Sale
    BY <1>4 DEF RequestWritten
  <2>2. sale' \in [Call -> Sale]
    <3> DEFINE x == requester[r].sale
               f == [sale EXCEPT ![x].status = "PAYMENT_REQUESTED"]
               g == [f EXCEPT ![x].asked = TRUE]
    <3>1. x \in Call /\ today \in 0..LastDay
      BY <1>4, PosAssumption DEF RequestWritten
    <3>2. f \in [Call -> Sale]
      BY <2>1, <3>1 DEF Sale, SaleStatus
    <3>3. g \in [Call -> Sale]
      <4> HIDE DEF f
      <4> QED BY <3>1, <3>2 DEF Sale
    <3>4. [g EXCEPT ![x].updated = today] \in [Call -> Sale]
      <4> HIDE DEF g
      <4> QED BY <3>1, <3>3 DEF Sale
    <3> QED BY <1>4, <3>4 DEF RequestWritten
  <2> QED BY <1>4, <2>2 DEF RequestWritten, IdleRequester, RequesterThread
<1>5. CASE RequestLost(r)
  BY <1>5 DEF RequestLost, IdleRequester, RequesterThread
<1> QED BY <1>2, <1>3, <1>4, <1>5

\* Polls, pushed events and sweeps keep every type.
LEMMA WorkerType ==
  ASSUME TypeOK, NEW w \in Worker,
         worker[w].pc # "idle" /\ worker[w].pc # "looping" => worker[w].at \in Call,
         \/ \E s \in Call :
              PollRequested(w, s) \/ EventPushed(w, s) \/ SweepPicked(w, s)
         \/ \E due \in SUBSET Call : SweepListed(w, due)
         \/ PollAnswered(w) \/ PollFailed(w)
         \/ OutcomeChecked(w) \/ OutcomeApplied(w) \/ OutcomeBeaten(w)
         \/ OutcomeRejected(w) \/ WorkerLost(w)
  PROVE  /\ worker' \in [Worker -> WorkerThread]
         /\ sale' \in [Call -> Sale] /\ event' \subseteq Event
<1> USE DEF TypeOK
<1>1. /\ worker[w] \in WorkerThread
      /\ \A s \in Call : sale[s].status \in SaleStatus \cup {"ABSENT"}
  BY DEF Sale
<1>2. IdleWorker \in WorkerThread
  BY DEF IdleWorker, WorkerThread, SaleStatus, Source, Verdict
<1>3. ASSUME NEW s \in Call, PollRequested(w, s)
      PROVE  /\ worker' \in [Worker -> WorkerThread]
             /\ sale' \in [Call -> Sale] /\ event' \subseteq Event
  BY <1>1, <1>3 DEF PollRequested, WorkerThread, IdleWorker, Source, Verdict
<1>4. ASSUME NEW s \in Call, EventPushed(w, s)
      PROVE  /\ worker' \in [Worker -> WorkerThread]
             /\ sale' \in [Call -> Sale] /\ event' \subseteq Event
  BY <1>1, <1>4, VerdictOf, MapDomain
     DEF EventPushed, WorkerThread, IdleWorker, Source
<1>5. ASSUME NEW due \in SUBSET Call, SweepListed(w, due)
      PROVE  /\ worker' \in [Worker -> WorkerThread]
             /\ sale' \in [Call -> Sale] /\ event' \subseteq Event
  BY <1>1, <1>5 DEF SweepListed, WorkerThread, IdleWorker, Source, Verdict
<1>6. ASSUME NEW s \in Call, SweepPicked(w, s)
      PROVE  /\ worker' \in [Worker -> WorkerThread]
             /\ sale' \in [Call -> Sale] /\ event' \subseteq Event
  <2> DEFINE t == worker[w]
             rest == [t EXCEPT !.todo = t.todo \ {s}]
  <2>1. rest \in WorkerThread
    BY <1>1 DEF WorkerThread
  <2>2. [rest EXCEPT !.pc = "asking", !.at = s,
           !.seen = IF t.current THEN sale[s].status ELSE "PAYMENT_REQUESTED"]
          \in WorkerThread
    BY <1>1, <2>1 DEF WorkerThread, SaleStatus
  <2> QED BY <1>6, <2>1, <2>2, OnwardThread DEF SweepPicked
<1>7. CASE PollAnswered(w)
  <2>1. payment[worker[w].at] \in {"paid", "closed"} =>
          [worker[w] EXCEPT !.pc = "checking",
             !.verdict = TerminalStateMap[payment[worker[w].at]]] \in WorkerThread
    BY <1>1, VerdictOf DEF WorkerThread
  <2> QED BY <1>1, <1>7, <2>1, OnwardThread, MapDomain DEF PollAnswered
<1>8. CASE PollFailed(w)
  BY <1>1, <1>8, OnwardThread DEF PollFailed
<1>9. CASE OutcomeChecked(w)
  <2>1. [worker[w] EXCEPT !.pc = "writing"] \in WorkerThread
    BY <1>1 DEF WorkerThread
  <2> QED BY <1>1, <1>9, <2>1, OnwardThread DEF OutcomeChecked
<1>10. CASE OutcomeApplied(w) \/ OutcomeBeaten(w) \/ OutcomeRejected(w)
  <2>1. worker[w].at \in Call
    BY <1>10 DEF OutcomeApplied, OutcomeBeaten, OutcomeRejected
  <2>2. /\ [worker[w] EXCEPT !.current = TRUE] \in WorkerThread
        /\ [worker[w] EXCEPT !.broken = TRUE] \in WorkerThread
    BY <1>1 DEF WorkerThread
  <2>3. worker' \in [Worker -> WorkerThread]
    BY <1>10, <2>2, OnwardThread DEF OutcomeApplied, OutcomeBeaten, OutcomeRejected
  <2>4. ThisEvent(worker[w]) \in Event
    BY <1>1, <2>1 DEF ThisEvent, Event, WorkerThread
  <2>5. event' \subseteq Event
    BY <1>10, <2>4 DEF OutcomeApplied, OutcomeBeaten, OutcomeRejected
  <2>6. sale[worker[w].at] \in Sale /\ worker[w].verdict \in Verdict
    BY <1>1, <2>1 DEF WorkerThread
  <2>7. sale' \in [Call -> Sale]
    BY <1>10, <2>1, <2>6
       DEF OutcomeApplied, OutcomeBeaten, OutcomeRejected, Sale, Verdict, SaleStatus
  <2> QED BY <2>3, <2>5, <2>7
<1>11. CASE WorkerLost(w)
  BY <1>2, <1>11 DEF WorkerLost
<1> QED BY <1>3, <1>4, <1>5, <1>6, <1>7, <1>8, <1>9, <1>10, <1>11

-----------------------------------------------------------------------------
(* What a step does to the sales and to the payments.                      *)

SaleInserted(s) ==
  /\ CreateInserted(s)
  /\ sale'[s] = [status |-> "READY_FOR_PAYMENT", key |-> creator[s].key,
                 payload |-> creator[s].payload, asked |-> FALSE,
                 updated |-> today]
SaleRequested(s) ==
  /\ \E r \in Requester : RequestWritten(r) /\ requester[r].sale = s
  /\ sale'[s].status = "PAYMENT_REQUESTED" /\ sale'[s].asked
  /\ sale'[s].key = sale[s].key /\ sale'[s].payload = sale[s].payload
SaleSettled(s) ==
  /\ \E w \in Worker : OutcomeApplied(w) /\ worker[w].at = s
                         /\ sale'[s].status = worker[w].verdict
  /\ sale'[s].asked = sale[s].asked
  /\ sale'[s].key = sale[s].key /\ sale'[s].payload = sale[s].payload

\* A sale is only touched by the insertion, by an answered request and by an
\* applied outcome.
LEMMA SaleChange ==
  ASSUME Consistent, [Next]_vars, NEW s \in Call
  PROVE  \/ sale'[s] = sale[s] \/ SaleInserted(s)
         \/ SaleRequested(s) \/ SaleSettled(s)
<1> USE DEF Consistent
<1>1. sale \in [Call -> Sale]
  BY DEF TypeOK
<1>2. ASSUME NEW c \in Call, CreateInserted(c)
      PROVE  sale'[s] = sale[s] \/ SaleInserted(s)
  BY <1>1, <1>2 DEF CreateInserted, SaleInserted
<1>3. ASSUME NEW r \in Requester, RequestWritten(r)
      PROVE  sale'[s] = sale[s] \/ SaleRequested(s)
  <2>1. CASE requester[r].sale = s
    <3>1. /\ sale'[s].status = "PAYMENT_REQUESTED" /\ sale'[s].asked
          /\ sale'[s].key = sale[s].key /\ sale'[s].payload = sale[s].payload
      BY <1>1, <1>3, <2>1 DEF RequestWritten, Sale
    <3> QED BY <1>3, <2>1, <3>1 DEF SaleRequested
  <2>2. CASE requester[r].sale # s
    BY <1>1, <1>3, <2>2 DEF RequestWritten
  <2> QED BY <2>1, <2>2
<1>4. ASSUME NEW w \in Worker, OutcomeApplied(w)
      PROVE  sale'[s] = sale[s] \/ SaleSettled(s)
  <2>1. CASE worker[w].at = s
    <3>1. /\ sale'[s].status = worker[w].verdict /\ sale'[s].asked = sale[s].asked
          /\ sale'[s].key = sale[s].key /\ sale'[s].payload = sale[s].payload
      BY <1>1, <1>4, <2>1 DEF OutcomeApplied, Sale
    <3> QED BY <1>4, <2>1, <3>1 DEF SaleSettled
  <2>2. CASE worker[w].at # s
    BY <1>1, <1>4, <2>2 DEF OutcomeApplied
  <2> QED BY <2>1, <2>2
<1>5. CASE UNCHANGED sale
  BY <1>5
<1> QED
  BY <1>2, <1>3, <1>4, <1>5
     DEF Next, vars, CreateAnswered, CreateChecked, CreateBeaten, CreateLost,
         RequestRead, RequestAnswered, RequestLost, PollRequested, EventPushed,
         SweepListed, SweepPicked, PollAnswered, PollFailed, OutcomeChecked,
         OutcomeBeaten, OutcomeRejected, WorkerLost, PaymentSettled, DayPasses

\* A sale that is there stays, with its key and its body.
LEMMA SaleStays ==
  ASSUME Consistent, [Next]_vars, NEW s \in Call, Present(s)
  PROVE  /\ sale'[s].status # "ABSENT"
         /\ sale'[s].key = sale[s].key /\ sale'[s].payload = sale[s].payload
<1>1. ~SaleInserted(s)
  BY DEF SaleInserted, CreateInserted, Consistent, Creators
<1>2. SaleSettled(s) => sale'[s].status # "ABSENT"
  BY DEF SaleSettled, Consistent, TypeOK, WorkerThread, Verdict
<1> QED BY <1>1, <1>2, SaleChange DEF SaleSettled, SaleRequested, Present

\* A payment goes from absent to open to its end, and stays there.
LEMMA PaymentChange ==
  ASSUME Consistent, [Next]_vars, NEW s \in Call
  PROVE  /\ payment[s] # "absent" => payment'[s] # "absent"
         /\ payment[s] \in {"paid", "closed"} => payment'[s] = payment[s]
<1> USE DEF Consistent
<1>1. payment \in [Call -> {"absent", "open", "paid", "closed"}]
  BY DEF TypeOK
<1>2. ASSUME NEW r \in Requester, RequestAnswered(r)
      PROVE  /\ payment[s] # "absent" => payment'[s] # "absent"
             /\ payment[s] \in {"paid", "closed"} => payment'[s] = payment[s]
  BY <1>1, <1>2 DEF RequestAnswered, Payments!Open
<1>3. ASSUME NEW q \in Call, PaymentSettled(q)
      PROVE  /\ payment[s] # "absent" => payment'[s] # "absent"
             /\ payment[s] \in {"paid", "closed"} => payment'[s] = payment[s]
  BY <1>1, <1>3 DEF PaymentSettled, Payments!Pay, Payments!Close
<1>4. CASE UNCHANGED payment
  BY <1>4
<1> QED
  BY <1>2, <1>3, <1>4
     DEF Next, vars, CreateAnswered, CreateChecked, CreateInserted, CreateBeaten,
         CreateLost, RequestRead, RequestWritten, RequestLost, PollRequested,
         EventPushed, SweepListed, SweepPicked, PollAnswered, PollFailed,
         OutcomeChecked, OutcomeApplied, OutcomeBeaten, OutcomeRejected,
         WorkerLost, DayPasses

-----------------------------------------------------------------------------
(* Each part of Consistent is kept by every step.                          *)

LEMMA NextTypes ==
  ASSUME Consistent, [Next]_vars
  PROVE  TypeOK'
<1> USE DEF Consistent
<1>1. CASE UNCHANGED vars
  BY <1>1 DEF TypeOK, vars
<1>2. ASSUME NEW c \in Call,
             \/ \E k \in Key, p \in Payload :
                  CreateAnswered(c, k, p) \/ CreateChecked(c, k, p)
             \/ CreateInserted(c) \/ CreateBeaten(c) \/ CreateLost(c)
      PROVE  TypeOK'
  <2>1. UNCHANGED <<event, requester, worker, payment, today>>
    BY <1>2 DEF CreateAnswered, CreateChecked, CreateInserted, CreateBeaten,
                CreateLost
  <2> QED BY <1>2, <2>1, CreatorType DEF TypeOK
<1>3. ASSUME NEW r \in Requester,
             \/ \E s \in Call : RequestRead(r, s)
             \/ RequestAnswered(r) \/ RequestWritten(r) \/ RequestLost(r)
      PROVE  TypeOK'
  <2>1. UNCHANGED <<event, creator, worker, today>>
    BY <1>3 DEF RequestRead, RequestAnswered, RequestWritten, RequestLost
  <2> QED BY <1>3, <2>1, RequesterType DEF TypeOK, Requesters
<1>4. ASSUME NEW w \in Worker,
             \/ \E s \in Call :
                  PollRequested(w, s) \/ EventPushed(w, s) \/ SweepPicked(w, s)
             \/ \E due \in SUBSET Call : SweepListed(w, due)
             \/ PollAnswered(w) \/ PollFailed(w)
             \/ OutcomeChecked(w) \/ OutcomeApplied(w) \/ OutcomeBeaten(w)
             \/ OutcomeRejected(w) \/ WorkerLost(w)
      PROVE  TypeOK'
  <2>1. UNCHANGED <<creator, requester, payment, today>>
    BY <1>4 DEF PollRequested, EventPushed, SweepListed, SweepPicked,
                PollAnswered, PollFailed, OutcomeChecked, OutcomeApplied,
                OutcomeBeaten, OutcomeRejected, WorkerLost
  <2>2. worker[w].pc # "idle" /\ worker[w].pc # "looping" => worker[w].at \in Call
    BY DEF Workers, TypeOK, WorkerThread
  <2> QED BY <1>4, <2>1, <2>2, WorkerType DEF TypeOK
<1>5. ASSUME NEW s \in Call, PaymentSettled(s)
      PROVE  TypeOK'
  BY <1>5 DEF PaymentSettled, Payments!Pay, Payments!Close, TypeOK
<1>6. CASE DayPasses
  BY <1>6, PosAssumption DEF DayPasses, TypeOK
<1> QED
  BY <1>1, <1>2, <1>3, <1>4, <1>5, <1>6 DEF Next, Worker

\* A thread of create_sale changes by its own steps only.
CreatorStep(c) ==
  \/ \E k \in Key, p \in Payload : CreateAnswered(c, k, p) \/ CreateChecked(c, k, p)
  \/ CreateInserted(c) \/ CreateBeaten(c) \/ CreateLost(c)

LEMMA CreatorChange ==
  ASSUME Consistent, [Next]_vars, NEW c \in Call
  PROVE  creator'[c] = creator[c] \/ CreatorStep(c)
<1>1. creator \in [Call -> CreatorThread]
  BY DEF Consistent, TypeOK
<1>2. ASSUME NEW d \in Call, CreatorStep(d)
      PROVE  creator'[c] = creator[c] \/ CreatorStep(c)
  BY <1>1, <1>2 DEF CreatorStep, CreateAnswered, CreateChecked, CreateInserted,
                    CreateBeaten, CreateLost
<1>3. CASE UNCHANGED creator
  BY <1>3
<1> QED
  BY <1>2, <1>3
     DEF Next, vars, CreatorStep, RequestRead, RequestAnswered, RequestWritten,
         RequestLost, PollRequested, EventPushed, SweepListed, SweepPicked,
         PollAnswered, PollFailed, OutcomeChecked, OutcomeApplied, OutcomeBeaten,
         OutcomeRejected, WorkerLost, PaymentSettled, DayPasses

LEMMA NextCreators ==
  ASSUME Consistent, [Next]_vars
  PROVE  Creators'
<1> SUFFICES ASSUME NEW c \in Call, creator'[c].pc \in {"ready", "inserting"}
             PROVE  /\ sale'[c].status = "ABSENT"
                    /\ creator'[c].pc = "inserting" => creator'[c].key \in Key
  BY DEF Creators, Present
<1>1. creator \in [Call -> CreatorThread] /\ sale \in [Call -> Sale]
  BY DEF Consistent, TypeOK
<1>2. /\ creator[c].pc \in {"ready", "inserting"}
      /\ creator'[c].pc = "inserting" => creator'[c].key \in Key
      /\ ~CreateInserted(c)
  <2>1. CASE creator'[c] = creator[c]
    BY <1>1, <2>1 DEF CreateInserted, Consistent, Creators, CreatorThread
  <2>2. ~CreateInserted(c)
    BY <1>1 DEF CreateInserted, CreatorThread
  <2>3. ~CreateBeaten(c) /\ ~CreateLost(c)
    BY <1>1 DEF CreateBeaten, CreateLost, AnsweredFrom, CreatorThread
  <2>4. ASSUME NEW k \in Key, NEW p \in Payload,
               CreateAnswered(c, k, p) \/ CreateChecked(c, k, p)
        PROVE  /\ creator[c].pc = "ready"
               /\ creator'[c].pc = "inserting" => creator'[c].key \in Key
    <3>1. CASE CreateAnswered(c, k, p)
      BY <1>1, <3>1 DEF CreateAnswered, AnsweredFrom
    <3>2. CASE CreateChecked(c, k, p)
      <4> DEFINE new == [NewCall EXCEPT !.pc = "inserting", !.key = k, !.payload = p]
                 bad == [NewCall EXCEPT !.pc = "done", !.code = "invalid", !.key = k,
                                        !.payload = p]
      <4>1. creator'[c] = new \/ creator'[c] = bad
        BY <1>1, <3>2 DEF CreateChecked
      <4>2. new.key = k /\ bad.pc = "done"
        BY DEF NewCall
      <4> HIDE DEF new, bad
      <4> QED BY <3>2, <4>1, <4>2 DEF CreateChecked
    <3> QED BY <2>4, <3>1, <3>2
  <2> QED BY <2>1, <2>2, <2>3, <2>4, CreatorChange DEF CreatorStep
<1>3. ~Present(c)
  BY <1>2 DEF Consistent, Creators
<1>4. sale'[c] = sale[c]
  <2>1. ~SaleRequested(c) /\ ~SaleSettled(c)
    BY <1>3 DEF SaleRequested, SaleSettled, RequestWritten, OutcomeApplied,
                Consistent, Requesters, Workers
  <2> QED BY <1>2, <2>1, SaleChange DEF SaleInserted
<1> QED BY <1>2, <1>3, <1>4 DEF Present

LEMMA NextOneSalePerKey ==
  ASSUME Consistent, [Next]_vars
  PROVE  OneSalePerKey'
<1> SUFFICES ASSUME NEW s \in Call, NEW q \in Call, NEW k \in Key,
                    HasKey(s, k)', HasKey(q, k)'
             PROVE  s = q
  BY DEF OneSalePerKey
<1>1. ASSUME NEW x \in Call, HasKey(x, k)'
      PROVE  HasKey(x, k) \/ (CreateInserted(x) /\ ~KeyTaken(k))
  <2>1. CASE SaleInserted(x)
    BY <1>1, <2>1 DEF SaleInserted, CreateInserted, HasKey
  <2>2. CASE ~SaleInserted(x)
    <3>1. SaleRequested(x) \/ SaleSettled(x) => Present(x)
      BY DEF SaleRequested, SaleSettled, RequestWritten, OutcomeApplied,
             Consistent, Requesters, Workers
    <3> QED BY <1>1, <2>2, <3>1, SaleChange
            DEF HasKey, Present, SaleRequested, SaleSettled
  <2> QED BY <2>1, <2>2
<1>2. HasKey(s, k) \/ HasKey(q, k) => KeyTaken(k)
  BY DEF KeyTaken
<1>3. CreateInserted(s) /\ CreateInserted(q) => s = q
  <2>1. creator \in [Call -> CreatorThread]
    BY DEF Consistent, TypeOK
  <2>2. CreateInserted(s) => creator'[s].pc = "done"
    BY <2>1 DEF CreateInserted, CreatorThread
  <2>3. CreateInserted(q) /\ s # q => creator'[s] = creator[s]
    BY <2>1 DEF CreateInserted
  <2> QED BY <2>2, <2>3 DEF CreateInserted
<1> QED BY <1>1, <1>2, <1>3 DEF Consistent, OneSalePerKey

LEMMA NextAnswers ==
  ASSUME Consistent, [Next]_vars
  PROVE  Answers'
<1> DEFINE Named(t) == /\ t.key \in Key /\ t.sale \in Call
                       /\ sale[t.sale].status # "ABSENT"
                       /\ sale[t.sale].key = t.key
                       /\ sale[t.sale].payload = t.payload
           Good(t) == t.code \in {"created", "replayed"}
<1> SUFFICES ASSUME NEW c \in Call, Good(creator'[c])
             PROVE  /\ creator'[c].key \in Key /\ creator'[c].sale \in Call
                    /\ sale'[creator'[c].sale].status # "ABSENT"
                    /\ sale'[creator'[c].sale].key = creator'[c].key
                    /\ sale'[creator'[c].sale].payload = creator'[c].payload
  BY DEF Answers, HasKey
<1>1. /\ creator \in [Call -> CreatorThread] /\ creator[c] \in CreatorThread
      /\ sale \in [Call -> Sale]
  BY DEF Consistent, TypeOK
<1>2. Good(creator[c]) => Named(creator[c])
  BY DEF Consistent, Answers, HasKey
<1>3. creator[c].pc = "inserting" => creator[c].key \in Key
  BY DEF Consistent, Creators
<1>4. ASSUME NEW s \in Call, NEW k \in Key, NEW p, HasKey(s, k),
             Good(AnsweredFrom(s, k, p))
      PROVE  Named(AnsweredFrom(s, k, p))
  BY <1>4 DEF HasKey, AnsweredFrom
<1>5. CASE CreateInserted(c)
  <2> DEFINE row == [status |-> "READY_FOR_PAYMENT", key |-> creator[c].key,
                     payload |-> creator[c].payload, asked |-> FALSE,
                     updated |-> today]
  <2>1. sale'[c] = row
    BY <1>1, <1>5 DEF CreateInserted
  <2>2. /\ creator'[c].sale = c /\ creator'[c].key = creator[c].key
        /\ creator'[c].payload = creator[c].payload
    BY <1>1, <1>5 DEF CreateInserted, CreatorThread
  <2>3. creator[c].pc = "inserting"
    BY <1>5 DEF CreateInserted
  <2> QED BY <1>3, <2>1, <2>2, <2>3
<1>6. CASE ~CreateInserted(c)
  <2>1. Named(creator'[c])
    <3>1. CASE creator'[c] = creator[c]
      BY <1>2, <3>1
    <3>2. ASSUME NEW k \in Key, NEW p \in Payload, CreateAnswered(c, k, p)
          PROVE  Named(creator'[c])
      <4>1. PICK s \in Call : HasKey(s, k) /\ creator'[c] = AnsweredFrom(s, k, p)
        BY <1>1, <3>2 DEF CreateAnswered
      <4> HIDE DEF Named, Good
      <4> QED BY <1>4, <4>1
    <3>3. ASSUME NEW k \in Key, NEW p \in Payload, CreateChecked(c, k, p)
          PROVE  FALSE
      <4> DEFINE new == [NewCall EXCEPT !.pc = "inserting", !.key = k, !.payload = p]
                 bad == [NewCall EXCEPT !.pc = "done", !.code = "invalid", !.key = k,
                                        !.payload = p]
      <4>1. creator'[c] = new \/ creator'[c] = bad
        BY <1>1, <3>3 DEF CreateChecked
      <4>2. new.code = "none" /\ bad.code = "invalid"
        BY DEF NewCall
      <4> HIDE DEF new, bad
      <4> QED BY <4>1, <4>2
    <3>4. CASE CreateBeaten(c)
      <4>1. PICK s \in Call :
              /\ HasKey(s, creator[c].key)
              /\ creator'[c] = AnsweredFrom(s, creator[c].key, creator[c].payload)
        BY <1>1, <3>4 DEF CreateBeaten
      <4>2. creator[c].key \in Key
        BY <1>3, <3>4 DEF CreateBeaten
      <4> HIDE DEF Named, Good
      <4> QED BY <1>4, <4>1, <4>2
    <3>5. CASE CreateLost(c)
      <4>1. creator'[c] = [creator[c] EXCEPT !.pc = "lost"]
        BY <1>1, <3>5 DEF CreateLost
      <4> QED BY <1>1, <1>2, <4>1 DEF CreatorThread
    <3> QED BY <1>6, <3>1, <3>2, <3>3, <3>4, <3>5, CreatorChange DEF CreatorStep
  <2> QED BY <2>1, SaleStays DEF Present
<1> QED BY <1>5, <1>6

\* A thread of request_payment changes by its own steps only.
RequesterStep(r) ==
  \/ \E s \in Call : RequestRead(r, s)
  \/ RequestAnswered(r) \/ RequestWritten(r) \/ RequestLost(r)

LEMMA RequesterChange ==
  ASSUME Consistent, [Next]_vars, NEW r \in Requester
  PROVE  requester'[r] = requester[r] \/ RequesterStep(r)
<1>1. requester \in [Requester -> RequesterThread]
  BY DEF Consistent, TypeOK
<1>2. ASSUME NEW q \in Requester, RequesterStep(q)
      PROVE  requester'[r] = requester[r] \/ RequesterStep(r)
  <2>1. CASE q = r
    BY <1>2, <2>1
  <2>2. CASE q # r
    BY <1>1, <1>2, <2>2 DEF RequesterStep, RequestRead, RequestAnswered,
                            RequestWritten, RequestLost
  <2> QED BY <2>1, <2>2
<1>3. CASE UNCHANGED requester
  BY <1>3
<1> QED
  BY <1>2, <1>3
     DEF Next, vars, RequesterStep, CreateAnswered, CreateChecked, CreateInserted,
         CreateBeaten, CreateLost, PollRequested, EventPushed, SweepListed,
         SweepPicked, PollAnswered, PollFailed, OutcomeChecked, OutcomeApplied,
         OutcomeBeaten, OutcomeRejected, WorkerLost, PaymentSettled, DayPasses

LEMMA NextRequesters ==
  ASSUME Consistent, [Next]_vars
  PROVE  Requesters'
<1> SUFFICES ASSUME NEW r \in Requester
             PROVE  /\ requester'[r].pc # "idle" =>
                         /\ requester'[r].sale \in Call
                         /\ sale'[requester'[r].sale].status # "ABSENT"
                    /\ requester'[r].pc = "writing" =>
                         payment'[requester'[r].sale] # "absent"
  BY DEF Requesters, Present
<1>1. /\ requester \in [Requester -> RequesterThread]
      /\ requester[r] \in RequesterThread
      /\ payment \in [Call -> {"absent", "open", "paid", "closed"}]
  BY DEF Consistent, TypeOK
<1>2. /\ requester[r].pc # "idle" =>
           requester[r].sale \in Call /\ Present(requester[r].sale)
      /\ requester[r].pc = "writing" => payment[requester[r].sale] # "absent"
  BY DEF Consistent, Requesters
<1>3. /\ requester'[r].pc # "idle" =>
           requester'[r].sale \in Call /\ Present(requester'[r].sale)
      /\ requester'[r].pc = "writing" =>
           \/ payment[requester'[r].sale] # "absent"
           \/ payment'[requester'[r].sale] # "absent"
  <2>1. CASE requester'[r] = requester[r]
    BY <1>2, <2>1
  <2>2. ASSUME NEW s \in Call, RequestRead(r, s)
        PROVE  /\ requester'[r].pc = "calling" /\ requester'[r].sale = s
               /\ Present(s)
    BY <1>1, <2>2 DEF RequestRead, Requestable, Present, SaleStatus
  <2>3. CASE RequestAnswered(r)
    <3>1. requester'[r] = [requester[r] EXCEPT !.pc = "writing"]
      BY <1>1, <2>3 DEF RequestAnswered
    <3>2. requester'[r].sale = requester[r].sale /\ requester[r].pc = "calling"
      BY <1>1, <2>3, <3>1 DEF RequestAnswered, RequesterThread
    <3>3. payment'[requester[r].sale] # "absent"
      BY <1>1, <1>2, <2>3, <3>2 DEF RequestAnswered, Payments!Open
    <3> QED BY <1>2, <3>2, <3>3
  <2>4. CASE RequestWritten(r) \/ RequestLost(r)
    BY <1>1, <2>4 DEF RequestWritten, RequestLost, IdleRequester
  <2> QED BY <2>1, <2>2, <2>3, <2>4, RequesterChange DEF RequesterStep
<1> QED BY <1>3, SaleStays, PaymentChange

\* A handler or a sweep changes by its own steps only.
WorkerStep(w) ==
  \/ \E s \in Call : PollRequested(w, s) \/ EventPushed(w, s) \/ SweepPicked(w, s)
  \/ \E due \in SUBSET Call : SweepListed(w, due)
  \/ PollAnswered(w) \/ PollFailed(w) \/ OutcomeChecked(w)
  \/ OutcomeApplied(w) \/ OutcomeBeaten(w) \/ OutcomeRejected(w) \/ WorkerLost(w)

LEMMA WorkerChange ==
  ASSUME Consistent, [Next]_vars, NEW w \in Worker
  PROVE  worker'[w] = worker[w] \/ WorkerStep(w)
<1>1. worker \in [Worker -> WorkerThread]
  BY DEF Consistent, TypeOK
<1>2. ASSUME NEW v \in Worker, WorkerStep(v)
      PROVE  worker'[w] = worker[w] \/ WorkerStep(w)
  <2>1. CASE v = w
    BY <1>2, <2>1
  <2>2. CASE v # w
    BY <1>1, <1>2, <2>2
       DEF WorkerStep, PollRequested, EventPushed, SweepListed, SweepPicked,
           PollAnswered, PollFailed, OutcomeChecked, OutcomeApplied,
           OutcomeBeaten, OutcomeRejected, WorkerLost
  <2> QED BY <2>1, <2>2
<1>3. CASE UNCHANGED worker
  BY <1>3
<1> QED
  BY <1>2, <1>3
     DEF Next, vars, Worker, WorkerStep, CreateAnswered, CreateChecked,
         CreateInserted, CreateBeaten, CreateLost, RequestRead, RequestAnswered,
         RequestWritten, RequestLost, PaymentSettled, DayPasses

\* What a handler or a sweep holds is true of the sales and the payments.
Holds(t) ==
  /\ \A s \in t.todo : s \in Call /\ Present(s)
  /\ t.pc \in {"asking", "checking", "writing"} => t.at \in Call /\ Present(t.at)
  /\ t.pc \in {"checking", "writing"} =>
       /\ payment[t.at] \in {"paid", "closed"}
       /\ t.verdict = TerminalStateMap[payment[t.at]]

LEMMA NextHolds ==
  ASSUME Consistent, NEW w \in Worker, WorkerStep(w)
  PROVE  Holds(worker'[w])
<1>1. /\ worker \in [Worker -> WorkerThread] /\ worker[w] \in WorkerThread
      /\ payment \in [Call -> {"absent", "open", "paid", "closed"}]
  BY DEF Consistent, TypeOK
<1>2. Holds(worker[w])
  BY <1>1 DEF Consistent, Workers, Holds, WorkerThread
<1>3. Holds(IdleWorker)
  BY DEF Holds, IdleWorker
<1>4. ASSUME NEW t \in WorkerThread, \A s \in t.todo : Present(s)
      PROVE  Holds(Onward(t))
  BY <1>4, OnwardThread DEF Holds, WorkerThread
<1>5. ASSUME NEW s \in Call, PollRequested(w, s)
      PROVE  Holds(worker'[w])
  <2>1. Present(s)
    BY <1>5 DEF PollRequested, Consistent, AskedSales
  <2> QED BY <1>1, <1>5, <2>1 DEF PollRequested, Holds, IdleWorker
<1>6. ASSUME NEW s \in Call, EventPushed(w, s)
      PROVE  Holds(worker'[w])
  BY <1>1, <1>6, MapDomain DEF EventPushed, Holds, IdleWorker, Present
<1>7. ASSUME NEW s \in Call, SweepPicked(w, s)
      PROVE  Holds(worker'[w])
  <2> DEFINE t == worker[w]
             rest == [t EXCEPT !.todo = t.todo \ {s}]
             seen == IF t.current THEN sale[s].status ELSE "PAYMENT_REQUESTED"
             next == [rest EXCEPT !.pc = "asking", !.at = s, !.seen = seen]
  <2>1. rest \in WorkerThread /\ rest.todo \subseteq t.todo
    BY <1>1 DEF WorkerThread
  <2>2. next.pc = "asking" /\ next.at = s /\ next.todo = rest.todo
    <3> HIDE DEF seen, rest
    <3> QED BY <2>1 DEF WorkerThread
  <2>3. s \in t.todo /\ (worker'[w] = Onward(rest) \/ worker'[w] = next)
    BY <1>1, <1>7 DEF SweepPicked
  <2> HIDE DEF next, rest, t
  <2>4. \A x \in t.todo : x \in Call /\ Present(x)
    BY <1>2 DEF Holds, t
  <2> QED BY <1>4, <2>1, <2>2, <2>3, <2>4 DEF Holds
<1>8. ASSUME NEW due \in SUBSET Call, SweepListed(w, due)
      PROVE  Holds(worker'[w])
  BY <1>1, <1>8 DEF SweepListed, Waiting, Holds, IdleWorker, Present
<1>9. CASE PollAnswered(w)
  <2> DEFINE t == worker[w]
             next == [t EXCEPT !.pc = "checking",
                               !.verdict = TerminalStateMap[payment[t.at]]]
  <2>1. /\ t.pc = "asking"
        /\ \/ worker'[w] = Onward(t)
           \/ worker'[w] = next /\ payment[t.at] \in {"paid", "closed"}
    BY <1>1, <1>9, MapDomain DEF PollAnswered
  <2>2. /\ next.todo = t.todo /\ next.at = t.at /\ next.pc = "checking"
        /\ next.verdict = TerminalStateMap[payment[t.at]]
    BY <1>1 DEF WorkerThread
  <2> HIDE DEF next
  <2> QED BY <1>1, <1>2, <1>4, <2>1, <2>2 DEF Holds
<1>10. CASE PollFailed(w)
  BY <1>1, <1>2, <1>4, <1>10 DEF PollFailed, Holds
<1>11. CASE OutcomeChecked(w)
  <2> DEFINE next == [worker[w] EXCEPT !.pc = "writing"]
  <2>1. /\ worker[w].pc = "checking"
        /\ worker'[w] = Onward(worker[w]) \/ worker'[w] = next
    BY <1>1, <1>11 DEF OutcomeChecked
  <2>2. /\ next.todo = worker[w].todo /\ next.at = worker[w].at
        /\ next.verdict = worker[w].verdict /\ next.pc = "writing"
    BY <1>1 DEF WorkerThread
  <2> HIDE DEF next
  <2> QED BY <1>1, <1>2, <1>4, <2>1, <2>2 DEF Holds
<1>12. CASE OutcomeApplied(w) \/ OutcomeBeaten(w) \/ OutcomeRejected(w)
  <2> DEFINE on == [worker[w] EXCEPT !.current = TRUE]
             off == [worker[w] EXCEPT !.broken = TRUE]
  <2>1. worker'[w] = Onward(on) \/ worker'[w] = Onward(off)
    BY <1>1, <1>12 DEF OutcomeApplied, OutcomeBeaten, OutcomeRejected
  <2>2. /\ on \in WorkerThread /\ on.todo = worker[w].todo
        /\ off \in WorkerThread /\ off.todo = worker[w].todo
    BY <1>1 DEF WorkerThread
  <2> HIDE DEF on, off
  <2> QED BY <1>2, <1>4, <2>1, <2>2 DEF Holds
<1>13. CASE WorkerLost(w)
  BY <1>1, <1>3, <1>13 DEF WorkerLost
<1> QED BY <1>5, <1>6, <1>7, <1>8, <1>9, <1>10, <1>11, <1>12, <1>13 DEF WorkerStep

LEMMA NextWorkers ==
  ASSUME Consistent, [Next]_vars
  PROVE  Workers'
<1> SUFFICES ASSUME NEW w \in Worker
             PROVE
    /\ \A s \in worker'[w].todo : sale'[s].status # "ABSENT"
    /\ worker'[w].pc \in {"asking", "checking", "writing"} =>
         worker'[w].at \in Call /\ sale'[worker'[w].at].status # "ABSENT"
    /\ worker'[w].pc \in {"checking", "writing"} =>
         /\ payment'[worker'[w].at] \in {"paid", "closed"}
         /\ worker'[w].verdict = TerminalStateMap[payment'[worker'[w].at]]
  BY DEF Workers, Present
<1>1. Holds(worker'[w])
  <2>1. Holds(worker[w])
    BY DEF Consistent, TypeOK, Workers, Holds, WorkerThread
  <2> QED BY <2>1, NextHolds, WorkerChange
<1> QED BY <1>1, SaleStays, PaymentChange DEF Holds

LEMMA NextAskedSales ==
  ASSUME Consistent, [Next]_vars
  PROVE  AskedSales'
<1> SUFFICES ASSUME NEW s \in Call, sale'[s].asked
             PROVE  sale'[s].status # "ABSENT"
  BY DEF AskedSales, Present
<1>1. CASE sale'[s] = sale[s]
  BY <1>1 DEF Consistent, AskedSales, Present
<1>2. CASE SaleInserted(s)
  BY <1>2 DEF SaleInserted
<1>3. CASE SaleRequested(s)
  BY <1>3 DEF SaleRequested
<1>4. CASE SaleSettled(s)
  BY <1>4, SaleStays DEF SaleSettled, Consistent, AskedSales
<1> QED BY <1>1, <1>2, <1>3, <1>4, SaleChange

LEMMA NextFollows ==
  ASSUME Consistent, [Next]_vars
  PROVE  SaleFollowsPayment'
<1> SUFFICES ASSUME NEW s \in Call
             PROVE  /\ sale'[s].status = "PAID" => payment'[s] = "paid"
                    /\ sale'[s].status = "PAYMENT_FAILED" => payment'[s] = "closed"
                    /\ sale'[s].asked => payment'[s] # "absent"
  BY DEF SaleFollowsPayment
<1>1. /\ sale[s].status = "PAID" => payment[s] = "paid"
      /\ sale[s].status = "PAYMENT_FAILED" => payment[s] = "closed"
      /\ sale[s].asked => payment[s] # "absent"
  BY DEF Consistent, SaleFollowsPayment
<1>2. CASE sale'[s] = sale[s]
  BY <1>1, <1>2, PaymentChange
<1>3. CASE SaleInserted(s)
  BY <1>3 DEF SaleInserted
<1>4. CASE SaleRequested(s)
  BY <1>4, PaymentChange DEF SaleRequested, RequestWritten, Consistent, Requesters
<1>5. CASE SaleSettled(s)
  <2>1. PICK w \in Worker : OutcomeApplied(w) /\ worker[w].at = s
                               /\ sale'[s].status = worker[w].verdict
    BY <1>5 DEF SaleSettled
  <2>2. /\ payment[s] \in {"paid", "closed"}
        /\ worker[w].verdict = TerminalStateMap[payment[s]]
    BY <2>1 DEF OutcomeApplied, Consistent, Workers
  <2> QED BY <1>1, <1>5, <2>1, <2>2, VerdictOf, PaymentChange DEF SaleSettled
<1> QED BY <1>2, <1>3, <1>4, <1>5, SaleChange

-----------------------------------------------------------------------------
(* Theorems, for any number of threads                                     *)

LEMMA ConsistentInit == Init => Consistent
<1> SUFFICES ASSUME Init PROVE Consistent
  OBVIOUS
<1>1. TypeOK
  BY TypeInit
<1>2. /\ \A s \in Call : sale[s] = NoSale
      /\ \A c \in Call : creator[c] = NewCall
      /\ \A r \in Requester : requester[r] = IdleRequester
      /\ \A w \in Worker : worker[w] = IdleWorker
  BY DEF Init
<1> QED
  BY <1>1, <1>2
     DEF Consistent, AskedSales, Creators, OneSalePerKey, Answers, Requesters,
         Workers, SaleFollowsPayment, HasKey, Present, NoSale, NewCall,
         IdleRequester, IdleWorker

LEMMA Consistency == Spec => []Consistent
<1>1. Consistent /\ [Next]_vars => Consistent'
  BY NextTypes, NextAskedSales, NextCreators, NextOneSalePerKey, NextAnswers,
     NextRequesters, NextWorkers, NextFollows DEF Consistent
<1> QED BY <1>1, ConsistentInit, PTL DEF Spec

\* Every variable keeps its type.
THEOREM PosTypesCorrect == Spec => []TypeOK
<1>1. Consistent => TypeOK
  BY DEF Consistent
<1> QED BY <1>1, Consistency, PTL

\* create_sale's answers: every 2xx answer for a key names the one sale with
\* that key, and its body is the one the caller sent.
THEOREM OneSaleIsNamed == Spec => []RepliesNameOneSale
<1>1. Consistent => RepliesNameOneSale
  BY DEF Consistent, Answers, OneSalePerKey, RepliesNameOneSale
<1> QED BY <1>1, Consistency, PTL

\* POS never believes more than Payments says.
THEOREM SalesFollowPayments == Spec => []SaleFollowsPayment
<1>1. Consistent => SaleFollowsPayment
  BY DEF Consistent
<1> QED BY <1>1, Consistency, PTL

-----------------------------------------------------------------------------
(* While no two threads of request_payment work on one sale                *)

OneAtATime ==
  \A r, q \in Requester :
    (requester[r].pc # "idle" /\ requester[q].pc # "idle"
       /\ requester[r].sale = requester[q].sale) => r = q

\* A sale is asked for while it is ready or has failed, and not otherwise.
AskedInTime ==
  \A r \in Requester : requester[r].pc # "idle" =>
    sale[requester[r].sale].status \in {"READY_FOR_PAYMENT", "PAYMENT_FAILED"}

\* What a session remembers of its sales: one that waited when it was read has
\* been asked for, and one that is polled had been asked for, and had failed
\* or was paid only if its payment had come to that end.
Remembers(t) ==
  /\ \A s \in t.todo : sale[s].status # "READY_FOR_PAYMENT"
  /\ t.pc \in {"asking", "checking", "writing"} =>
       /\ t.seen = "PAYMENT_REQUESTED" => sale[t.at].status # "READY_FOR_PAYMENT"
       /\ t.source = "polled" =>
            /\ sale[t.at].status # "READY_FOR_PAYMENT"
            /\ t.seen \in {"PAYMENT_REQUESTED", "PAYMENT_FAILED", "PAID"}
            /\ t.seen = "PAYMENT_FAILED" => payment[t.at] = "closed"
            /\ t.seen = "PAID" => sale[t.at].status = "PAID"
WorkersRemember == \A w \in Worker : Remembers(worker[w])

\* What the sales and the recorded events say of one another.
Polled(s) == [sale |-> s, source |-> "polled"] \in event
Pushed(s) == [sale |-> s, source |-> "pushed"] \in event
Recorded ==
  \A s \in Call :
    /\ sale[s].status # "VOID"
    /\ sale[s].asked => sale[s].status # "READY_FOR_PAYMENT"
    /\ Polled(s) => Present(s) /\ sale[s].status # "READY_FOR_PAYMENT"
    /\ sale[s].status = "PAID" => Polled(s) \/ Pushed(s)

Orderly ==
  Consistent /\ AskedInTime /\ WorkersRemember /\ Recorded /\ OnlyARetryIsStuck

LEMMA OrderlyInit == Init => Orderly
<1> SUFFICES ASSUME Init PROVE Orderly
  OBVIOUS
<1>1. /\ \A s \in Call : sale[s] = NoSale
      /\ \A r \in Requester : requester[r] = IdleRequester
      /\ \A w \in Worker : worker[w] = IdleWorker
      /\ event = {}
  BY DEF Init
<1> QED
  BY <1>1, ConsistentInit
     DEF Orderly, AskedInTime, WorkersRemember, Remembers, Recorded, Polled,
         OnlyARetryIsStuck, NoSale, IdleRequester, IdleWorker

\* An outcome is applied to a sale that has been asked for, and is the outcome
\* of its payment.
LEMMA AppliedInTime ==
  ASSUME Orderly, NEW s \in Call, SaleSettled(s)
  PROVE  /\ sale[s].status # "READY_FOR_PAYMENT"
         /\ sale'[s].status \in {"PAID", "PAYMENT_FAILED"}
         /\ sale'[s].status = "PAID" => payment[s] = "paid"
         /\ sale'[s].status = "PAYMENT_FAILED" => payment[s] = "closed"
         /\ Polled(s)' \/ Pushed(s)'
<1>1. PICK w \in Worker : OutcomeApplied(w) /\ worker[w].at = s
                             /\ sale'[s].status = worker[w].verdict
  BY DEF SaleSettled
<1>2. worker[w] \in WorkerThread
  BY DEF Orderly, Consistent, TypeOK
<1>3. /\ payment[s] \in {"paid", "closed"}
      /\ worker[w].verdict = TerminalStateMap[payment[s]]
      /\ worker[w].verdict \in {"PAID", "PAYMENT_FAILED"}
  BY <1>1, <1>2 DEF OutcomeApplied, Orderly, Consistent, Workers, WorkerThread, Verdict
<1>4. worker[w].seen = "PAYMENT_REQUESTED"
  BY <1>1, <1>3 DEF OutcomeApplied, Legal, Transitions, SaleStatus
<1>5. sale[s].status # "READY_FOR_PAYMENT"
  BY <1>1, <1>4 DEF OutcomeApplied, Orderly, WorkersRemember, Remembers
<1>6. Polled(s)' \/ Pushed(s)'
  BY <1>1, <1>2 DEF OutcomeApplied, ThisEvent, Polled, Pushed, WorkerThread, Source
<1> QED BY <1>1, <1>3, <1>5, <1>6, VerdictOf

\* A sale is asked for only when it is ready or has failed.
LEMMA RequestedInTime ==
  ASSUME Orderly, NEW s \in Call, SaleRequested(s)
  PROVE  sale[s].status \in {"READY_FOR_PAYMENT", "PAYMENT_FAILED"}
BY DEF SaleRequested, RequestWritten, Orderly, AskedInTime

\* So PAID is final, and a sale is never ready again.
LEMMA SaleAdvances ==
  ASSUME Orderly, [Next]_vars, NEW s \in Call
  PROVE  /\ sale[s].status = "PAID" => sale'[s].status = "PAID"
         /\ Present(s) /\ sale[s].status # "READY_FOR_PAYMENT" =>
              sale'[s].status # "READY_FOR_PAYMENT"
         /\ sale[s].status = "PAYMENT_FAILED" =>
              sale'[s].status \in {"PAYMENT_FAILED", "PAYMENT_REQUESTED"}
<1>1. ~SaleInserted(s) \/ ~Present(s)
  BY DEF SaleInserted, CreateInserted, Orderly, Consistent, Creators
<1>2. /\ sale[s].status = "PAID" => payment[s] = "paid"
      /\ sale[s].status = "PAYMENT_FAILED" => payment[s] = "closed"
  BY DEF Orderly, Consistent, SaleFollowsPayment
<1>3. CASE sale'[s] = sale[s]
  BY <1>3
<1>4. CASE SaleInserted(s)
  BY <1>1, <1>4 DEF Present
<1>5. CASE SaleRequested(s)
  BY <1>5, RequestedInTime DEF SaleRequested
<1>6. CASE SaleSettled(s)
  BY <1>2, <1>6, AppliedInTime
<1> QED BY <1>3, <1>4, <1>5, <1>6, SaleChange DEF Orderly

\* A polled event is recorded by the thread that polled its sale, and no event
\* is taken back.
LEMMA EventChange ==
  ASSUME Orderly, [Next]_vars, NEW s \in Call, Polled(s)', ~Polled(s)
  PROVE  \E w \in Worker :
           /\ OutcomeApplied(w) \/ OutcomeRejected(w)
           /\ worker[w].at = s /\ worker[w].source = "polled"
<1>1. ASSUME NEW w \in Worker, OutcomeApplied(w) \/ OutcomeRejected(w)
      PROVE  worker[w].at = s /\ worker[w].source = "polled"
  BY <1>1 DEF OutcomeApplied, OutcomeRejected, ThisEvent, Polled
<1>2. CASE UNCHANGED event
  BY <1>2 DEF Polled
<1> QED
  BY <1>1, <1>2
     DEF Next, vars, Worker, CreateAnswered, CreateChecked, CreateInserted,
         CreateBeaten, CreateLost, RequestRead, RequestAnswered, RequestWritten,
         RequestLost, PollRequested, EventPushed, SweepListed, SweepPicked,
         PollAnswered, PollFailed, OutcomeChecked, OutcomeBeaten, WorkerLost,
         PaymentSettled, DayPasses
LEMMA EventStays ==
  ASSUME [Next]_vars
  PROVE  event \subseteq event'
BY DEF Next, vars, CreateAnswered, CreateChecked, CreateInserted,
       CreateBeaten, CreateLost, RequestRead, RequestAnswered, RequestWritten,
       RequestLost, PollRequested, EventPushed, SweepListed, SweepPicked,
       PollAnswered, PollFailed, OutcomeChecked, OutcomeApplied, OutcomeBeaten,
       OutcomeRejected, WorkerLost, PaymentSettled, DayPasses

LEMMA NextAskedInTime ==
  ASSUME OneAtATime, Orderly, [Next]_vars
  PROVE  AskedInTime'
<1> SUFFICES ASSUME NEW r \in Requester, requester'[r].pc # "idle"
             PROVE  sale'[requester'[r].sale].status
                      \in {"READY_FOR_PAYMENT", "PAYMENT_FAILED"}
  BY DEF AskedInTime
<1> DEFINE s == requester'[r].sale
<1>1. /\ requester \in [Requester -> RequesterThread]
      /\ requester[r] \in RequesterThread
  BY DEF Orderly, Consistent, TypeOK
<1>2. ASSUME NEW q \in Requester, RequestWritten(q), requester[q].sale = s
      PROVE  FALSE
  <2>1. q # r
    BY <1>1, <1>2 DEF RequestWritten, IdleRequester
  <2>2. requester'[r] = requester[r]
    BY <1>1, <1>2, <2>1 DEF RequestWritten
  <2> QED BY <1>2, <2>1, <2>2 DEF RequestWritten, OneAtATime
<1>3. s \in Call /\ sale[s].status \in {"READY_FOR_PAYMENT", "PAYMENT_FAILED"}
  <2>1. CASE requester'[r] = requester[r]
    BY <2>1 DEF Orderly, AskedInTime, Consistent, Requesters
  <2>2. ASSUME NEW q \in Call, RequestRead(r, q)
        PROVE  s = q /\ sale[q].status \in {"READY_FOR_PAYMENT", "PAYMENT_FAILED"}
    BY <1>1, <2>2 DEF RequestRead, Requestable, Transitions, SaleStatus
  <2>3. CASE RequestAnswered(r)
    <3>1. /\ requester'[r] = [requester[r] EXCEPT !.pc = "writing"]
          /\ requester[r].pc = "calling"
      BY <1>1, <2>3 DEF RequestAnswered
    <3>2. s = requester[r].sale
      BY <1>1, <3>1 DEF RequesterThread
    <3> HIDE DEF s
    <3> QED BY <3>1, <3>2 DEF Orderly, AskedInTime, Consistent, Requesters
  <2>4. ~RequestLost(r) /\ ~RequestWritten(r)
    BY <1>1 DEF RequestLost, RequestWritten, IdleRequester
  <2> HIDE DEF s
  <2> QED BY <2>1, <2>2, <2>3, <2>4, RequesterChange
          DEF RequesterStep, Orderly
<1> HIDE DEF s
<1>4. ~SaleRequested(s)
  BY <1>2 DEF SaleRequested
<1>5. ~SaleInserted(s)
  BY <1>3 DEF SaleInserted, CreateInserted, Orderly, Consistent, Creators, Present
<1>6. SaleSettled(s) => sale'[s].status = "PAYMENT_FAILED"
  BY <1>3, AppliedInTime DEF Orderly, Consistent, SaleFollowsPayment
<1>7. sale'[s].status \in {"READY_FOR_PAYMENT", "PAYMENT_FAILED"}
  BY <1>3, <1>4, <1>5, <1>6, SaleChange DEF Orderly
<1> QED BY <1>7 DEF s

LEMMA NextRecorded ==
  ASSUME Orderly, [Next]_vars
  PROVE  Recorded'
<1> SUFFICES ASSUME NEW s \in Call
             PROVE  /\ sale'[s].status # "VOID"
                    /\ sale'[s].asked => sale'[s].status # "READY_FOR_PAYMENT"
                    /\ Polled(s)' => /\ sale'[s].status # "ABSENT"
                                     /\ sale'[s].status # "READY_FOR_PAYMENT"
                    /\ sale'[s].status = "PAID" => Polled(s)' \/ Pushed(s)'
  BY DEF Recorded, Polled, Pushed, Present
<1>1. /\ sale[s].status # "VOID"
      /\ sale[s].asked => sale[s].status # "READY_FOR_PAYMENT"
      /\ Polled(s) => Present(s) /\ sale[s].status # "READY_FOR_PAYMENT"
      /\ sale[s].status = "PAID" => Polled(s) \/ Pushed(s)
  BY DEF Orderly, Recorded
<1>2. (Polled(s) => Polled(s)') /\ (Pushed(s) => Pushed(s)')
  BY EventStays DEF Polled, Pushed
<1>3. Polled(s)' /\ ~Polled(s) => sale[s].status # "READY_FOR_PAYMENT" /\ Present(s)
  <2> SUFFICES ASSUME Polled(s)', ~Polled(s)
               PROVE  sale[s].status # "READY_FOR_PAYMENT" /\ Present(s)
    OBVIOUS
  <2>1. PICK w \in Worker : /\ OutcomeApplied(w) \/ OutcomeRejected(w)
                            /\ worker[w].at = s /\ worker[w].source = "polled"
    BY EventChange
  <2> QED BY <2>1 DEF OutcomeApplied, OutcomeRejected, Orderly, WorkersRemember,
                      Remembers, Consistent, Workers
<1>4. CASE SaleInserted(s)
  <2>1. ~Present(s)
    BY <1>4 DEF SaleInserted, CreateInserted, Orderly, Consistent, Creators
  <2>2. ~Polled(s)
    BY <2>1 DEF Orderly, Recorded
  <2>3. sale'[s].status = "READY_FOR_PAYMENT" /\ ~sale'[s].asked
    BY <1>4 DEF SaleInserted
  <2> QED BY <1>3, <2>1, <2>2, <2>3
<1>5. CASE sale'[s] = sale[s]
  BY <1>1, <1>2, <1>3, <1>5 DEF Present
<1>6. CASE SaleRequested(s)
  BY <1>6 DEF SaleRequested
<1>7. CASE SaleSettled(s)
  BY <1>7, AppliedInTime
<1> QED BY <1>4, <1>5, <1>6, <1>7, SaleChange DEF Orderly

LEMMA NextOnlyARetry ==
  ASSUME Orderly, [Next]_vars
  PROVE  OnlyARetryIsStuck'
<1> SUFFICES ASSUME NEW s \in Call, sale'[s].status = "PAYMENT_REQUESTED", Polled(s)'
             PROVE  payment'[s] = "closed"
  BY DEF OnlyARetryIsStuck, Polled
<1> USE DEF Orderly
<1>1. payment[s] = "closed" => payment'[s] = "closed"
  BY PaymentChange
<1>2. CASE Polled(s)
  <2>1. CASE sale'[s] = sale[s]
    BY <1>1, <1>2, <2>1 DEF OnlyARetryIsStuck, Polled
  <2>2. CASE SaleInserted(s)
    BY <2>2 DEF SaleInserted
  <2>3. CASE SaleRequested(s)
    BY <1>1, <1>2, <2>3, RequestedInTime
       DEF Recorded, Consistent, SaleFollowsPayment
  <2>4. CASE SaleSettled(s)
    BY <2>4, AppliedInTime
  <2> QED BY <2>1, <2>2, <2>3, <2>4, SaleChange
<1>3. CASE ~Polled(s)
  <2>1. PICK w \in Worker : /\ OutcomeApplied(w) \/ OutcomeRejected(w)
                            /\ worker[w].at = s /\ worker[w].source = "polled"
    BY <1>3, EventChange
  <2>2. CASE OutcomeApplied(w)
    <3>1. sale'[s].status = worker[w].verdict
      BY <2>1, <2>2 DEF OutcomeApplied, Consistent, TypeOK, Sale
    <3> QED BY <3>1 DEF Consistent, TypeOK, WorkerThread, Verdict
  <2>3. CASE OutcomeRejected(w)
    <3>1. sale[s].status = "PAYMENT_REQUESTED"
      BY <2>3 DEF OutcomeRejected
    <3>2. worker[w].verdict \in {"PAID", "PAYMENT_FAILED"}
      BY DEF Consistent, TypeOK, WorkerThread, Verdict
    <3>3. worker[w].seen # "PAYMENT_REQUESTED"
      BY <2>3, <3>2 DEF OutcomeRejected, Legal, Transitions, SaleStatus
    <3>4. Remembers(worker[w]) /\ worker[w].pc = "writing"
      BY <2>3 DEF OutcomeRejected, WorkersRemember
    <3> QED BY <1>1, <2>1, <3>1, <3>3, <3>4 DEF Remembers
  <2> QED BY <2>1, <2>2, <2>3
<1> QED BY <1>2, <1>3

\* What a handler or a sweep remembers after a step of its own, as to the
\* sales before the step.
LEMMA NextOwnMemory ==
  ASSUME Orderly, NEW w \in Worker, WorkerStep(w)
  PROVE  Remembers(worker'[w])
<1>1. /\ worker \in [Worker -> WorkerThread] /\ worker[w] \in WorkerThread
  BY DEF Orderly, Consistent, TypeOK
<1>2. Remembers(worker[w])
  BY DEF Orderly, WorkersRemember
<1>3. \A s \in Call : sale[s].asked =>
        /\ sale[s].status \in {"PAYMENT_REQUESTED", "PAYMENT_FAILED", "PAID"}
        /\ sale[s].status = "PAYMENT_FAILED" => payment[s] = "closed"
  BY DEF Orderly, Recorded, Consistent, TypeOK, Sale, SaleStatus, AskedSales,
         Present, SaleFollowsPayment
<1>4. ASSUME NEW t \in WorkerThread,
             \A s \in t.todo : sale[s].status # "READY_FOR_PAYMENT"
      PROVE  Remembers(Onward(t))
  BY <1>4, OnwardThread DEF Remembers
<1>5. ASSUME NEW s \in Call, PollRequested(w, s)
      PROVE  Remembers(worker'[w])
  BY <1>1, <1>3, <1>5 DEF PollRequested, Remembers, IdleWorker
<1>6. ASSUME NEW s \in Call, EventPushed(w, s)
      PROVE  Remembers(worker'[w])
  BY <1>1, <1>6 DEF EventPushed, Remembers, IdleWorker
<1>7. ASSUME NEW s \in Call, SweepPicked(w, s)
      PROVE  Remembers(worker'[w])
  <2> DEFINE t == worker[w]
             rest == [t EXCEPT !.todo = t.todo \ {s}]
             seen == IF t.current THEN sale[s].status ELSE "PAYMENT_REQUESTED"
             next == [rest EXCEPT !.pc = "asking", !.at = s, !.seen = seen]
  <2>1. rest \in WorkerThread /\ rest.todo \subseteq t.todo
    BY <1>1 DEF WorkerThread
  <2>2. next.pc = "asking" /\ next.at = s /\ next.todo = rest.todo /\ next.seen = seen
    <3> HIDE DEF seen, rest
    <3> QED BY <2>1 DEF WorkerThread
  <2>3. s \in t.todo /\ (worker'[w] = Onward(rest) \/ worker'[w] = next)
    BY <1>1, <1>7 DEF SweepPicked
  <2>4. Present(s) /\ sale[s].status # "READY_FOR_PAYMENT"
    BY <1>2, <2>3 DEF Remembers, Orderly, Consistent, Workers
  <2>5. /\ seen \in {"PAYMENT_REQUESTED", "PAYMENT_FAILED", "PAID"}
        /\ seen = "PAYMENT_FAILED" => payment[s] = "closed"
        /\ seen = "PAID" => sale[s].status = "PAID"
    BY <2>4 DEF Orderly, Recorded, Consistent, TypeOK, Sale, SaleStatus, Present,
                SaleFollowsPayment
  <2>6. \A x \in t.todo : sale[x].status # "READY_FOR_PAYMENT"
    BY <1>2 DEF Remembers
  <2> HIDE DEF next, rest, t, seen
  <2> QED BY <1>4, <2>1, <2>2, <2>3, <2>4, <2>5, <2>6 DEF Remembers
<1>8. ASSUME NEW due \in SUBSET Call, SweepListed(w, due)
      PROVE  Remembers(worker'[w])
  BY <1>1, <1>8 DEF SweepListed, Waiting, Remembers, IdleWorker
<1>9. CASE PollAnswered(w)
  <2> DEFINE t == worker[w]
             next == [t EXCEPT !.pc = "checking",
                               !.verdict = TerminalStateMap[payment[t.at]]]
  <2>1. t.pc = "asking" /\ (worker'[w] = Onward(t) \/ worker'[w] = next)
    BY <1>1, <1>9 DEF PollAnswered
  <2>2. /\ next.todo = t.todo /\ next.at = t.at /\ next.pc = "checking"
        /\ next.seen = t.seen /\ next.source = t.source
    BY <1>1 DEF WorkerThread
  <2> HIDE DEF next
  <2> QED BY <1>1, <1>2, <1>4, <2>1, <2>2 DEF Remembers
<1>10. CASE PollFailed(w)
  BY <1>1, <1>2, <1>4, <1>10 DEF PollFailed, Remembers
<1>11. CASE OutcomeChecked(w)
  <2> DEFINE next == [worker[w] EXCEPT !.pc = "writing"]
  <2>1. /\ worker[w].pc = "checking"
        /\ worker'[w] = Onward(worker[w]) \/ worker'[w] = next
    BY <1>1, <1>11 DEF OutcomeChecked
  <2>2. /\ next.todo = worker[w].todo /\ next.at = worker[w].at
        /\ next.seen = worker[w].seen /\ next.source = worker[w].source
        /\ next.pc = "writing"
    BY <1>1 DEF WorkerThread
  <2> HIDE DEF next
  <2> QED BY <1>1, <1>2, <1>4, <2>1, <2>2 DEF Remembers
<1>12. CASE OutcomeApplied(w) \/ OutcomeBeaten(w) \/ OutcomeRejected(w)
  <2> DEFINE on == [worker[w] EXCEPT !.current = TRUE]
             off == [worker[w] EXCEPT !.broken = TRUE]
  <2>1. worker'[w] = Onward(on) \/ worker'[w] = Onward(off)
    BY <1>1, <1>12 DEF OutcomeApplied, OutcomeBeaten, OutcomeRejected
  <2>2. /\ on \in WorkerThread /\ on.todo = worker[w].todo
        /\ off \in WorkerThread /\ off.todo = worker[w].todo
    BY <1>1 DEF WorkerThread
  <2> HIDE DEF on, off
  <2> QED BY <1>2, <1>4, <2>1, <2>2 DEF Remembers
<1>13. CASE WorkerLost(w)
  BY <1>1, <1>13 DEF WorkerLost, Remembers, IdleWorker
<1> QED BY <1>5, <1>6, <1>7, <1>8, <1>9, <1>10, <1>11, <1>12, <1>13 DEF WorkerStep

LEMMA NextRemember ==
  ASSUME Orderly, [Next]_vars
  PROVE  WorkersRemember'
<1> SUFFICES ASSUME NEW w \in Worker
             PROVE
    /\ \A s \in worker'[w].todo : sale'[s].status # "READY_FOR_PAYMENT"
    /\ worker'[w].pc \in {"asking", "checking", "writing"} =>
         LET t == worker'[w] IN
         /\ t.seen = "PAYMENT_REQUESTED" => sale'[t.at].status # "READY_FOR_PAYMENT"
         /\ t.source = "polled" =>
              /\ sale'[t.at].status # "READY_FOR_PAYMENT"
              /\ t.seen \in {"PAYMENT_REQUESTED", "PAYMENT_FAILED", "PAID"}
              /\ t.seen = "PAYMENT_FAILED" => payment'[t.at] = "closed"
              /\ t.seen = "PAID" => sale'[t.at].status = "PAID"
  BY DEF WorkersRemember, Remembers
<1>1. Remembers(worker'[w]) /\ Holds(worker'[w])
  <2>1. Remembers(worker[w]) /\ Holds(worker[w])
    BY DEF Orderly, WorkersRemember, Consistent, TypeOK, Workers, Holds, WorkerThread
  <2> QED BY <2>1, NextOwnMemory, NextHolds, WorkerChange DEF Orderly
<1>2. \A s \in Call :
        /\ sale[s].status = "PAID" => sale'[s].status = "PAID"
        /\ Present(s) /\ sale[s].status # "READY_FOR_PAYMENT" =>
             sale'[s].status # "READY_FOR_PAYMENT"
        /\ payment[s] = "closed" => payment'[s] = "closed"
  BY SaleAdvances, PaymentChange DEF Orderly
<1> DEFINE t == worker'[w]
<1>3. \A s \in t.todo : s \in Call /\ Present(s) /\ sale[s].status # "READY_FOR_PAYMENT"
  BY <1>1 DEF Remembers, Holds
<1>4. t.pc \in {"asking", "checking", "writing"} => t.at \in Call /\ Present(t.at)
  BY <1>1 DEF Holds
<1>5. t.pc \in {"asking", "checking", "writing"} =>
        /\ t.seen = "PAYMENT_REQUESTED" => sale[t.at].status # "READY_FOR_PAYMENT"
        /\ t.source = "polled" =>
             /\ sale[t.at].status # "READY_FOR_PAYMENT"
             /\ t.seen \in {"PAYMENT_REQUESTED", "PAYMENT_FAILED", "PAID"}
             /\ t.seen = "PAYMENT_FAILED" => payment[t.at] = "closed"
             /\ t.seen = "PAID" => sale[t.at].status = "PAID"
  BY <1>1 DEF Remembers
<1> HIDE DEF t
<1>6. /\ \A s \in t.todo : sale'[s].status # "READY_FOR_PAYMENT"
      /\ t.pc \in {"asking", "checking", "writing"} =>
           /\ t.seen = "PAYMENT_REQUESTED" => sale'[t.at].status # "READY_FOR_PAYMENT"
           /\ t.source = "polled" =>
                /\ sale'[t.at].status # "READY_FOR_PAYMENT"
                /\ t.seen \in {"PAYMENT_REQUESTED", "PAYMENT_FAILED", "PAID"}
                /\ t.seen = "PAYMENT_FAILED" => payment'[t.at] = "closed"
                /\ t.seen = "PAID" => sale'[t.at].status = "PAID"
  BY <1>2, <1>3, <1>4, <1>5
<1> QED BY <1>6 DEF t

LEMMA Order == Spec /\ []OneAtATime => []Orderly
<1>1. Consistent /\ [Next]_vars => Consistent'
  BY NextTypes, NextAskedSales, NextCreators, NextOneSalePerKey, NextAnswers,
     NextRequesters, NextWorkers, NextFollows DEF Consistent
<1>2. OneAtATime /\ Orderly /\ [Next]_vars => Orderly'
  <2> SUFFICES ASSUME OneAtATime, Orderly, [Next]_vars PROVE Orderly'
    OBVIOUS
  <2>1. Consistent'
    BY <1>1 DEF Orderly
  <2>2. AskedInTime' /\ WorkersRemember' /\ Recorded' /\ OnlyARetryIsStuck'
    BY NextAskedInTime, NextRemember, NextRecorded, NextOnlyARetry
  <2> QED BY <2>1, <2>2 DEF Orderly
<1> QED BY <1>2, OrderlyInit, PTL DEF Spec

\* While each sale's payment is asked for by one thread at a time, a paid sale
\* stays paid, as state.py says, however polls, pushed events, sweeps and
\* crashes interleave.
THEOREM PaidStaysPaid == Spec /\ []OneAtATime => PaidIsFinal
<1>1. ASSUME Orderly, [Next]_vars
      PROVE  [\A s \in Call : sale[s].status = "PAID" => sale'[s].status = "PAID"]_vars
  BY <1>1, SaleAdvances
<1> QED BY <1>1, Order, PTL DEF Spec, PaidIsFinal

\* Likewise, what keeps a sale waiting for an outcome that was recorded already
\* is a retry after a failure, never a payment that was made.
THEOREM OnlyRetriesAreStuck == Spec /\ []OneAtATime => []OnlyARetryIsStuck
<1>1. Orderly => OnlyARetryIsStuck
  BY DEF Orderly
<1> QED BY <1>1, Order, PTL

\* Likewise, the time that the commission feed takes for the time of payment
\* does not move, as long as no event is pushed.
THEOREM PaidAtStays == Spec /\ []OneAtATime => PaidAtIsStable
<1>1. ASSUME Orderly, [Next]_vars
      PROVE  [\A s \in Call :
                (sale[s].status = "PAID" /\ [sale |-> s, source |-> "pushed"] \notin event')
                  => sale'[s].updated = sale[s].updated]_vars
  <2> SUFFICES ASSUME NEW s \in Call, sale[s].status = "PAID", ~Pushed(s)'
               PROVE  sale'[s] = sale[s]
    BY DEF Pushed
  <2>1. Polled(s)
    BY <1>1, EventStays DEF Orderly, Recorded, Pushed
  <2>2. ~SaleInserted(s) /\ ~SaleRequested(s)
    BY <1>1, RequestedInTime
       DEF SaleInserted, CreateInserted, Orderly, Consistent, Creators, Present
  <2>3. ~SaleSettled(s)
    <3> SUFFICES ASSUME NEW w \in Worker, OutcomeApplied(w), worker[w].at = s
                 PROVE  FALSE
      BY DEF SaleSettled
    <3>1. worker[w].source \in {"polled", "pushed"}
      BY <1>1 DEF Orderly, Consistent, TypeOK, WorkerThread, Source
    <3> QED BY <2>1, <3>1 DEF OutcomeApplied, EventTaken, ThisEvent, Polled, Pushed
  <2> QED BY <1>1, <2>2, <2>3, SaleChange DEF Orderly
<1> QED BY <1>1, Order, PTL DEF Spec, PaidAtIsStable

-----------------------------------------------------------------------------
(* What Pos takes from Payments                                            *)

\* Pos sees Payments do only what MoneyPromise allows, which ServiceKeepsPromise of
\* PaymentsProofs shows Payments to implement: what is proved of Pos rests on
\* nothing else that Payments does.
THEOREM PosUsesPromise == Spec => Payments!Spec
<1>1. Init => Payments!Init
  BY DEF Init, Payments!Init
<1>2. Consistent /\ [Next]_vars => [Payments!Next]_(Payments!vars)
  <2> SUFFICES ASSUME Consistent, [Next]_vars
               PROVE  [Payments!Next]_(Payments!vars)
    OBVIOUS
  <2>1. CASE UNCHANGED payment
    BY <2>1 DEF Payments!vars
  <2>2. ASSUME NEW r \in Requester, RequestAnswered(r), payment' # payment
        PROVE  Payments!Next
    <3>1. PICK s \in Call : s = requester[r].sale
      BY <2>2 DEF RequestAnswered, Consistent, Requesters
    <3>2. Payments!Open(s, s)
      BY <2>2, <3>1 DEF RequestAnswered, Payments!Open
    <3> QED BY <3>2 DEF Payments!Next
  <2>3. ASSUME NEW s \in Call, PaymentSettled(s)
        PROVE  Payments!Next
    <3>1. Payments!Pay(s, s) \/ Payments!Close(s)
      BY <2>3 DEF PaymentSettled
    <3> QED BY <3>1 DEF Payments!Next
  <2> QED
    BY <2>1, <2>2, <2>3
       DEF Next, vars, CreateAnswered, CreateChecked, CreateInserted, CreateBeaten,
           CreateLost, RequestRead, RequestWritten, RequestLost, PollRequested,
           EventPushed, SweepListed, SweepPicked, PollAnswered, PollFailed,
           OutcomeChecked, OutcomeApplied, OutcomeBeaten, OutcomeRejected,
           WorkerLost, DayPasses
<1> QED BY <1>1, <1>2, Consistency, PTL DEF Spec, Payments!Spec
===============================================================================
