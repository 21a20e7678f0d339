# TillFlow, verified in TLA+

TillFlow takes mobile-money payments for small shops and pays their attendants
a commission. Money moves through M-Pesa, whose answers come late, twice, out of
order or not at all, so the services around it are built from idempotency keys,
compare-and-swap state machines, callbacks and reconciling sweeps. This
directory states what those mechanisms are supposed to guarantee, models the
code that provides them, checks the models with TLC and proves the central
guarantees with TLAPS.

## The system

| Component | Code | State it keeps | Operations | Talks to |
|---|---|---|---|---|
| Payments: collections | `services/payments/core/payments.py` | `payments`, `idempotency_keys`, `ledger_entries`, `outbox`, `provider_callbacks`, `unmatched_callbacks`, `anomalies` | `create_payment`, `handle_callback`, `reconcile_payment`, `sweep`, reads | M-Pesa port (`initiate_charge`, `query_status`); called by POS and the provider |
| Payments: payouts | `services/payments/core/payouts.py` | `disbursements`, the same shared tables, the `payouts_enabled` flag | `create_payout`, `handle_result`, `reconcile_payout`, `sweep` | M-Pesa port (`disburse`, `query_disbursement_status`); called by Commission |
| Payments: state machines | `core/states.py` | none | `check_transition`, `is_terminal` | both of the above |
| Payments: store | `core/store.py`, `core/db.py` | the schema and its unique constraints | `tx` (one writer at a time), `transition` (compare-and-swap), `ledger`, `outbox`, `anomaly`, `idem_*`, flags | SQLite or PostgreSQL |
| Payments: app and reconcile job | `app.py`, `reconcile.py` | none | dispatch, `run_reconcile_pass` (payments, then payouts) | a scheduled Lambda starts a pass every five minutes |
| M-Pesa port, fake adapter | `services/_shared/mpesa` | charges, disbursements, scheduled callbacks | the port's calls; test drivers | Payments |
| POS | `services/pos/app` | tenants, tills, products, `sales`, `payment_events` | `create_sale`, `request_payment`, `payment-reconcile`, pushed events, background poll | Payments |
| Commission: close | `services/commission/ledger/close.py`, `calc.py` | `payout_items`, `carry_forward`, `payout_ledger`, `close_runs` | `close_business_day` | reads POS's paid sales |
| Commission: disbursement | `services/commission/ledger/disburse.py` | `payout_ledger` | `send_due_payouts`, `reconcile_requested_payouts` | Payments' payouts |
| Telemetry, infrastructure | `infra`, metrics, tracing, dashboards, notifiers | none of the business | | |

What is hard in each, and what makes it correct:

* **Collections.** The provider is called between two transactions, so a crash,
  a sweep, a callback and a second call of the client can all come in between.
  Correct means: one charge per key and per sale, one credit per payment for
  its own reference, terminal states final and taken from the provider alone,
  no key and no payment stuck.
* **Payouts.** The same shape, with our own id sent ahead (so a result can beat
  the acknowledgement) and a kill switch that stops sending. Correct means: one
  live payout per attendant and day, one debit each, nothing sent once the
  switch is seen.
* **POS.** A sale's status is read, Payments is called, the status is written,
  without a lock, by a session that may remember an older row. Correct means:
  one sale per key, a status Payments gave cause for, PAID never lost, every
  outcome learnt.
* **Commission close.** Sales are paid while the pages are walked, runs overlap,
  abort and repeat, small amounts are carried forward. Correct means: no sale is
  missed, and what is planned and carried is what was earned.
* **Commission disbursement.** Overlapping threads, lost answers, another caller
  with the same keys. Correct means: a ledger row ends as its payout did, never
  moves back, and is sent, or somebody is told why not.

`PROJECT.json` lists the hazards line by line under `hazards`.

## Modules

| Module | What it is |
|---|---|
| `States` | the two transition tables of `core/states.py` |
| `MoneyPromise` | the abstract service: movements of money open for a purpose no other live one has, close, or are paid and booked once |
| `Payments` | collections, step by step; its properties; the refinement of `MoneyPromise`, with the sale as purpose |
| `Payouts` | payouts, step by step; its properties; the refinement of `MoneyPromise`, with an attendant's period as purpose |
| `Pos` | the point of sale, composed with `MoneyPromise` in the place of Payments |
| `Calc` | the arithmetic of `ledger/calc.py` |
| `CommissionClose` | the daily close: pages of sales, items, carried amounts, rows |
| `Commission` | the close composed with the threads that send and reconcile its rows, and with `MoneyPromise` in the place of Payments |
| `MCPayments`, `MCPayouts`, `MCCommissionClose`, `MCCommission` | small instances for TLC |
| `PromiseProofs` | what `MoneyPromise` guarantees to a caller, proved, and carried over to `Payments` and `Payouts` by their refinements |
| `PaymentsProofs`, `PayoutsProofs`, `PosProofs` | theorems about `Payments`, `Payouts` and `Pos` for every instance |
| `SumLaws` | the laws of sums over finite sets that the money of the close rests on |
| `CloseProofs`, `CloseMoneyProofs`, `CommissionProofs` | theorems about the walk and the money of `CommissionClose`, and about `Commission`, for every instance |

The services meet in `MoneyPromise`. `Payments` and `Payouts` are shown to
implement it (`KeepsPromise`), and `Pos` and `Commission` use it as the only
thing they know of Payments: its actions are conjuncts of theirs. So what is
checked of POS and Commission does not depend on callbacks, sweeps or the
provider, and what is checked of Payments does not depend on who calls it.

### How Payments.tla follows the code

*State.* `payment`, `idem`, `ledger`, `outbox`, `audit` (`provider_callbacks`),
`inbox` (`unmatched_callbacks`) and `anomaly` are the tables. `call`, `handler`
and `worker` hold the local variables of a thread between two of its steps:
what the provider answered, which event is being handled, what the query said,
which rows a sweep still has to visit. `reply` is what the client was told;
`charge` and `sent` are the provider's side.

*Atomicity.* `Store.tx()` admits one writer at a time (`BEGIN IMMEDIATE`, or an
advisory lock), so a transaction is one action. What the code reads outside a
transaction is a separate, earlier step, and every provider call is a step of
its own. So `create_payment` is `CreateBegun`, then one of `ChargeAccepted`,
`ChargeRejected`, `ChargeAnswerLost`, `ChargeNotReached`, then `FinishCreate`;
`handle_callback` is `CallbackRead`, perhaps `CallbackConfirm`, then
`CallbackApply`; a sweep is `SweepExpire`, `SweepList` and, for each row due,
`SweepPick`, a query and its application. `RequestLost`, `CallbackLost` and
`WorkerLost` are a process or thread that dies between two of these.

*A transaction that fails.* The unique index on a sale is a guard
(`SaleTaken`). The unique receipt breaks inside a transaction that has already
changed the state: `CallbackConflict` undoes all of it and raises the alert the
code raises, `ReconcileAborted` ends the sweep, as the code does.

*Identities.* A payment's uuid and the provider's reference are fresh for each
call of `create_payment`, and both are named by the call. A charge is asked for
at most once per call, so its reference is the call as well.

*Time.* Deadlines are nondeterministic: a sweep finds any subset of the rows
that could be late, lists any subset of those that could be due, and a window
has elapsed or not. This allows every schedule the clock allows, and more, so
what holds here holds for every setting of the timeouts.

*Stored alerts.* Two alerts have the one kind `needs_review` in the code and
differ by their text; the model tells them apart (`amount_mismatch`,
`window_elapsed`).

*The provider.* An accepted charge is open until it is resolved once; its
callback may then arrive any number of times, whenever, or never. `Stray` adds
callbacks that do not tell the outcome: a code outside the table, which the
adapter reports as `UNKNOWN`, or outright contradictions. A status query
answers the outcome once there is one, or is inconclusive.

### How Payouts.tla follows the code

It is built like `Payments`: the tables, `call`, `worker`, `reply`, the
provider's `transfer` and `sent`, and the flag `enabled`. What differs is what
differs in the code.

*Three reads before the insert.* `create_payout` looks the key up, checks the
amount, reads the flag, each outside the transaction, and looks the key up
again in it. The steps are `CreateAnsweredEarly`, `CreateOverLimit` or
`CreateChecked`; then `CreateAdmitted` or `CreateDisabled`; then
`CreateAnsweredLate`, `CreateBegun` or `CreateConflict`. A rejected insert is
rolled back, and `ConflictReplied` looks the rival up in a step of its own.

*Our own reference.* `oid` is in the row from the insert on, so a result can be
matched before the provider's answer is (`Matches`), `handle_result` is one
transaction and one action (`ResultArrives`), and reconciliation always has a
reference to ask with. A result may therefore find a payout CREATED; the code
takes it through PENDING (and, on its way to review, UNKNOWN) inside the
transaction, which the model does in the same step.

*Failures.* A verdict is `SUCCEEDED`, `FAILED`, or `BLOCKED`, a failure for one
of the `TRIPPING_REASONS`. `Fail` sets the reason, and with `BLOCKED` the flag
and its alert, in one step. `OperatorSets` is the operator who sets the flag in
the database.

The conversation id the provider adds is stored, returned, and never used to
decide anything; it is left out.

### How Pos.tla follows the code

*State.* `sale` and `event` are the tables `sales` and `payment_events`.
`creator`, `requester` and `worker` are threads of `create_sale`, of
`request_payment`, and of everything that learns an outcome: a handler polls on
demand or records a pushed event, a sweeper runs `run_once`, which `reconcile_loop`
repeats only where `POS_RECONCILE_SCHEDULER` is set.
`payment` is what Payments has done. All payments of a sale have one
idempotency key, `sale.id`, so there is one movement of money per sale, named
by it. The sale is named by the call that inserted it.

*Atomicity.* The services use SQLAlchemy sessions and never lock the sale, so
each commit is an action and each read it relies on an earlier one.
`create_sale` is `CreateAnswered` or `CreateChecked`, then `CreateInserted` or,
when the unique key breaks, `CreateBeaten`. `request_payment` is `RequestRead`,
`RequestAnswered`, `RequestWritten`: the last writes whatever the status has
become. `apply_outcome` is `OutcomeChecked` (has the event been seen?) and then
one of `OutcomeApplied`, `OutcomeBeaten` (the unique event id breaks; rolled
back) and `OutcomeRejected` (the transition is illegal; recorded only).

*What a session remembers.* SQLAlchemy keeps a row it has read until the session
commits or rolls back. A sweep uses one session, so `seen` is the status as it
was listed until the first commit (`current`) and as it is afterwards. The
commit of `OutcomeRejected` is not guarded: if it fails, the session is
`broken` and the rest of that sweep fails.

*Events.* A poll names its event after the payment and its final state, a pushed
event has an id of its own. Nothing calls the internal endpoint today; it is
modelled as the code would handle it. `today` is the clock behind `updated_at`,
which `routers/commission.py` takes for the time of payment.

### How CommissionClose.tla, Calc.tla and Commission.tla follow the code

*The close.* `item`, `carry` and `row` are `payout_items`, `carry_forward` and
`payout_ledger`, in the order of insertion; `run` are the runs of
`close_business_day`, with the page they hold, the cursor and the attendants
touched. A page is one action (`PageFetched`), an item is one transaction
(`ItemRecorded`), and so is an attendant's fold (`AttendantFolded` or
`AttendantSkipped`). A run ends, aborts when POS fails, or is killed anywhere.
`paid` is what POS would list; `Window`, `Beyond` and `FirstOf` are the cursor
query of `list_paid_sales`. `folded`, `again`, `late` and a run's `due` are
history variables for the properties; no guard reads them.

*Amounts* are real: minor units, floors and the shilling rounding are those of
`calc.py`, and moments are hours, shifted by the offset of the business day.

*Sending.* `Commission` EXTENDS the close, so every run of it closes days while
`send_due_payouts` (`SendListed`, `PayoutAsked`, `PayoutCreated`,
`AnswerHandled`) and `reconcile_requested_payouts` (`PollListed`,
`PayoutPolled`, `PollWritten`) work on the rows. The key of a payout is derived
from attendant and day, and so is the purpose that Payments derives, so a
movement is a pair of these. Beside the promise, Payments keeps the amount first
asked for and the reply stored for the key, and refuses what is over its ceiling
or not in whole shillings (`held`), what its switch stops (`disabled`), a key in
flight, and a key with another amount (`mismatch`). `FileSent` is `worker.py`,
which asks for payouts listed in a file with the same keys. The back-off of
polls is a free choice of the rows that are due.

## What TLC checks

The runs of Payments, Payouts and Commission check for deadlock: there the
provider, the switch or a thread can always act. In POS and in the close
everything can be done, so their runs do not.

| Run | Instance | Question |
|---|---|---|
| `payments_requests` | 2 calls, 2 keys, 2 bodies of which one names a sale, 1 handler, 1 worker, truthful provider, one receipt number, no confirming queries | Can calls charge a key or a sale twice, be told of different payments, or leave a key in flight? Does a repeated receipt undo the second success as a whole? Is every step one of `MoneyPromise`? |
| `payments_liveness` | 1 call, fair sweeps, truthful provider, unknown codes | Does every payment end as its charge did, and is everything swept up in the end? |
| `payouts_periods` | 2 calls, 2 keys, 2 periods, 1 worker, truthful provider, one receipt number | Can a period or a key be paid twice, a result go unmatched, a repeated receipt leave half a success? Is every step one of `MoneyPromise`? |
| `payouts_results` | 1 call, every stray result | Can results pass a contradiction over, move a terminal payout, or fail it without switching payouts off? What can leave a key in flight for good? |
| `payouts_liveness` | 1 call, fair sweeps, truthful provider | Does every payout end as its transfer did? Is every transfer that was resolved found out about, though the thread died and no result came? |
| `pos_sales` | 2 calls with one key, 2 bodies of which one is valid, 1 thread of `request_payment`, 1 handler, 1 sweeper, 2 days, nobody sure to ask | Is one sale named per key? Does a sale follow its payment, stay paid and keep its day? Does it learn its outcome if it is asked about again and again? |
| `commission_close` | 2 sales of one attendant, 2 moments that lie on two days, 3 runs, pages of one sale, a minimum above one commission | Is a sale ever missed? Does the money add up over overlapping, aborted and repeated runs? |
| `commission_payouts` | 2 sales, 1 day, 2 runs, 1 thread, a file that names one of the amounts, a ceiling below the sum | Does the ledger say paid exactly when Payments paid that amount? |
| `commission_disburse` | 1 row, 2 threads, a file that names another amount, fair threads | Is a row ever moved back? Is every planned row sent, or somebody told why not, unless its key stays in flight for good? Is every outcome learnt? |

*Bounds.* The only counters are the days of `Pos` (`LastDay`) and the runs of
the close, which bound its rows; all else is bounded by the sizes of the
constant sets. Two movements of money are what the properties that relate
movements relate: a winner and a rival for a key, a sale or a period, in flight
or done. One worker beside one handler suffices for the races of outcomes, as
both apply them by the same operator: what a second thread could do between two
steps of the first, the other kind of thread can do. The runs about rogue
results have one movement because the outcomes of one never touch another's
row, except through the receipt, which all movements share in
`payments_requests` and `payouts_periods`. Lying callbacks of collections are
not in a run of their own, as the proofs below hold for any `Stray`. Two days in
`pos_sales` are enough to see a time move. In the close two sales are enough to
share a time or to straddle a page or a day, three runs to close a first day,
fold the second on top of what it carried, and repeat either; the minimum of
1000 lets one commission be carried and two be paid with a remainder. In
`commission_payouts` the minimum of 600 and the ceiling of 650 let one sale's
amount be sent and two sales' amount be refused, and the file asks for the
amount of one. `pos_sales` has one sale: that sweeps of two sales are safe was
checked outside the listed runs (two keys, 263,000 states; the same
invariants), and so was `OutcomeIsLearnt` for two sales and two sweepers that
overlap, without handlers (37,000 states). A session that breaks with a sale still
to come (`scheduler.py:74`) needs three sales; no run has it.
Requests, keys and handlers are interchangeable, and symmetry is used for them
in safety runs only.

*Fairness.* In Payments, only the sweep is fair (`Fairness`). It is started every five
minutes by a scheduled Lambda (`infra/envs/sandbox/reconcile.tf`), so it runs
again and again; the clock moves, so again and again it finds every late row
and everything due; a pass is not killed each time and the query is not
inconclusive each time, hence strong fairness; the reconcile window is finite.
Nothing is assumed of clients, of the threads of `create_payment`, or of
callbacks: each may stop for good at any step. `AcceptedIsResolved` leans on
the query answering some day for a resolved charge. `UnknownIsEscalated` does
not need that where there is no reference to ask with. The fairness of `Payouts` is
the same, its sweep being the second half of the same pass; `TransferIsResolved`
is the stronger property that storing the reference before the call buys.

In `Pos` nothing is assumed of anybody's asking. The sweep is off unless
`POS_RECONCILE_SCHEDULER` is set, which nothing in the deployment does, a caller
of `payment-reconcile` may stop, and `pos-payments-contract.md` says that nobody
schedules it yet: a sale whose payment is paid may wait for good because nobody
asks. So `OutcomeIsLearnt` has the asking as its condition: a sale that polls on
demand, or sweeps that are switched on, set out for again and again does not
keep waiting. The fairness is of what was begun. A thread does not stand still,
as a call to Payments ends at a timeout of 5 seconds (weak fairness); for no sale
does every poll fail, every thread die at the same step or every sweep that
listed it end before its turn (strong fairness, over all threads together). What
could break the property is that an outcome pushed too early is recorded and
never applied again, or that a session holds an old status; its mutant, which
knows an event by its payment alone, does break it.

In `Commission`, a thread of `disburse.py` does not stand still between two steps
(weak fairness; a call ends at a timeout), and for no row is each request refused
by the network or each pass cut short (strong fairness;
`infra/envs/sandbox/commission.tf` starts a pass every ten minutes in six hours
of each night). Nothing is assumed of the close, of the file, of the switch, of
the provider, or of the reply that Payments keeps: `ReplyKept` may never
happen, as a payout key can stay in flight for good (next section, on
`payouts.py:581`). `disburse.py` takes that answer for transient, leaves the row
PLANNED at each pass and tells nobody, so `PlannedIsSent` has this one
exception, in so many words: a planned row is asked for, or flagged, or from
some time on its key is in flight always. Without the exception TLC refutes it:
the call that opened the payout goes unanswered, and every later pass is
answered 409. Every other answer that leaves a row PLANNED is flagged.

## Where the documents and the code differ

Three of these are runs that expect TLC to find a counterexample.

* `payments_credits_are_real`. ADR 0006 says money transitions never trust the
  callback body alone and that a success is confirmed by a query before commit.
  `handle_callback` decides whether to query on a read made before its
  transaction. A callback that comes before the reference of the payment is
  stored finds no row, so nothing is queried; if the reference is stored before
  the transaction begins, the transaction matches it and settles from the body.
  `ConfirmedCreditsAreReal` proves that this window is the only one.
* `pos_paid_is_final`. `state.py` says a terminal state is never overwritten.
  Two requests for the payment of one sale that both read READY_FOR_PAYMENT
  take it back from PAID when the slower one writes, and as the outcome's event
  has been seen by then, no poll makes it PAID again. `PosProofs` shows that
  this needs two such requests on one sale at once.
* `commission_reclose`. `close.py` says closing a day again double counts
  nothing. Only a ledger row marks a day as closed; a day that ended with
  nothing payable has none, and closing it again adds its items to the carried
  amount a second time. `OnlyAFoldRepeatedHandsTooMuch` proves that the
  docstring's promise, `NeverHandedTooMuch`, holds of every attendant none of
  whose days is folded again.

These were met while reading and are decided by the code as it stands, so there
is nothing for a run to ask:

* A replay is said to return the original response. When the sweep completed the
  key before the initiate call came back (`payments.py:262`), a replay returns
  the sweep's body, and the original response is another. The payment named is
  the same (`RepliesNameOnePayment`).
* ADR 0008 says nothing is created while the switch is off. The flag is read
  before the transaction (`payouts.py:145`) and not again in it, so a payout
  admitted before may be created and sent after.
* ADR 0006 says a crashed winner leaves a CREATED row that the sweeper takes
  over. A result faster than the acknowledgement (`payouts.py:581`) moves the
  row on without completing its key; if the thread dies then, every later call
  with the key is answered 409. `OnlyResultsStrandKeys` says that nothing less
  than such a result strands a key. The comment at `disburse.py:107` calls that
  answer transient; a ledger row it is given to stays PLANNED in silence, although
  its money may have been paid (the exception in `PlannedIsSent`). `Payments` does not have this gap, as its
  callbacks cannot match a row that is CREATED (`InFlightIffCreated`).
* `request_payment` lets a failed sale ask again, but the key is the sale's id,
  so Payments answers with the failed payment; the sale waits for good
  (`OnlyARetryIsStuck` says that only such a sale does).
* An item recorded after its day was folded, or left by an aborted run, is linked
  to the attendant's next row (`close.py:166`), whose amount was computed
  without it. It stays unpaid unless its own day is folded again, which an
  existing row prevents; the schedule closes only yesterday.
  `ConservedWhenOrderly` says that such items are, to the minor unit, all that is
  missing from what an attendant is handed.
* A day closed again after its payout failed makes a row with the failed payout's
  key (`close.py:147`), and Payments answers with the failed one: the row fails
  too (`RowsFollowMoney`). An amount above the ceiling ends FAILED likewise.

## What is proved

`PaymentsProofs` proves, with `PaymentsAssumption` as its only assumption and
for every number of calls, keys, bodies, sales, handlers and workers, every set
of stray callbacks and both values of the confirmation setting:

| Theorem | Property | Condition |
|---|---|---|
| `TypeCorrect` | `TypeOK` | |
| `EffectsAlwaysMatch` | `EffectsMatchState` | |
| `ReceiptsStayUnique` | `ReceiptsAreUnique` | |
| `KeysFollowPayments` | `InFlightIffCreated` | |
| `OneChargePerKey` | `ChargedOncePerKey` | |
| `OnePaymentPerKey` | `RepliesNameOnePayment` | |
| `TerminalStaysFinal` | `TerminalIsFinal` | |
| `ServiceKeepsPromise` | `KeepsPromise` | |
| `OutcomeIsTrue` | `OutcomeIsTheProviders` | `Honest` |
| `SaleChargedOnce` | `ChargedOncePerSale` | `Honest` |
| `HonestCreditsAreReal` | `CreditsAreReal` | `Honest` |
| `ConfirmedCreditsAreReal` | `CreditsAreReal` | `ConfirmSuccess`, `StoredAlone` of every payment at every step |
| `SaleServedOnce` | `Promise!PurposeServedOnce` | |
| `CreditsBookedOnce` | `Promise!BooksMatch` | |

`Honest` says that callbacks other than a charge's own tell nothing definite. It
is needed with the confirmation on as well: the code confirms by query only what
claims a success, so a callback that wrongly tells of a decline would end a
payment whose charge is still open, and free its sale for a second one.

*The inductive invariant.* None of these is inductive alone. `Consistent`
(theorem `Consistency`) joins them with what they rest on:

* `Rows`: a row that is absent or CREATED holds no reference, and a reference
  is the payment's own, so no two payments can be matched by one callback;
* `Calls`: where a call stands in its three steps tells whether it has a
  payment, a charge and an answer, so a charge is asked for only for a payment
  that was inserted;
* `Threads`: the payment a worker is about exists and has a reference before it
  is queried or settled, so the credit has something to name;
* `Keys`: a payment's key holds its body and is in flight exactly while it is
  CREATED, and two payments never have one key, which is where "classified as
  new" turns into "no other charge";
* `Answers`: a completed key and a 2xx answer name the payment with that key.

`EffectsMatchState` then follows because every transition to a terminal state
starts in a state whose credit and event sets are empty and `Credited` finds
the reference unused. The refinement holds because the only steps visible in
the abstract service are `CreateBegun` (`Open`), `Settle` to SUCCEEDED (`Pay`)
and the ones that decline or expire (`Close`).

For an honest provider `Truthful` adds that what was sent, what a handler holds,
what a query answered (`Queried`) and a rejection in a caller's hands
(`Charged`) all tell how the charge ended, and that there is no charge before it
is asked for. The last two hold of any provider and are shared with the theorem
on credits. A deadline
only ever makes a payment UNKNOWN, so whatever ends one is among these
(`EndedTruly`). `OneLivePerSale`, the unique index, is checked when a payment is
inserted and nothing brings a failed payment back; and a charge that is open or
paid belongs to a live payment, so of two for one sale one would break it.

*Credits.* `CreditsAreReal` says that each credit names a charge that the
provider collected. Of an honest provider it holds with or without confirming
queries. Of a provider about which anything may be claimed in callbacks it holds
with confirmation as long as `StoredAlone` does: no step of `create_payment`
stores the reference of a charge while a thread is between the read and the
transaction of `handle_callback` with a callback for that charge. That is an
assumption about the steps of a behaviour, `[][...]_vars`, and not about the
provider. The run `payments_credits_are_real` is a behaviour that breaks it,
and the theorem says that there is no other way. The invariant is `Vetted`: a thread about
to apply a success that it had confirmed holds one the charge did end in, and a
success that it saw no need to confirm has no payment to settle, as its row
holds no reference yet or has ended.

`PayoutsProofs` proves, with `PayoutsAssumption` as its only assumption and for
every number of calls, keys, bodies, periods and workers:

| Theorem | Property | Condition |
|---|---|---|
| `TypeCorrect` | `TypeOK` | |
| `EffectsAlwaysMatch` | `EffectsMatchState` | |
| `OnePayoutPerKey` | `KeyMeansOnePayout` | |
| `NoResultIsStranded` | `EveryResultMatches` | |
| `ContradictionsAreAlarmed` | `ContradictionIsAlarmed` | |
| `TerminalStaysFinal` | `TerminalIsFinal` | |
| `SwitchAlwaysFollows` | `SwitchFollowsFailure` | |
| `PayoutsKeepPromise` | `KeepsPromise` | |
| `OutcomeIsTrue` | `OutcomeIsTheProviders` | `Honest` |
| `PeriodPaidOnce` | `PaidOncePerPeriod` | `Honest` |
| `OnlyAResultStrandsAKey` | `OnlyResultsStrandKeys` | |
| `PeriodServedOnce` | `Promise!PurposeServedOnce` | |
| `DebitsBookedOnce` | `Promise!BooksMatch` | |

The theorems without a condition hold for stray results of any content: a result
nobody sent for can end a payout wrongly, but not twice and not without
its effects. `Honest` says that the results beyond those of our transfers tell
nothing definite, which is what two of them need and no more.

*The argument.* `Consistent` has the parts of the invariant of `PaymentsProofs`
with two differences. A row carries our id from its first transaction, so a
result matches a row that is still CREATED, and a key may be in flight for a
payout that has ended (`Keys` says less here). And of the rows for one period at
most one is live (`OneLivePerPeriod`), which the unique index on the period
keeps. Each step is then one of four kinds (`StepKinds`): it moves no payout out
of or into the live and terminal states, or it inserts one, pays one, or fails
one; the facts about effects, the switch, finality and the refinement are each
argued by kind rather than by action. `Truthful` adds, for an honest provider,
that each result on its way, each answer to a query and each refusal in a
thread's hands tells how the transfer ended, and that a transfer not asked for
is not there; a deadline never ends a payout, so its end is always one of these.
Two transfers of one period that both paid would then be two payouts SUCCEEDED
or still open, which `OneLivePerPeriod` excludes.

*Keys in flight.* `OnlyResultsStrandKeys` is inductive once `Asked` is added: no
worker asks about a payout that is still CREATED. A payout then leaves CREATED by
its own call's answer or by the sweep, both of which complete the key, or by a
result, which is on record from then on (`LeavesCreated`).

`PromiseProofs` proves of the abstract service, for any sets of movements,
purposes and references:

| Theorem | Property |
|---|---|
| `NoPurposeTwice` | `PurposeServedOnce` |
| `BooksAlwaysMatch` | `BooksMatch` |
| `EndsAreFinal` | `EndIsFinal` |

The first two are carried over to collections and payouts by the refinements
(`PromiseApplies` of each): the theorems on `Promise!...` above are about the
tables of the services, under the same mapping that `KeepsPromise` uses. They
need no honesty, for they are about the service's own books, not the provider's.
On the other side `PosUsesPromise` and `CommissionUsesPromise` prove that the
composed modules, whose actions only mention `MoneyPromise` action by action,
see a behaviour of its whole specification. So the chain has no gap: what
POS and Commission are proved to do on the promise, they do on anything that
keeps it, and collections and payouts keep it.

`PosProofs` proves, with `PosAssumption` as its only assumption and for every
number of calls, keys, bodies and threads, and any number of days:

| Theorem | Property | Condition |
|---|---|---|
| `PosTypesCorrect` | `TypeOK` | |
| `OneSaleIsNamed` | `RepliesNameOneSale` | |
| `SalesFollowPayments` | `SaleFollowsPayment` | |
| `PaidStaysPaid` | `PaidIsFinal` | `[]OneAtATime` |
| `OnlyRetriesAreStuck` | `[]OnlyARetryIsStuck` | `[]OneAtATime` |
| `PaidAtStays` | `PaidAtIsStable` | `[]OneAtATime` |

`OneAtATime` says that no two threads of `request_payment` work on one sale at
once; the code does not see to it, and `pos_paid_is_final` shows it is needed.

*Two inductive invariants.* `Consistent` needs no condition: a thread that has
yet to insert finds no sale of its own (`Creators`), a key is on one sale
(`OneSalePerKey`), and whoever is about to write an outcome holds the verdict
that its payment, final by now, maps to (`Workers`). `Orderly` adds what an
unlocked row leaves true: a sale is being asked for only while READY_FOR_PAYMENT
or PAYMENT_FAILED (`AskedInTime`, where the condition is used); a session that
remembers a sale as waiting remembers a sale that was asked for, so it does not
apply an outcome to one that never was (`WorkersRemember`); and a PAID sale has
an event on record, so that the unique id stops the second writer
(`Recorded`). The proofs go through three facts about any step, `SaleChange`,
`PaymentChange` and `WorkerChange`: what it may do to one sale, one payment, one
thread.

`CloseProofs`, `CloseMoneyProofs` and `CommissionProofs` prove, with
`CloseAssumption` and (the last) `CommissionAssumption` as their only
assumptions, for every finite set of sales, any attendants, rates, moments,
days, runs and threads, any page size, minimum and ceiling, and any file of
`worker.py`:

| Theorem | Property | Of |
|---|---|---|
| `NoSaleIsMissed` | `WalkMissesNothing` | the close alone |
| `CloseTypes` | `TypeOK` | the close alone |
| `MoneyIsConserved` | `ConservedWhenOrderly` | the close alone |
| `OnlyAFoldRepeatedHandsTooMuch` | `NeverHandedTooMuch`, of an attendant who is `Orderly` | the close alone |
| `FoldKeepsEveryCent`, `MomentsHaveOneDay` | stated with the proof | `calc.py` |
| `NoSaleIsMissedMeanwhile` | `WalkMissesNothing` | the composition |
| `CommissionTypes` | `AllTypeOK` | the composition |
| `MoneyIsConservedMeanwhile` | `ConservedWhenOrderly` | the composition |
| `NobodyIsPaidMoreThanEarned` | stated with the proof | the composition |
| `LedgerFollowsMoney` | `RowsFollowMoney` | the composition |
| `LedgerMovesForward` | `RowsMoveForward` | the composition |
| `MoneyCountsOnce` | `OneLiveRow`, stated with the proof | the composition |
| `CommissionUsesPromise` | `Payments!Spec` | the composition |

*The walk.* `Consistent` of `CloseProofs` follows each sale that was due when a
run began: it is recorded and its attendant is still to be folded or folded
already, or it is on the page in hand, or it lies beyond the cursor on a page
still to come (`Walks`, `Folding`). That a page loses none of the sales after
it rests on two facts about finite sets: a page that is not empty has a last
sale (`LastOfPage`, from the well-foundedness of strict inclusion), and what a
full page leaves out comes after it (`PageThenRest`, from cardinalities). That
an item of another run's day never stands for a sale of this one rests on the
windows of two days being disjoint (`OneWindow`).

*The ledger.* `AllConsistent` says what a thread may rely on while it holds an
answer that others may have overtaken (`Threads`): Payments never takes back
what it opened, paid or closed, and the reply it keeps for a key was true when
kept (`Kept`), so the answer in hand still holds when it is written, whoever
wrote first. Every step does one of a few things to a payout (`PaySteps`) and
to a row, and the invariant is argued from these.

*The money.* `ConservedWhenOrderly` says of an attendant none of whose days was
folded again (`Orderly`) that what was handed out (the amounts of all
its rows, and what is carried) is exactly the commission of the sales recorded before their
day was folded. It is an equation, so it also says what a late sale costs its
seller. `Balanced` makes it inductive: what it adds is that a late sale is of a
day that is folded already (`LateAfterFold`), so that the first fold of a day
takes up all of the day's items in time. `FoldKeepsEveryCent` is the arithmetic
of one fold, and the rest is sums. The prover cannot use an induction theorem,
so `SumLaws` argues by a least counterexample: were a law of sums false of some
subset of a finite set, it would be false of a subset with no smaller one, as
strict inclusion is well founded there; taking one element out of that refutes
it. The fold of the community modules, which `CommissionClose` sums with, is
unfolded to the same recursive function and read as one of these sums.
`NobodyIsPaidMoreThanEarned` joins the two halves: what Payments has paid or may
still pay an attendant for the ledger, with what is carried, never exceeds the
commission of the recorded sales, again for an `Orderly` attendant. Payouts of
an amount that the file of `worker.py` names are left out of the sum, as nothing
tells whether the file or the ledger asked for them.
Its links are that any other payout is for the amount of a row of its attendant
and day (`AskedBySomebody`), that a day has one payout, and the balance.

*Model-checked only.* The liveness properties (`CreatedIsSwept`,
`AcceptedIsResolved`, `TransferIsResolved`, `UnknownIsEscalated`, `PlannedIsSent`
and both `OutcomeIsLearnt`) need fairness and ENABLED, which the prover does not
treat. The three properties that runs refute are proved under the
conditions that those runs break: `CreditsAreReal`, `PaidIsFinal` and
`NeverHandedTooMuch`. Every safety invariant and action property of the
passing runs is proved.

## What is not modelled, and why

In collections and payouts: requests refused before any state is read (bad key,
bad body, wrong source, bad signature), the alert of a malformed callback,
reads, several tenants (every table is keyed by tenant), amounts beyond "equal
or not", and metrics, logs and traces. The expiry time of a key is stored but no
code purges keys, so keys are kept. Connection pooling and the two SQL dialects
are below the level of `tx()`. A query that errs in a way the code does not
catch is a thread that dies. The fake adapter's scripted outcomes and the
sandbox's HTTP calls are the provider's free choices.

In POS: the comparison of an outcome's amount with the sale's total, both fixed
when the sale is created; the catalogue, which is plain inserts and reads and
decides only whether a sale is valid; the age a sale must have to be swept. In
Commission: `close_runs`, which nothing reads; the recipient's number;
`--check`; the parsing of the file; several tenants.

Infrastructure, dashboards, drills and notifiers keep no state of the business.

## Plan

The modules, runs and theorems planned are done. What would add most next:

1. Three sales in one sweep, so that a sale behind one whose commit broke the
   session is checked for liveness too; `PosProofs` covers many sales, for safety
   only.
2. Steps towards liveness within the prover's reach: that no fair step of a
   sweep undoes what another did towards an outcome, so that the liveness runs
   rest on the fairness alone.
3. An attendant's rate that changes between two pages: the code takes the rate at
   the moment it reads a page, the model a fixed one.
