# Recoupr in TLA+

A verification project for Recoupr, a service that follows up failed payments: TLA+ modules
that model its handlers, TLC runs that check them on small instances, and TLAPS proofs of what
matters most for every policy. Line references are to the repository's files.

## 1. The system

| Part | State it keeps | Operations |
|---|---|---|
| Case state machine (`agents/state_machine.py`) | `Case.state` | `transition`, refused outside the table |
| Quiet hours, policy (`guardrails/policy.py`) | the snapshot frozen with each case | `in_quiet_hours`, `quiet_hours_resume_utc` |
| Guardrail gate (`guardrails/checks.py`) | none | `check_guardrails` |
| Diagnosis, decision (`agents/`) | none | `diagnose`, `decide`: rules first, the model for the rest |
| Pipeline (`services/pipeline.py`) | case row, actions, outcomes, decisions, checks | `create_case_for_event`, `process_case`, `approve_and_send`, `record_recovery`, `mark_lost` |
| Maintenance (`services/maintenance.py`, `main.py`) | none | TTL sweep, requeue of deferred cases; every interval and by request |
| Webhooks (`api/webhooks.py`) | event rows | failure event opens and works a case; success event credits one |
| API (`api/routes.py`) | none | approval, `ttl-sweep`, `tick`, `simulate/batch`; the rest reads |
| Payment client (`payments/client.py`) | the attempts of a call (and the gateway's links and charges) | `create_payment_link`, `retry_mandate`, up to four attempts on transient errors |
| Model client (`agents/llm.py`) | a cache in memory, shared by all threads, and in a table | `classify`: cache, then the model, up to three attempts on status 429 |
| Synthetic generator (`simulation/generator.py`) | none | draws failures from its tables |
| Batch replay (`simulation/batch.py`) | simulated clock per case | `run_batch`: history up to now, then left to maintenance |
| Metrics (`services/metrics.py`) | none | sums over the ledger |
| Sessions (`db/session.py`) | identity map and transaction per request, one pool of connections | one commit per request, rollback otherwise |
| Dashboard (`dashboard/`) | a fetched copy | polls; its one write is the approval |

Everything meets in the case row. A failure webhook creates it and works it at once; the
scheduler requeues it when a deferral is over and closes it when its deadline has passed; a
person approves it when it was escalated; a success webhook credits it. The replay does all of
this on a simulated clock. Failure webhooks run `process_case` in a pool thread, success webhooks
stay on the event loop, approvals run in pool threads and maintenance in the scheduler's thread,
each with a database session of its own and nothing but the database's row locks between them.
They share three more things: the event loop, on which a webhook takes its connection and commits;
the connection pool, from which each model call takes a second connection for its cache; and the
memory of that cache.

What is hard: the gateway is reached before the commit, so a rollback does not take an action
back; a session works on the copy it loaded; deliveries repeat and come late; timing is compared
at equal instants in two timezones; one failing case ends a pass for all; requests that hold a
connection wait for another; a request to the gateway or the model may take effect and error all
the same; and each counter the gate reads must stay the one of the ledger over retries, deferrals and approvals. Every such place
is listed with its line in `PROJECT.json` under `hazards`.

What makes each part correct:

- state machine: only the transitions of the table; closed cases stay closed and nobody acts for them;
- gate and pipeline: the agent acts within retry cap, deadline, cooldown, quiet hours and message cap;
  counters equal the ledger; one pending approval exactly while a case is escalated;
- deferral: the resume instant clears every timing rule, and an open case always waits for something that exists;
- maintenance: nothing overdue is left by a committed pass; the sweep comes before the requeue; open cases close;
- webhooks: credit is real money of the right case, once; a named case has precedence;
- sessions: however requests overlap, nothing counts that was not done, an escalated case can be
  approved, a paid case takes no second payment, every request is answered;
- calls: a request acts only on answers of the model that fit their schema, gives back each
  connection on every way out and ends if the gateway answers; a payment call looks like one step to its caller;
- replay: it observes nothing beyond now and goes on from whatever others did to its cases meanwhile.

## 2. Modules

| Module | Models | Built on |
|---|---|---|
| `QuietHours` | the arithmetic of `policy.py` | |
| `CaseStates` | the transition table | |
| `Guardrails` | diagnoses, candidates, choice, gate, as functions of row, policy, instant | `QuietHours` |
| `CasePipeline` | the handlers on one row, each the set of its possible results, and the row invariants | `Guardrails`, `CaseStates` |
| `CaseLifecycle` | the abstract specification: what every committed case promises | `CaseStates` |
| `SyntheticEvents` | the generator's tables, as the kinds of case a batch may open | `CasePipeline` |
| `CaseJourney` | the whole life of one case: replay, then live | `CasePipeline` |
| `Metrics` | recovered and at-risk money | `CasePipeline` |
| `LiveRecovery` | many cases: webhooks, passes, approvals, rollbacks, cases that always raise, customers | `Metrics` |
| `CaseSessions` | concurrent sessions on one row, row locks, the event loop | `CasePipeline` |
| `PaymentClient` | one call of the payment client, attempt by attempt, and its results | |
| `GatewayCall` | the abstract specification of such a call: one step | `PaymentClient` |
| `ConnectionPool` | the bounded pool | |
| `ModelClient` | `classify`: both tiers of the cache, attempts, failures | `ConnectionPool` |
| `RequestThreads` | one process: requests that share loop, pool, cache and gateway, and its restart | `ModelClient`, `PaymentClient` |
| `MC...` | instances for TLC (`MCQuietHours` also the reference definition of quiet time) | |
| `..._proofs` | theorems about the module of that name: `QuietHours`, `MCQuietHours`, `CasePipeline`, `CaseJourney`, `Metrics`, `LiveRecovery`, `CaseSessions`, `RequestThreads` | the module |

How state corresponds: a row record has the columns of `Case` that steer anything, its
`actions` are the executed `Action` rows, `pending` counts the `PENDING_APPROVAL` ones, and
`outcomes` are the `Outcome` rows. `effects` counts what the gateway has really created. A handler is a
set of results `[row, made]`: the row it leaves and the objects it made at the gateway. An
action of `CaseJourney` or `LiveRecovery` is one whole handler with its commit; in `LiveRecovery`
the same results may also end in a rollback that keeps `made`. `CaseSessions` splits the handlers
where they can interleave: at the load (`copy`), at the flush that takes a row lock, at the gateway
call (`work`, `effects`), at the commit (`row`); between the call and the commit a request may still
roll back.
`RequestThreads` splits them where they wait: for a connection, the model, the gateway, the event
loop. It has no case row; what a request does to one is the matter of the other modules, which
take a whole payment call as one step, as `GatewayCall` allows.

Operators marked `Slip` are plausible bugs of the operator that follows them. No specification
uses them; replacing the right definition by one of them makes a property fail, which shows
that the property can.

### Abstractions

- The policy is constant, because a case never changes its snapshot.
- Time is counted in units: three hours in `CaseJourney`, a quarter of a day in `LiveRecovery`.
  Timezones are fixed offsets; the shipped one, Asia/Kolkata, has no daylight saving.
- The error codes are four classes, which is what the decision tells apart. The model may answer
  anything its schema allows, or fail.
- Amount, link expiry, single use and domain of a proposal are copied by the pipeline from what
  the gate compares them with, and the templates contain no sensitive words (an order id that looks like one
  is not considered): these rules do not fire on the pipeline's own proposals and are left out.
- `RecordRecovery` is used where the amount matches; `SuccessWebhook` makes the comparison.
- A replayed failure lies up to twenty days before now or, as the generator adds minutes to the last
  hour of its span (`generator.py:104-107`), up to 59 minutes after it: `ReplayAges` are integers and
  an age of -1 is such a failure.
- The simulated customers of the replay pay or not at will. A batch commits all its cases before
  it observes them one after another: until its turn (`phase = "queued"`) a case may be reached by
  maintenance, people and payments and the clock may advance. The observation loop of one case
  itself is not interrupted.
- A pass in `RequestThreads` has one case to requeue; that a failure undoes the others is
  `LiveRecovery`'s. Writing a cache row through takes one step, as its connection is out for
  nothing else. Rows of an older schema are in the table when the process starts; nothing in the
  code writes them later.
- A call's waits between attempts are the steps of others. Restarting is one step: requests under
  way are gone, the table of the cache and the gateway's objects stay.
- Approving one pending row twice takes it once; the model subtracts twice but not below zero, so that
  `pending` in `CaseSessions` never counts more approvals than there are and may count fewer.
- A pass in `CaseSessions` whose own copy of a requeued case does not wait for an outcome ends without
  effect: `process_case` refuses the transition and the pass rolls back.
- Audit rows and `related_case_ids` are written and never read back by a handler.

## 3. Runs

| Run | Asks | Bounds |
|---|---|---|
| `journey` | eleven row and timing invariants, finality, closing, refinement of `CaseLifecycle` | six live kinds of case and all the generator draws, births at every time of day, replay ages that reach each branch, one of them after now, three retries, two messages, one unit of waiting for the observation, horizon past every deadline |
| `live` | ledger, credit and books across cases; passes leave nothing overdue; a named case comes first; refinement of `CaseLifecycle` | two cases of one order, of which one may raise in every pass, one payment delivered twice, one rollback, one approval, five instants of a four-unit day |
| `quiet_hours` | the arithmetic against windows on the time line | six-unit day, two days, every window and offset |
| `sessions` | what counts was done, escalated cases can be approved, paid cases take no payment, everybody answered | five initial rows; one lost reply per call; seven groups of overlapping requests: an approval with three success deliveries; two approvals, two passes, or one of each, with two success deliveries; an approval with two passes, two approvals with a pass; an approval and a pass with two sibling failures |
| `calls` | fitting answers, no leaked connection, cache, everybody the gateway answers ends, refinement of `GatewayCall` | two webhooks, or a pass and an approval, or a webhook and an approval; a pool of two, two prompts, a stale and an empty cache table, one lost reply, one restart |

The bounds are chosen so that each event that distinguishes behaviours occurs: the caps are
reached, a deferral crosses midnight, a deadline falls on, before and after a wake-up, a lost
reply is followed by a success and by a failure. Counters are bounded in guards only
(`Horizon`, `MaxWakes`, `MaxWait`, `MaxEffects`, `MaxDeliveries`, `MaxAborts`, `MaxApprovals`,
`LastBirth`, `MaxLostReplies`, `MaxRestarts`). `MaxWakes` is the code's own `_MAX_LOOP_GUARD`;
the attempts of a payment call (four) and of a model call (three) are the code's and no bounds.
A pool of two is the smallest in which a request can hold a connection and get another, so that
two requests can exhaust it between them. Deadlock checking is off in `quiet_hours`,
whose clock simply ends, and in `event_loop_frozen`, which is about a standstill.

Seven runs show disagreements between the code and what its documents say:

| Run | What happens |
|---|---|
| `duplicate_payment` | success events leave no `Event` row, so the duplicate test never sees them: a redelivery credits a sibling case of the order, or repeats a late credit |
| `message_cap_rolled_back` | link created, transaction rolled back, next delivery or pass sends another link past the cap |
| `escalated_payment` | the link request errors after the gateway made the link, so the case is escalated with nothing on record; the customer pays the link, and the payment that names the case is ignored for good (`webhooks.py:159`), although `client.py:31-32` says a request that errored never produced a link |
| `order_credit` | a case is deferred and has sent nothing; its customer pays on the order, without a case reference, and the case is `RECOVERED` (`webhooks.py:162-167`), although `README.md:26` counts only payments with the case reference |
| `recovered_overwritten` | a pass that loaded the case before a payment was committed writes `LOST` over `RECOVERED` |
| `event_loop_frozen` | a success webhook waits on the event loop for a row lock whose holder needs the loop to commit |
| `model_failure` | the model's reply has no content, or the connection breaks while it is read: neither is one of the client's own errors, nobody catches it, the request is undone and no person is told |

`recovered_overwritten` and `event_loop_frozen` rest on how the libraries work: an object already in a session keeps its loaded
values when a later query returns it, only changed columns are written, and PostgreSQL (the
database of `docker-compose.yml`) holds a row from its UPDATE to the commit.

`journey` uses equal timezones and a host in UTC, as deployed. With `SettingsOffset` different
from `MerchantOffset`, `DeferralClearsTiming` and `NoReviewForRoutine` fail
(`pipeline.py:230` reads one timezone, the gate the other); with a positive `HostOffset`,
`ReplayEndsAtNow` fails (`batch.py:103` takes local time for UTC). These are listed as hazards.

More disagreements between documents and code that the models contain and no run is about:

- `README.md:83` says quiet hours ultimately read `Merchant.timezone`; the deferral reads the
  settings' (`pipeline.py:230`).
- `batch.py:115` says the timeline ends now; cases the generator places up to 59 minutes later are
  opened and worked at their own, future instant (`batch.py:117-125`). `ReplayEndsAtNow` therefore
  excepts a case's instant of birth; beyond it the docstring's promise (`batch.py:96`), that
  wakes, recoveries and closings are only recorded up to now, holds on a host in UTC.
- `README.md:26` and `client.py:217-225` say that synthetic cases use the mock transport;
  `approve_and_send` takes the live client for every case (`pipeline.py:491`), as `ApproveResults` does.
- `client.py:31-32` says that a retried creation cannot duplicate anything. In `PaymentClient` a
  request whose reply is lost has made its object, so that a retry makes another; `GatewaySpec`,
  `LedgerIsReal` and `CountedActionsExist` allow for it, and `escalated_payment` shows what becomes
  of one that is left behind.
- `metrics.py:6` calls an executed action without a passing check a violation; an action a person
  approved has none, and the code counts failed checks of executed decisions.

Two things nothing in the code excludes and no property claims. Nothing serialises two approvals
(the dashboard leaves its button enabled while a request is under way) or two passes
(`max_instances` binds the scheduled job only): both act on the case. And the later commit
overwrites what the earlier one wrote: counters, `last_action_at`, the state, `RECOVERED` included,
by the mechanism of `recovered_overwritten`. What `sessions` checks is what holds in spite of that:
attempts never exceed the actions on record nor these the gateway's objects
(`CountedActionsExist`), so that counting errs on the side of too little; a case left with a person
has an approval (`EscalatedIsApprovable`); and a case with a committed recovery is credited with no
other payment while it is `RECOVERED` (`PaidCaseTakesNoPayment`), which rests on success deliveries
never leaving the event loop between match and commit. A reader that fetched an outdated cache row
may put it over a good answer in memory, which then has to be computed again (`CachedAnswerStays`
names the exception).

The loop guard of the replay (`MaxWakes`) is in the model but no case of the run needs eight
iterations, so the run says nothing about a guard that ends an observation.

### Fairness

The scheduler runs its job at every interval, one at a time, for ever (`main.py:88-97`), time
passes, and the replay is a loop of one thread: weak fairness of `Maintain`, `Tick`, `Ingest` and
`Replay`, and of `Maintenance` in `LiveRecovery`. Nobody has to approve or pay, so those actions
have none. In `CaseSessions` every thread or coroutine that can run eventually runs. An escalated
case may stay so for ever and `OpenCaseCloses` does not claim otherwise.

A case that raises every time it is requeued (`poison` in `LiveRecovery`) aborts each pass in
which it is due, for every case. It does so only until its own deadline: the sweep comes first and
takes it out of the requeue. So all cases still close, which `LifecycleSpec` checks, though others
may miss their turn meanwhile.

In `RequestThreads` weak fairness of `Proceed` says that threads run and that their waits end: for
a connection by the pool's timeout (`Refuse`, `FetchFails`), for the model by
`CLASSIFY_TIMEOUT_SECONDS` and the attempts. This is why requests end although they hold a
connection and wait for a second one, and a webhook waits for one on the event loop: a standstill
lasts until a timeout, and an error ends it. There is none for `CallGateway`: the SDK is called
without a time limit (`client.py:143`), so `EveryRequestEnds` lets a request stay in a call that
is never answered and says that the others end all the same. Requests need not arrive and the
process need not die. The engine exists before the scheduler starts, after a restart too
(`main.py:59-66`), so a pass may be the first to use the pool.

The other modules take a gateway call as one step inside a handler, so their fairness also assumes
that the gateway answers each call. If it left the scheduler's own call unanswered no further pass
would start (`max_instances=1`), nothing would be swept and cases would stay open; this is listed
as a hazard.

## 4. Proofs

Every safety invariant and every safety property of a step that a passing run checks is also a
theorem. Eight modules hold the proofs. Where a theorem needs more than the modules' own
assumptions it says so under ASSUME, and TLC shows on the runs' instances what happens without.

**Quiet hours.** `QuietHours_proofs` proves `ResumeAtFirstLoudInstant` for every day length, window
and offset: a resume instant exists exactly in quiet hours, lies less than a day ahead, and is the
first instant outside. The local time of an instant is the remainder of a division, and moving on
by less than a day moves the remainder or wraps it once. `MCQuietHours_proofs` proves
`DailyWindow` (`QuietIsTheDailyWindow`) and `FirstLoudInstant` (`ResumeIsFirstLoudInstant`):
an instant is in the window of its own local day or in the one that opened the day before.

**Handlers.** `CasePipeline_proofs` shows that every handler turns a good row
(`RowOK`) into a good row, from the assumptions on the constants only. `RowOK` is the conjunction
of the row's type, one pending approval iff escalated, counters equal to the ledger, every
automatic action within the policy, and credit that agrees with the state. The conjuncts need one
another: that an action stays within the cap follows from the counters being those of the ledger,
and that no outcome is counted twice from the state at each step. The argument for policy is
`RecordOK`: an empty list of violations gives `Clear`, and what `Clear` says of counters and
timestamps is, by the ledger, what `WithinPolicy` says of the new action; earlier actions are
judged on an unchanged prefix. `ProcessLeaves` adds what a run leaves otherwise: a closed case, an
escalation for its reason, a deferral to the latest of the resume instants, or one action now.

**One case.** `CaseJourney_proofs` lifts this to the life of one case. The inductive invariant `IInv` adds the
types and that only an open case is held. The properties about instants need a second one, `JInv`:
a case whose event is not handled is as it was created, one that was handled is never half
processed, only open cases are deferred, and to an instant out of cooldown and quiet hours. It lets
`RowStep` say what any step does to the row: the pipeline runs at an instant that satisfies `Entry`
(out of cooldown, with attempts left or deferred before, not past the deadline except where the
replay wakes the case), the case closes, or a person approves it. For every policy, set of
profiles, births, offsets and bounds:

| Theorem | Property | Where |
|---|---|---|
| `TypeCorrect` | `TypeOK` | always |
| `PendingInvariant` | `PendingIffEscalated` | always |
| `LedgerInvariant` | `LedgerCounted` | always |
| `PolicyInvariant` | `AgentStaysWithinPolicy` | always |
| `CreditInvariant` | `CreditIffRecovered` | always |
| `ClosedForGood` | `ClosedIsFinal` | always |
| `CauseInvariant` | `AwaitingHasACause` | always |
| `ObservedInvariant` | `ObservedAfterActing` | always |
| `DeferralInvariant` | `DeferralClearsTiming` | gate and deferral read one timezone |
| `NoReviewInvariant` | `NoReviewForRoutine` | one timezone; at least one retry and one message allowed |
| `PastInvariant` | `ReplayEndsAtNow` | the host's clock is in UTC |
| `TtlInvariant` | `TtlClosesAsLost` | the host's clock is in UTC; the deadline is a day or more away |
| `LifecycleSafety` | the safety part of `LifecycleSpec` | always |

The deployed service satisfies the conditions: both timezones are Asia/Kolkata by default, the
container runs in UTC, and the default policy (`entities.py:80-91`) allows three retries and two
messages and closes cases after 14 days. The code enforces none of them. On the `journey` instance
TLC refutes `DeferralClearsTiming` and `NoReviewForRoutine` with two timezones,
`NoReviewForRoutine` with no retries or no messages, `ReplayEndsAtNow` with a host ahead of UTC,
and `TtlClosesAsLost` with a deadline of half a day. The condition on the host in `TtlInvariant`
is what its proof uses; TLC finds no counterexample without it.

**Many cases.** `LiveRecovery_proofs` lifts it to any number of cases, payments, deliveries, rollbacks and
approvals. What a transaction adds to a row (`Added`) are actions with as many objects at the
gateway and outcomes that credit nobody; only a success webhook credits. The inductive invariant
says of each row that it is good, has no more actions than there are objects, credits only money
that was paid for it (`RealMoney`), and is never left `NEW` or `PROCESSING`. `CaseStep` says what
any step does to any case, and the theorems follow case by case:

| Theorem | Property |
|---|---|
| `TypeCorrect` | `TypeOK` |
| `LedgerReal` | `LedgerIsReal` |
| `CreditReal` | `CreditIsRealMoney` |
| `PassInvariant` | `PassLeavesNothingOverdue` |
| `ReferenceInvariant` | `ReferenceWins` |
| `BooksInvariant` | `MoneyReconciles` |
| `LifecycleSafety` | the safety part of `LifecycleSpec`: initial states and steps of `CaseLifecycle` |

`BooksInvariant` is about a sum over all opened cases. `Metrics_proofs` has what it takes: induction
over the subsets of a finite set, as a statement about a set of sets (a smallest set that is not in
it, by `WFMin`); that the recursive function behind `MapThenSumSet` exists and is unique; that it
may take its elements in any order; and that two sums make up a third if they do so element by
element. `BooksBalance` states the result for every finite table of rows; that only finitely
many cases have been opened at any time is an invariant of `LiveRecovery`.

**Overlapping requests.** `CaseSessions_proofs` is about any number of approvals, passes, success
and failure deliveries on one row, whatever rows they may find and whichever of them overlap. A
handler appends at most one action and one outcome to its copy, counts what it appends, and leaves
a case to a person only with an approval (`Handles`); so what `Merge` makes of the committed row is
that row, with the entry appended and the changed columns overwritten (`MergeType`,
`MergeOutcomes`). `Held` says of each session between its gateway call and its commit that what it
will write is what a handler made of its copy, and `StepShape` what any step does.

| Theorem | Property | Where |
|---|---|---|
| `TypeInvariant` | `TypeOK` | always |
| `CountedInvariant` | `CountedActionsExist` | live cases |
| `ApprovableInvariant` | `EscalatedIsApprovable` | always |
| `PaidInvariant` | `PaidCaseTakesNoPayment` | always |

`CountedInvariant` counts the sessions that have acted and not committed (`Unrecorded`): the
ledger and they together never exceed the gateway's objects, and a copy's ledger is never longer
than the row's. For `ApprovableInvariant`, who escalates adds an approval to those committed, and
who takes one found the case with a person and writes another state. For `PaidInvariant`, a delivery
past its match holds the event loop and the case is not paid (`Matching`), as no other request
appends a credit or turns a case to `RECOVERED`.

**Requests in a process.** `RequestThreads_proofs` shows, for any requests, prompts, pool size, lost replies and restarts:

| Theorem | Property |
|---|---|
| `TypeCorrect` | `TypeOK` |
| `FittingInvariant` | `ActsOnlyOnFittingAnswers` |
| `CacheInvariant` | `CachedAnswerStays` |
| `PoolInvariant` | `PoolConserved` |
| `GatewayImplemented` | `GatewaySpec` |

Its inductive invariant is about each request by itself (`RequestOK`): what step its model call
can be at with what answer, that it has only fitting answers until it has called the gateway, and
that a payment call under way has made exactly what was lost of it. A step changes one request
and leaves the others; a crash sets all of them to states that satisfy it. The books of the pool
(`Books`) are inductive on top of it.

The assumptions are the ones named in the modules: a positive day length, natural numbers
for the limits, times of day inside the day, channels among the known ones, `None` distinct from
instants, payments, cases, rows and requests, clocks that start at zero or later, initial rows of
`CaseSessions` as handlers leave them (counters of the ledger, one approval iff escalated), a pool
of at least one connection and finitely many requests.

Only model-checked: liveness (out of the prover's reach, as is ENABLED), that is `OpenCaseCloses`,
`EveryRequestAnswered`, `EveryRequestEnds` and the fairness part of the two refinements of
`CaseLifecycle`. The seven runs that end in a violation are statements about documents that the
code contradicts and have no theorem.

## 5. Not modelled

- Read-only endpoints: they return rows as they are. The summary reads cases and outcomes in
  separate statements and is no snapshot; `MoneyReconciles` is about the sums of one state.
- The rates of the metrics: quotients of counts, no state of their own.
- Message texts, prompts, the content scan, links' URLs: wording.
- Signatures and parsing of webhooks: they reject a request before any state is read.
- The audit log and its guards, `related_case_ids`: written, never read back by a handler.
- The dashboard: it polls; its one write is the approval request, modelled at the server.
- Migrations and start-up checks: they come before any case.

## 6. Plan

Done in this order, most important behaviour first: `QuietHours`, `Guardrails`, `CasePipeline`,
`CaseJourney` and its proofs; `LiveRecovery`; `CaseSessions`; `PaymentClient`, `ModelClient`,
`ConnectionPool` and `RequestThreads` with their proofs; overlapping approvals and passes; cases
that always raise; replay and maintenance interleaved; the proofs about `LiveRecovery`.

Then the proofs about quiet hours, the instants of `CaseJourney` and its refinement, `CaseSessions`
and the sums of `Metrics`.

Next, for the proofs: `TtlInvariant` for a host that is not in UTC, from an invariant about how far
the replay's clock may run ahead; the handlers' results in `CasePipeline_proofs`, `LiveRecovery_proofs`
and `CaseSessions_proofs` from one common lemma about what a handler adds; that the ledger of
`CaseSessions` misses at most what was rolled back or hidden by lost replies.

Next, for the model: a policy whose replay reaches the loop guard; different timezones in `journey`,
with what still holds then; the summary's two reads beside a payment; the offsets of daylight saving for
merchants outside India, should the service support them.
