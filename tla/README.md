# Formal models of the control architecture

TLA+ modules of the domestic-payment control architecture in this repository,
the TLC configurations that check them on small instances, and proofs of the
properties that matter most, checked by TLAPS.

The system moves money through a mock rail. A payment is accepted by a policy,
validated, held for a human approval, released once, and ends settled, failed
or in need of reconciliation. Nothing spans two services: no distributed
transaction, no queue, no lock. What keeps the system correct is the order of
HTTP calls, an idempotency key in the memory of one process, an outbox with
leases and a unique column. These models ask how far that carries when handlers
run concurrently, answers are lost, late requests arrive and processes restart.

## 1. The system

All services are FastAPI applications with synchronous endpoints: every request
runs on a thread of a pool, so the steps of two requests interleave. HTTP
clients give up after 5 seconds and never retry; a call that was given up may
still be served. Databases run at READ COMMITTED without row locks.

| component | state | operations that change it | calls |
|---|---|---|---|
| capability-gateway (`apps/`) | two dictionaries in memory: payments, idempotency keys | create instruction, validate beneficiary, release | mock rail |
| context-memory-service (`services/`) | task rows, outbox events | create task, patch state, claim / complete / fail event | - |
| provenance-service (`services/`) | provenance record, transitions, artifacts, delegations of each task | create record, append transition, create artifact, create / update delegation | - |
| event-consumer (`services/`) | none | `process_once`: claim a batch, project each event, complete or fail it | context-memory, provenance |
| workflow-worker (`services/`) | none but the handlers in progress | start, resume | gateway, context-memory, provenance, event-consumer |
| orchestrator-api (`apps/`) | none | intake, resume | policy-engine, context-memory, provenance, worker |
| policy-engine (`apps/`) | thresholds, read once | none: two pure decisions | - |
| shared-contracts (`packages/`) | - | data types, `merge_task_detail` | - |
| memory-service (`services/`, older) | tasks, history, artifacts, delegations in one database | the same writes as the two newer stores | - |
| ops-console (`apps/`) | one browser page: task on display, selection, proposed key, recent tasks | select, load, refresh, create, resume, reload | orchestrator-api |
| MCP server of the orchestrator | none | the same intake and resume, as tools | orchestrator-api's service |
| control-plane, configuration, migrations | configuration, schemas | nothing of the payment state | - |

How they interact: the orchestrator asks the policy and hands an intake or a
resume to the worker. The worker's handler is a fixed sequence of calls. Every
write of a task row puts an event into the outbox in the same transaction; the
worker then asks the event-consumer for one dispatch run, which copies what is
due into the provenance history. The first event of a task opens its provenance
record, without which artifacts and delegations are refused.

What is hard, and what has to be right:

- **gateway**: the key is looked up before and remembered after the call of the
  rail; records are rewritten from copies read earlier; a restart forgets all.
  An answer must be the outcome of that very request, a key must be used once,
  a restart must not reopen a released payment.
- **outbox path**: claims, completions and failures are read-then-write, leases
  expire while a run still works, requests arrive after their caller gave up. No
  transition may be lost or recorded twice. Claims follow `created_at`, the time the
  writing transaction *started*, which need not be the order of commits; the history
  must not put a transition before one of its task that started and committed earlier.
- **sagas**: handlers act on rows read earlier, a failed call ends a handler
  half-way, an abandoned call commits later. Whatever happens, a release must be
  licensed, and the task must not say what did not happen.
- **policy**: decisions at thresholds, and on state that may be stale.
- **console**: answers arrive after the operator has gone on, and each is applied
  to what the page shows by then. The key of one release must not be sent with
  another, nor a waiting payment drop out of the queue.

`PROJECT.json` lists each of these hazards at the line where it bites, with the
properties that would catch it going wrong.

## 2. Modules

    Dict, DictTheorems                    dictionaries as partial functions
    CapabilityGateway                     the gateway, step by step
      IdempotentRelease                   what a release boundary promises
      CapabilityGatewayProofs             any number of threads: invariant, refinement
      MCCapabilityGateway                 instances for TLC
    ContextStore, ProvenanceStore         the two stores, split at read / commit
      EventConsumer                       composes them with the dispatch runs
      EventDelivery                       what an outbox promises
      MemoryService                       the single store they replace
      EventConsumerProofs                 inductive invariant, refinement
      SingleStoreProofs                   the split store implements the single one,
                                          the outbox tells the rows, the history
                                          keeps the order of the events
      MCEventConsumer
    Policy                                the two decisions
      PaymentWorkflow                     orchestrator and worker sagas
      PaymentLife                         what a payment may live through
      PaymentInvariants                   what the position of a handler says
      PaymentWorkflowProofs               any number of handlers: releases, statuses
      PaymentIntakeProofs                 any number of handlers: intakes
      PaymentLifeProofs                   handlers of one payment apart: the refinement
      MCPaymentWorkflow
    OpsConsole                            the operator's page
      OpsConsoleProofs                    until the first fault: what the page shows
      MCOpsConsole

**CapabilityGateway.** `records` and `keys` are `InMemoryGatewayStore`;
`releasing` and `validating` hold the local variables and the position of each
thread. `ReleaseBegin` (checks, `service.py` 226-241), `ReleaseLookup` (243-252),
`ReleaseSubmit` (254-259), `ReleaseStore` (260-276) and `ReleaseRemember`
(277-290) are the steps between which other threads run; `ValidateRead` and
`ValidateStore` split `validate_beneficiary` the same way. `railLog` records what
the rail was asked. The fingerprint is the request itself; keys are abstract
because the schema has already refused short ones; time and text are left out.

**ContextStore, ProvenanceStore, EventConsumer.** A patch reads the row
(`PatchRead`) and commits the row and its event together (`PatchCommit`); the
ORM writes only the columns that differ from what was read, and so do the
actions. `ClaimRead`, `ClaimCommit`, `WriteCompleted` and `WriteFailed` are
`claim_outbox_events`, `complete_outbox_event` and `fail_outbox_event`. A run of
the consumer is a batch and its current call; a call is read, written and
answered in separate steps. A call given up moves to `late`, where it is still
served or lost. `late` is a set: two late calls that are equal are one, which
loses no behaviour because a late call may be served after any delay and the
second one finds what the first left. A lease is a flag (`none`, running, expired),
`LeaseExpires` is time passing.

An event has two orders. Its position in `outbox` is its commit; its `stamp` is
`created_at`, a server default `now()` (`models.py` 49-52), which in Postgres is the time its
transaction started. `clock` counts the transactions that have started (`Begin`), a patch
takes its stamp when it reads (`PatchRead`) and commits whenever it likes, so two
overlapping patches may commit against the order of their stamps. Claims take the earliest
stamps (`Due`, `repository.py` 133), and so does a run its batch. `Before(i, j)` is that
both orders agree; of events of overlapping transactions neither comes before the other.
This is not caution: with two writers, one run at a time and no fault, TLC finds a
history against the order of commits at once. A creation begins and commits in one step, as
no other transaction can name its task before. Stamps are distinct, as the
clock of Postgres makes them; an SQLite file (`INSTALL.md` 40) keeps whole seconds, and events that tie there are claimed in an order the code does
not determine.

Runs are asked for by clients, one after each write (`wanted`, `DispatchWanted`), unless
the client dies first (`RunNeverAsked`), and by whoever else posts to the endpoint
(`Dispatch`, where `Uninvited`).

An event may be one that no projection accepts: the outbox keeps a reason as JSON
of any length, the history keeps it in 255 characters and a name in 128, which
Postgres enforces. `Fits` says which of the two a request's text is; the
insertion of an event that does not fit breaks a constraint (`Conflicts`), the run
reports a failure and the next claim takes the event again. The bound `MaxEvents` is
on the transactions that start, so it never stops a patch half-way.

**MemoryService.** The older service, in which a row and its history entry were
one transaction. It is abstracted to rows, patches and the status changes of the
history, and is the specification the split store implements: the outbox is read
as the history (`SingleStore` in EventConsumer). The mapping reads
the outbox whether or not an event can be projected, so for a text that is too long the
single store refuses a request which the split store accepts and never records:
there the refinement says only what the outbox will announce, not what the
history will hold.

**PaymentWorkflow.** A handler is the call it is about to make; the code's call
sequence is the pair of tables `StartCalls` and `ResumeCalls`, and `FirstPatch`
is the branch on the result. `Serve(t)` lets a service serve one call; a call is
one step, except that a patch is read (into `base`, beside the row the saga works with)
and committed separately, a release looks
the key up before it submits, and a committed write is followed by a dispatch
run that first claims and then projects. `BeginResume` is the orchestrator's
policy check on the row it reads; the worker reads again in `ReadRow` and
`ReadRecords`. `Abandon` is a timeout, a lost answer or a dead worker: the
handler is over, the call stays on its way and is served or lost.
`Handlers` therefore bounds handlers plus abandoned calls, and `MaxAwaited` the
handlers at work. The stores are reduced to what the sagas see of them; their own
concurrency is the subject of the other two groups. Two simplifications: a dispatch
run claims and projects creations in two steps without leases or poison events, and a release in
the gateway is two steps (the write-backs of the gateway change nothing a saga reads).

**Policy.** `IntakeDecision` and `ReleaseDecision` keep the order of the checks
in `policy_engine/service.py`; the approval outcome and the presence of a key,
which the orchestrator fixes, are left out.

**PaymentLife.** A payment as its task tells it and as the rail sees it: statuses in
order, one submission, after the approval, and a conclusion that is the rail's
answer. `ImplementsPaymentLife` maps `tasks` and `railLog` to it.

**PaymentInvariants** holds the three inductive invariants of the sagas, which the
runs check and the proof modules prove (section 4). It adds no behaviour.

**OpsConsole.** `page` is the state of `App.tsx`, `recents` the list in local
storage. `Select`, `Refresh`, `Create`, `Resume` and `Reload` are what the operator
does, with the conditions that disable a button as guards; `SetSelected` includes
the effect that fetches a task when the selection changes. `Apply` is the handler
of an answer: the task on display, the list, and the proposed key (`NextKey`; a read
keeps the key in the form, a creation and a release draw a new one). The services
are a stub: a status per task, a key per release, every conclusion
`settlement_pending`. The page is their only client, its operator does not edit the
proposed key, and drawn keys differ. An answer may arrive before one that
was read earlier: HTTP gives no order, and the orchestrator makes further calls after
it has read a row. That is no fault; `overtaken` remembers that it happened, for the one
property it matters to. A fault is an answer given up or lost to a reload. `Without`
removes the entry of a task from the list by its position; an assumption of the MC
module checks that this is the filter of the code, on every list of the instance.

## 3. Runs

| run | instance | shows |
|---|---|---|
| `gateway` | 2 threads, 2 payments, 2 releasers, one key fought over, 1 restart | `AnswerBacked`, `ApprovedOnlyAfterRail`, `RestartNeverRepeats`, `ThreadSubmitsKeyOnce`, `AtMostOnceIfApart`, the invariant of the proofs |
| `gateway_serial` | 1 thread, 2 keys, wrong tasks and modes, 1 restart | the gateway implements `IdempotentRelease` |
| `gateway_race` | 2 threads | **violated**: `AtMostOncePerKey` |
| `outbox` | 2 runs, 1 writer, 2 events, 1 fault | `CompletedIsRecorded`, `RecordedOnce`, `OutboxTellsRow`, the invariant; implements `EventDelivery` |
| `outbox_serial` | 1 run at a time and only after writes, 2 writers, 3 events, some poison, 1 fault, fair | `HistoryInOrderWithoutFaults`, `EventuallyAligned`, `NextWriteAligns`, the invariant of the order; implements `MemoryService` |
| `outbox_stranded` | 2 runs | **violated**: `NoEventStranded` |
| `outbox_order` | 1 run, 1 fault | **violated**: `HistoryInOrder` |
| `workflow` | 2 handlers, a valid payment and one under review, 3 orders, 7 approvals, 1 fault | `ReleaseLicensed`, `StatusBacked`, `AwaitingIsReady`, `IntakeFindsRecords`, the invariants of the proofs |
| `workflow_serial` | 1 handler at work beside abandoned calls, 2 payments, refused keys, 1 fault, fair | `FailedMeansUnreleased`, `OneReleasePerPayment`, `ReleaseNeedsApproval`, `EventuallyConcluded`, the invariant of the proofs; implements `PaymentLife` |
| `workflow_double` | 2 handlers, no fault | **violated**: `OneReleasePerPayment` |
| `workflow_reconcile` | 1 fault | **violated**: `UnknownIsReconciled` |
| `console` | 3 tasks, a list of 2, 6 calls, answers in any order, 1 fault | `QuietIsCurrent`, `NoApprovalWasted`, `QueueHasAwaiting`, the invariant of the proofs |

The five violated properties are promises of the documentation (quoted in
`PROJECT.json`, "findings"); the traces are short and are worth reading:

- two requests under one key overlap and the rail performs both (`gateway_race`);
  `AtMostOnceIfApart` says that this needs them to meet between check and record;
- a failing run clears a claim that another run has just taken, and the event is
  never offered again (`outbox_stranded`);
- a run goes on after a failed event, whose retry lands behind its successors
  (`outbox_order`);
- two approvers resume one task at once and it is released twice
  (`workflow_double`); `ReleasedOnceIfApart` proves that there is no other way to a
  second release;
- a release whose answer is lost leaves its task approved, not
  `pending_reconcile`, and no resume is possible (`workflow_reconcile`).

One disagreement needs no run: `delegation.py` 145 asks for two approvals of a
high-value payment, and no code reads the number again; the first resume releases.

**Bounds.** Races here need two actors on one object, so two threads, runs or
handlers and one or two payments or events reach them; a third event is needed for
an order to be broken by a retry; one fault separates a caller from its effect.
Two writers of one task suffice for columns to be mixed and for commits
against the order of `created_at`. Three tasks against a list
of two let a task fall out of the list, and six calls are two creations, two
selections and two approvals. `MaxRestarts`, `MaxEvents`, `MaxFaults`, `MaxAwaited`
and `MaxCalls` appear only in guards. The sagas meet the verdicts
`validated` and `needs_review` (`rejected` differs from the latter only in the
status that ends the intake), keys with every
outcome of the rail, keys the gateway refuses, amounts below and at the threshold, and
a rail out of scope. `console` alone uses symmetry, of its tasks, and checks
invariants only. Deadlock is not checked where a bounded
system simply runs out of events, payments or handlers; it is checked for the
gateway, which always accepts another request.

**Fairness.** `FairSpec` of EventConsumer grants what the code gives: a run that a client
asks for after its write is started, and a run that was started goes on (threads are
scheduled, servers answer). Nothing else starts a run: there is no background loop, so
the runs are as many as the writes (`memory_client.py` 180-187), and writers may stop at any
time. No lease has to expire, no late call has to be served. Two properties say what
follows. `EventuallyAligned`, a `<>[]` property: without faults and overlapping runs, the
runs that clients ask for are enough. Every event the history has room for is recorded and
stays so, and only poison events are left, as long as they are fewer than the claim limit;
with as many, each claim takes the same ones again, because they are the oldest and a
failure is claimable at once. `NextWriteAligns`: what a fault left behind, the batch of a killed
run, an event put aside, a run never asked for, waits for the next write, and the run after
that write records all of it, provided that the leases are over by then and one claim
takes it all. Until somebody writes, it waits, possibly for ever: no property says
otherwise. `FairSpec` of PaymentWorkflow: a service serves the calls that reach it
(`WF_vars(Serve(t))`); no caller is ever obliged to send anything and no fault has to
happen. `EventuallyConcluded` therefore excuses behaviours in which a fault occurs:
there is no process that would pick up an abandoned task.

**Reading the properties.** `FailedMeansUnreleased`, `OneReleasePerPayment` and
`ReleaseNeedsApproval` are checked with one handler at work; with two, the resume that fails second marks
a released payment failed, a consequence of the double release. So is
`ImplementsPaymentLife`. `EventuallyConcluded` has to
name a third ending: the orchestrator and the worker take
any key, the gateway refuses one shorter than eight characters or used for another
payment only after the approval is recorded; such a task stays approved and
unreleased for good. What the property adds is that nothing but a fault or a refused key
stops a spent approval, and that such a task is never released behind its status.

`AwaitingIsReady` lets an approval be completed while the task still waits, as long as the
resume that completed it is at work on the task; after a fault it lets the
task wait for good, which is what a worker that dies between the two writes leaves
(`service.py` 330). `IntakeFindsRecords` says the one way in which an intake meets a 404 without a fault:
the dispatch run of another handler has claimed the creation of its task and not yet
projected it. The intake then ends and its task stays in `received`, which the code
does not repair; a property that every intake ends in a status is false of it.

`OutboxTellsRow` needs a single writer per task: two concurrent patches mix
columns while each event announces its own full row. With two,
not even the status survives: of two patches that overlap, the event with the later
`created_at` may be the one committed first, and the row keeps the other's status.
The three properties of the console hold until the first fault: a release whose answer is
lost leaves its key in the form, so that the next approval is wasted on it. Two of them hold
in whatever order answers arrive; `QuietIsCurrent` needs that none was overtaken, because the
page applies whatever arrives and an overtaken read leaves the older status on display.

## 4. Proofs

For every number of payments, keys, threads, tasks, runs and faults. Where the code
relies on requests that do not meet, that is a hypothesis *on behaviours*, an
invariant of its own named for what must be kept apart, and no bound on threads,
handlers or runs: `KeysApart`, `PatchesApart`, `RunsApart`, `OneAtATime`. Each is what a
lock on one key, row or payment would give, so the theorem says where the lock belongs.
None can be dropped: `gateway_race` and `workflow_double` are the violations without
`KeysApart` and `OneAtATime`; with two writers the `outbox` instance violates
`OutboxTellsRow`, and two overlapping runs that claim one event each put them into the
history in either order, without any fault. The services enforce none of them; only
instances with one thread, one run or one handler satisfy them by construction.

- `CapabilityGatewayProofs`: `GatewayInvariance` proves `Spec => []GatewayInv`.
  The properties alone are not inductive. `AnswerBacked` needs that every
  outcome held in memory came from the rail (`OutcomesBacked`);
  `RestartNeverRepeats` needs that identifiers are fresh and that payments of an
  earlier incarnation are closed (`OldPaymentsClosed`, `HandlersKnown`);
  `ThreadSubmitsKeyOnce` needs that each submission is remembered, or held by
  the thread that is about to remember it (`SubmissionsKnown`).
  `ApprovedOnlyAfterRail` is about copies too, so handlers' copies are in
  `HandlersKnown`. From it follow `AnswersAreBacked`, `RecordsAreBacked`,
  `RestartSafety` and `ThreadIdempotence`. If no two requests with one key are at once
  between the check of the key and its record (`KeysApart`), `OncePerKeyIfApart` proves
  `AtMostOncePerKey` and `RefinementIfApart` that any number of threads implement
  `IdempotentRelease`. Both need `StillUnbound`: from the check of the key to the moment
  the answer is remembered, nobody else has remembered that key.
- `EventConsumerProofs`: `DeliveryInvariance` proves `Spec => []DeliveryInv`,
  where the strengthening is `CallsBacked`: a call on its way, awaited or late,
  is justified by what the stores hold, which stays true because the history and
  the opened tasks only grow. `NothingLost`, `NothingTwice` follow, and
  `DeliveryRefinement` shows every step to be a step of `EventDelivery` or a
  stutter.
- `SingleStoreProofs`: `StoreRefinement` shows that rows, patches and outbox
  implement `MemoryService`, for any number of writers: each step of the context
  store is a step of the single store, and no other step touches what the mapping
  reads (`OtherSteps`, by `SameStory`: claims, completions and failures rewrite
  events but never the change they tell; `StoryGrows`: a write appends one entry).
  `RowToldIfApart` proves `OutboxTellsRow` if no two requests patch one row at once
  (`PatchesApart`), from `ReadIsCurrent`: what a patch has read is still the row when it
  commits. `OrderIfApart` proves `HistoryInOrderWithoutFaults` if no two dispatch runs
  overlap (`RunsApart`), from `OrderInv`. The order cannot be had from the history
  alone: an event may be behind because it failed, or because its transaction started
  late and committed early. So `RunInOrder` says that a run is at the earliest event of its
  batch, that whatever comes before an event of the batch (`Before`) is in the batch,
  recorded or can never be (`AllBefore`, `Poisoned`), and that its calls fail only for such
  events; for a refused transition this needs that each task has exactly one creation,
  which comes before its other events because no patch of the task can start before
  it (`EventsHaveCreation`), and could not be recorded itself. A patch that commits late with
  an early stamp is no exception: what it comes before is not yet committed. That claims
  follow the stamp and not the commit costs a lemma (`ClaimInOrder`): an event that comes
  before a claimed one has the earlier stamp, so the claim takes it or it needs no claim.
- `PaymentWorkflowProofs`: `SagaInvariance` proves `Spec => []SagaInv` for any number
  of handlers at work and calls left behind. `ReleaseLicensed` is about the moment
  of the release, but every check behind it was made earlier, on data that may be
  stale by then; `HandlersBacked` says which checks a handler has behind it at each
  position (`Judged`, `Checked`, `Endorsed`), in terms of orders, artifacts and
  the log of the rail. Those only grow, so no step of another handler takes the
  evidence away. `TasksBacked` says the same of rows, and of the copies handlers
  have read. `EveryReleaseLicensed` follows, and `EveryStatusBacked` if
  `AmbiguousStatus` is not `settlement_pending`: a configuration that takes an
  ambiguous answer for an acceptance makes tasks say it was one.
- `PaymentIntakeProofs`: `IntakeInvariance` proves `Spec => []IntakeInv`, again for
  any number of handlers. An intake has its payment for itself until its task waits
  (`StartsAlone`): nobody else may name it, because a resume is licensed only by the
  status that ends the intake. So `StartsFresh` can say exactly what row and records
  hold at each position, and `WaitingRecorded` what a task that waits has. A resume works
  on a row with the beneficiary approved and writes back no other (`ResumesApproved`); one
  that read another status before its commit finds the task no longer waiting
  (`ApprovalsLast`). The approval of a task that still waits is pending, or completed
  by a resume that is about to say so (`SpentIsTaken`): until the first fault nothing stops
  it. Until then, too, every creation is projected, held by a run that claimed it, or about
  to be claimed by the run that follows it (`CreationsTaken`), so an intake that does not find its records knows who has them.
  `EveryWaitingIsReady` and `EveryIntakeFindsRecords` follow.
- `PaymentLifeProofs`: if no two handlers are at work at once for one payment
  (`OneAtATime`), beside any number of handlers of other payments and of calls left
  behind, `ApartInvariance` proves `SerialInv`: a resume that completes the approval is
  the only one of its payment that ever will (`Alone`), so status, approval and releases
  are those of its position (`SpendingInPlace`). Calls that were given up may still
  commit, so the invariant says of them what it says of handlers at work. From it follow
  `ReleasedOnceIfApart`, `FailedIfApart`, `ApprovedIfApart` and the refinement
  `LifeIfApart`. All ask that an ambiguous answer be reconciled (`Reconciling`, the value
  of `default.yaml`).
- `OpsConsoleProofs`: `ConsoleInvariance` proves `Spec => []ConsoleInv`, for any set of
  tasks, length of the list, number of calls and answers on their way. `QuietIsCurrent`
  speaks of a page that waits for nothing; the invariant has to say what the page is in
  the meantime. Until an answer is overtaken, whatever status it shows, or an
  answer carries, is the orchestrator's or a *later* answer brings news of it, or a resume
  is at work on it (`UpToDate`), so the last answer to be applied is current. The rest does
  not ask for an order of answers. For the key, that one resume
  is on its way at most, that its key and the key of the page have released nothing
  unless the answer that replaces the latter is due (`OneResume`, `KeyTold`), and that no
  answer brings a key drawn before (`KeysDrawn`). For the list, that an update puts its
  task in front, keeps one entry for each, and drops one only when more tasks
  exist than it has room for (`UpsertFacts`, `ListHasRoom`). `ConsoleTypes`,
  `QuietCurrent`, `NoWaste` and `QueueComplete` follow.
- `DictTheorems`: domain, value and type of an updated dictionary.

The proofs use only the named assumptions on constants in the modules; TLC
evaluates those on every run. There is one step per action, and `_vars` stutters
are separate.

Only model-checked: liveness (`EventuallyAligned`, `NextWriteAligns`, `EventuallyConcluded`),
because TLAPS does not do fairness. Every safety property and refinement that a passing run
checks is proved, some under the hypotheses above; those of the violated runs are false. No module uses RECURSIVE operators.

## 5. Not modelled, and why

Reads that change nothing (status, listing, metadata); envelopes,
timestamps and text, on which no decision depends but for the length of a text;
control-plane, which serves documents read-only; configuration loading, whose values
are constants here; the migrations, which run once. The MCP server has no state: its
two tools that write are `BeginStart` and `BeginResume`. Of the older memory-service
the artifacts and delegations are not modelled a second time. Of the console, views
and forms are left out, and the control summary, which is read once.
Attempt counts of events are kept by the code and read by nothing.

## 6. Plan

Done, in this order: gateway (core, abstract specification, proofs), outbox path
(stores, consumer, abstract specification, proofs, poison events, two writers, the
single store it implements, the order of the history, `created_at` beside the order of
commits, runs only after writes), policy and sagas (model, runs,
findings, life of a payment, liveness of intakes and approvals, proofs), console (model,
proofs), hypotheses on behaviours instead of bounds on actors. Next:

1. `Policy`: that what is allowed at release was not denied at intake; the Rego
   policy beside the Python, which differ in the status they require.
2. The outbox path with faults: which transitions of a task may be out of order after
   a failed call, and that those of tasks without a failure are not.
3. A gateway and sagas whose dictionaries and handlers are composed in one module, so
   that the two steps a saga sees of a release are shown to be what the gateway does.
