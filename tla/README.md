# ReconMate: a TLA+ model of the recovery backend

ReconMate helps an operator recover unpaid invoices. A Python backend
(`src/apps/api/app`, FastAPI over SQLAlchemy and PostgreSQL) keeps the ledger,
derives what may be done about each case, records what an operator decided and
executed, and can simulate the passing of days. A web dashboard
(`src/apps/web`) drives it. This directory models the part of the backend that
changes persisted state and the reports and plans computed from it, checks it
with TLC on small instances and proves some of the results with TLAPS.

Paths below are relative to `src/apps/api/app` unless they start with `src/`.

## 1. Inventory

| Component | State it keeps | Operations | Modelled in |
|---|---|---|---|
| Recovery evaluator, `recovery/engine.py` | none; reads facts, writes `RecoveryCase.current_state` | `evaluate_invoice`, `evaluate_promise`, `evaluate_case`, `evaluate_communication_eligibility`, `synchronize_recovery_states`, summary | `RecoveryPolicy`, `Portfolio`, `BatchReport` |
| Recommender, `recommendations/service.py` | none | `recommend_case` | `RecoveryPolicy` |
| Simulation, `simulation/service.py` | `SimulationState` (date, tick, seed), every fact it generates, the transitions of its last cycle | `run_tick`, `reset_simulation`, `simulation_dashboard` | `Portfolio`, `RecoverySystem`, `CycleReport` |
| Payments, `payments/` | `external_payment_requests`, `provider_events`, `payments`, invoice balances | `create_external_payment_request`, `ingest_demo_payment_event` | `RecoverySystem` (events as whole handlers, creations in two steps), `ProviderEvents` (transactions) |
| Interpretation review, `intelligence/service.py`, `fact_review.py` | the metadata of a communication: last analysis, accepted analyses, decisions in the audit trail | `persist_analysis`, `review_candidate_fact` | `RecoverySystem` |
| Action workflow, `workflow/service.py` | `recovery_actions` and its audit events | create, approve, reject, hold, cancel, execute | `Workflow` |
| Command plans, `commands/service.py`, `executor.py` | registry of the process; plan, selection and result rows in the audit trail | run, confirm, replay | `CommandPlans`, `ConfirmOnce` |
| Command planning, `commands/interpreter.py`, `planner.py`, `tools.py` | none | parse, query, select cases, propose | `CommandPlanning` (queries and proposals) |
| Operational intelligence, `intelligence/operational_service.py`, `transitions.py` | none | score, advise, classify a change | `OperationalIntelligence` |
| Reports, `reporting/` | none | batch recovery proof, recovery experiment | `BatchReport`, `RecoveryExperiment` |
| Import, `imports/receivables.py` | customers, invoices and cases | preview, confirm | `Imports` |
| Candidate extraction, `intelligence/candidates.py`, `provider.py` | none | text to candidate facts | constants of `RecoverySystem` |
| Evidence, `evidence/timeline.py` | none | one timeline from many tables | not modelled |
| Seed, `seed/portfolio.py` | every table | write and validate the baseline, summarise it | the constant `Baseline`, `BatchReport` |
| Domain and sessions, `models/domain.py`, `db/session.py` | every column | one session for each request | all modules |
| Read-only routes, `api/routes/portfolio.py`, `recovery.py`, `reports.py`, `health.py` | none | queries | with the services they call |
| Dashboard, `src/apps/web/src/components/dashboard` | automatic mode, last known cycle | run, pause, reconcile after a timeout | not modelled |

### How they interact

All state but the command registry is in one database. Endpoints are plain
functions, so that the server runs them in worker threads, at the same time;
each has its own session (`db/session.py`), which commits once. There is no
version column, and only `SimulationState` is read `FOR UPDATE` (by cycles and
resets). A handler that changes facts calls `synchronize_recovery_states`
before its commit, which stores the case state the evaluator derives. The
recommender reads the evaluator's result and the accepted interpretation
signals; payments, the workflow and the planner ask the recommender before they
do anything. Scores, advice and reports are computed on request from the rows
as they are; a cycle computes them before and after itself and stores what
changed.

### What is hard, and what correctness means

* **Evaluator and recommender.** Two derivations of one promise or invoice
  (stored status and derived state) live side by side. Correct: stored case
  states follow the facts after every commit; a resolved case is not reopened;
  factual blockers beat interpretation signals.
* **Simulation.** A cycle is long, random and must be all or nothing. Each
  event is chosen from what the earlier ones left. Correct: money is conserved
  in every intermediate copy, disputed and settled documents are left alone,
  the simulator is not refused while something is owed.
* **Payments.** The provider may repeat an event with the same identity, or the
  same payment with a new one, later or at once; requests are paid in parts,
  after the facts that allowed them changed. The provider is also called while a
  request is created, between the checks and the commit. Correct: one application
  of each event, nothing called paid that was not received, one live request for
  a case, none begun when a fact forbids it, and every message answered.
* **Interpretation review.** Decisions are made for one candidate, effects are
  stored for the whole analysis, and a new analysis replaces the old.
* **Workflow.** Two operators decide and execute at once, while facts change
  and resets delete rows. Correct: nothing is executed without the approval it
  needs, nothing that was stopped is executed, nothing twice, and only what the
  facts advise.
* **Command plans.** A confirmation may be repeated, run next to another of the
  same plan, or be cut off between two actions; the registry evicts and forgets.
  Correct: one selection, each selected piece of work done at most once, one
  recorded answer, and an answer in the end.
* **Imports.** Files overlap in rows, in spelling and in time. Correct: each
  receivable once, a file that is sent again is harmless, all rows or none.
* **Derived views.** Four services compute the overdue balance and two the
  advice, each with its own code. Correct: they agree, plans propose what the
  workflow accepts, reports lose no amount when a payment arrives.
* **Experiment.** Two shadow copies diverge by what is done to them, and only
  by that. Correct: the sums reconcile, and the outside world is the same.

Every hazard, at its line, is listed under `hazards` in `PROJECT.json`.

## 2. Modules

```
RecoveryPolicy            pure: evaluator and recommender
  |-- Portfolio           pure: the facts, what each operation does to them
  |     |-- RecoverySystem        state machine: cycles, payments, review, reset
  |     |     |-- MCRecoverySystem       small portfolios
  |     |     |-- RecoverySystemProofs   theorems
  |     |     `-- CycleReport     cycles with everything read between them
  |     |           `-- MCCycleReport    (with MCRecoverySystem)
  |     |           `-- CycleReportProofs  (with RecoverySystemProofs)
  |     |-- OperationalIntelligence      pure: scores, advice, changes
  |     |     `-- CommandPlanning        pure: queries, plans, reminders
  |     `-- BatchReport       pure: recovery report and summaries
  |-- Workflow            state machine: actions, interleaved requests
  |     |-- MCWorkflow, WorkflowProofs
  |-- Imports             state machine: overlapping CSV imports
  |     `-- MCImports, ImportsProofs
  `-- RecoveryExperiment  state machine: two arms day by day
        `-- MCRecoveryExperiment, RecoveryExperimentProofs
ProviderEvents            state machine: payment transactions
  |-- MCProviderEvents, ProviderEventsProofs
ConfirmOnce               abstract: what confirming a plan promises
CommandPlans              state machine: registry, audit trail, executor;
  |                       implements ConfirmOnce
  |-- MCCommandPlans, CommandPlansProofs
FiniteInduction           lemmas: induction over finite sets and intervals,
                          recursive functions, sums
```

**RecoveryPolicy** has no state. A `CaseViews` record is what the rules read of
one case; `DesiredCaseState`, `EligibilityBlockers`, `RecommendedAction`,
`ApprovalRequired` and `RecommendationBlockers` translate the ordered rules of
`_desired_case_state`, `evaluate_case` and `recommend_case`. Thresholds are
constants, so that both sides of each are met with small numbers.

**Portfolio** has no state either. `Facts` is one record: the date, and for
each invoice its status, balance, payments by date, case state and priority,
and a table of promises. Operators map facts to facts. The set-valued ones
(`EventOutcomes`, `PartialAmounts`) give every result the random generator may
produce; `AvailableKinds`, `Targets` and `Consumed` are the bookkeeping that
keeps a cycle from using a document twice.

**RecoverySystem** has the committed facts `db`, the cycle in progress `tick`,
payment requests, provider events and the review state. Most handlers are one
action, their reads and writes together. The cycle is several: it draws a
number of events, each depends on the last, and it may fail between any two, so
it works on its own copy (`tick.work`) that `CommitTick` installs whole and
`AbortTick` throws away. The creation of a payment request is two, since it
calls the provider between its checks and its commit: `CreatePaymentRequest`
leaves a row in `PENDING_PROVIDER`, which other requests do not see and only a
reset has to wait for, because it deletes the case the row refers to;
`CommitPaymentRequest` stores the provider's answer or its failure, without a
second look at anything; `AbortPaymentRequest` is a handler that ends otherwise,
whose row is rolled back. What a cycle, a payment event and an accepted
interpretation commit ends in `Synchronize`, as in the code.

**Workflow** models the opposite choice for a single case: every handler is a
read step and a commit step of a session, and a commit writes only the columns
its handler changed, to the row as it is then. Facts are an environment
variable `case`, which changes at any time (`Interleaved = TRUE`) or between
requests only. Simulation date and server clock are separate, because the code
dates an execution with one and measures its age with the other.

**ProviderEvents** does the same for payments: a handler reads its request, its
invoice and the known events in steps of their own, the update of the invoice
takes the row lock, and the commit writes values computed from what was read,
or is refused by the unique constraints on the event. The session writes only
the columns that differ from what it loaded (`Written`): a request that was
read as `PARTIALLY_PAID` and stays so has its paid amount written and keeps
whatever status another commit gave it. A cycle pays the same
invoices, and the process may stop anywhere. Here the advice and the blockers of
a new request, payment dates and the case states are left out; they are in
`RecoverySystem`.

**CommandPlans** keeps a plan where the code does: in `pending` and
`remembered`, the two ordered maps of the registry, and in the audit rows
`planRow`, `selection` and `answer`. A confirmation claims the plan (or finds
its row), fixes the selection, takes the proposals one after the other through
`FindAction`, `CheckProposal` and `InsertAction`, and records the result. Two
requests interleave at each of these; evictions, thirty minutes, restarts and
resets come in between. `ConfirmOnce` is the specification it is shown to
implement: for each plan a selection, what was made and what was stopped of it,
and an answer. The refinement mapping reads `made` and `stopped` from the table
of actions.

**Imports** judges the rows of a file against the portfolio it read
(`Verdicts`), and commits later, when other imports, a cycle or a payment may
have committed. The database compares identifiers as they are spelled, the
import folds them, and both are modelled (`Conflicts`, `Key`).

**RecoveryExperiment** takes both arms through one day per step. The draws are
any choice the seed could give, the same for both arms, as the code keys them by
day and case. `Held`, `BaselinePolicy`, `ReconmatePolicy`, `SimulatedPayment`
and `ExternalEvents` are the functions of the code.

**OperationalIntelligence**, **BatchReport** and **CommandPlanning** are pure:
metrics, signals, points and advice of a customer and of a case; the cohort of
the report, its reconciliation and stopping rules, and the two summaries of the
dashboard; the queries of the commands with their exclusions, limits, proposals
and reminders. **CycleReport** composes them with the cycles of
`RecoverySystem` and adds the state they need: when a case was last touched and
the transitions of the last cycle. Its properties compare what the different
services say of the same committed facts. What other components decide is
quantified over: claims and delays accepted and consent in `AdviceAgrees`,
`ProposalsAreCreatable` and `RemindersAreGrounded` (`ViewChoices`), work in
progress in `PlansAccountForEveryCase` (`RowChoices`). `ReportsAgree` and
`PlansAccountForEveryCase` use the views without claims and delays
(`FactViews`): overdue balances do not depend on them, and the second counts
whatever cases a filter leaves.

### From code to model

| Code | Model |
|---|---|
| `run_tick` | `BeginTick`, `GeneratePrimary`, `GenerateSecondary`*, `CommitTick`; `TickConflict` for the `ValueError`, `AbortTick` for any other failure; with transitions `CommitCycle` |
| `_apply_generated_event`, `_available_event_kinds` | `EventOutcomes`, `Targets`, `AvailableKinds`, `Consumed` |
| `reset_simulation` | `ResetSimulation`, `ResetReport`, `CommitReset` then `ClearRegistry` |
| `python -m app.recovery` | `SynchronizeCommand`, `SynchronizeCases` |
| `create_external_payment_request` | `MayRequestPayment`, `CreatePaymentRequest`, `CommitPaymentRequest`, `AbortPaymentRequest`; `CheckCreation`, `CommitCreation` |
| `ingest_demo_payment_event` | `KnownEvent`, `IngestPaymentEvent`; `ReceiveMessage`, `ReadInvoice`, `CheckMessage`, `FlushPayment`, `CommitPayment` (with `Written`), `Answer` |
| analyze route, `persist_analysis` | `AnalyzeCommunication`, `AnalysisFails` |
| `review_candidate_fact` | `AcceptCandidate` (with `AcceptedFacts`), `RejectCandidate` |
| `create_action` | `LoadCaseForCreate`, `CheckDuplicate`, `CommitCreate`; for a plan `FindAction`, `CheckProposal`, `InsertAction` |
| `approve_action`, `reject_action`, `hold_action`, `cancel_action` | `LoadForDecision`, `CommitDecision` |
| `execute_action` | `LoadForExecution`, `LoadCaseForExecution`, `CommitExecution` |
| `CommandService.run`, `confirm` | `RegisterPlan`, `PersistPlan`; `ReceiveConfirmation`, `ClaimPlan`, `FixSelection`, ..., `RecordResult`, `RememberResult` |
| `persist_receivables` | `ReadPortfolio`, `ConfirmImport` |
| `_simulate_arm` | `SimulateDay`, `NextDay` |
| `_build_transitions`, `compare_intelligence` | `RecordTransitions`, `Classifications` |

### Abstractions

* An invoice has at most one case, and in `Portfolio` all invoices belong to
  one customer: rules look at one case, its invoice, and the customer's signals
  and consent, and scores are per customer.
* Amounts are whole cents. `FractionalAmounts` keeps the rounding to a cent.
* The automated actions of a case are read by the policy as a number. They are
  state of `Workflow`; in `RecoverySystem` the number is 0, the value that
  permits most.
* The values a client sends to prove what it saw (`expected_*`) are not
  modelled: a mismatch refuses the request and changes nothing.
* A command identity that is already known returns its action unchanged: a
  stuttering step in `Workflow`, `FindAction` in `CommandPlans`.
* An analysis is a constant: which communication it reads and which candidates
  it contains. Only candidates that may be persisted are listed.
* A payment request becomes payable by the demo provider's word `ACTIVE`. The
  Razorpay words (`CREATED` and others) are never payable, as in the code,
  whose ingestion only serves the demo provider.
* In `CommandPlans` the facts of a case are the choice `stale`, a proposal is
  its work, and an entry another operator pushes out of the registry is
  `EvictPlan` or `EvictConfirmation`.
* In `Imports` a row is what the validator tells apart; a field that is missing
  or does not parse is `readable = FALSE`.
* Scores are compared through their thresholds, which are constants.
* Audit rows are left out, except those that are read back.

## 3. Runs

Passing runs:

| Run | Instance | What it shows |
|---|---|---|
| `Cycles` | two invoices, cycles of up to two events until day 3 that go on, one promise row, intelligence thresholds of 1 to 4 | the ledger: `BalanceConserved` in the committed facts and in every copy, `StoredFulfilmentIsReal`, `CycleFindsAnEvent`, `DocumentsProtected`; the end of waiting: `PromiseMonitoringEnds`; and what is said of it: `ReportsAgree`, `CohortIsStable`, `AdviceAgrees`, `SettledCustomerIsCalm`, `ProposalsAreCreatable`, `PlansAccountForEveryCase`, `RemindersAreGrounded` |
| `Review` | one invoice, a day with cycles of up to two events, two promise rows, two requests, two event identities, two references, two analyses of one communication | `RequestAccounting`, `EventsAppliedOnce`, `CaseStatesCurrent`, `ResolvedStaysResolved`, `RequestsOnlyWhenRecoverable`, over cycles, requests being created, events, review and reset |
| `WorkflowSerial` | two actions, one session, six views of the case | `StoppedNeverExecutes`, `ExecutedOnce`, `OneActionPerRecommendation`, `ExecutesCurrentRecommendation` for requests that do not overlap |
| `WorkflowApproval` | one action, two sessions that interleave with each other, with facts and with resets | `ApprovedBeforeExecuted` |
| `CommandPlans` | one plan with two proposals, two sessions, two restarts, one reset | the refinement `ConfirmsOnce`; `IssuedPlanIsFound`; `ConfirmationCompletes` |
| `Imports` | eight files of rows that repeat, respell, rename or contradict each other, three requests | `ImportedOnce`, `ReimportIsHarmless`, `CasesFollowImports` |
| `Experiment` | eight cases, five days, two promises, every draw | `ArmReconciles`, `AssociationIsEarned`, `NaturalPaymentsArePaired`, `SameWorld`, `HoldsAreKept` |
| `ProviderEvents` | an invoice of 4, a request of 3 of it, two messages of 1 and a final one of 2, two sessions, cycles, one stop of the process, fair | `AppliedOnce`, `PaidIsReceived`, `MessagesAreAnswered` |

Runs that TLC refutes, each a disagreement between the code and what the
repository says (the lines are quoted in `PROJECT.json`):

| Run | What happens |
|---|---|
| `DisputeErased` | A request is made, a dispute is opened, the provider's event arrives: the invoice becomes `PARTIALLY_PAID` and recovery resumes, although the dispute was not resolved. |
| `RejectRace` | An execution that read its action before the rejection commits over it. The same gap between read and commit breaks the other properties of `WorkflowSerial` when sessions overlap. |
| `LostPayment` | A provider event and another writer of the invoice both read the balance; each subtracts its payment from what it read. Both payment rows stay, the balance shows one of them, and the ledger no longer passes the seed's own check. |
| `DuplicateRequest` | Two creations for one case both find no live request, both call the provider and both commit: two `ACTIVE` requests, the second of which the check at `payments/service.py:55-60` was to refuse. |

### Bounds, and why they are enough

Two invoices make every pair of documents one event may confuse; one is overdue
from the start, the other is issued and falls due during the run. A balance of 3
has a partial payment and one that is rounded up to the last cent; a balance of
1 is the boundary at which a partial payment pays in full. One promise row
reaches every stored and derived promise state; `Review` has a second, for a
running promise next to one that ended. Three dates let a promise be made, be
missed and be evaluated, and every signal of the intelligence come and go; the
promise that `Review` reads in a message is for its first day, so that one day
ends it. Two requests allow a complete or failed one next to a live one, and two
at the provider at once; the balance of 2 that they share is paid in parts or at
once, before or after the day's cycle, which finds nothing to do if it is
settled; two events and two references make all four kinds of replay. Requests,
event identities and references are interchangeable in every definition `Review`
evaluates, so it declares them symmetric; it checks no liveness. In
`ProviderEvents` a request of 3 has room for two partial payments and a final
one, so that a partial and a final payment of a partly paid request overlap, and
an invoice of 4 keeps what completes the request apart from what settles the
invoice; a payment under a second identity is left to `Review` and, overlapping,
to the proof. Two analyses of one communication allow the second to replace the
first. Two sessions are the smallest race, and each property about pairs of
actions names two.

One plan with two proposals has a first and a second action to be cut off
between; two plans of the same work are left to the proof. Two restarts
interrupt an attempt and its repetition. Three imports let one file arrive,
another overlap it and the first be sent again. Five days hold two contacts of
each cadence and two association windows. `LastDate`, `MaxSecondary`,
`LastDay`, `MaxRestarts`, `MaxResets`, `MaxCrashes`, `HorizonDays` and the sizes
of the identity sets are the only bounds; each is a constant.

Two restrictions are about the code, not the size. `CommandPlans` runs with
`ResetRaces = FALSE`: a reset waits for other requests (see section 5 for what
happens otherwise). `ReimportIsHarmless`, `CasesFollowImports` and the
case-insensitive half of `ImportedOnce` except imports that committed over facts
that had changed since they read them (`overlapped`).

### Fairness

`Cycles`: cycles go on (`CyclesGoOn`). In automatic mode the dashboard starts one at each
interval (`src/apps/web/src/components/dashboard/dashboard.tsx`, 329-335); a
failed cycle switches the mode off (268), and then an operator must start one
again: that is the assumption behind `WF(BeginTick)`. A cycle may fail any
number of times, at any step, so its steps are not always enabled; strong
fairness on them says that one that is started again and again does not fail
each time at the same point. Payments, reviews and resets may never come.
Promises for the last explored date are excepted from the property, because no
cycle is explored after it.

`CommandPlans`: a request that was accepted runs on unless the process stops
(`WF(Proceed)`), and the operator sends the confirmation again
(`SF(Confirm)`: a session is free again and again, not always). Without the
second, nothing in the code resumes what a restart cut off.

`ProviderEvents`: a transaction that can take its next step does so in the end
(`WF(Proceed)`, `WF(Cycle)`). Nothing is assumed of the order in which waiting
transactions get a row: there are only so many payments to hold it for. The
provider repeats a message until it has an answer, for which
`payments/service.py` treats repeated events as normal; a session is free again
and again, not always (`SF(ReceiveMessage)`). The process stops a bounded number
of times.

## 4. Proofs

The theorems hold for every value of the constants that satisfies the named
assumptions: any number of invoices of a customer, promises, requests, events,
messages, interpretations, actions, plans, files, draws and concurrent sessions,
any amounts, dates and thresholds, any length of a cycle or a horizon, and, for
the workflow, any facts the rest of the system may produce. Besides typing the
constants and keeping the sets of documents finite, the assumptions say:

* `SystemConstants`, `ReportConstants`: of the seed, that balances and payments
  come to what was billed, which the seed asserts (`seed/portfolio.py`, 403);
  that settled promises are covered by payments after them (271-274, 335-341)
  and open ones by the balance (322-334); that no payment is dated ahead (174);
  that a case is `CLOSED` only for a customer without open invoices (70) and
  none is `RESOLVED` (56-70). A new payment link exists and has received
  nothing: its status is neither `PENDING_PROVIDER` nor `PAID`
  (`payments/provider.py`).
* `PolicyConstants`, `IntelligenceConstants`: the thresholds of an amount or an
  age are positive, so that nothing does not meet them.
* `WorkflowConstants`: whether an account is strategic does not change while the
  case is worked on; no endpoint writes it.
* `PortfolioConstants`, `PlanConstants`, `ProviderConstants`,
  `ImportConstants`, `ExperimentConstants` only type.

Some theorems have a hypothesis besides, because their property is false without
it: requests follow each other (`OneAtATime`), facts wait for requests
(`~Interleaved`), the seed lies in the past (`SeedInPast`), no reset overlaps a
request (`~ResetRaces`). The runs that check these properties make the same
choice.

| Theorem | Statement | Argument |
|---|---|---|
| `WorkflowProofs!TypeCorrect` | `Spec => []TypeOK` | inductive as it stands |
| `ApprovalBeforeExecution` | `Spec => []ApprovedBeforeExecuted` | see below |
| `SerialExecutesOnce` | `OneAtATime` implies `Spec => []ExecutedOnce` | see below |
| `SerialOneAction` | `OneAtATime` implies `Spec => []OneActionPerRecommendation` | the same invariant |
| `SerialStopHolds` | `OneAtATime` implies `Spec => StoppedNeverExecutes` | the same invariant |
| `StillFactsAreFollowed` | `~Interleaved` implies `Spec => ExecutesCurrentRecommendation` | see below |
| `RecoverySystemProofs!TypeCorrect` | `Spec => []TypeOK` | with `CycleDate`: a broken promise is dated the day before, so a cycle must be past the first date |
| `CaseStatesFollowFacts` | `Spec => []CaseStatesCurrent` | `CommittedStep`, and `Synchronize` is idempotent (`SynchronizedIsCurrent`) |
| `ResolvedIsFinal` | `Spec => ResolvedStaysResolved` | see below |
| `RequestsJustified` | `Spec => RequestsOnlyWhenRecoverable` | the rules of `RecommendedAction` and its blockers read backwards (`OutreachConditions`, `OutreachPermitted`) |
| `ReplaysIgnored` | `Spec => []EventsAppliedOnce` | inductive as it stands |
| `CycleProtectsDocuments` | `Spec => DocumentsProtected` | one lemma for each kind of event (`OutcomeProtects`) |
| `RefusedOnlyWhenSettled` | `Spec => []CycleFindsAnEvent` | with `PrimaryUnused`: before the first event nothing is used, and an owed invoice is payable or its dispute can be resolved |
| `MoneyConserved` | `Spec => []BalanceConserved` | see below |
| `SettledPromisesArePaid` | `Spec => []StoredFulfilmentIsReal` | the same invariant |
| `RequestsAddUp` | `Spec => []RequestAccounting` | see below |
| `CommandPlansProofs!TypeCorrect` | `Spec => []TypeOK` | taking entries out of the registry is a recursive function over its length; by induction it leaves a queue that is shorter when there was one to take (`WithoutShorter`), so renewing a remembered answer stays within the bound |
| `PlansConfirmOnce` | `~ResetRaces` implies `Spec => ConfirmsOnce` | refinement, see below |
| `IssuedPlansAreFound` | `SeedInPast` implies `Spec => []IssuedPlanIsFound` | `PlansSaved`: an identity is given out after its row is written, and only a reset removes rows, which makes their plans `old` |
| `ProviderEventsProofs!PaymentsAppliedOnce` | `Spec => []AppliedOnce` | see below |
| `LedgerIsCovered` | `Spec => []PaidIsReceived` | see below |
| `ImportsProofs!ReceivablesImportedOnce` | `Spec => []ImportedOnce` | see below |
| `ImportsRepeat` | `Spec => []ReimportIsHarmless` | see below |
| `ImportedCasesCurrent` | `Spec => []CasesFollowImports` | the same invariant |
| `RecoveryExperimentProofs!ReportsReconcile` | `Spec => []ArmReconciles` | see below |
| `AssociationsAreEarned` | `Spec => []AssociationIsEarned` | see below |
| `OneWorld` | `Spec => []SameWorld` | see below |
| `NaturalPaymentsPair` | `Spec => []NaturalPaymentsArePaired` | see below |
| `HoldsHold` | `Spec => HoldsAreKept` | the rules that hold an arm, read on the day an action is added |
| `CycleReportProofs!ReportsOnlyRead` | `ReportSpec => Spec` | each step with its reports is a step of `RecoverySystem` |
| `ReportedCohort` | `ReportSpec => CohortIsStable` | see below |
| `ReadersAgree` | `ReportSpec => []ReportsAgree` | the four sets of overdue invoices are one set (`OverdueAgreed`), and sums over equal sets agree |
| `AdviceIsOne` | `ReportSpec => []AdviceAgrees` | see below |
| `SettledIsNoNews` | `ReportSpec => SettledCustomerIsCalm` | see below |
| `PlansAreCreatable` | `ReportSpec => []ProposalsAreCreatable` | what passes the filter `actionable` has no blocker, and the blockers name the statuses the workflow refuses |
| `PlansAddUp` | `ReportSpec => []PlansAccountForEveryCase` | the cases the filters remove one after the other telescope (`FiltersRemove`), and duplicates and chosen cases divide the rest |
| `RemindersJustified` | `ReportSpec => []RemindersAreGrounded` | a metric of 0 leaves no document it counts (`DisputesCounted`, `PromisesCounted`) |

*Approval before execution.* The property is not inductive. An execution
commits on the row it read earlier, and another session may have changed or
deleted that row since. The invariant `ApprovalInv` adds what links the two: an
approval that a row shows, in the table or in a session's copy of a row that
still exists, is on record, and a stored row with a reviewed recommendation
requires approval (`ApprovalOnRecord`); while a session executes on a row that
still exists, its copy and the table agree on `required`, and the approval its
copy shows is on record (`LoadedStillValid`). Nothing withdraws an approval but
a reset, which deletes the row as well, so a stale read can still not execute
without approval. The other properties of the workflow are false when requests
overlap (`RejectRace`), and hold of requests that do not.

*Requests in a row.* With one session, `SerialInv` says that what a request read
is still what the table holds (`ReadIsCurrent`, or the row was reset), that its
check for duplicates still stands (`StillNoDuplicate`), and that an execution is
counted once, with the row that shows it (`Counted`). `StillFactsAreFollowed`
needs less: sessions may overlap if facts wait for them. `StillInv` extends
`ApprovalInv` by `FactsHeld` (the facts a request holds are those of the case,
but for the actions that were recorded meanwhile), by the recommendation of the
row it loaded, and by `StrategicApproval`: a monitoring row of a strategic
account requires approval, the only recommendation for which that depends on the
account.

*Resolved is final.* `Follows(f, g)` says that no settled balance is open
again, that no case changed its state except those just opened, and that time
did not go back. Every operation on facts follows what it started from
(`OutcomeFollows`, `PaymentFollows`, `AcceptedFollows`), the relation is
transitive, and so a cycle's copy follows the facts the cycle started from
(`CycleFollows`, part of the inductive invariant `CycleInv`). `CommittedStep`
concludes that a step keeps the facts, restores the seed, or synchronizes facts
that follow them. With the invariant that a resolved case is settled
(`ResolvedSettled`), the rules derive `RESOLVED` again.

*Money.* `Reconciled` says of facts that every balance and its payments come to
what was billed, that every promise stored as fulfilled is covered by the
payments since it was made, and that they are not older than the seed. Each
operation keeps it and takes nothing from a sum of payments (`Keeps`, `Grows`),
both for committed facts and for the copy of a cycle (`LedgerInv`). A promise
interpreted from an old message is the reason for the last part: it may be dated
up to the seed's day. The sums are sums over finite sets of dates;
`FiniteInduction` proves what one more payment does to them by induction.

*Requests add up.* `RequestInv` adds to `LedgerInv` that an applied event belongs
to a committed request, that a row's `paid` is the sum over its applied events
and at most the amount, with `PAID` exactly when complete, and that what the
requests of an invoice claim is at most what was paid on it (`ClaimsCovered`).

*Plans confirm once.* The refinement mapping keeps `selection` and `answer`,
reads `made` and `stopped` from the status of each action, and hides the rest of
`CommandPlans`. What has to be
shown is that a request between two of its steps still knows something true of
rows that other requests may have written: `Grounded` says that a request past
the selection works on a subset of the recorded one, that its remaining and its
settled work together make up that selection, and that an outcome `EXECUTED`
has an action behind it. These rows only grow (`RowsKept`) except by a reset, so
a step of one session leaves the others grounded (`StepOfOne`), and a reset is
why the theorem assumes `~ResetRaces`. With it, `InsertAction` is the abstract
`Make`, `RecordResult` is `Answer` or a stutter, and the rest stutters or is
`Select`, `Stop` and `Reset` (`StepRefines`).

*Payments.* Neither theorem needs the row lock. The unique constraints are
checked in the step that adds a row, and what a session is about to answer stays
true, because rows are never deleted. `PaidIsReceived` is stable although
balances are computed from stale reads: `IInv` says of every session and of the
cycle that what it read is covered (`SessionsCovered`, `CycleCovered`), that is,
the balance it holds and the payments received by now make up at least what the
invoice asked for. Payments only increase, so a read stays covered, and a commit
writes what it read less one payment, together with that payment. Of a request,
the same argument bounds its paid amount by what its payments brought
(`PaidBy`), which only grows; a session that writes `PAID` adds the payment that
completes the amount it read, so a `PAID` request was sent all it asked for,
whatever is written to its paid amount later. That the two columns agree is
false (`PaidIsComplete`, section 5).

*Imports.* The verdicts of a file are a recursive function over its rows, and
`Recursion` (in `FiniteInduction`) turns its definition into a rule for one row:
`VerdictRule`. `IInv` says that identities are distinct as spelled, that what a
session read of the customers still exists, and, unless an import overlapped
with another writer, that they are distinct also when folded, that every row of
a committed file is on the ledger under its number and its customer
(`OnLedger`), and that every case state is the derived one. From `OnLedger` the
rule gives `DUPLICATE` for each row at any later date. A commit keeps it for the
earlier files because it only adds (`CommitKeeps`), and the synchronization at
its end because it only rewrites case states (`RewriteKeeps`), which deriving
them twice does not change (`DerivedTwice`).

*Experiment.* `ArmsSound` says of each arm, alone, that payments and balance
come to the start, that every listed payment was earned as its label says, and
that an effect still in its window has its action. It is kept event by event
through a day. `InStep` compares the arms: while both owe something, their
promises have the same statuses and both or neither are disputed (`AllTwins`),
and a natural payment of one is in the other too, or found it paid off
(`Paired`). Each draw is keyed by day and case, so both arms meet the same one,
and only payments tell them apart.

*Reports.* `CycleReport` does to the facts what `RecoverySystem` does
(`ReportsOnlyRead`), so `CycleInv`, `LedgerInv` and `ResolvedSettled` hold in it.
`ReportInv` adds what they do not say: every promise was made by today and is
covered by the balance and what came in since (`Backed`), no payment is dated
ahead (`NothingAhead`), a closed case is settled (`ClosedSettled`), and a cycle's
copy has dated its payments today and withdrawn nothing (`CycleMade`); each kind
of event keeps it (`Advances`). The cohort is stable because starting exposure
is what is owed now and what was paid after the due date, and a payment of
today moves its amount from the one to the other. The advice
stops for any promise still open, the recommendation only while the invoice owes
something: they agree because a covered promise is open only on an owed invoice
(`OpenPromiseOwed`), which is what `Backed` is for. Claims, delays and consent are
arbitrary: a claim only puts its review in front of the monitoring
(`StopsRecovery`). A settled customer is calm
because zero balances leave no metric (`SettledMetrics`), so no points, so the
lowest level, which no change for the worse can end in (`LevelsRanked`).

So every invariant and every action property of the passing runs is a theorem
as well. Out of the prover's reach, and checked with TLC only, is liveness:
`PromiseMonitoringEnds`, `ConfirmationCompletes` and `MessagesAreAnswered`. The
properties of the refuted runs are false, and the definitions named in section 5
are claims the code does not keep.

## 5. Where the code and its description part

Besides the refuted runs, modelling met the following. Each is in the model as
the code has it; some are stated as a definition that no run checks, named in
brackets.

* A promise the operator marks broken before its date is stored `BROKEN`, but
  `evaluate_promise` reads only the date and `CANCELLED`
  (`recovery/engine.py:122-137`): the case stays in monitoring, while
  `src/README.md:47-48` promises a raised priority
  (`RecoverySystem!BrokenPromiseCounts`).
* Decisions are kept per analysis, so a rejected claim still counts once another
  candidate of the analysis is accepted (`intelligence/fact_review.py:118`,
  `RecoverySystem!RejectedClaimHasNoEffect`).
* The duplicate check of payment requests does not know `CREATED`, the word
  Razorpay answers with (`payments/service.py:57`, `RecoverySystem!OneOpenRequest`).
  It holds for requests created one after the other only (`DuplicateRequest`).
* A request may be `PAID` with less than its amount in `paid_amount`
  (`ProviderEvents!PaidIsComplete`, against `tests/test_payment_provider.py:234`).
  Of a request of 3, 1 is paid. A partial event of 1 and a final event of 2 both
  read that; the final one commits `PAID` and 3, then the partial one writes a
  paid amount of 2, and not the status, which for it has not changed
  (`payments/service.py:142-144`). TLC finds this with the instance of the
  `ProviderEvents` run; the cause is the one `LostPayment` shows.
* The facts that allow a payment request may change while the provider is called
  (`payments/service.py:70`): a dispute that is accepted meanwhile, or a payment
  that settles the invoice, does not stop the commit at 88.
* The advice does not know of payment claims
  (`intelligence/operational_service.py:299`): with an accepted claim and a
  running promise the operator is told to wait for the promise, while
  `recommend_case` asks for a review of the claim
  (`recommendations/service.py:117-120`). `AdviceAgrees` says so.
* Execution never looks at the cooldown `evaluate_case` derives
  (`workflow/service.py:51`, `Workflow!CooldownRespected`).
* Two confirmations of one plan may compute different outcomes. The audit trail
  keeps the first, the registry the last, so a replay changes with a restart
  (`commands/service.py:170`, against the limitation at 121 and
  `tests/test_commands.py:1070`; `CommandPlans!ReplaysAgree`).
* A plan that a request is saving or confirming during a reset makes actions in
  the new portfolio (`simulation/service.py:508`, against the comment at
  505-506; `CommandPlans!PlansDoNotSurviveReset`).
* In the experiment a promise that is not kept on its date is drawn once more
  on the next day before it is broken (`reporting/recovery_experiment.py:210-220`),
  while the assumptions it reports say 55% "at the recorded date" (438). A
  promise payment on a disputed shadow invoice also lifts its dispute.
* A reminder is `PREPARED_FOR_REVIEW` when the customer opted out or never
  consented: `_reminder_proposal` looks at facts only
  (`commands/planner.py:516-560`), while `src/README.md:168` has consent among
  the conditions.
* A reminder says "paid or closed" also of cases that are merely not due.
* A transition of a case compares its own intelligence before the cycle with
  that of its customer after it; a customer no event names gets no transition
  though ageing may raise its level, and ageing is attributed to the cycle's
  first event (`simulation/service.py:157-224`).
* One payment may fulfil two promises on its invoice (`simulation/service.py:323`).
* The simulator may dispute or pay an invoice that is not issued yet; the
  metrics count issued ones only (`intelligence/operational_service.py`), so a
  reminder for an older invoice is still prepared.
* A provider payment dated before the message of a promise does not count for
  the promise, which may then be open on a settled invoice: the customer is
  advised to wait for it, while the recommender sees nothing to recover.
  `CycleReport` has no provider payments; `AdviceAgrees` and
  `SettledCustomerIsCalm` are about cycles only.
* Invoices imported as cancelled or written off with a balance count as overdue
  everywhere but in the batch report; `ReportsAgree` says exactly how far.
* A provider payment dated before the due date shrinks the starting exposure of
  a cohort that already counted it.

## 6. What is left

* The reports after provider payments and imports, where `AdviceAgrees` must
  except promises that a payment dated before them made pointless.
* Resets next to payment transactions: `ProviderEvents` has cycles and stops of
  the process, and no reset.
* The synchronization of cases inside `ProviderEvents`, so that stale case
  states after an overlap can be stated as well as balances.

## 7. Not modelled

The wording of explanations and audit payloads, the text interpretation of
communications and commands, direct payment queries and the ranking of results,
the evidence timeline, migrations, layout and deployment: they change no state
that a property is about. The dashboard keeps its state in the browser; what it
asks of the API is what any client may ask. A payment link that the provider
made for a request whose commit never happened is known to the provider only,
and nothing in the code reads it back. `PROJECT.json` names the reason for each
component.
