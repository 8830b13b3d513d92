----------------------------- MODULE CycleReport -----------------------------
(***************************************************************************)
(* The cycles of the simulator together with what is read from the         *)
(* committed facts between them: operational intelligence and its          *)
(* transitions, the reports, and the plans a command would be answered     *)
(* with (simulation/service.py, run_tick).  Payment requests and accepted  *)
(* interpretations are left to the system this module extends.             *)
(***************************************************************************)
EXTENDS RecoverySystem, BatchReport, CommandPlanning

CONSTANTS
    BaselineActivity,   \* updated_at of each seeded case, as a date
    ResultLimits,       \* limits a command may set (bound)
    WorkRows            \* the sets of recovery actions a case may have (bound)

\* A promise is for no more than the balance left and what came in since.
PromisesCovered(f) ==
    \A p \in Promises : f.promise[p].status \notin {"NONE", "CANCELLED"} =>
        LET row == f.promise[p] IN
        row.amount <= f.outstanding[row.invoice]
                        + PaidBetween(f, row.invoice, row.source, f.date)

NothingAhead(f) == \A i \in Invoices, d \in Dates : d > f.date => f.paidOn[i][d] = 0

ClosedSettled(f) == \A i \in Invoices : f.case[i] = "CLOSED" => f.outstanding[i] = 0

ASSUME ReportConstants ==
    /\ BaselineActivity \in [Invoices -> Int]
    /\ ResultLimits \subseteq Nat \ {0}
    \* The seed promises a part of the balance of an overdue invoice, or what a
    \* paid one received after the promise; it dates payments before the first
    \* day and closes the case of a customer without open invoices.
    /\ PromisesCovered(Baseline) /\ NothingAhead(Baseline) /\ ClosedSettled(Baseline)

VARIABLES
    activity,   \* when each case was opened or last changed its state
    latest      \* the intelligence transitions of the last cycle

reportVars == <<vars, activity, latest>>

NoTransitions == [touched |-> FALSE, changed |-> {}, held |-> {}]

ReportInit ==
    /\ Init
    /\ activity = BaselineActivity
    /\ latest = NoTransitions

-----------------------------------------------------------------------------
\* Both the opening of a case and a synchronization date the case.
Dated ==
    activity' = [i \in Invoices |->
        IF i \in Cases(db') /\ db'.case[i] # db.case[i] THEN db'.date ELSE activity[i]]

CustomerBefore == CustomerIntelligence(db, activity)
CustomerAfter == CustomerIntelligence(db', activity')

\* A case had its own intelligence before the cycle, and has that of its
\* customer after it; one the cycle opened is compared with itself.
CaseClasses(i, after) ==
    LET advised == RecommendedAction(CaseView(db', i, FALSE, FALSE)) IN
    IF i \in Cases(db)
    THEN Classifications(
            Snapshot(CaseIntelligence(db, activity, i),
                     RecommendedAction(CaseView(db, i, FALSE, FALSE))),
            Snapshot(after, advised))
    ELSE Classifications(Snapshot(after, advised), Snapshot(after, advised))

\* The invoices of the cycle's events, whatever the kind.
TouchedBy(cycle) == {i \in Invoices : \E kind \in EventKinds : <<kind, i>> \in cycle.used}

\* Only entities an event names get a transition.
RecordTransitions ==
    \E before \in {CustomerBefore}, after \in {CustomerAfter} :
        LET changes(e) ==
                IF e = "CUSTOMER"
                THEN Classifications(Snapshot(before, before.advice), Snapshot(after, after.advice))
                ELSE CaseClasses(e, after)
            entities == {"CUSTOMER"} \cup TouchedBy(tick)
            changed == {e \in entities : "RECOMMENDATION_CHANGED" \in changes(e)}
        IN latest' = [touched |-> TRUE, changed |-> changed,
                      held |-> {e \in entities \ changed : e = "CUSTOMER" \/ e \in Cases(db)}]

CommitCycle == CommitTick /\ Dated /\ RecordTransitions

ResetReport ==
    /\ ResetSimulation
    /\ activity' = BaselineActivity
    /\ latest' = NoTransitions

SynchronizeCases == SynchronizeCommand /\ Dated /\ UNCHANGED latest

\* The steps of a cycle before its commit.
WorkOnCycle ==
    /\ BeginTick \/ GeneratePrimary \/ GenerateSecondary \/ TickConflict \/ AbortTick
    /\ UNCHANGED <<activity, latest>>

ReportNext == WorkOnCycle \/ CommitCycle \/ ResetReport \/ SynchronizeCases

ReportSpec == ReportInit /\ [][ReportNext]_reportVars
FairReportSpec == ReportSpec /\ CyclesGoOn

-----------------------------------------------------------------------------
(* What the facts may be read as: the accepted signals, the consent and    *)
(* the workflow rows belong to other components, so every choice counts.   *)

ViewChoices ==
    {[i \in Cases(db) |-> [CaseView(db, i, claim, delay) EXCEPT !.consent = consent]] :
        claim \in BOOLEAN, delay \in BOOLEAN, consent \in ConsentStatuses}

FactViews == [i \in Cases(db) |-> CaseView(db, i, FALSE, FALSE)]

RowChoices == [Cases(db) -> WorkRows]

Current == CustomerIntelligence(db, activity)

\* A cycle commits its facts at its end: while it works, readers see the same
\* facts as before it.
BetweenCycles == tick = Idle

\* The queries the two preparing commands make of a plain request.
PreparingQueries == {FollowUpQuery(<<>>), RecoveryQuery([risk_level |-> {"MEDIUM", "HIGH", "CRITICAL"}])}

-----------------------------------------------------------------------------
(* An invoice that is in the batch report stays in it until the reset, with *)
(* the same starting exposure and never less recovered: a payment moves an  *)
(* amount from remaining to recovered and makes nothing disappear.          *)
CohortIsStable ==
    [][db' \notin {db, Baseline} => \A i \in InScope(db) :
        /\ i \in InScope(db')
        /\ db'.outstanding[i] + RecoveredOn(db', i) = db.outstanding[i] + RecoveredOn(db, i)
        /\ RecoveredOn(db', i) >= RecoveredOn(db, i)]_reportVars

(* The report, the dashboard's two summaries, the intelligence and the      *)
(* query for overdue invoices each find the overdue balance with code of    *)
(* their own and agree on it, but for what was cancelled or written off     *)
(* with a balance, which only the report leaves out.  In the report every   *)
(* case an age-only policy would work is held or acted on, never both, and  *)
(* counted as protected exactly when a dispute or a promise protects it.    *)
ReportsAgree ==
    BetweenCycles =>
    LET batch == Reconciliation(db)
        rules == StoppingRules(db, FactViews, [i \in Cases(db) |-> {}])
        cancelled == {i \in PortfolioSummary(db).overdueInvoices :
                        db.status[i] \in {"CANCELLED", "WRITTEN_OFF"}}
        overdue == batch.remaining + Balance(db, cancelled) IN
    /\ overdue = Current.metrics.overdueExposure
    /\ overdue = PortfolioSummary(db).overdue
    /\ overdue = RecoverySummary(db, FactViews).overdue
    /\ InvoicesMatching(db, [overdue |-> {TRUE}]) = batch.open \cup cancelled
    /\ batch.recovered <= PortfolioSummary(db).recovered
    /\ rules.targets \subseteq rules.held \cup rules.immediate
    /\ rules.held \cap rules.immediate = {}
    /\ rules.violationsAvoided = rules.targets \cap (rules.disputed \cup rules.promised)

(* The advice shown for a case and the action the recommender gives the     *)
(* workflow are computed by different code, the second also from claims and *)
(* delays a customer wrote of and from consent, which the advice does not   *)
(* know.  Whatever those are, both put a case on hold for the same disputes *)
(* and the advice waits for every promise the recommender monitors; where   *)
(* it waits and the recommender does not, a payment was claimed, and the    *)
(* recommender has that claim reviewed.                                     *)
AdviceAgrees ==
    BetweenCycles =>
    \A view \in ViewChoices, i \in {j \in Cases(db) : IssueDate[j] <= db.date} :
        LET advice == CaseIntelligence(db, activity, i).advice
            action == RecommendedAction(view[i]) IN
        /\ advice = "REVIEW_DISPUTE" <=> action = "HOLD_FOR_DISPUTE"
        /\ action = "MONITOR_ACTIVE_PROMISE" => advice = "WAIT_FOR_PROMISE"
        /\ advice = "WAIT_FOR_PROMISE" =>
               action = IF view[i].claim THEN "REVIEW_PAYMENT_CLAIM" ELSE "MONITOR_ACTIVE_PROMISE"

(* A cycle that leaves the customer owing nothing leaves no signal and      *)
(* nothing to do, and is not reported as a change for the worse.            *)
SettledCustomerIsCalm ==
    [][tick # Idle /\ db' # db /\ (\A i \in Invoices : db'.outstanding[i] = 0) =>
        \A before \in {CustomerBefore}, after \in {CustomerAfter} :
            /\ after.signals = {}
            /\ after.advice = "MONITOR"
            /\ ChangeDirection(Snapshot(before, before.advice),
                               Snapshot(after, after.advice)) # "WORSENED"]_reportVars

(* Whatever a preparing command matches is work that create_action accepts  *)
(* on the same facts, unless it was executed before: no settled or disputed *)
(* case, none with a running promise, no outreach that may not be sent.     *)
ProposalsAreCreatable ==
    BetweenCycles =>
    \A intelligence \in {Current}, view \in ViewChoices, query \in PreparingQueries :
        \A i \in Matched(CaseContexts(db, intelligence, latest, view), query) :
            /\ ExecutionMode({Proposal(view[i], TRUE)}, TRUE) = "CONFIRMATION_REQUIRED"
            /\ db.outstanding[i] > 0
            /\ db.status[i] # "DISPUTED"
            /\ \A p \in PromisesOn(db, i) : PromiseStateOf(db, p) # "ACTIVE"
            /\ RecommendedAction(view[i]) \in OutreachActions => CommunicationPermitted(view[i])

(* Every inspected case is proposed, left out for the limit, already in the *)
(* workflow or excluded by one filter, and the limit is spent on new work:  *)
(* while it is not reached no case that needs work is left out.             *)
PlansAccountForEveryCase ==
    BetweenCycles =>
    \A context \in {CaseContexts(db, Current, latest, FactViews)} :
    \A query \in PreparingQueries, limit \in ResultLimits, rows \in RowChoices :
        \A chosen \in Chosen(context, query, limit, FactViews, rows) :
          \A evidence \in {Evidence(context, query, chosen, FactViews, rows)} :
            /\ evidence.returned = Smallest(limit, evidence.matched)
            /\ evidence.excluded = SumFunction(evidence.exclusions)
            /\ \A i \in chosen : ~HasWorkInProgress(i, FactViews, rows)

(* A reminder that is offered for sending names at least one invoice, and   *)
(* only overdue ones with a balance; the customer disputes nothing, keeps   *)
(* no promise open, has not claimed to have paid, and is one the customer   *)
(* query calls actionable.                                                  *)
RemindersAreGrounded ==
    BetweenCycles =>
    \A intelligence \in {Current}, view \in ViewChoices :
        LET reminder == Reminder(db, intelligence, view) IN
        intelligence.metrics.overdueExposure > 0 /\ reminder.status = "PREPARED_FOR_REVIEW" =>
            /\ reminder.invoices # {}
            /\ CustomerContext(db, intelligence, latest).actionable
            /\ \A i \in reminder.invoices :
                 InvoiceStateOf(db, i) = "OVERDUE" /\ ~view[i].claim
            /\ \A i \in Invoices :
                 db.status[i] = "DISPUTED" /\ IssueDate[i] <= db.date => db.outstanding[i] = 0
            /\ \A p \in Promises :
                 db.promise[p].status # "NONE" => PromiseStateOf(db, p) # "ACTIVE"
=============================================================================
