--------------------------- MODULE CommandPlanning ---------------------------
(***************************************************************************)
(* How an interpreted command becomes a plan: the structured query over    *)
(* customers, cases or invoices (commands/tools.py) and the proposals made *)
(* of its result (commands/planner.py).  Pure: this module has no state.   *)
(* A query maps the filters it sets to the values it accepts.  view, rows  *)
(* are as in the batch report; latest is what the last cycle recorded: if  *)
(* it touched the customer, and which decisions it changed or kept.        *)
(***************************************************************************)
EXTENDS OperationalIntelligence, Sequences

WorkingStatuses == {"RECOMMENDED", "PENDING_APPROVAL", "APPROVED", "HELD"}
NotActionable == {"NO_ACTION_REQUIRED", "MONITOR_ACTIVE_PROMISE", "HOLD_FOR_DISPUTE"}

-----------------------------------------------------------------------------
(* _apply_predicates: the filters, in the order they are applied. *)

\* What f holds, and what only g does.
Over(f, g) ==
    [x \in DOMAIN f \cup DOMAIN g |-> IF x \in DOMAIN f THEN f[x] ELSE g[x]]

FilterOrder ==
    <<"latest_cycle", "risk_level", "overdue", "broken_promise", "active_promise",
      "active_dispute", "partial_payment", "recent_payment", "actionable", "blocked",
      "monitoring", "decision_changed", "decision_held", "days_overdue", "score",
      "exposure">>

\* The entities that pass the first n filters.
Kept(context, query, n) ==
    {e \in DOMAIN context :
        \A k \in 1 .. n : FilterOrder[k] \in DOMAIN query =>
            context[e][FilterOrder[k]] \in query[FilterOrder[k]]}

Matched(context, query) == Kept(context, query, Len(FilterOrder))

\* How many entities each filter was the first to remove.
Exclusions(context, query) ==
    [k \in 1 .. Len(FilterOrder) |->
        Cardinality(Kept(context, query, k - 1) \ Kept(context, query, k))]

\* What the filters see of a customer's intelligence, whatever is queried.  A
\* payment is recent within 30 days, the value of stalledPayment in the code.
IntelligenceContext(f, intelligence) ==
    LET m == intelligence.metrics IN
    [risk_level |-> intelligence.level, score |-> intelligence.score,
     overdue |-> m.overdueExposure > 0, exposure |-> m.overdueExposure,
     days_overdue |-> m.daysOverdue,
     broken_promise |-> m.brokenPromises > 0, active_promise |-> m.activePromises > 0,
     active_dispute |-> m.disputes > 0,
     partial_payment |-> \E i \in Invoices :
        \/ f.status[i] = "PARTIALLY_PAID"
        \/ 0 < f.outstanding[i] /\ f.outstanding[i] < Original[i],
     recent_payment |-> \E n \in m.sincePayment : n < IntelligencePolicy.stalledPayment]

CustomerContext(f, intelligence, latest) ==
    LET m == intelligence.metrics
        blocked == m.disputes > 0 \/ m.activePromises > 0 IN
    Over(IntelligenceContext(f, intelligence),
    [latest_cycle |-> latest.touched,
     blocked |-> blocked,
     monitoring |-> intelligence.advice \in {"MONITOR", "WAIT_FOR_PROMISE"},
     actionable |-> m.overdueExposure > 0 /\ ~blocked /\ intelligence.advice # "MONITOR",
     decision_changed |-> "CUSTOMER" \in latest.changed,
     decision_held |-> "CUSTOMER" \in latest.held])

\* Mutant: a case without blockers is ready, whatever is advised for it.
ReadyUnlessBlocked(v) == RecommendationBlockers(v) = {}
Actionable(v) ==
    RecommendationBlockers(v) = {} /\ RecommendedAction(v) \notin NotActionable

\* A case is filtered by the intelligence of its customer.
CaseContexts(f, intelligence, latest, view) ==
    [i \in Cases(f) |->
        Over(IntelligenceContext(f, intelligence),
        [latest_cycle |-> latest.touched,
         blocked |-> RecommendationBlockers(view[i]) # {},
         monitoring |-> RecommendedAction(view[i]) = "MONITOR_ACTIVE_PROMISE",
         actionable |-> Actionable(view[i]),
         decision_changed |-> i \in latest.changed,
         decision_held |-> i \in latest.held])]

\* execute_direct_query over invoices: the same idea, with filters of its own.
InvoicesMatching(f, query) ==
    {i \in Invoices :
        LET row == [overdue |-> /\ IssueDate[i] <= f.date
                                /\ DueDate[i] < f.date
                                /\ f.outstanding[i] > 0,
                    days_overdue |-> f.date - DueDate[i],
                    exposure |-> f.outstanding[i],
                    partial_payment |-> /\ 0 < f.outstanding[i]
                                        /\ f.outstanding[i] < Original[i]]
        IN \A filter \in DOMAIN query : row[filter] \in query[filter]}

-----------------------------------------------------------------------------
(* PREPARE_FOLLOW_UPS and PREPARE_RECOVERY_ACTIONS *)

FollowUpQuery(query) ==
    Over([broken_promise |-> {TRUE}, actionable |-> {TRUE}], query)
RecoveryQuery(query) ==
    Over(Over([actionable |-> {TRUE}], query), [risk_level |-> {"CRITICAL"}])

HasWorkInProgress(i, view, rows) ==
    \E r \in rows[i] : /\ r.status \in WorkingStatuses
                       /\ r.action = RecommendedAction(view[i])

\* Mutant: the limit cuts the list before the duplicates leave it.
ChosenBeforeDuplicates(context, query, limit, view, rows) ==
    LET matched == Matched(context, query) IN
    {{i \in S : ~HasWorkInProgress(i, view, rows)} :
        S \in {T \in SUBSET matched :
                Cardinality(T) = Smallest(limit, Cardinality(matched))}}
\* The cases the plan may propose; equally ranked ones are taken by identity,
\* which is left open here.
Chosen(context, query, limit, view, rows) ==
    LET available == {i \in Matched(context, query) : ~HasWorkInProgress(i, view, rows)} IN
    {S \in SUBSET available : Cardinality(S) = Smallest(limit, Cardinality(available))}

\* _case_recovery_proposal; only work for the workflow asks for confirmation.
Proposal(v, followUp) ==
    LET action == RecommendedAction(v) IN
    IF action = "HOLD_FOR_DISPUTE" THEN [type |-> "REVIEW_DISPUTE", confirm |-> FALSE]
    ELSE IF action = "MONITOR_ACTIVE_PROMISE" THEN [type |-> "MONITOR_PROMISE", confirm |-> FALSE]
    ELSE IF action = "NO_ACTION_REQUIRED" THEN [type |-> "REVIEW_CASE", confirm |-> FALSE]
    ELSE [type |-> IF followUp THEN "PREPARE_FOLLOW_UP" ELSE "PREPARE_RECOVERY_ACTION",
          confirm |-> TRUE]

\* _execution_evidence, with the duplicates taken out of the matches.
Evidence(context, query, chosen, view, rows) ==
    LET duplicates == {i \in Matched(context, query) : HasWorkInProgress(i, view, rows)}
        matched == Cardinality(Matched(context, query)) - Cardinality(duplicates) IN
    [inspected |-> Cardinality(DOMAIN context), matched |-> matched,
     excluded |-> Cardinality(DOMAIN context) - matched,
     returned |-> Cardinality(chosen),
     exclusions |-> Append(Exclusions(context, query), Cardinality(duplicates))]

\* The mode of the plan these proposals make up.
ExecutionMode(proposals, prepares) ==
    IF \E p \in proposals : p.confirm THEN "CONFIRMATION_REQUIRED"
    ELSE IF prepares THEN "PREPARE" ELSE "READ_ONLY"

-----------------------------------------------------------------------------
(* PREPARE_PAYMENT_REMINDERS: _reminder_proposal for one customer, who is  *)
(* looked at only with an overdue balance.                                 *)

ReminderInvoices(f, view) ==
    {i \in Cases(f) : /\ RecommendedAction(view[i]) = "SEND_PAYMENT_REMINDER"
                      /\ IssueDate[i] <= f.date
                      /\ f.outstanding[i] > 0
                      /\ DueDate[i] < f.date}

\* Mutant: a promise on another invoice does not defer the reminder.
ReminderStatusByCase(f, intelligence, view) ==
    IF intelligence.metrics.disputes > 0 THEN "BLOCKED_DISPUTE"
    ELSE IF Cases(f) # {} /\ ReminderInvoices(f, view) = {} THEN "NON_SENDABLE_POLICY"
    ELSE IF ReminderInvoices(f, view) = {} THEN "UNAVAILABLE"
    ELSE "PREPARED_FOR_REVIEW"
ReminderStatus(f, intelligence, view) ==
    LET advised == {RecommendedAction(view[i]) : i \in Cases(f)} IN
    IF intelligence.metrics.disputes > 0 THEN "BLOCKED_DISPUTE"
    ELSE IF intelligence.metrics.activePromises > 0 THEN "DEFERRED_ACTIVE_PROMISE"
    ELSE IF advised = {"NO_ACTION_REQUIRED"} THEN "RECOVERY_COMPLETE"
    ELSE IF Cases(f) # {} /\ ReminderInvoices(f, view) = {} THEN "NON_SENDABLE_POLICY"
    ELSE IF ReminderInvoices(f, view) = {} THEN "UNAVAILABLE"
    ELSE "PREPARED_FOR_REVIEW"

Reminder(f, intelligence, view) ==
    [status |-> ReminderStatus(f, intelligence, view),
     invoices |-> ReminderInvoices(f, view),
     total |-> Total(f, ReminderInvoices(f, view)),
     promise |-> IF intelligence.metrics.brokenPromises > 0 THEN "BROKEN"
                 ELSE IF intelligence.metrics.activePromises > 0 THEN "ACTIVE" ELSE "NONE"]
=============================================================================
