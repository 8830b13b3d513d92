---------------------- MODULE OperationalIntelligence ----------------------
(***************************************************************************)
(* What the operator is shown about a customer or one of its cases         *)
(* (intelligence/operational_service.py), computed afresh from the facts,  *)
(* and how two such results are compared after a simulation cycle          *)
(* (intelligence/transitions.py).  Pure: this module has no state.         *)
(* activity is the date each case was opened or last changed its state.    *)
(***************************************************************************)
EXTENDS Portfolio

CONSTANT IntelligencePolicy   \* the thresholds of IntelligencePolicy

\* None of the thresholds of an amount or of an age is met by nothing.
ASSUME IntelligenceConstants ==
    IntelligencePolicy \in
        [highValueOverdue : Nat \ {0}, highExposure : Nat \ {0}, longOverdue : Nat \ {0},
         severeOverdue : Nat, criticalOverdue : Nat, stalledPayment : Nat,
         severelyStalledPayment : Nat, stalledRecovery : Nat]

SignalTypes == {"HIGH_VALUE_OVERDUE", "LONG_OVERDUE", "MULTIPLE_OVERDUE_INVOICES",
                "BROKEN_PROMISE", "MULTIPLE_BROKEN_PROMISES",
                "PAYMENT_ACTIVITY_STALLED", "ACTIVE_DISPUTE", "RECOVERY_STALLED",
                "HIGH_RECOVERY_EXPOSURE"}

Total(f, S) == SumFunctionOnSet(f.outstanding, S)

\* Mutant: settled cases still count as work in progress.
ActiveOrSettledCases(f, S) == {i \in Cases(f) \cap S : f.case[i] # "CLOSED"}
ActiveCases(f, S) == {i \in Cases(f) \cap S : f.case[i] \notin {"RESOLVED", "CLOSED"}}

\* Documents issued later are left out; promises are not, whatever their
\* invoice.  sincePayment is empty when no payment is recorded.
Metrics(f, activity, S) ==
    LET issued == {i \in S : IssueDate[i] <= f.date}
        overdue == {i \in issued : InvoiceStateOf(f, i) = "OVERDUE"}
        ages == {DaysOverdue(IssueDate[i], DueDate[i], f.outstanding[i], f.date) :
                    i \in overdue}
        promised(state) ==
            Cardinality({p \in UNION {PromisesOn(f, i) : i \in S} :
                            PromiseStateOf(f, p) = state})
        paid == {d \in Dates : d <= f.date /\ \E i \in issued : f.paidOn[i][d] > 0}
    IN [exposure        |-> Total(f, issued),
        overdueExposure |-> Total(f, overdue),
        overdueInvoices |-> Cardinality(overdue),
        daysOverdue     |-> CHOOSE n \in ages \cup {0} : \A m \in ages : m <= n,
        brokenPromises  |-> promised("BROKEN"),
        activePromises  |-> promised("ACTIVE"),
        disputes        |-> Cardinality({i \in issued : /\ f.status[i] = "DISPUTED"
                                                        /\ f.outstanding[i] > 0}),
        sincePayment    |-> {f.date - d : d \in {c \in paid : \A e \in paid : e <= c}},
        stalledCases    |-> Cardinality({i \in ActiveCases(f, S) \cap issued :
                                f.date - activity[i] >= IntelligencePolicy.stalledRecovery})]

PaymentStalled(m, days) ==
    m.overdueExposure > 0 /\ \A n \in m.sincePayment : n >= days

\* _signals_and_factors: the points of each signal, zero when it is absent.
Points(m) ==
    LET policy == IntelligencePolicy IN
    [s \in SignalTypes |->
        CASE s = "HIGH_VALUE_OVERDUE" ->
                IF m.overdueExposure >= policy.highValueOverdue THEN 16 ELSE 0
          [] s = "LONG_OVERDUE" ->
                IF m.daysOverdue < policy.longOverdue THEN 0
                ELSE IF m.daysOverdue >= policy.criticalOverdue THEN 22
                ELSE IF m.daysOverdue >= policy.severeOverdue THEN 18 ELSE 8
          [] s = "MULTIPLE_OVERDUE_INVOICES" ->
                IF m.overdueInvoices < 2 THEN 0
                ELSE IF m.overdueInvoices >= 5 THEN 14
                ELSE IF m.overdueInvoices >= 3 THEN 10 ELSE 6
          [] s = "BROKEN_PROMISE" -> IF m.brokenPromises = 1 THEN 20 ELSE 0
          [] s = "MULTIPLE_BROKEN_PROMISES" -> IF m.brokenPromises >= 2 THEN 30 ELSE 0
          [] s = "PAYMENT_ACTIVITY_STALLED" ->
                IF ~PaymentStalled(m, policy.stalledPayment) THEN 0
                ELSE IF PaymentStalled(m, policy.severelyStalledPayment) THEN 14 ELSE 10
          [] s = "ACTIVE_DISPUTE" -> IF m.disputes > 0 THEN 20 ELSE 0
          [] s = "RECOVERY_STALLED" -> IF m.stalledCases > 0 THEN 10 ELSE 0
          [] s = "HIGH_RECOVERY_EXPOSURE" ->
                IF m.exposure >= policy.highExposure THEN 22 ELSE 0]

Levels == <<"LOW", "MEDIUM", "HIGH", "CRITICAL">>
Rank(level) == CHOOSE n \in DOMAIN Levels : Levels[n] = level

PriorityLevel(score) ==
    IF score >= 80 THEN "CRITICAL"
    ELSE IF score >= 45 THEN "HIGH"
    ELSE IF score >= 20 THEN "MEDIUM" ELSE "LOW"

\* Mutant: a promise is waited for before a dispute is reviewed.
AdvicePromiseFirst(level, m) ==
    IF m.activePromises > 0 THEN "WAIT_FOR_PROMISE"
    ELSE IF m.disputes > 0 THEN "REVIEW_DISPUTE"
    ELSE IF level = "CRITICAL" THEN "ESCALATE"
    ELSE IF m.brokenPromises > 0 \/ level = "HIGH" THEN "PRIORITIZE_RECOVERY"
    ELSE IF m.overdueExposure > 0 \/ m.stalledCases > 0 THEN "FOLLOW_UP"
    ELSE "MONITOR"
Advice(level, m) ==
    IF m.disputes > 0 THEN "REVIEW_DISPUTE"
    ELSE IF m.activePromises > 0 THEN "WAIT_FOR_PROMISE"
    ELSE IF level = "CRITICAL" THEN "ESCALATE"
    ELSE IF m.brokenPromises > 0 \/ level = "HIGH" THEN "PRIORITIZE_RECOVERY"
    ELSE IF m.overdueExposure > 0 \/ m.stalledCases > 0 THEN "FOLLOW_UP"
    ELSE "MONITOR"

Evaluate(f, activity, S) ==
    LET m == Metrics(f, activity, S)
        points == Points(m)
        score == Smallest(100, SumFunction(points))
        level == PriorityLevel(score)
    IN [metrics |-> m, score |-> score, level |-> level,
        signals |-> {s \in SignalTypes : points[s] > 0},
        advice |-> Advice(level, m)]

CustomerIntelligence(f, activity) == Evaluate(f, activity, Invoices)
CaseIntelligence(f, activity, i) == Evaluate(f, activity, {i})

-----------------------------------------------------------------------------
(* compare_intelligence: before and after are intelligence results with    *)
(* the action recommended next to them.  An entity without a result before *)
(* is compared with itself: its signals are not news.                      *)

Snapshot(intelligence, action) == [is |-> intelligence, action |-> action]

Classifications(before, after) ==
    LET added == after.is.signals \ before.is.signals
        removed == before.is.signals \ after.is.signals
        holds ==
           [RISK_INCREASED |-> Rank(after.is.level) > Rank(before.is.level),
            RISK_DECREASED |-> Rank(after.is.level) < Rank(before.is.level),
            RECOMMENDATION_CHANGED |-> after.action # before.action,
            NEW_BLOCKER |-> "ACTIVE_DISPUTE" \in added,
            BLOCKER_RESOLVED |-> "ACTIVE_DISPUTE" \in removed,
            NEW_SIGNAL |-> added # {},
            SIGNAL_RESOLVED |-> removed # {}]
    IN {c \in DOMAIN holds : holds[c]}

Material(before, after) == Classifications(before, after) # {}

ChangeDirection(before, after) ==
    LET classes == Classifications(before, after) IN
    IF {"RISK_INCREASED", "NEW_BLOCKER"} \cap classes # {} THEN "WORSENED"
    ELSE IF {"RISK_DECREASED", "BLOCKER_RESOLVED"} \cap classes # {} THEN "IMPROVED"
    ELSE IF after.is.score > before.is.score /\ "NEW_SIGNAL" \in classes THEN "WORSENED"
    ELSE IF after.is.score < before.is.score /\ "SIGNAL_RESOLVED" \in classes THEN "IMPROVED"
    ELSE "UNCHANGED"
=============================================================================
