----------------------------- MODULE BatchReport -----------------------------
(***************************************************************************)
(* The batch recovery report (reporting/batch_recovery.py) and the totals  *)
(* of the dashboard (seed/portfolio.py, recovery/engine.py), each computed *)
(* from the same facts by code of its own.  Pure: this module has no       *)
(* state.  view is what the policy reads of each case, rows the persisted  *)
(* recovery actions of each case.                                          *)
(***************************************************************************)
EXTENDS Portfolio

BlockedActionStatuses == {"HELD", "REJECTED", "CANCELLED", "FAILED"}

-----------------------------------------------------------------------------
(* build_batch_recovery_proof *)

\* Payments on or before the due date are outside the measure.
RecoveredOn(f, i) == PaidBetween(f, i, DueDate[i] + 1, f.date)

\* Mutants: an invoice leaves the report with its last payment, or enters it
\* on its due date.
InScopeWhileUnpaid(f) ==
    {i \in Invoices : /\ IssueDate[i] <= f.date
                      /\ DueDate[i] < f.date
                      /\ f.status[i] \notin {"CANCELLED", "WRITTEN_OFF"}
                      /\ f.outstanding[i] > 0}
InScopeOnDueDate(f) ==
    {i \in Invoices : /\ IssueDate[i] <= f.date
                      /\ DueDate[i] <= f.date
                      /\ f.status[i] \notin {"CANCELLED", "WRITTEN_OFF"}
                      /\ f.outstanding[i] > 0 \/ RecoveredOn(f, i) > 0}
InScope(f) ==
    {i \in Invoices : /\ IssueDate[i] <= f.date
                      /\ DueDate[i] < f.date
                      /\ f.status[i] \notin {"CANCELLED", "WRITTEN_OFF"}
                      /\ f.outstanding[i] > 0 \/ RecoveredOn(f, i) > 0}

Balance(f, S) == SumFunctionOnSet(f.outstanding, S)
Recovered(f, S) == SumFunctionOnSet([i \in Invoices |-> RecoveredOn(f, i)], S)

\* With one customer the account counts are those of the customer.
Reconciliation(f) ==
    LET scope == InScope(f)
        recovered == Recovered(f, scope)
        remaining == Balance(f, scope) IN
    [starting |-> remaining + recovered, recovered |-> recovered,
     remaining |-> remaining,
     paidOff |-> {i \in scope : RecoveredOn(f, i) > 0 /\ f.outstanding[i] = 0},
     partly |-> {i \in scope : RecoveredOn(f, i) > 0 /\ f.outstanding[i] > 0},
     open |-> {i \in scope : f.outstanding[i] > 0},
     accountsPaidOff |-> IF recovered > 0 /\ remaining = 0 THEN 1 ELSE 0,
     accountsPartly |-> IF recovered > 0 /\ remaining > 0 THEN 1 ELSE 0]

Terminal(v) == DesiredCaseState(v) \in {"RESOLVED", "CLOSED"}

\* Holds, exceptions and the age-only comparison, as sets of cases.
StoppingRules(f, view, rows) ==
    LET scoped == Cases(f) \cap InScope(f)
        open == {i \in scoped : ~Terminal(view[i])}
        held == {i \in open : EligibilityBlockers(view[i]) # {}}
        elevated == {i \in open : view[i].priority \in {"HIGH", "CRITICAL"}}
        broken == {i \in open : "BROKEN" \in view[i].promises}
        disputed == {i \in open : view[i].disputed}
        pending == {i \in scoped : \E r \in rows[i] : r.status = "PENDING_APPROVAL"}
        targets == {i \in open : view[i].invoice = "OVERDUE"}
        protected(i) == {"ACTIVE_DISPUTE", "ACTIVE_PAYMENT_PROMISE"}
                            \cap EligibilityBlockers(view[i]) # {} IN
    [held |-> held,
     disputed |-> disputed,
     promised |-> {i \in open : "ACTIVE" \in view[i].promises},
     resolved |-> scoped \ open,
     otherBlocked |-> {i \in held : ~protected(i)},
     approval |-> {i \in open : ApprovalRequired(view[i])},
     exceptions |-> elevated \cup broken \cup disputed \cup pending,
     exceptionMemberships |-> Cardinality(elevated) + Cardinality(broken)
                              + Cardinality(disputed) + Cardinality(pending),
     blockedActions |-> UNION {{i} \X {r \in rows[i] : r.status \in BlockedActionStatuses} :
                                 i \in scoped},
     targets |-> targets,
     violationsAvoided |-> {i \in targets : protected(i)},
     immediate |-> {i \in open : /\ EligibilityBlockers(view[i]) = {}
                                 /\ RecommendedAction(view[i]) # "NO_ACTION_REQUIRED"}]

-----------------------------------------------------------------------------
(* portfolio_summary_from_records, and _dashboard_snapshot around it *)

PortfolioSummary(f) ==
    LET issued == {i \in Invoices : IssueDate[i] <= f.date}
        overdue == {i \in issued : InvoiceStateOf(f, i) = "OVERDUE"} IN
    [open |-> {i \in issued : f.outstanding[i] > 0},
     overdueInvoices |-> overdue,
     outstanding |-> Balance(f, issued),
     overdue |-> Balance(f, overdue),
     recovered |-> SumFunctionOnSet(Original, issued) - Balance(f, issued),
     storedBroken |-> {p \in Promises : f.promise[p].status = "BROKEN"},
     disputed |-> {i \in issued : f.status[i] = "DISPUTED"}]

\* recovery_summary_from_records: evaluations of the cases issued so far,
\* exposures of all invoices and promises.
RecoverySummary(f, view) ==
    LET evaluated == {i \in Cases(f) : IssueDate[i] <= f.date}
        inState(S) == {i \in evaluated : DesiredCaseState(view[i]) \in S}
        promised(state) ==
            SumFunctionOnSet([p \in Promises |-> f.promise[p].amount],
                {p \in Promises : /\ f.promise[p].status # "NONE"
                                  /\ PromiseStateOf(f, p) = state}) IN
    [overdue |-> Balance(f, {i \in Invoices : InvoiceStateOf(f, i) = "OVERDUE"}),
     disputed |-> Balance(f, {i \in Invoices : f.status[i] = "DISPUTED"}),
     promised |-> promised("ACTIVE"), broken |-> promised("BROKEN"),
     eligible |-> {i \in evaluated : EligibilityBlockers(view[i]) = {}},
     blockedByDispute |-> {i \in evaluated : view[i].disputed},
     awaitingPayment |-> inState({"PROMISE_MONITORING"}),
     open |-> evaluated \ inState({"RESOLVED", "CLOSED"}),
     active |-> inState({"IN_PROGRESS"}), escalated |-> inState({"ESCALATED"}),
     onHold |-> inState({"AWAITING_CUSTOMER"})]
=============================================================================
