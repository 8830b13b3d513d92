------------------------- MODULE MCRecoveryExperiment -------------------------
(***************************************************************************)
(* Cases for every branch of the policy, with a horizon that holds two     *)
(* baseline contacts and two windows.                                      *)
(***************************************************************************)
EXTENDS RecoveryExperiment

Promise(state, amount, date) == [state |-> state, amount |-> amount, date |-> date]

Case(outstanding, status, promise) ==
    [outstanding |-> outstanding, daysOverdue |-> 1, status |-> status,
     state |-> "IN_PROGRESS", priority |-> "NORMAL", strategic |-> FALSE,
     claim |-> FALSE, delayUntil |-> -1, promise |-> promise]

Cohort ==
    LET none == [p \in Promises |-> Promise("FULFILLED", 1, 0)]
        one(x) == [none EXCEPT ![1] = x] IN
    {Case(4, "OVERDUE", none),
     Case(4, "DISPUTED", one(Promise("ACTIVE", 9, 1))),
     Case(3, "PARTIALLY_PAID", [none EXCEPT ![1] = Promise("ACTIVE", 2, 1),
                                            ![2] = Promise("ACTIVE", 2, 2)]),
     Case(4, "OVERDUE", one(Promise("BROKEN", 2, -1))),
     [Case(4, "DISPUTED", none) EXCEPT !.delayUntil = 3],
     [Case(4, "OVERDUE", none) EXCEPT !.claim = TRUE],
     [Case(6, "OVERDUE", none) EXCEPT !.priority = "CRITICAL", !.delayUntil = 1],
     [Case(4, "OVERDUE", none) EXCEPT !.state = "RESOLVED"]}
=============================================================================
