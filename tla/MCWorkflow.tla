----------------------------- MODULE MCWorkflow -----------------------------
(***************************************************************************)
(* The facts a case may be in, one for each recommendation that can become *)
(* an action and one for each guard that refuses it.                       *)
(***************************************************************************)
EXTENDS Workflow

Overdue ==
    [invoice |-> "OVERDUE", daysOverdue |-> 1, exposure |-> 1, disputed |-> FALSE,
     promises |-> {}, state |-> "IN_PROGRESS", priority |-> "NORMAL",
     strategic |-> FALSE, consent |-> "OPTED_IN", channel |-> TRUE,
     recent |-> 0, claim |-> FALSE, delay |-> FALSE]
Delayed == [Overdue EXCEPT !.delay = TRUE]
Broken == [Overdue EXCEPT !.promises = {"BROKEN"}, !.priority = "CRITICAL",
                          !.state = "ESCALATED"]
Disputed == [Overdue EXCEPT !.disputed = TRUE, !.state = "AWAITING_CUSTOMER"]
ConsentLost == [Overdue EXCEPT !.consent = "OPTED_OUT"]
Paid == [Overdue EXCEPT !.invoice = "PAID", !.exposure = 0, !.state = "RESOLVED"]

AllViews == {Overdue, Delayed, Broken, Disputed, ConsentLost, Paid}
TwoViews == {Overdue, Broken}
OutreachViews == {Overdue, Delayed}
=============================================================================
