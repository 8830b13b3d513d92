-------------------------- MODULE MCRecoverySystem --------------------------
(***************************************************************************)
(* Small portfolios for TLC.  Amounts are cents, so a balance of 1 is the  *)
(* code's smallest; thresholds are scaled so that each is met and missed.  *)
(***************************************************************************)
EXTENDS RecoverySystem, TLC

CONSTANTS i1, i2, p1, p2, a1, a2, c1

\* Two invoices of one customer: i1 is overdue, i2 is issued and due tomorrow.
TwoOriginal == i1 :> 3 @@ i2 :> 1
TwoIssue == i1 :> 0 @@ i2 :> 2
TwoDue == i1 :> -1 @@ i2 :> 2

OneOriginal == i1 :> 2
OneIssue == i1 :> 0
OneDue == i1 :> -1

NoPromise == [status |-> "NONE", invoice |-> i1, amount |-> 0, due |-> 0, source |-> 0]

\* The seed: nothing paid, overdue invoices with a case, the rest without.
Seeded ==
    Synchronize(
    [date |-> 0,
     status |-> [i \in Invoices |-> IF DueDate[i] < 0 THEN "OVERDUE" ELSE "OPEN"],
     outstanding |-> Original,
     paidOn |-> [i \in Invoices |-> [d \in Dates |-> 0]],
     promise |-> [p \in Promises |-> NoPromise],
     case |-> [i \in Invoices |-> IF DueDate[i] < 0 THEN "IN_PROGRESS" ELSE "NONE"],
     priority |-> [i \in Invoices |-> "NORMAL"]])

\* The customer wrote once; two interpretations of the message may exist.
TwoAnalysesOf == a1 :> c1 @@ a2 :> c1
TwoAnalysesDate == a1 :> 0 @@ a2 :> 0
TwoAnalysesAmount == a1 :> 2 @@ a2 :> 1
TwoAnalysesPromised == a1 :> 0 @@ a2 :> 1
ReviewFacts ==
    a1 :> {"PAYMENT_PROMISE", "POSSIBLE_PAYMENT_CLAIM"}
    @@ a2 :> {"ACTIVE_DISPUTE", "CUSTOMER_DELAY_REASON"}
DelayFacts ==
    a1 :> {"CUSTOMER_DELAY_REASON", "BROKEN_PROMISE"} @@ a2 :> {"PAYMENT_PROMISE"}
NoAnalysis == [a \in {} |-> 0]

\* Nothing tells one request, event identity or reference from another.
PaymentSymmetry ==
    Permutations(Requests) \cup Permutations(EventIds) \cup Permutations(PaymentRefs)
=============================================================================
