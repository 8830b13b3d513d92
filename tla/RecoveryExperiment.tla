-------------------------- MODULE RecoveryExperiment --------------------------
(***************************************************************************)
(* The paired shadow experiment of the recovery report                     *)
(* (reporting/recovery_experiment.py) over one case: two copies of its     *)
(* facts live through the same days and the same random draws, one under a *)
(* fixed reminder cadence, one under the recovery policy.  Both arms take  *)
(* each day here at once, where the code runs one arm after the other: the *)
(* draws are a function of the day, so that the order makes no difference. *)
(* Nothing but a choice of draws is random.  Day 0 is the operating date.  *)
(***************************************************************************)
EXTENDS RecoveryPolicy, Sequences

CONSTANTS
    HorizonDays,          \* HORIZON_DAYS
    BaselineCadence,      \* BASELINE_CADENCE_DAYS
    ActionCadence,        \* RECONMATE_ACTION_CADENCE_DAYS
    AssociationWindow,    \* ASSOCIATION_WINDOW_DAYS
    CooldownDays,         \* COOLDOWN_DAYS
    PromiseCount,         \* promises on the invoice, in the order they are kept
    Fractions,            \* per cent of the balance that a draw may pay
    Sources               \* the cases the report may be asked about

ArmNames == {"BASELINE", "RECONMATE"}
Promises == 1 .. PromiseCount

\* A persisted case: promise amounts are positive (promised_amount_positive).
SourcePromises == [state : PromiseStatuses, amount : Nat \ {0}, date : Int]
SourceCases ==
    [outstanding : Nat, daysOverdue : Nat, status : InvoiceStatuses,
     state : RecoveryStates, priority : Priorities, strategic : BOOLEAN,
     claim : BOOLEAN, delayUntil : Int, promise : [Promises -> SourcePromises]]

ASSUME ExperimentConstants ==
    /\ HorizonDays \in Nat /\ PromiseCount \in Nat
    /\ {BaselineCadence, ActionCadence, AssociationWindow, CooldownDays} \subseteq Nat \ {0}
    /\ Fractions \subseteq 1 .. 100
    /\ Sources \subseteq SourceCases

VARIABLES
    source,  \* the persisted case, which the experiment only reads
    day,
    arm      \* the shadow of each arm, with what happened to it

vars == <<source, day, arm>>

-----------------------------------------------------------------------------
(* The cohort and its shadows. *)

Least(a, b) == IF a <= b THEN a ELSE b
Greatest(a, b) == IF a >= b THEN a ELSE b

\* A candidate is overdue, unpaid and not closed.
Candidate(s) ==
    /\ s.daysOverdue > 0
    /\ s.outstanding > 0
    /\ s.status \notin {"CANCELLED", "WRITTEN_OFF", "PAID"}
    /\ s.state \notin {"RESOLVED", "CLOSED"}

\* Only what is still open is copied, and no more than the balance.
ShadowPromise(s, p) ==
    [status |-> IF s.promise[p].state \in {"ACTIVE", "BROKEN"}
                THEN s.promise[p].state ELSE "NONE",
     amount |-> Least(s.promise[p].amount, s.outstanding), date |-> s.promise[p].date]

NoResponse == [until |-> -1, increment |-> 0, action |-> -1]

\* actions maps the days of attempted actions to what was attempted.
ShadowCase(s) ==
    [outstanding |-> s.outstanding, status |-> s.status,
     promise |-> [p \in Promises |-> ShadowPromise(s, p)],
     recovered |-> 0, payments |-> <<>>, paidDay |-> -1,
     actions |-> {}, response |-> NoResponse, deferred |-> FALSE,
     disputeContacts |-> 0, promiseContacts |-> 0]

-----------------------------------------------------------------------------
(* What an arm's shadow tells the policy.  The shadow invoice carries no    *)
(* payments, so that promises are judged by their date alone.              *)

RecentContacts(a, d) ==
    Cardinality({x \in a.actions : x.completed /\ d - x.day < CooldownDays})

View(s, a, d) ==
    [invoice |-> InvoiceState(-s.daysOverdue, -s.daysOverdue, a.outstanding, d),
     daysOverdue |-> s.daysOverdue + d,
     exposure |-> a.outstanding,
     disputed |-> a.status = "DISPUTED",
     promises |-> {PromiseState(a.promise[p].status, 0, a.promise[p].amount,
                                a.promise[p].date, d) :
                     p \in {q \in Promises : a.promise[q].status # "NONE"}},
     state |-> s.state, priority |-> s.priority, strategic |-> s.strategic,
     consent |-> "OPTED_IN", channel |-> TRUE, recent |-> RecentContacts(a, d),
     claim |-> s.claim, delay |-> d <= s.delayUntil]

-----------------------------------------------------------------------------
(* The draws of a day, the same for both arms.  occurrence is the least     *)
(* response increment that brings a payment about: 0 when the natural       *)
(* probability does, 1 to 3 when the increments of the baseline, of a       *)
(* reminder or of a payment-date request do, 4 when nothing does.           *)

Draws == [resolved : BOOLEAN, kept : SUBSET Promises, approved : BOOLEAN,
          occurrence : 0 .. 4, percent : Fractions \cup {100}]

BaselineIncrement == 1
Increment(action) ==
    CASE action = "SEND_PAYMENT_REMINDER" -> 2
      [] action = "REQUEST_PAYMENT_DATE" -> 3
      [] OTHER -> 0

PaymentAmount(balance, percent) ==
    Greatest(1, Least(balance, (balance * percent + 50) \div 100))

-----------------------------------------------------------------------------
\* Mutant: the payment is counted as asked for, not as it was owed.
ApplyWhole(a, d, amount, association, action) ==
    [a EXCEPT
        !.outstanding = Greatest(0, @ - amount),
        !.status = IF amount >= a.outstanding THEN "PAID" ELSE "PARTIALLY_PAID",
        !.recovered = @ + amount,
        !.payments = Append(@, [day |-> d, amount |-> amount,
                                association |-> association, action |-> action]),
        !.paidDay = IF amount >= a.outstanding THEN d ELSE @]
ApplyPayment(a, d, asked, association, action) ==
    LET amount == Least(asked, a.outstanding) IN
    IF amount <= 0 THEN a
    ELSE [a EXCEPT
            !.outstanding = @ - amount,
            !.status = IF amount = a.outstanding THEN "PAID" ELSE "PARTIALLY_PAID",
            !.recovered = @ + amount,
            !.payments = Append(@, [day |-> d, amount |-> amount,
                                    association |-> association, action |-> action]),
            !.paidDay = IF amount = a.outstanding THEN d ELSE @]

\* Mutant: the draw is keyed by the arm's own events, so that arms that were
\* paid differently draw differently.
PromiseEventByArm(a, p, d, kept) ==
    LET promise == a.promise[p]
        settled == [a EXCEPT !.promise[p].status = "FULFILLED"] IN
    IF promise.status # "ACTIVE" \/ promise.date > d THEN a
    ELSE IF (p \in kept) = (Len(a.payments) % 2 = 0)
         THEN ApplyPayment(settled, d, promise.amount, "PROMISE_FULFILMENT", -1)
    ELSE IF promise.date < d THEN [a EXCEPT !.promise[p].status = "BROKEN"]
    ELSE a
PromiseEvent(a, p, d, kept) ==
    LET promise == a.promise[p]
        settled == [a EXCEPT !.promise[p].status = "FULFILLED"] IN
    IF promise.status # "ACTIVE" \/ promise.date > d THEN a
    ELSE IF p \in kept
         THEN ApplyPayment(settled, d, promise.amount, "PROMISE_FULFILMENT", -1)
    ELSE IF promise.date < d THEN [a EXCEPT !.promise[p].status = "BROKEN"]
    ELSE a

ExternalEvents(a, d, draw) ==
    LET after[p \in 0 .. PromiseCount] ==
            IF p = 0 THEN [a EXCEPT !.status =
                IF @ = "DISPUTED" /\ draw.resolved THEN "OVERDUE" ELSE @]
            ELSE PromiseEvent(after[p - 1], p, d, draw.kept)
    IN after[PromiseCount]

\* Mutant: the window is a day too long.
RecordLongAction(a, d, action, completed, effect) ==
    [a EXCEPT
        !.actions = @ \cup {[day |-> d, action |-> action, completed |-> completed,
                             increment |-> IF completed THEN effect ELSE 0]},
        !.response = IF completed /\ effect > 0
                     THEN [until |-> d + AssociationWindow, increment |-> effect,
                           action |-> d]
                     ELSE @]
\* Only a completed action with an effect opens a response window.
RecordAction(a, d, action, completed, effect) ==
    [a EXCEPT
        !.actions = @ \cup {[day |-> d, action |-> action, completed |-> completed,
                             increment |-> IF completed THEN effect ELSE 0]},
        !.response = IF completed /\ effect > 0
                     THEN [until |-> d + AssociationWindow - 1, increment |-> effect,
                           action |-> d]
                     ELSE @]

BaselinePolicy(s, a, d) ==
    LET view == View(s, a, d)
        counted == [a EXCEPT
            !.disputeContacts = @ + (IF view.disputed THEN 1 ELSE 0),
            !.promiseContacts = @ + (IF "ACTIVE" \in view.promises THEN 1 ELSE 0)] IN
    IF d % BaselineCadence # 0 THEN a
    ELSE RecordAction(counted, d, "STANDARD_SCHEDULED_REMINDER", TRUE, BaselineIncrement)

HoldActions == {"NO_ACTION_REQUIRED", "HOLD_FOR_DISPUTE",
                "MONITOR_ACTIVE_PROMISE", "REVIEW_PAYMENT_CLAIM"}

\* Mutant: only the recommended action is looked at, not the blockers.
HeldByAction(view) == RecommendedAction(view) \in HoldActions \ {"HOLD_FOR_DISPUTE"}
Held(view) ==
    RecommendationBlockers(view) # {} \/ RecommendedAction(view) \in HoldActions

ActedWithin(a, d) == \E x \in a.actions : d - x.day < ActionCadence

ReconmatePolicy(s, a, d, approved) ==
    LET view == View(s, a, d)
        action == RecommendedAction(view) IN
    IF Held(view)
    THEN [a EXCEPT !.deferred = @ \/ RecommendationBlockers(view) # {}
            \/ action \in {"HOLD_FOR_DISPUTE", "MONITOR_ACTIVE_PROMISE"}]
    ELSE IF ActedWithin(a, d) THEN a
    ELSE RecordAction(a, d, action, ~ApprovalRequired(view) \/ approved,
                      Increment(action))

\* Mutant: every payment inside a window is put down to the action.
AssociatedWheneverOpen(name, a, d, draw) ==
    LET effect == IF d <= a.response.until THEN a.response.increment ELSE 0
        amount == PaymentAmount(a.outstanding, draw.percent) IN
    IF a.outstanding <= 0 \/ a.status = "DISPUTED" \/ draw.occurrence > effect THEN a
    ELSE IF effect = 0
         THEN ApplyPayment(a, d, amount, "NATURAL_SIMULATED_RECOVERY", -1)
    ELSE ApplyPayment(a, d, amount,
            IF name = "RECONMATE" THEN "INTERVENTION_ASSOCIATED"
            ELSE "STANDARD_COLLECTIONS_ASSOCIATED", a.response.action)
SimulatedPayment(name, a, d, draw) ==
    LET effect == IF d <= a.response.until THEN a.response.increment ELSE 0
        amount == PaymentAmount(a.outstanding, draw.percent) IN
    IF a.outstanding <= 0 \/ a.status = "DISPUTED" \/ draw.occurrence > effect THEN a
    ELSE IF draw.occurrence = 0
         THEN ApplyPayment(a, d, amount, "NATURAL_SIMULATED_RECOVERY", -1)
    ELSE ApplyPayment(a, d, amount,
            IF name = "RECONMATE" THEN "INTERVENTION_ASSOCIATED"
            ELSE "STANDARD_COLLECTIONS_ASSOCIATED", a.response.action)

\* The loop ends at the first check that finds the balance paid.
SimulateDay(name, s, a, d, draw) ==
    LET external == ExternalEvents(a, d, draw)
        acted == IF name = "BASELINE" THEN BaselinePolicy(s, external, d)
                 ELSE ReconmatePolicy(s, external, d, draw.approved) IN
    IF a.outstanding <= 0 THEN a
    ELSE IF external.outstanding <= 0 THEN external
    ELSE SimulatedPayment(name, acted, d, draw)

-----------------------------------------------------------------------------
Init ==
    /\ source \in {s \in Sources : Candidate(s)}
    /\ day = 0
    /\ arm = [name \in ArmNames |-> ShadowCase(source)]

NextDay ==
    /\ day < HorizonDays
    /\ day' = day + 1
    /\ \E draw \in Draws :
          arm' = [name \in ArmNames |-> SimulateDay(name, source, arm[name], day, draw)]
    /\ UNCHANGED source

Next == NextDay
Spec == Init /\ [][Next]_vars

-----------------------------------------------------------------------------
(* _arm_metrics of an arm, and the claims the report makes of it. *)

Remaining(name) == source.outstanding - arm[name].recovered

Associated(name) ==
    {k \in 1 .. Len(arm[name].payments) :
        arm[name].payments[k].association = "INTERVENTION_ASSOCIATED"}

PaidTotal(name) ==
    LET total[k \in 0 .. Len(arm[name].payments)] ==
            IF k = 0 THEN 0 ELSE total[k - 1] + arm[name].payments[k].amount
    IN total[Len(arm[name].payments)]

(* What an arm reports as recovered is what its payment events add up to,   *)
(* and what it reports as remaining is the shadow's balance; it is fully    *)
(* recovered on a day exactly when nothing remains.                        *)
ArmReconciles ==
    \A name \in ArmNames :
        /\ arm[name].recovered = PaidTotal(name)
        /\ Remaining(name) = arm[name].outstanding
        /\ (arm[name].paidDay >= 0) = (Remaining(name) = 0)

(* A payment is called intervention-associated only inside the window of a  *)
(* completed action that has an effect on payments.                        *)
AssociationIsEarned ==
    \A k \in Associated("RECONMATE") :
        LET payment == arm["RECONMATE"].payments[k] IN
        \E x \in arm["RECONMATE"].actions :
            /\ x.completed /\ x.increment > 0 /\ x.day = payment.action
            /\ payment.day \in x.day .. x.day + AssociationWindow - 1

(* As long as neither arm is paid off, the same disputes and promises are   *)
(* open in both: the policies change responses, never the outside world.    *)
SameWorld ==
    (\A name \in ArmNames : arm[name].outstanding > 0) =>
        /\ [p \in Promises |-> arm["BASELINE"].promise[p].status] =
           [p \in Promises |-> arm["RECONMATE"].promise[p].status]
        /\ (arm["BASELINE"].status = "DISPUTED") = (arm["RECONMATE"].status = "DISPUTED")

(* The recovery policy's arm attempts no action while the invoice is        *)
(* disputed or a promise on it is open.                                     *)
HoldsAreKept ==
    [][arm["RECONMATE"].actions # arm'["RECONMATE"].actions =>
        /\ arm'["RECONMATE"].status # "DISPUTED"
        /\ \A p \in Promises : arm'["RECONMATE"].promise[p].status # "ACTIVE"]_vars

(* A payment that happens without any response increment happens in both    *)
(* arms or in an arm that has nothing left to pay.                          *)
NaturalPaymentsArePaired ==
    LET natural(name) == {arm[name].payments[k].day :
            k \in {j \in 1 .. Len(arm[name].payments) :
                arm[name].payments[j].association = "NATURAL_SIMULATED_RECOVERY"}} IN
    \A name, other \in ArmNames : \A d \in natural(name) :
        d \in natural(other) \/ (arm[other].paidDay >= 0 /\ arm[other].paidDay <= d)
=============================================================================
