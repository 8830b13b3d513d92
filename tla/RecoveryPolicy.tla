--------------------------- MODULE RecoveryPolicy ---------------------------
(***************************************************************************)
(* The deterministic recovery policy: what the evaluator derives from the  *)
(* facts of one case (recovery/engine.py) and what the recommender advises *)
(* from that evaluation (recommendations/service.py).  Both are pure; this *)
(* module has no state.  Amounts are whole minor units, dates are days.    *)
(***************************************************************************)
EXTENDS Integers, FiniteSets

CONSTANTS
    SevereExposure,       \* SEVERE_EXPOSURE: outstanding that makes a case severe
    SevereOverdueDays,    \* SEVERE_OVERDUE_DAYS
    MaxAutomatedActions   \* MAX_AUTOMATED_ACTIONS

ASSUME PolicyConstants ==
    /\ SevereExposure \in Nat \ {0}
    /\ SevereOverdueDays \in Nat \ {0}
    /\ MaxAutomatedActions \in Nat \ {0}

InvoiceStatuses == {"OPEN", "PARTIALLY_PAID", "PAID", "OVERDUE", "DISPUTED",
                    "WRITTEN_OFF", "CANCELLED"}
PromiseStatuses == {"ACTIVE", "FULFILLED", "BROKEN", "CANCELLED"}
RecoveryStates == {"NEW", "IN_PROGRESS", "AWAITING_CUSTOMER",
                   "PROMISE_MONITORING", "ESCALATED", "RESOLVED", "CLOSED"}
Priorities == {"LOW", "NORMAL", "HIGH", "CRITICAL"}
ConsentStatuses == {"UNKNOWN", "OPTED_IN", "OPTED_OUT"}

InvoiceStates == {"SCHEDULED", "PAID", "OVERDUE", "DUE", "OPEN"}
\* Mutant: a claim review may also ask the provider for money.
OutreachAndClaimReview ==
    {"SEND_PAYMENT_REMINDER", "REQUEST_PAYMENT_DATE", "REVIEW_PAYMENT_CLAIM"}
OutreachActions == {"SEND_PAYMENT_REMINDER", "REQUEST_PAYMENT_DATE"}
EscalationActions == {"ESCALATE_TO_HUMAN", "PREPARE_ESCALATION"}
RecommendedActions ==
    OutreachActions \cup EscalationActions \cup
    {"MONITOR_ACTIVE_PROMISE", "REVIEW_PAYMENT_CLAIM", "HOLD_FOR_DISPUTE",
     "NO_ACTION_REQUIRED"}

(***************************************************************************)
(* What the policy reads of one case.  "NONE" stands for a case without an *)
(* invoice; promises is the set of derived promise states on that invoice, *)
(* recent the number of automated actions inside the cooldown, claim an    *)
(* accepted payment claim of the customer and delay a recent commitment or *)
(* delay signal.  closed_at is set only on cases that are CLOSED.          *)
(***************************************************************************)
CaseViews ==
    [invoice : InvoiceStates \cup {"NONE"}, daysOverdue : Nat, exposure : Nat,
     disputed : BOOLEAN, promises : SUBSET PromiseStatuses,
     state : RecoveryStates, priority : Priorities, strategic : BOOLEAN,
     consent : ConsentStatuses, channel : BOOLEAN, recent : Nat,
     claim : BOOLEAN, delay : BOOLEAN]

-----------------------------------------------------------------------------
(* recovery/engine.py *)

InvoiceState(issue, due, outstanding, today) ==
    IF issue > today THEN "SCHEDULED"
    ELSE IF outstanding = 0 THEN "PAID"
    ELSE IF due < today THEN "OVERDUE"
    ELSE IF due = today THEN "DUE"
    ELSE "OPEN"

DaysOverdue(issue, due, outstanding, today) ==
    IF InvoiceState(issue, due, outstanding, today) = "OVERDUE"
    THEN today - due ELSE 0

\* Mutant: a missed date does not break the promise.
PromiseStateNeverBroken(status, paid, amount, promisedDate, today) ==
    IF status = "CANCELLED" THEN "CANCELLED"
    ELSE IF paid >= amount THEN "FULFILLED" ELSE "ACTIVE"

\* paid is what the invoice received between the promise's source and today.
PromiseState(status, paid, amount, promisedDate, today) ==
    IF status = "CANCELLED" THEN "CANCELLED"
    ELSE IF paid >= amount THEN "FULFILLED"
    ELSE IF promisedDate < today THEN "BROKEN"
    ELSE "ACTIVE"

\* Mutant: a dispute is looked at before the balance.
DesiredCaseStateDisputeFirst(v) ==
    IF v.state = "CLOSED" THEN "CLOSED"
    ELSE IF v.disputed THEN "AWAITING_CUSTOMER"
    ELSE IF v.invoice = "PAID" THEN "RESOLVED"
    ELSE IF "ACTIVE" \in v.promises THEN "PROMISE_MONITORING"
    ELSE IF "BROKEN" \in v.promises
         THEN IF v.priority \in {"HIGH", "CRITICAL"}
              THEN "ESCALATED" ELSE "IN_PROGRESS"
    ELSE IF v.invoice = "OVERDUE" THEN "IN_PROGRESS"
    ELSE v.state

DesiredCaseState(v) ==
    IF v.state = "CLOSED" THEN "CLOSED"
    ELSE IF v.invoice = "PAID" THEN "RESOLVED"
    ELSE IF v.disputed THEN "AWAITING_CUSTOMER"
    ELSE IF "ACTIVE" \in v.promises THEN "PROMISE_MONITORING"
    ELSE IF "BROKEN" \in v.promises
         THEN IF v.priority \in {"HIGH", "CRITICAL"}
              THEN "ESCALATED" ELSE "IN_PROGRESS"
    ELSE IF v.invoice = "OVERDUE" THEN "IN_PROGRESS"
    ELSE v.state

EligibilityBlockers(v) ==
    {b \in {"ACTIVE_DISPUTE", "INVOICE_SCHEDULED", "CASE_CLOSED",
            "INVOICE_PAID", "ACTIVE_PAYMENT_PROMISE", "COOLDOWN_ACTIVE",
            "MAX_RECENT_AUTOMATED_ACTIONS"} :
        \/ b = "ACTIVE_DISPUTE" /\ v.disputed
        \/ b = "INVOICE_SCHEDULED" /\ v.invoice = "SCHEDULED"
        \/ b = "CASE_CLOSED" /\ v.state = "CLOSED"
        \/ b = "INVOICE_PAID" /\ v.invoice = "PAID"
        \/ b = "ACTIVE_PAYMENT_PROMISE" /\ "ACTIVE" \in v.promises
        \/ b = "COOLDOWN_ACTIVE" /\ v.recent > 0
        \/ b = "MAX_RECENT_AUTOMATED_ACTIONS" /\ v.recent >= MaxAutomatedActions}

CommunicationBlockers(v) ==
    {b \in {"COMMUNICATION_OPTED_OUT", "COMMUNICATION_CONSENT_UNKNOWN",
            "COMMUNICATION_CHANNEL_UNAVAILABLE"} :
        \/ b = "COMMUNICATION_OPTED_OUT" /\ v.consent = "OPTED_OUT"
        \/ b = "COMMUNICATION_CONSENT_UNKNOWN" /\ v.consent = "UNKNOWN"
        \/ b = "COMMUNICATION_CHANNEL_UNAVAILABLE" /\ ~v.channel}

CommunicationPermitted(v) == CommunicationBlockers(v) = {}

-----------------------------------------------------------------------------
(* recommendations/service.py *)

Settled(v) ==
    \/ DesiredCaseState(v) \in {"CLOSED", "RESOLVED"}
    \/ v.invoice = "PAID"

CriticalEscalation(v) ==
    \/ v.priority = "CRITICAL"
    \/ v.exposure >= SevereExposure

Severe(v) ==
    \/ CriticalEscalation(v)
    \/ v.daysOverdue >= SevereOverdueDays

\* Ordered facts take precedence over every interpretation signal.
RecommendedAction(v) ==
    IF Settled(v) THEN "NO_ACTION_REQUIRED"
    ELSE IF v.disputed THEN "HOLD_FOR_DISPUTE"
    ELSE IF v.claim THEN "REVIEW_PAYMENT_CLAIM"
    ELSE IF "ACTIVE" \in v.promises THEN "MONITOR_ACTIVE_PROMISE"
    ELSE IF "BROKEN" \in v.promises
         THEN IF Severe(v) THEN "ESCALATE_TO_HUMAN" ELSE "PREPARE_ESCALATION"
    ELSE IF v.invoice # "OVERDUE" THEN "NO_ACTION_REQUIRED"
    ELSE IF Severe(v) /\ ~v.delay THEN "PREPARE_ESCALATION"
    ELSE IF v.delay THEN "REQUEST_PAYMENT_DATE"
    ELSE "SEND_PAYMENT_REMINDER"

ApprovalRequired(v) ==
    \/ RecommendedAction(v) \in EscalationActions
    \/ RecommendedAction(v) \in {"HOLD_FOR_DISPUTE", "REVIEW_PAYMENT_CLAIM"}
    \/ RecommendedAction(v) = "MONITOR_ACTIVE_PROMISE" /\ v.strategic
    \/ /\ RecommendedAction(v) \in OutreachActions
       /\ ~CommunicationPermitted(v)
       /\ v.consent # "OPTED_OUT"

RecommendationBlockers(v) ==
    EligibilityBlockers(v) \cup
    (IF RecommendedAction(v) \in OutreachActions
     THEN CommunicationBlockers(v) ELSE {})
=============================================================================
