------------------------------ MODULE Workflow ------------------------------
(***************************************************************************)
(* The lifecycle of the internal recovery actions of one case              *)
(* (workflow/service.py, api/routes/workflow.py).  Requests run in worker  *)
(* threads, each with its own database session: a handler reads the row of *)
(* an action, reads the case, and later commits an update of the columns   *)
(* it changed, with nothing that detects a commit in between.  So every    *)
(* read and every commit is a step of its own here.                        *)
(***************************************************************************)
EXTENDS RecoveryPolicy

CONSTANTS
    Actions,       \* identities of recovery actions (bound)
    Sessions,      \* requests that may be in progress at once (bound)
    Views,         \* the facts of the case the other components may leave
    Interleaved,   \* whether those facts may change during a request
    CooldownDays,  \* COOLDOWN_DAYS
    LastDay        \* last day explored (bound)

\* is_strategic_account is written with the customer and never again.
ASSUME WorkflowConstants ==
    /\ IsFiniteSet(Actions)
    /\ Views \subseteq CaseViews
    /\ \A v \in Views : v.recent = 0
    /\ \A v, w \in Views : v.strategic = w.strategic
    /\ Interleaved \in BOOLEAN
    /\ CooldownDays \in Nat
    /\ LastDay \in Nat

VARIABLES
    action,      \* the rows of recovery_actions
    case,        \* the facts of the case, without its recent actions
    today,       \* the simulation date
    wall,        \* the date of the server's clock
    session,     \* what each request in progress holds
    approved,    \* actions with a RECOVERY_ACTION_APPROVED audit event
    executions   \* number of RECOVERY_ACTION_EXECUTED events of each action

vars == <<action, case, today, wall, session, approved, executions>>

ActionStatuses == {"RECOMMENDED", "PENDING_APPROVAL", "APPROVED", "HELD",
                   "REJECTED", "CANCELLED", "EXECUTED"}
ActiveStatuses == {"RECOMMENDED", "PENDING_APPROVAL", "APPROVED", "HELD"}
Undecided == {"RECOMMENDED", "PENDING_APPROVAL", "APPROVED"}
ApprovalStatuses == {"NOT_REQUIRED", "PENDING", "APPROVED", "REJECTED"}
Decisions == {"APPROVE", "REJECT", "HOLD", "CANCEL"}

\* "NONE" is an identity not used yet, "DELETED" one that a reset removed.
Rows ==
    [status : ActionStatuses \cup {"NONE", "DELETED"},
     approval : ApprovalStatuses, rec : RecommendedActions,
     required : BOOLEAN, executedOn : Nat]

Unused == [status |-> "NONE", approval |-> "NOT_REQUIRED",
           rec |-> "NO_ACTION_REQUIRED", required |-> FALSE, executedOn |-> 0]

Steps == {"CREATING", "INSERTING", "LOADED", "EXECUTING"}
Requests ==
    [step : Steps, on : Actions, row : Rows, view : CaseViews, decision : {"NONE"}]
    \cup
    [step : {"DECIDING"}, on : Actions, row : Rows, view : CaseViews,
     decision : Decisions]
Idle == [step |-> "IDLE"]

Exists(a) == action[a].status \in ActionStatuses

Init ==
    /\ action = [a \in Actions |-> Unused]
    /\ case \in Views
    /\ today = 0 /\ wall = 0
    /\ session = [s \in Sessions |-> Idle]
    /\ approved = {}
    /\ executions = [a \in Actions |-> 0]

-----------------------------------------------------------------------------
\* The clock of the server dates an execution, the simulation date measures
\* its age.
RecentActions ==
    {a \in Actions : /\ action[a].status = "EXECUTED"
                     /\ action[a].rec \in OutreachActions
                     /\ today - action[a].executedOn < CooldownDays}

CurrentView == [case EXCEPT !.recent = Cardinality(RecentActions)]

FactsAllowExecution(v) ==
    /\ RecommendedAction(v) # "NO_ACTION_REQUIRED"
    /\ DesiredCaseState(v) \notin {"CLOSED", "RESOLVED"}
    /\ RecommendedAction(v) \in OutreachActions =>
          ~v.disputed /\ CommunicationPermitted(v)

-----------------------------------------------------------------------------
(* create_action.  A known command identity returns its action unchanged.  *)

LoadCaseForCreate(s, a) ==
    /\ session[s] = Idle
    /\ action[a].status = "NONE"
    /\ session' = [session EXCEPT ![s] =
            [step |-> "CREATING", on |-> a, row |-> Unused,
             view |-> CurrentView, decision |-> "NONE"]]
    /\ UNCHANGED <<action, case, today, wall, approved, executions>>

\* Mutant: executed actions do not count as duplicates.
ActiveDuplicates(rec) ==
    {a \in Actions : action[a].rec = rec /\ action[a].status \in ActiveStatuses}
Duplicates(rec) ==
    {a \in Actions : action[a].rec = rec
                     /\ action[a].status \in ActiveStatuses \cup {"EXECUTED"}}

\* The row is flushed, but no other session sees it before the commit.
CheckDuplicate(s) ==
    LET v == session[s].view IN
    /\ session[s].step = "CREATING"
    /\ session' = [session EXCEPT ![s] =
            IF FactsAllowExecution(v) /\ Duplicates(RecommendedAction(v)) = {}
            THEN [@ EXCEPT !.step = "INSERTING"]
            ELSE Idle]
    /\ UNCHANGED <<action, case, today, wall, approved, executions>>

\* Mutant: the recommendation's wording for approval is stored.
NewActionAsAdvised(v) ==
    [status |-> IF ApprovalRequired(v) THEN "PENDING_APPROVAL" ELSE "RECOMMENDED",
     approval |-> IF ApprovalRequired(v) THEN "REQUIRED" ELSE "NOT_REQUIRED",
     rec |-> RecommendedAction(v), required |-> ApprovalRequired(v),
     executedOn |-> 0]
NewAction(v) ==
    [status |-> IF ApprovalRequired(v) THEN "PENDING_APPROVAL" ELSE "RECOMMENDED",
     approval |-> IF ApprovalRequired(v) THEN "PENDING" ELSE "NOT_REQUIRED",
     rec |-> RecommendedAction(v), required |-> ApprovalRequired(v),
     executedOn |-> 0]

\* Two requests with one identity: the second violates the primary key.
CommitCreate(s) ==
    LET a == session[s].on IN
    /\ session[s].step = "INSERTING"
    /\ action' = [action EXCEPT ![a] =
            IF @.status = "NONE" THEN NewAction(session[s].view) ELSE @]
    /\ session' = [session EXCEPT ![s] = Idle]
    /\ UNCHANGED <<case, today, wall, approved, executions>>

-----------------------------------------------------------------------------
(* approve_action, reject_action, hold_action, cancel_action. *)

LoadForDecision(s, a, d) ==
    /\ session[s] = Idle
    /\ Exists(a)
    /\ session' = [session EXCEPT ![s] =
            [step |-> "DECIDING", on |-> a, row |-> action[a],
             view |-> case, decision |-> d]]
    /\ UNCHANGED <<action, case, today, wall, approved, executions>>

Permitted(d, status) ==
    CASE d = "APPROVE" -> status = "PENDING_APPROVAL"
      [] d = "CANCEL"  -> status \notin {"EXECUTED", "CANCELLED"}
      [] OTHER         -> status \in Undecided

\* The columns an UPDATE writes; the others keep what is in the database.
\* The update of a row that a reset deleted fails.
Decided(row, d) ==
    CASE d = "APPROVE" -> [row EXCEPT !.status = "APPROVED", !.approval = "APPROVED"]
      [] d = "REJECT"  -> [row EXCEPT !.status = "REJECTED", !.approval = "REJECTED"]
      [] d = "HOLD"    -> [row EXCEPT !.status = "HELD"]
      [] d = "CANCEL"  -> [row EXCEPT !.status = "CANCELLED"]

CommitDecision(s) ==
    LET a == session[s].on
        d == session[s].decision
        commits == Permitted(d, session[s].row.status) /\ Exists(a) IN
    /\ session[s].step = "DECIDING"
    /\ action' = [action EXCEPT ![a] = IF commits THEN Decided(@, d) ELSE @]
    /\ approved' = IF commits /\ d = "APPROVE" THEN approved \cup {a} ELSE approved
    /\ session' = [session EXCEPT ![s] = Idle]
    /\ UNCHANGED <<case, today, wall, executions>>

-----------------------------------------------------------------------------
(* execute_action *)

LoadForExecution(s, a) ==
    /\ session[s] = Idle
    /\ Exists(a)
    /\ session' = [session EXCEPT ![s] =
            [step |-> "LOADED", on |-> a, row |-> action[a],
             view |-> case, decision |-> "NONE"]]
    /\ UNCHANGED <<action, case, today, wall, approved, executions>>

\* The case's own columns were read with the action; the rest is read now.
LoadCaseForExecution(s) ==
    /\ session[s].step = "LOADED"
    /\ session' = [session EXCEPT
            ![s].step = "EXECUTING",
            ![s].view = [CurrentView EXCEPT !.state = session[s].view.state,
                                            !.priority = session[s].view.priority]]
    /\ UNCHANGED <<action, case, today, wall, approved, executions>>

\* Mutants: the approval, the standing of the row or the current facts are
\* not looked at.
MayExecuteUnapproved(row, v) ==
    /\ row.status \in {"APPROVED", "RECOMMENDED", "PENDING_APPROVAL"}
    /\ FactsAllowExecution(v)
    /\ row.rec = RecommendedAction(v)
MayExecuteHeld(row, v) ==
    /\ row.status # "EXECUTED"
    /\ row.required => row.status # "PENDING_APPROVAL"
    /\ FactsAllowExecution(v)
    /\ row.rec = RecommendedAction(v)
MayExecuteAgain(row, v) ==
    /\ row.status \in {"APPROVED", "RECOMMENDED", "EXECUTED"}
    /\ row.required => row.status = "APPROVED"
    /\ FactsAllowExecution(v)
    /\ row.rec = RecommendedAction(v)
MayExecuteStale(row, v) ==
    /\ row.status \in {"APPROVED", "RECOMMENDED"}
    /\ row.required => row.status = "APPROVED"
    /\ FactsAllowExecution(v)
MayExecute(row, v) ==
    /\ row.status \in {"APPROVED", "RECOMMENDED"}
    /\ row.required => row.status = "APPROVED"
    /\ FactsAllowExecution(v)
    /\ row.rec \in OutreachActions => ~v.disputed
    /\ row.rec = RecommendedAction(v)

\* Otherwise only an EXECUTION_BLOCKED audit event is written.
CommitExecution(s) ==
    LET a == session[s].on
        commits == MayExecute(session[s].row, session[s].view) /\ Exists(a) IN
    /\ session[s].step = "EXECUTING"
    /\ action' = [action EXCEPT ![a] =
            IF commits THEN [@ EXCEPT !.status = "EXECUTED", !.executedOn = wall]
            ELSE @]
    /\ executions' = [executions EXCEPT ![a] = IF commits THEN @ + 1 ELSE @]
    /\ session' = [session EXCEPT ![s] = Idle]
    /\ UNCHANGED <<case, today, wall, approved>>

-----------------------------------------------------------------------------
(* What the other components do to the case. *)

Undisturbed == Interleaved \/ \A s \in Sessions : session[s] = Idle

FactsChange ==
    /\ Undisturbed
    /\ case' \in Views
    /\ UNCHANGED <<action, today, wall, session, approved, executions>>

NextSimulationDay ==
    /\ Undisturbed /\ today < LastDay
    /\ today' = today + 1
    /\ case' \in Views
    /\ UNCHANGED <<action, wall, session, approved, executions>>

NextWallDay ==
    /\ wall < LastDay
    /\ wall' = wall + 1
    /\ UNCHANGED <<action, case, today, session, approved, executions>>

\* reset_simulation deletes the actions and their audit events.
ResetSimulation ==
    /\ Undisturbed
    /\ action' = [a \in Actions |->
            IF Exists(a) THEN [Unused EXCEPT !.status = "DELETED"] ELSE action[a]]
    /\ case' \in Views
    /\ today' = 0
    /\ approved' = {}
    /\ executions' = [a \in Actions |-> 0]
    /\ UNCHANGED <<wall, session>>

Handle(s) ==
    \/ \E a \in Actions :
        \/ LoadCaseForCreate(s, a)
        \/ \E d \in Decisions : LoadForDecision(s, a, d)
        \/ LoadForExecution(s, a)
    \/ CheckDuplicate(s) \/ CommitCreate(s) \/ CommitDecision(s)
    \/ LoadCaseForExecution(s) \/ CommitExecution(s)

Next ==
    \/ \E s \in Sessions : Handle(s)
    \/ FactsChange \/ NextSimulationDay \/ NextWallDay \/ ResetSimulation

Spec == Init /\ [][Next]_vars

-----------------------------------------------------------------------------
TypeOK ==
    /\ action \in [Actions -> Rows]
    /\ case \in Views
    /\ today \in 0 .. LastDay /\ wall \in 0 .. LastDay
    /\ session \in [Sessions -> Requests \cup {Idle}]
    /\ approved \in SUBSET Actions
    /\ executions \in [Actions -> Nat]

ReviewedRecommendations ==
    EscalationActions \cup {"HOLD_FOR_DISPUTE", "REVIEW_PAYMENT_CLAIM"}

(* However requests interleave, an action that needs a human, and every    *)
(* escalation, dispute hold or claim review, is executed only after an     *)
(* operator's approval was recorded for it.                                *)
ApprovedBeforeExecuted ==
    \A a \in Actions :
        /\ action[a].status = "EXECUTED"
        /\ action[a].required \/ action[a].rec \in ReviewedRecommendations
        => a \in approved

(* An action that was rejected, held or cancelled is never executed.       *)
StoppedNeverExecutes ==
    [][\A a \in Actions :
        action[a].status \in {"REJECTED", "HELD", "CANCELLED"} =>
            action'[a].status # "EXECUTED"]_vars

(* An action is executed once.                                             *)
ExecutedOnce == \A a \in Actions : executions[a] <= 1

(* A recommendation of the case never has two actions that are active or   *)
(* executed.                                                               *)
OneActionPerRecommendation ==
    \A a, b \in Actions :
        /\ action[a].status \in ActiveStatuses \cup {"EXECUTED"}
        /\ action[b].status \in ActiveStatuses \cup {"EXECUTED"}
        /\ action[a].rec = action[b].rec
        => a = b

(* When an action is executed, it is what the facts of that moment advise, *)
(* and those facts allow it: no outreach in a dispute, without consent or  *)
(* after settlement, and none without approval that now needs one.         *)
ExecutesCurrentRecommendation ==
    [][\A a \in Actions :
        executions'[a] > executions[a] =>
            /\ action[a].rec = RecommendedAction(case)
            /\ ~Settled(case)
            /\ action[a].rec \in OutreachActions =>
                  ~case.disputed /\ CommunicationPermitted(case)
            /\ ApprovalRequired(case) => a \in approved]_vars

(* An automated action is not executed while the case is in the cooldown   *)
(* that an earlier one started.                                            *)
CooldownRespected ==
    [][\A a \in Actions :
        executions'[a] > executions[a] /\ action[a].rec \in OutreachActions =>
            "COOLDOWN_ACTIVE" \notin EligibilityBlockers(CurrentView)]_vars
=============================================================================
