--------------------------- MODULE WorkflowProofs ---------------------------
(***************************************************************************)
(* Proofs about Workflow, for any number of actions and of requests in     *)
(* progress, and for any facts the other components may leave.             *)
(***************************************************************************)
EXTENDS Workflow, FiniteSetTheorems, TLAPS

-----------------------------------------------------------------------------
(* The policy, read by a request, yields one of the known recommendations. *)
LEMMA RecommendedActionType ==
    ASSUME NEW v PROVE RecommendedAction(v) \in RecommendedActions
  BY DEF RecommendedAction, RecommendedActions, OutreachActions, EscalationActions

(* An escalation, a dispute hold and a claim review need an approval.      *)
LEMMA ReviewedNeedApproval ==
    ASSUME NEW v, RecommendedAction(v) \in ReviewedRecommendations
    PROVE  ApprovalRequired(v)
  BY DEF ReviewedRecommendations, ApprovalRequired

LEMMA ApprovalRequiredType ==
    ASSUME NEW v PROVE ApprovalRequired(v) \in BOOLEAN
  BY DEF ApprovalRequired

LEMMA NewActionType ==
    ASSUME NEW v PROVE NewAction(v) \in Rows
  BY RecommendedActionType, ApprovalRequiredType
     DEF NewAction, Rows, ActionStatuses, ApprovalStatuses

LEMMA CurrentViewType ==
    ASSUME TypeOK PROVE CurrentView \in CaseViews
<1>1. IsFiniteSet(RecentActions)
  BY WorkflowConstants, FS_Subset DEF RecentActions
<1>2. Cardinality(RecentActions) \in Nat
  BY <1>1, FS_CardinalityType
<1>3. case \in CaseViews
  BY WorkflowConstants DEF TypeOK
<1> QED BY <1>2, <1>3 DEF CurrentView, CaseViews

LEMMA UnusedType == Unused \in Rows
  BY DEF Unused, Rows, ApprovalStatuses, RecommendedActions

-----------------------------------------------------------------------------
(* Type correctness is inductive on its own.                               *)
LEMMA TypeInit == Init => TypeOK
<1> SUFFICES ASSUME Init PROVE TypeOK
  OBVIOUS
<1>1. action \in [Actions -> Rows]
  BY UnusedType DEF Init
<1>2. today \in 0 .. LastDay /\ wall \in 0 .. LastDay
  BY WorkflowConstants DEF Init
<1> QED BY <1>1, <1>2 DEF Init, TypeOK

LEMMA TypeNext == TypeOK /\ [Next]_vars => TypeOK'
<1> SUFFICES ASSUME TypeOK, [Next]_vars PROVE TypeOK'
  OBVIOUS
<1> USE DEF TypeOK
<1> DEFINE SessionsType == session' \in [Sessions -> Requests \cup {Idle}]
<1>0. CurrentView \in CaseViews /\ case \in CaseViews
  BY CurrentViewType, WorkflowConstants
<1>1. ASSUME NEW s \in Sessions, NEW a \in Actions, LoadCaseForCreate(s, a)
      PROVE  TypeOK'
  <2>1. SessionsType
    BY <1>0, <1>1, UnusedType DEF LoadCaseForCreate, Requests, Steps
  <2> QED BY <1>1, <2>1 DEF LoadCaseForCreate
<1>2. ASSUME NEW s \in Sessions, CheckDuplicate(s) PROVE TypeOK'
  <2>1. session[s] \in Requests
    BY <1>2 DEF CheckDuplicate, Idle
  <2>2. [session[s] EXCEPT !.step = "INSERTING"] \in Requests
    BY <1>2, <2>1 DEF CheckDuplicate, Requests, Steps
  <2>3. SessionsType
    BY <1>2, <2>2 DEF CheckDuplicate
  <2> QED BY <1>2, <2>3 DEF CheckDuplicate
<1>3. ASSUME NEW s \in Sessions, CommitCreate(s) PROVE TypeOK'
  <2>1. NewAction(session[s].view) \in Rows
    BY NewActionType
  <2>2. SessionsType
    BY <1>3 DEF CommitCreate
  <2>3. action' \in [Actions -> Rows]
    BY <1>3, <2>1 DEF CommitCreate
  <2> QED BY <1>3, <2>2, <2>3 DEF CommitCreate
<1>4. ASSUME NEW s \in Sessions, NEW a \in Actions, NEW d \in Decisions,
             LoadForDecision(s, a, d)
      PROVE  TypeOK'
  <2>1. SessionsType
    BY <1>0, <1>4 DEF LoadForDecision, Requests, Steps
  <2> QED BY <1>4, <2>1 DEF LoadForDecision
<1>5. ASSUME NEW s \in Sessions, CommitDecision(s) PROVE TypeOK'
  <2> DEFINE a == session[s].on
             d == session[s].decision
  <2>1. session[s] \in Requests
    BY <1>5 DEF CommitDecision, Idle
  <2>2. a \in Actions
    BY <2>1 DEF Requests
  <2>3. ASSUME Permitted(d, session[s].row.status) /\ Exists(a)
        PROVE  Decided(action[a], d) \in Rows
    <3>1. d \in Decisions
      BY <1>5, <2>1 DEF CommitDecision, Requests, Steps
    <3>2. action[a] \in Rows
      BY <2>2
    <3> QED BY <3>1, <3>2 DEF Decided, Decisions, Rows, ActionStatuses, ApprovalStatuses
  <2>4. action' \in [Actions -> Rows]
    BY <1>5, <2>2, <2>3 DEF CommitDecision
  <2>5. SessionsType /\ approved' \in SUBSET Actions
    BY <1>5, <2>2 DEF CommitDecision
  <2> QED BY <1>5, <2>4, <2>5 DEF CommitDecision
<1>6. ASSUME NEW s \in Sessions, NEW a \in Actions, LoadForExecution(s, a)
      PROVE  TypeOK'
  <2>1. SessionsType
    BY <1>0, <1>6 DEF LoadForExecution, Requests, Steps
  <2> QED BY <1>6, <2>1 DEF LoadForExecution
<1>7. ASSUME NEW s \in Sessions, LoadCaseForExecution(s) PROVE TypeOK'
  <2>1. session[s] \in Requests
    BY <1>7 DEF LoadCaseForExecution, Idle
  <2> DEFINE v == [CurrentView EXCEPT !.state = session[s].view.state,
                                      !.priority = session[s].view.priority]
  <2>2. v \in CaseViews
    <3>1. session[s].view \in CaseViews
      BY <2>1 DEF Requests
    <3> QED BY <1>0, <3>1 DEF CaseViews
  <2>3. [session[s] EXCEPT !.step = "EXECUTING", !.view = v] \in Requests
    BY <1>7, <2>1, <2>2 DEF LoadCaseForExecution, Requests, Steps
  <2>4. session' = [session EXCEPT
            ![s] = [session[s] EXCEPT !.step = "EXECUTING", !.view = v]]
    BY <1>7, <2>1 DEF LoadCaseForExecution, Requests
  <2>5. SessionsType
    BY <2>3, <2>4
  <2> QED BY <1>7, <2>5 DEF LoadCaseForExecution
<1>8. ASSUME NEW s \in Sessions, CommitExecution(s) PROVE TypeOK'
  <2>1. session[s] \in Requests
    BY <1>8 DEF CommitExecution, Idle
  <2>2. wall \in Nat
    BY WorkflowConstants
  <2>3. action' \in [Actions -> Rows]
    <3>1. session[s].on \in Actions
      BY <2>1 DEF Requests
    <3>2. action[session[s].on] \in Rows
      BY <3>1
    <3> DEFINE done == [action[session[s].on] EXCEPT !.status = "EXECUTED",
                                                     !.executedOn = wall]
    <3>3. done \in Rows
      BY <2>2, <3>2 DEF Rows, ActionStatuses
    <3>4. action' = [action EXCEPT ![session[s].on] = done] \/ action' = action
      BY <1>8, <3>1 DEF CommitExecution
    <3> QED BY <3>1, <3>3, <3>4
  <2>4. executions' \in [Actions -> Nat]
    BY <1>8, <2>1 DEF CommitExecution, Requests
  <2>5. SessionsType
    BY <1>8 DEF CommitExecution
  <2> QED BY <1>8, <2>3, <2>4, <2>5 DEF CommitExecution
<1>9. CASE FactsChange
  BY <1>9 DEF FactsChange
<1>10. CASE NextSimulationDay
  BY <1>10, WorkflowConstants DEF NextSimulationDay
<1>11. CASE NextWallDay
  BY <1>11, WorkflowConstants DEF NextWallDay
<1>12. CASE ResetSimulation
  <2>1. [Unused EXCEPT !.status = "DELETED"] \in Rows
    BY UnusedType DEF Rows
  <2>2. action' \in [Actions -> Rows]
    BY <1>12, <2>1 DEF ResetSimulation
  <2> QED BY <1>12, <2>2, WorkflowConstants DEF ResetSimulation
<1>13. CASE UNCHANGED vars
  BY <1>13 DEF vars
<1> QED
  BY <1>1, <1>2, <1>3, <1>4, <1>5, <1>6, <1>7, <1>8, <1>9, <1>10, <1>11,
     <1>12, <1>13 DEF Next, Handle

(* Every row, session and counter stays inside its type, however many      *)
(* requests interleave.                                                    *)
THEOREM TypeCorrect == Spec => []TypeOK
<1>1. Init => TypeOK
  BY TypeInit
<1>2. TypeOK /\ [Next]_vars => TypeOK'
  BY TypeNext
<1> QED BY <1>1, <1>2, PTL DEF Spec

-----------------------------------------------------------------------------
(* Approval.  What makes the invariant inductive is what a request that    *)
(* loaded an action may still rely on when it commits: the approval it saw *)
(* stays on record unless the row itself is gone, and whether an approval  *)
(* is required never changes.                                              *)
ApprovalOnRecord ==
    \A a \in Actions :
        /\ action[a].status = "APPROVED" => a \in approved
        /\ action[a].status = "EXECUTED" /\ action[a].required => a \in approved
        /\ Exists(a) /\ action[a].rec \in ReviewedRecommendations =>
              action[a].required

LoadedStillValid(s) ==
    LET a == session[s].on IN
    session[s].step \in {"LOADED", "EXECUTING"} =>
        /\ action[a].status # "NONE"
        /\ Exists(a) =>
              /\ session[s].row.required = action[a].required
              /\ session[s].row.status = "APPROVED" => a \in approved

ApprovalInv ==
    TypeOK /\ ApprovalOnRecord /\ \A s \in Sessions : LoadedStillValid(s)

LEMMA ApprovalInit == Init => ApprovalInv
<1> SUFFICES ASSUME Init PROVE ApprovalInv
  OBVIOUS
<1>1. TypeOK
  BY TypeInit
<1>2. ApprovalOnRecord
  BY DEF Init, ApprovalOnRecord, Unused, Exists, ActionStatuses
<1>3. ASSUME NEW s \in Sessions PROVE LoadedStillValid(s)
  BY DEF Init, LoadedStillValid, Idle
<1> QED BY <1>1, <1>2, <1>3 DEF ApprovalInv

LEMMA ApprovalNext == ApprovalInv /\ [Next]_vars => ApprovalInv'
<1> SUFFICES ASSUME ApprovalInv, [Next]_vars PROVE ApprovalInv'
  OBVIOUS
<1>0. TypeOK /\ TypeOK' /\ ApprovalOnRecord
  BY TypeNext DEF ApprovalInv
<1> SUFFICES ApprovalOnRecord' /\ \A t \in Sessions : LoadedStillValid(t)'
  BY <1>0 DEF ApprovalInv
\* A step that changes no action and no approval, and leaves every session
\* alone but one that it does not take past loading.
<1>a. ASSUME NEW s \in Sessions,
             UNCHANGED <<action, approved>>,
             \E x : session' = [session EXCEPT ![s] = x],
             LoadedStillValid(s)'
      PROVE  ApprovalOnRecord' /\ \A t \in Sessions : LoadedStillValid(t)'
  <2>1. ApprovalOnRecord'
    BY <1>0, <1>a DEF ApprovalOnRecord, Exists
  <2>2. ASSUME NEW t \in Sessions, t # s PROVE LoadedStillValid(t)'
    <3>1. session'[t] = session[t] /\ LoadedStillValid(t)
      BY <1>0, <1>a, <2>2 DEF TypeOK, ApprovalInv
    <3> QED BY <1>a, <3>1 DEF LoadedStillValid, Exists
  <2> QED BY <1>a, <2>1, <2>2
<1>1. ASSUME NEW s \in Sessions, NEW a \in Actions, LoadCaseForCreate(s, a)
      PROVE  ApprovalOnRecord' /\ \A t \in Sessions : LoadedStillValid(t)'
  <2>1. session'[s].step = "CREATING"
    BY <1>0, <1>1 DEF LoadCaseForCreate, TypeOK
  <2>2. LoadedStillValid(s)'
    BY <2>1 DEF LoadedStillValid
  <2> QED BY <1>1, <1>a, <2>2 DEF LoadCaseForCreate
<1>2. ASSUME NEW s \in Sessions, CheckDuplicate(s)
      PROVE  ApprovalOnRecord' /\ \A t \in Sessions : LoadedStillValid(t)'
  <2>0. session[s] \in Requests
    BY <1>0, <1>2 DEF CheckDuplicate, Idle, TypeOK
  <2>1. session'[s].step \in {"INSERTING", "IDLE"}
    BY <1>0, <1>2, <2>0 DEF CheckDuplicate, TypeOK, Idle, Requests
  <2>2. LoadedStillValid(s)'
    BY <2>1 DEF LoadedStillValid
  <2> QED BY <1>2, <1>a, <2>2 DEF CheckDuplicate
<1>3. ASSUME NEW s \in Sessions, NEW a \in Actions, NEW d \in Decisions,
             LoadForDecision(s, a, d)
      PROVE  ApprovalOnRecord' /\ \A t \in Sessions : LoadedStillValid(t)'
  <2>1. session'[s].step = "DECIDING"
    BY <1>0, <1>3 DEF LoadForDecision, TypeOK
  <2>2. LoadedStillValid(s)'
    BY <2>1 DEF LoadedStillValid
  <2> QED BY <1>3, <1>a, <2>2 DEF LoadForDecision
<1>4. ASSUME NEW s \in Sessions, NEW a \in Actions, LoadForExecution(s, a)
      PROVE  ApprovalOnRecord' /\ \A t \in Sessions : LoadedStillValid(t)'
  <2>1. session'[s].on = a /\ session'[s].row = action[a]
    BY <1>0, <1>4 DEF LoadForExecution, TypeOK
  <2>2. action' = action /\ approved' = approved
    BY <1>4 DEF LoadForExecution
  <2>3. action[a].status # "NONE"
    BY <1>4 DEF LoadForExecution, Exists, ActionStatuses
  <2>4. LoadedStillValid(s)'
    BY <1>0, <2>1, <2>2, <2>3 DEF LoadedStillValid, ApprovalOnRecord
  <2> QED BY <1>4, <1>a, <2>4 DEF LoadForExecution
<1>5. ASSUME NEW s \in Sessions, LoadCaseForExecution(s)
      PROVE  ApprovalOnRecord' /\ \A t \in Sessions : LoadedStillValid(t)'
  <2>0. session[s] \in Requests
    BY <1>0, <1>5 DEF LoadCaseForExecution, Idle, TypeOK
  <2>1. session'[s].on = session[s].on /\ session'[s].row = session[s].row
    BY <1>0, <1>5, <2>0 DEF LoadCaseForExecution, TypeOK, Requests
  <2>2. action' = action /\ approved' = approved /\ session[s].step = "LOADED"
    BY <1>5 DEF LoadCaseForExecution
  <2>3. LoadedStillValid(s)
    BY DEF ApprovalInv
  <2>4. LoadedStillValid(s)'
    BY <2>1, <2>2, <2>3 DEF LoadedStillValid, Exists
  <2> QED BY <1>5, <1>a, <2>4 DEF LoadCaseForExecution
\* A commit that writes one row and keeps what the other requests rely on.
<1>b. ASSUME NEW s \in Sessions, NEW a \in Actions, NEW r \in Rows,
             action' = [action EXCEPT ![a] = r], approved \subseteq approved',
             session' = [session EXCEPT ![s] = Idle],
             r.status \in ActionStatuses,
             \/ action[a].status = "NONE"
             \/ Exists(a) /\ r.required = action[a].required,
             r.status = "APPROVED" => a \in approved',
             r.status = "EXECUTED" /\ r.required => a \in approved',
             r.rec \in ReviewedRecommendations => r.required
      PROVE  ApprovalOnRecord' /\ \A t \in Sessions : LoadedStillValid(t)'
  <2>0. action'[a] = r /\ \A b \in Actions \ {a} : action'[b] = action[b]
    BY <1>0, <1>b DEF TypeOK
  <2>1. ApprovalOnRecord'
    <3> SUFFICES ASSUME NEW b \in Actions
                 PROVE  /\ action'[b].status = "APPROVED" => b \in approved'
                        /\ action'[b].status = "EXECUTED" /\ action'[b].required
                              => b \in approved'
                        /\ Exists(b)' /\ action'[b].rec \in ReviewedRecommendations
                              => action'[b].required
      BY DEF ApprovalOnRecord, ReviewedRecommendations
    <3>1. CASE b = a
      BY <1>b, <2>0, <3>1
    <3>2. CASE b # a
      BY <1>0, <1>b, <2>0, <3>2 DEF ApprovalOnRecord, Exists
    <3> QED BY <3>1, <3>2
  <2>2. ASSUME NEW t \in Sessions PROVE LoadedStillValid(t)'
    <3>1. CASE t = s
      BY <1>0, <1>b, <3>1 DEF LoadedStillValid, TypeOK, Idle
    <3>2. CASE t # s
      <4>1. session'[t] = session[t] /\ LoadedStillValid(t)
        BY <1>0, <1>b, <3>2 DEF TypeOK, ApprovalInv
      <4>2. CASE session[t].step \notin {"LOADED", "EXECUTING"}
        BY <4>1, <4>2 DEF LoadedStillValid
      <4>3. CASE session[t].step \in {"LOADED", "EXECUTING"}
        <5>1. session[t] \in Requests
          BY <1>0, <4>3 DEF TypeOK, Idle
        <5>2. session[t].on \in Actions
          BY <5>1 DEF Requests
        <5>3. CASE session[t].on = a
          BY <1>b, <2>0, <4>1, <4>3, <5>3 DEF LoadedStillValid, Exists, ActionStatuses
        <5>4. CASE session[t].on # a
          BY <1>b, <2>0, <4>1, <4>3, <5>2, <5>4 DEF LoadedStillValid, Exists
        <5> QED BY <5>3, <5>4
      <4> QED BY <4>2, <4>3
    <3> QED BY <3>1, <3>2
  <2> QED BY <2>1, <2>2
<1>6. ASSUME NEW s \in Sessions, CommitCreate(s)
      PROVE  ApprovalOnRecord' /\ \A t \in Sessions : LoadedStillValid(t)'
  <2> DEFINE a == session[s].on
             r == NewAction(session[s].view)
  <2>1. a \in Actions
    BY <1>0, <1>6 DEF CommitCreate, TypeOK, Requests, Idle
  <2>2. session' = [session EXCEPT ![s] = Idle] /\ approved' = approved
    BY <1>6 DEF CommitCreate
  <2>3. CASE action[a].status = "NONE"
    <3>1. action' = [action EXCEPT ![a] = r]
      BY <1>6, <2>3 DEF CommitCreate
    <3>2. r \in Rows /\ r.status \in {"PENDING_APPROVAL", "RECOMMENDED"}
      BY NewActionType DEF NewAction
    <3>3. r.rec \in ReviewedRecommendations => r.required
      BY ReviewedNeedApproval DEF NewAction
    <3> HIDE DEF r
    <3> QED BY <1>b, <2>1, <2>2, <2>3, <3>1, <3>2, <3>3 DEF ActionStatuses
  <2>4. CASE action[a].status # "NONE"
    <3>1. action' = action
      BY <1>0, <1>6, <2>1, <2>4 DEF CommitCreate, TypeOK
    <3>2. LoadedStillValid(s)'
      BY <1>0, <2>2 DEF LoadedStillValid, Idle, TypeOK
    <3> QED BY <1>a, <2>2, <3>1, <3>2
  <2> QED BY <2>3, <2>4
<1>7. ASSUME NEW s \in Sessions, CommitDecision(s)
      PROVE  ApprovalOnRecord' /\ \A t \in Sessions : LoadedStillValid(t)'
  <2> DEFINE a == session[s].on
             d == session[s].decision
             r == Decided(action[a], d)
  <2>1. a \in Actions /\ d \in Decisions
    BY <1>0, <1>7 DEF CommitDecision, TypeOK, Requests, Idle, Steps
  <2>2. session' = [session EXCEPT ![s] = Idle]
    BY <1>7 DEF CommitDecision
  <2>3. CASE Permitted(d, session[s].row.status) /\ Exists(a)
    <3>1. action' = [action EXCEPT ![a] = r] /\ approved \subseteq approved'
      BY <1>7, <2>3 DEF CommitDecision
    <3>2. action[a] \in Rows
      BY <1>0, <2>1 DEF TypeOK
    <3>3. /\ r \in Rows
          /\ r.status \in {"APPROVED", "REJECTED", "HELD", "CANCELLED"}
          /\ r.required = action[a].required /\ r.rec = action[a].rec
          /\ r.status = "APPROVED" => d = "APPROVE"
      BY <2>1, <3>2 DEF Decided, Decisions, Rows, ActionStatuses, ApprovalStatuses
    <3>4. d = "APPROVE" => a \in approved'
      BY <1>7, <2>3 DEF CommitDecision
    <3>5. r.rec \in ReviewedRecommendations => r.required
      BY <1>0, <2>1, <2>3, <3>3 DEF ApprovalOnRecord
    <3> HIDE DEF r
    <3> QED BY <1>b, <2>1, <2>2, <2>3, <3>1, <3>3, <3>4, <3>5 DEF ActionStatuses
  <2>4. CASE ~(Permitted(d, session[s].row.status) /\ Exists(a))
    <3>1. action' = action /\ approved' = approved
      BY <1>0, <1>7, <2>1, <2>4 DEF CommitDecision, TypeOK
    <3>2. LoadedStillValid(s)'
      BY <1>0, <2>2 DEF LoadedStillValid, Idle, TypeOK
    <3> QED BY <1>a, <2>2, <3>1, <3>2
  <2> QED BY <2>3, <2>4
<1>8. ASSUME NEW s \in Sessions, CommitExecution(s)
      PROVE  ApprovalOnRecord' /\ \A t \in Sessions : LoadedStillValid(t)'
  <2> DEFINE a == session[s].on
             go == MayExecute(session[s].row, session[s].view) /\ Exists(a)
             r == [action[a] EXCEPT !.status = "EXECUTED", !.executedOn = wall]
  <2>1. a \in Actions /\ wall \in Nat
    BY <1>0, <1>8, WorkflowConstants DEF CommitExecution, TypeOK, Requests, Idle
  <2>2. session' = [session EXCEPT ![s] = Idle] /\ approved' = approved
    BY <1>8 DEF CommitExecution
  <2>3. CASE go
    <3>1. action' = [action EXCEPT ![a] = r]
      BY <1>8, <2>3 DEF CommitExecution
    <3>2. action[a] \in Rows
      BY <1>0, <2>1 DEF TypeOK
    <3>3. /\ r \in Rows
          /\ r.status = "EXECUTED"
          /\ r.required = action[a].required /\ r.rec = action[a].rec
      BY <2>1, <3>2 DEF Rows, ActionStatuses
    <3>4. LoadedStillValid(s) /\ session[s].step = "EXECUTING"
      BY <1>8 DEF CommitExecution, ApprovalInv
    <3>5. r.required => a \in approved
      BY <2>3, <3>3, <3>4 DEF MayExecute, LoadedStillValid
    <3>6. r.rec \in ReviewedRecommendations => r.required
      BY <1>0, <2>1, <2>3, <3>3 DEF ApprovalOnRecord
    <3> HIDE DEF r
    <3> QED BY <1>b, <2>1, <2>2, <2>3, <3>1, <3>3, <3>5, <3>6 DEF ActionStatuses
  <2>4. CASE ~go
    <3>1. action' = action
      BY <1>0, <1>8, <2>1, <2>4 DEF CommitExecution, TypeOK
    <3>2. LoadedStillValid(s)'
      BY <1>0, <2>2 DEF LoadedStillValid, Idle, TypeOK
    <3> QED BY <1>a, <2>2, <3>1, <3>2
  <2> QED BY <2>3, <2>4
<1>9. CASE FactsChange \/ NextSimulationDay \/ NextWallDay \/ UNCHANGED vars
  <2>1. UNCHANGED <<action, session, approved>>
    BY <1>9 DEF FactsChange, NextSimulationDay, NextWallDay, vars
  <2> QED BY <2>1 DEF ApprovalInv, ApprovalOnRecord, LoadedStillValid, Exists
<1>10. CASE ResetSimulation
  <2>1. \A a \in Actions : action'[a].status \notin ActionStatuses
    BY <1>10 DEF ResetSimulation, Exists, Unused, ActionStatuses
  <2>2. ApprovalOnRecord'
    BY <2>1 DEF ApprovalOnRecord, Exists, ActionStatuses
  <2>3. ASSUME NEW t \in Sessions PROVE LoadedStillValid(t)'
    <3>1. session'[t] = session[t] /\ LoadedStillValid(t)
      BY <1>10 DEF ResetSimulation, ApprovalInv
    <3>2. CASE session[t].step \in {"LOADED", "EXECUTING"}
      <4>1. session[t].on \in Actions
        BY <1>0, <3>2 DEF TypeOK, Requests, Idle
      <4>2. action'[session[t].on].status # "NONE"
        BY <1>10, <3>1, <3>2, <4>1
           DEF ResetSimulation, LoadedStillValid, Exists, Unused
      <4> QED BY <2>1, <3>1, <4>1, <4>2 DEF LoadedStillValid, Exists
    <3> QED BY <3>1, <3>2 DEF LoadedStillValid
  <2> QED BY <2>2, <2>3
<1> QED
  BY <1>1, <1>2, <1>3, <1>4, <1>5, <1>6, <1>7, <1>8, <1>9, <1>10
     DEF Next, Handle

(* However many requests interleave with each other and with the rest of   *)
(* the system, an executed action that a human has to approve carries a    *)
(* recorded approval, and every escalation, dispute hold and claim review  *)
(* is such an action.                                                      *)
THEOREM ApprovalBeforeExecution == Spec => []ApprovedBeforeExecuted
<1>1. Init => ApprovalInv
  BY ApprovalInit
<1>2. ApprovalInv /\ [Next]_vars => ApprovalInv'
  BY ApprovalNext
<1>3. ApprovalInv => ApprovedBeforeExecuted
  BY DEF ApprovalInv, ApprovalOnRecord, ApprovedBeforeExecuted, Exists, ActionStatuses
<1> QED BY <1>1, <1>2, <1>3, PTL DEF Spec

-----------------------------------------------------------------------------
(***************************************************************************)
(* What the workflow keeps when its requests do not get in each other's    *)
(* way, for any number of actions and any facts of the case.  Two ways of  *)
(* getting in the way are kept apart: requests that overlap each other,    *)
(* and facts that change while a request is in progress.                   *)
(***************************************************************************)

\* An operator's requests about a case follow each other; cycles, payments
\* and resets may still commit at any time.
OneAtATime == \A s, t \in Sessions : s = t

Live(a) == action[a].status \in ActiveStatuses \cup {"EXECUTED"}

-----------------------------------------------------------------------------
(* One request at a time.                                                  *)

\* The row a request read is the row in the table, unless a reset deleted it.
ReadIsCurrent(s) ==
    LET a == session[s].on IN
    session[s].step \in {"DECIDING", "LOADED", "EXECUTING"} /\ Exists(a) =>
        session[s].row = action[a]

StillNoDuplicate(s) ==
    session[s].step = "INSERTING" =>
        Duplicates(RecommendedAction(session[s].view)) = {}

Counted ==
    \A a \in Actions :
        executions[a] # 0 => executions[a] = 1 /\ action[a].status = "EXECUTED"

SerialInv ==
    /\ TypeOK
    /\ \A s \in Sessions : ReadIsCurrent(s) /\ StillNoDuplicate(s)
    /\ Counted
    /\ OneActionPerRecommendation

LEMMA SerialInit == Init => SerialInv
<1> SUFFICES ASSUME Init PROVE SerialInv
  OBVIOUS
<1>1. \A s \in Sessions : ReadIsCurrent(s) /\ StillNoDuplicate(s)
  BY DEF Init, ReadIsCurrent, StillNoDuplicate, Idle
<1>2. Counted /\ OneActionPerRecommendation
  BY DEF Init, Counted, OneActionPerRecommendation, Unused, ActiveStatuses
<1> QED BY <1>1, <1>2, TypeInit DEF SerialInv

LEMMA RequestOf ==
    ASSUME TypeOK, NEW s \in Sessions, session[s] # Idle
    PROVE  session[s] \in Requests /\ session[s].on \in Actions
  BY DEF TypeOK, Requests

\* The commit of a decision or of an execution: one row, as it was read.
LEMMA OneRowWritten ==
    ASSUME SerialInv, NEW a \in Actions, NEW r,
           action' = [action EXCEPT ![a] = r],
           r.rec = action[a].rec,
           r.status \in ActiveStatuses \cup {"EXECUTED"} => Live(a)
    PROVE  OneActionPerRecommendation'
<1>1. \A b \in Actions : action'[b] = IF b = a THEN r ELSE action[b]
  BY DEF SerialInv, TypeOK
<1>2. \A b \in Actions : Live(b)' => Live(b) /\ action'[b].rec = action[b].rec
  BY <1>1 DEF Live
<1> QED BY <1>2 DEF SerialInv, OneActionPerRecommendation, Live

LEMMA SerialNext ==
    ASSUME OneAtATime, SerialInv, [Next]_vars PROVE SerialInv'
<1>0. TypeOK /\ TypeOK' /\ Counted /\ OneActionPerRecommendation
  BY TypeNext DEF SerialInv
<1> DEFINE Held == \A t \in Sessions : ReadIsCurrent(t)' /\ StillNoDuplicate(t)'
<1> SUFFICES Held /\ Counted' /\ OneActionPerRecommendation'
  BY <1>0 DEF SerialInv
<1>a. ASSUME UNCHANGED action, UNCHANGED executions
      PROVE  Counted' /\ OneActionPerRecommendation'
  BY <1>0, <1>a DEF Counted, OneActionPerRecommendation
<1>b. ASSUME NEW s \in Sessions, session' = [session EXCEPT ![s] = Idle] PROVE Held
  <2>1. \A t \in Sessions : session'[t].step = "IDLE"
    BY <1>0, <1>b DEF OneAtATime, TypeOK, Idle
  <2> QED BY <2>1 DEF ReadIsCurrent, StillNoDuplicate
<1>c. ASSUME NEW s \in Sessions, ReadIsCurrent(s)', StillNoDuplicate(s)' PROVE Held
  BY <1>c DEF OneAtATime
<1>1. ASSUME NEW s \in Sessions, NEW a \in Actions, LoadCaseForCreate(s, a)
      PROVE  Held /\ Counted' /\ OneActionPerRecommendation'
  <2>1. session'[s].step = "CREATING"
    BY <1>0, <1>1 DEF LoadCaseForCreate, TypeOK
  <2>2. ReadIsCurrent(s)' /\ StillNoDuplicate(s)'
    BY <2>1 DEF ReadIsCurrent, StillNoDuplicate
  <2> QED BY <1>1, <1>a, <1>c, <2>2 DEF LoadCaseForCreate
<1>2. ASSUME NEW s \in Sessions, CheckDuplicate(s)
      PROVE  Held /\ Counted' /\ OneActionPerRecommendation'
  <2> DEFINE v == session[s].view
             free == FactsAllowExecution(v) /\ Duplicates(RecommendedAction(v)) = {}
  <2>1. UNCHANGED <<action, executions>>
    BY <1>2 DEF CheckDuplicate
  <2>2. CASE free
    <3>1. session[s] \in Requests
      BY <1>0, <1>2, RequestOf DEF CheckDuplicate, Idle
    <3>2. session' = [session EXCEPT ![s] = [session[s] EXCEPT !.step = "INSERTING"]]
      BY <1>2, <2>2 DEF CheckDuplicate
    <3>3. session'[s].step = "INSERTING" /\ session'[s].view = v
      BY <1>0, <3>1, <3>2 DEF TypeOK, Requests
    <3>4. Duplicates(RecommendedAction(v))' = {} /\ UNCHANGED v
      BY <2>1, <2>2, <3>3 DEF Duplicates
    <3>5. StillNoDuplicate(s)'
      BY <2>1, <2>2, <3>3 DEF StillNoDuplicate, Duplicates
    <3>6. ReadIsCurrent(s)'
      BY <3>3 DEF ReadIsCurrent
    <3> QED BY <1>a, <1>c, <2>1, <3>5, <3>6
  <2>3. CASE ~free
    BY <1>2, <1>a, <1>b, <2>1, <2>3 DEF CheckDuplicate
  <2> QED BY <2>2, <2>3
<1>3. ASSUME NEW s \in Sessions, CommitCreate(s)
      PROVE  Held /\ Counted' /\ OneActionPerRecommendation'
  <2> DEFINE a == session[s].on
             v == session[s].view
             r == NewAction(v)
  <2>1. a \in Actions
    BY <1>0, <1>3, RequestOf DEF CommitCreate, Idle
  <2>2. Held /\ executions' = executions
    BY <1>3, <1>b DEF CommitCreate
  <2>3. CASE action[a].status = "NONE"
    <3>1. action' = [action EXCEPT ![a] = r] /\ r.rec = RecommendedAction(v)
      BY <1>3, <2>3 DEF CommitCreate, NewAction
    <3>2. \A b \in Actions : action'[b] = IF b = a THEN r ELSE action[b]
      BY <1>0, <3>1 DEF TypeOK
    <3>3. Duplicates(r.rec) = {}
      BY <1>3, <3>1 DEF CommitCreate, SerialInv, StillNoDuplicate
    <3>4. \A b \in Actions : Live(b) => action[b].rec # r.rec
      BY <3>3 DEF Duplicates, Live
    <3>5. OneActionPerRecommendation'
      BY <1>0, <3>2, <3>4 DEF OneActionPerRecommendation, Live
    <3>6. Counted'
      BY <1>0, <2>2, <2>3, <3>2 DEF Counted
    <3> QED BY <2>2, <3>5, <3>6
  <2>4. CASE action[a].status # "NONE"
    <3>1. action' = action
      BY <1>0, <1>3, <2>1, <2>4 DEF CommitCreate, TypeOK
    <3> QED BY <1>a, <2>2, <3>1
  <2> QED BY <2>3, <2>4
<1>4. ASSUME NEW s \in Sessions, NEW a \in Actions,
             LoadForExecution(s, a) \/ \E d \in Decisions : LoadForDecision(s, a, d)
      PROVE  Held /\ Counted' /\ OneActionPerRecommendation'
  <2>1. /\ session'[s].step \in {"LOADED", "DECIDING"}
        /\ session'[s].on = a /\ session'[s].row = action[a]
        /\ action' = action /\ executions' = executions
    BY <1>0, <1>4 DEF LoadForExecution, LoadForDecision, TypeOK
  <2>2. ReadIsCurrent(s)' /\ StillNoDuplicate(s)'
    BY <2>1 DEF ReadIsCurrent, StillNoDuplicate
  <2> QED BY <1>a, <1>c, <2>1, <2>2
<1>5. ASSUME NEW s \in Sessions, LoadCaseForExecution(s)
      PROVE  Held /\ Counted' /\ OneActionPerRecommendation'
  <2>1. session[s] \in Requests
    BY <1>0, <1>5, RequestOf DEF LoadCaseForExecution, Idle
  <2>2. /\ session'[s].on = session[s].on /\ session'[s].row = session[s].row
        /\ session'[s].step = "EXECUTING"
        /\ action' = action /\ executions' = executions
    BY <1>0, <1>5, <2>1 DEF LoadCaseForExecution, TypeOK, Requests
  <2>3. ReadIsCurrent(s)' /\ StillNoDuplicate(s)'
    BY <1>5, <2>2 DEF LoadCaseForExecution, SerialInv, ReadIsCurrent, StillNoDuplicate, Exists
  <2> QED BY <1>a, <1>c, <2>2, <2>3
<1>6. ASSUME NEW s \in Sessions, CommitDecision(s)
      PROVE  Held /\ Counted' /\ OneActionPerRecommendation'
  <2> DEFINE a == session[s].on
             d == session[s].decision
             commits == Permitted(d, session[s].row.status) /\ Exists(a)
             r == Decided(action[a], d)
  <2>1. a \in Actions /\ d \in Decisions
    BY <1>0, <1>6, RequestOf DEF CommitDecision, Requests, Idle, Steps
  <2>2. Held /\ executions' = executions
    BY <1>6, <1>b DEF CommitDecision
  <2>3. CASE commits
    <3>1. action' = [action EXCEPT ![a] = r] /\ action[a] \in Rows
      BY <1>0, <1>6, <2>1, <2>3 DEF CommitDecision, TypeOK
    <3>2. session[s].row = action[a]
      BY <1>6, <2>3 DEF CommitDecision, SerialInv, ReadIsCurrent
    <3>3. /\ r.rec = action[a].rec
          /\ r.status \in {"APPROVED", "REJECTED", "HELD", "CANCELLED"}
          /\ r.status = "APPROVED" => d = "APPROVE"
          /\ r.status = "HELD" => d = "HOLD"
      BY <2>1, <3>1 DEF Decided, Decisions, Rows
    <3> HIDE DEF r
    <3>4. r.status \in ActiveStatuses \cup {"EXECUTED"} => Live(a)
      <4>1. r.status \in ActiveStatuses \cup {"EXECUTED"} => d \in {"APPROVE", "HOLD"}
        BY <3>3 DEF ActiveStatuses
      <4>2. d \in {"APPROVE", "HOLD"} => action[a].status \in ActiveStatuses
        BY <2>3, <3>2 DEF Permitted, Undecided, ActiveStatuses
      <4> QED BY <4>1, <4>2 DEF Live
    <3>5. OneActionPerRecommendation'
      BY <2>1, <3>1, <3>3, <3>4, OneRowWritten
    <3>6. action[a].status # "EXECUTED"
      BY <2>1, <2>3, <3>2 DEF Permitted, Undecided, Decisions
    <3>7. Counted'
      BY <1>0, <2>2, <3>1, <3>6 DEF Counted, TypeOK
    <3> QED BY <2>2, <3>5, <3>7
  <2>4. CASE ~commits
    <3>1. action' = action
      BY <1>0, <1>6, <2>1, <2>4 DEF CommitDecision, TypeOK
    <3> QED BY <1>a, <2>2, <3>1
  <2> QED BY <2>3, <2>4
<1>7. ASSUME NEW s \in Sessions, CommitExecution(s)
      PROVE  Held /\ Counted' /\ OneActionPerRecommendation'
  <2> DEFINE a == session[s].on
             commits == MayExecute(session[s].row, session[s].view) /\ Exists(a)
             r == [action[a] EXCEPT !.status = "EXECUTED", !.executedOn = wall]
  <2>1. a \in Actions
    BY <1>0, <1>7, RequestOf DEF CommitExecution, Idle
  <2>2. Held
    BY <1>7, <1>b DEF CommitExecution
  <2>3. CASE commits
    <3>1. /\ action' = [action EXCEPT ![a] = r] /\ action[a] \in Rows
          /\ executions' = [executions EXCEPT ![a] = executions[a] + 1]
      BY <1>0, <1>7, <2>1, <2>3 DEF CommitExecution, TypeOK
    <3>2. session[s].row = action[a]
      BY <1>7, <2>3 DEF CommitExecution, SerialInv, ReadIsCurrent
    <3>3. action[a].status \in {"APPROVED", "RECOMMENDED"}
      BY <2>3, <3>2 DEF MayExecute
    <3>4. r.rec = action[a].rec /\ r.status = "EXECUTED" /\ Live(a)
      BY <3>1, <3>3 DEF Rows, Live, ActiveStatuses
    <3>5. OneActionPerRecommendation'
      BY <2>1, <3>1, <3>4, OneRowWritten
    <3>6. executions[a] = 0
      BY <1>0, <2>1, <3>3 DEF Counted
    <3>7. Counted'
      BY <1>0, <2>1, <3>1, <3>4, <3>6 DEF Counted, TypeOK
    <3> QED BY <2>2, <3>5, <3>7
  <2>4. CASE ~commits
    <3>1. action' = action /\ executions' = executions
      BY <1>0, <1>7, <2>1, <2>4 DEF CommitExecution, TypeOK
    <3> QED BY <1>a, <2>2, <3>1
  <2> QED BY <2>3, <2>4
<1>8. CASE FactsChange \/ NextSimulationDay \/ NextWallDay \/ UNCHANGED vars
  <2>1. UNCHANGED <<action, session, executions>>
    BY <1>8 DEF FactsChange, NextSimulationDay, NextWallDay, vars
  <2>2. Held
    BY <2>1 DEF SerialInv, ReadIsCurrent, StillNoDuplicate, Duplicates, Exists
  <2> QED BY <1>a, <2>1, <2>2
<1>9. CASE ResetSimulation
  <2>1. \A a \in Actions : action'[a].status \notin ActionStatuses
    BY <1>9 DEF ResetSimulation, Exists, Unused, ActionStatuses
  <2>2. session' = session /\ \A a \in Actions : executions'[a] = 0
    BY <1>9 DEF ResetSimulation
  <2>3. Held
    <3> SUFFICES ASSUME NEW t \in Sessions PROVE ReadIsCurrent(t)' /\ StillNoDuplicate(t)'
      OBVIOUS
    <3>1. StillNoDuplicate(t)'
      BY <2>1 DEF StillNoDuplicate, Duplicates, ActiveStatuses, ActionStatuses
    <3>2. CASE session[t] = Idle
      BY <2>2, <3>1, <3>2 DEF ReadIsCurrent, Idle
    <3>3. CASE session[t] # Idle
      BY <1>0, <2>1, <2>2, <3>1, <3>3, RequestOf DEF ReadIsCurrent, Exists
    <3> QED BY <3>2, <3>3
  <2>4. Counted' /\ OneActionPerRecommendation'
    BY <2>1, <2>2 DEF Counted, OneActionPerRecommendation, ActiveStatuses, ActionStatuses
  <2> QED BY <2>3, <2>4
<1> QED
  BY <1>1, <1>2, <1>3, <1>4, <1>5, <1>6, <1>7, <1>8, <1>9 DEF Next, Handle

LEMMA SerialInvariance == ASSUME OneAtATime PROVE Spec => []SerialInv
<1>1. SerialInv /\ [Next]_vars => SerialInv'
  BY SerialNext
<1> QED BY SerialInit, <1>1, PTL DEF Spec

(* While an operator's requests follow each other, an action is executed   *)
(* once, although facts change and resets happen in the middle of them.    *)
THEOREM SerialExecutesOnce == ASSUME OneAtATime PROVE Spec => []ExecutedOnce
<1>1. SerialInv => ExecutedOnce
  BY DEF SerialInv, Counted, ExecutedOnce
<1> QED BY SerialInvariance, <1>1, PTL

(* While requests follow each other, a recommendation never has two        *)
(* actions that are active or executed.                                    *)
THEOREM SerialOneAction == ASSUME OneAtATime PROVE Spec => []OneActionPerRecommendation
<1>1. SerialInv => OneActionPerRecommendation
  BY DEF SerialInv
<1> QED BY SerialInvariance, <1>1, PTL

\* What a request does to a stopped action, when its read is current.
LEMMA StoppedStays ==
    ASSUME SerialInv, [Next]_vars, NEW a \in Actions,
           action[a].status \in {"REJECTED", "HELD", "CANCELLED"}
    PROVE  action'[a].status # "EXECUTED"
<1>0. TypeOK
  BY DEF SerialInv
<1>1. ASSUME NEW s \in Sessions, CommitExecution(s) PROVE action'[a].status # "EXECUTED"
  <2>1. session[s].on \in Actions
    BY <1>0, <1>1, RequestOf DEF CommitExecution, Idle
  <2>2. CASE session[s].on = a
    <3>1. Exists(a) => session[s].row = action[a]
      BY <1>1, <2>2 DEF CommitExecution, SerialInv, ReadIsCurrent
    <3>2. ~(MayExecute(session[s].row, session[s].view) /\ Exists(a))
      BY <3>1 DEF MayExecute
    <3> QED BY <1>0, <1>1, <2>2, <3>2 DEF CommitExecution, TypeOK
  <2>3. CASE session[s].on # a
    BY <1>0, <1>1, <2>1, <2>3 DEF CommitExecution, TypeOK
  <2> QED BY <2>2, <2>3
<1>2. ASSUME NEW s \in Sessions, CommitDecision(s) PROVE action'[a].status # "EXECUTED"
  <2>1. session[s] \in Requests /\ session[s].on \in Actions
    BY <1>0, <1>2, RequestOf DEF CommitDecision, Idle
  <2>2. session[s].decision \in Decisions
    BY <1>2, <2>1 DEF CommitDecision, Requests, Steps
  <2>3. Decided(action[a], session[s].decision).status # "EXECUTED"
    BY <1>0, <2>2 DEF Decided, Decisions, TypeOK, Rows
  <2> QED BY <1>0, <1>2, <2>1, <2>3 DEF CommitDecision, TypeOK
<1>3. ASSUME NEW s \in Sessions, CommitCreate(s) PROVE action'[a].status # "EXECUTED"
  <2>1. action'[a] = action[a]
    BY <1>0, <1>3 DEF CommitCreate, TypeOK
  <2> QED BY <2>1
<1>4. CASE ResetSimulation
  BY <1>4 DEF ResetSimulation, Unused
<1>5. ASSUME \/ \E s \in Sessions :
                  \/ \E b \in Actions : \/ LoadCaseForCreate(s, b) \/ LoadForExecution(s, b)
                                        \/ \E d \in Decisions : LoadForDecision(s, b, d)
                  \/ CheckDuplicate(s) \/ LoadCaseForExecution(s)
             \/ FactsChange \/ NextSimulationDay \/ NextWallDay \/ UNCHANGED vars
      PROVE  action'[a].status # "EXECUTED"
  <2>1. action' = action
    BY <1>5 DEF LoadCaseForCreate, LoadForExecution, LoadForDecision, CheckDuplicate,
                LoadCaseForExecution, FactsChange, NextSimulationDay, NextWallDay, vars
  <2> QED BY <2>1
<1> QED BY <1>1, <1>2, <1>3, <1>4, <1>5 DEF Next, Handle

(* While requests follow each other, an action that was rejected, held or  *)
(* cancelled is not executed.  RejectRace is the run in which they do not. *)
THEOREM SerialStopHolds == ASSUME OneAtATime PROVE Spec => StoppedNeverExecutes
<1>1. SerialInv /\ [Next]_vars =>
        [\A a \in Actions :
            action[a].status \in {"REJECTED", "HELD", "CANCELLED"} =>
                action'[a].status # "EXECUTED"]_vars
  BY StoppedStays
<1> QED BY SerialInvariance, <1>1, PTL DEF Spec, StoppedNeverExecutes

-----------------------------------------------------------------------------
(* Facts that wait for the requests in progress, which may overlap.        *)

\* The policy reads the recent actions of a case for nothing but its own
\* blockers; what it advises, and whether it wants an approval, is the same.
SameFacts(v, w) == \E n \in Nat : v = [w EXCEPT !.recent = n]

LEMMA SameAdvice ==
    ASSUME NEW v, NEW w \in CaseViews, SameFacts(v, w)
    PROVE  /\ RecommendedAction(v) = RecommendedAction(w)
           /\ Settled(v) <=> Settled(w)
           /\ DesiredCaseState(v) = DesiredCaseState(w)
           /\ CommunicationPermitted(v) <=> CommunicationPermitted(w)
           /\ v.disputed = w.disputed
<1>1. /\ v.invoice = w.invoice /\ v.daysOverdue = w.daysOverdue
      /\ v.exposure = w.exposure /\ v.disputed = w.disputed
      /\ v.promises = w.promises /\ v.state = w.state /\ v.priority = w.priority
      /\ v.consent = w.consent /\ v.channel = w.channel
      /\ v.claim = w.claim /\ v.delay = w.delay
  BY DEF SameFacts, CaseViews
<1>2. DesiredCaseState(v) = DesiredCaseState(w)
  BY <1>1 DEF DesiredCaseState
<1>3. Settled(v) <=> Settled(w)
  BY <1>1, <1>2 DEF Settled
<1>4. Severe(v) <=> Severe(w)
  BY <1>1 DEF Severe, CriticalEscalation
<1>5. RecommendedAction(v) = RecommendedAction(w)
  BY <1>1, <1>3, <1>4 DEF RecommendedAction
<1>6. CommunicationBlockers(v) = CommunicationBlockers(w)
  BY <1>1 DEF CommunicationBlockers
<1> QED BY <1>1, <1>2, <1>3, <1>5, <1>6 DEF CommunicationPermitted

\* A request in progress holds the facts of the case, and an existing row
\* the recommendation and the need of approval it was made with.
FactsHeld(s) == session[s] # Idle => SameFacts(session[s].view, case)

RowHeld(s) ==
    LET a == session[s].on IN
    session[s].step \in {"LOADED", "EXECUTING"} /\ Exists(a) =>
        session[s].row.rec = action[a].rec

StrategicApproval ==
    \A a \in Actions :
        /\ Exists(a) /\ action[a].rec = "MONITOR_ACTIVE_PROMISE"
        /\ case.strategic
        => action[a].required

StillInv ==
    /\ ApprovalInv
    /\ \A s \in Sessions : FactsHeld(s) /\ RowHeld(s)
    /\ StrategicApproval

LEMMA StillInit == Init => StillInv
<1> SUFFICES ASSUME Init PROVE StillInv
  OBVIOUS
<1>1. \A s \in Sessions : FactsHeld(s) /\ RowHeld(s)
  BY DEF Init, FactsHeld, RowHeld, Idle
<1>2. StrategicApproval
  BY DEF Init, StrategicApproval, Exists, Unused, ActionStatuses
<1> QED BY <1>1, <1>2, ApprovalInit DEF StillInv

LEMMA CurrentFacts == ASSUME TypeOK PROVE SameFacts(CurrentView, case) /\ SameFacts(case, case)
<1>1. case \in CaseViews /\ case.recent \in Nat
  BY WorkflowConstants DEF TypeOK, CaseViews
<1>2. Cardinality(RecentActions) \in Nat
  <2>1. IsFiniteSet(RecentActions)
    BY WorkflowConstants, FS_Subset DEF RecentActions
  <2> QED BY <2>1, FS_CardinalityType
<1>3. case = [case EXCEPT !.recent = case.recent]
  BY <1>1 DEF CaseViews
<1> QED BY <1>1, <1>2, <1>3 DEF SameFacts, CurrentView

LEMMA StillNext ==
    ASSUME ~Interleaved, StillInv, [Next]_vars PROVE StillInv'
<1>0. TypeOK /\ ApprovalInv' /\ case \in CaseViews
  BY ApprovalNext, WorkflowConstants DEF StillInv, ApprovalInv, TypeOK
<1> DEFINE Held == \A t \in Sessions : FactsHeld(t)' /\ RowHeld(t)'
<1> SUFFICES Held /\ StrategicApproval'
  BY <1>0 DEF StillInv
\* A step of session s that leaves the facts and the rows' advice alone.
<1>a. ASSUME NEW s \in Sessions, case' = case, \E x : session' = [session EXCEPT ![s] = x],
             FactsHeld(s)', RowHeld(s)',
             \A a \in Actions : Exists(a) =>
                 action'[a].rec = action[a].rec /\ action'[a].required = action[a].required,
             \A a \in Actions : Exists(a)' =>
                 \/ Exists(a)
                 \/ /\ action[a].status = "NONE"
                    /\ action'[a].rec = "MONITOR_ACTIVE_PROMISE" /\ case.strategic
                          => action'[a].required
      PROVE  Held /\ StrategicApproval'
  <2>1. StrategicApproval'
    BY <1>a DEF StillInv, StrategicApproval
  <2>2. ASSUME NEW t \in Sessions, t # s PROVE FactsHeld(t)' /\ RowHeld(t)'
    <3>1. session'[t] = session[t] /\ FactsHeld(t) /\ RowHeld(t) /\ LoadedStillValid(t)
      BY <1>0, <1>a, <2>2 DEF TypeOK, StillInv, ApprovalInv
    <3>2. FactsHeld(t)'
      BY <1>a, <3>1 DEF FactsHeld
    <3>3. RowHeld(t)'
      <4> DEFINE a == session[t].on
      <4> SUFFICES ASSUME session[t].step \in {"LOADED", "EXECUTING"}, Exists(a)'
                   PROVE  session[t].row.rec = action'[a].rec
        BY <3>1 DEF RowHeld, Exists
      <4>1. a \in Actions
        BY <1>0, RequestOf DEF Idle
      <4>2. Exists(a)
        BY <1>a, <3>1, <4>1 DEF LoadedStillValid
      <4> QED BY <1>a, <3>1, <4>1, <4>2 DEF RowHeld
    <3> QED BY <3>2, <3>3
  <2> QED BY <1>a, <2>1, <2>2
\* The same, for a step that only takes session s on to request r.
<1>b. ASSUME NEW s \in Sessions, UNCHANGED <<action, case>>, NEW r, session' = [session EXCEPT ![s] = r],
             r # Idle => SameFacts(r.view, case),
             r.step \in {"LOADED", "EXECUTING"} => r.row.rec = action[r.on].rec
      PROVE  Held /\ StrategicApproval'
  <2>1. session'[s] = r
    BY <1>0, <1>b DEF TypeOK
  <2>2. FactsHeld(s)' /\ RowHeld(s)'
    BY <1>b, <2>1 DEF FactsHeld, RowHeld
  <2> QED BY <1>a, <1>b, <2>2 DEF Exists
\* A commit ends its request.
<1>c. ASSUME NEW s \in Sessions, session' = [session EXCEPT ![s] = Idle]
      PROVE  FactsHeld(s)' /\ RowHeld(s)'
  <2>1. session'[s] = Idle
    BY <1>0, <1>c DEF TypeOK
  <2> QED BY <2>1 DEF FactsHeld, RowHeld, Idle
<1>1. ASSUME NEW s \in Sessions, NEW a \in Actions, LoadCaseForCreate(s, a)
      PROVE  Held /\ StrategicApproval'
  <2> DEFINE r == [step |-> "CREATING", on |-> a, row |-> Unused,
                   view |-> CurrentView, decision |-> "NONE"]
  <2>1. /\ UNCHANGED <<action, case>> /\ session' = [session EXCEPT ![s] = r]
        /\ r.view = CurrentView /\ r.step = "CREATING"
    BY <1>1 DEF LoadCaseForCreate
  <2> HIDE DEF r
  <2> QED BY <1>0, <1>b, <2>1, CurrentFacts
<1>2. ASSUME NEW s \in Sessions, NEW a \in Actions,
             LoadForExecution(s, a) \/ \E d \in Decisions : LoadForDecision(s, a, d)
      PROVE  Held /\ StrategicApproval'
  <2> DEFINE r(step, d) == [step |-> step, on |-> a, row |-> action[a],
                            view |-> case, decision |-> d]
  <2>1. \A step, d : r(step, d).view = case /\ r(step, d).row = action[a] /\ r(step, d).on = a
    OBVIOUS
  <2>2. UNCHANGED <<action, case>> /\ \E step, d : session' = [session EXCEPT ![s] = r(step, d)]
    BY <1>2 DEF LoadForExecution, LoadForDecision
  <2> HIDE DEF r
  <2>3. PICK step, d : session' = [session EXCEPT ![s] = r(step, d)]
    BY <2>2
  <2>4. FactsHeld(s)' /\ RowHeld(s)'
    <3>1. session'[s] = r(step, d)
      BY <1>0, <2>3 DEF TypeOK
    <3> QED BY <1>0, <2>1, <2>2, <3>1, CurrentFacts DEF FactsHeld, RowHeld
  <2> QED BY <1>a, <2>2, <2>3, <2>4 DEF Exists
<1>3. ASSUME NEW s \in Sessions, CheckDuplicate(s) PROVE Held /\ StrategicApproval'
  <2>1. session[s] \in Requests /\ session[s] # Idle
    BY <1>0, <1>3, RequestOf DEF CheckDuplicate, Idle
  <2> DEFINE r == [session[s] EXCEPT !.step = "INSERTING"]
  <2>2. UNCHANGED <<action, case>>
        /\ (session' = [session EXCEPT ![s] = r] \/ session' = [session EXCEPT ![s] = Idle])
    BY <1>3 DEF CheckDuplicate
  <2>3. SameFacts(r.view, case) /\ r.step = "INSERTING"
    BY <2>1 DEF Requests, StillInv, FactsHeld
  <2>4. Idle.step = "IDLE"
    BY DEF Idle
  <2> HIDE DEF r
  <2> QED BY <1>b, <2>2, <2>3, <2>4
<1>4. ASSUME NEW s \in Sessions, LoadCaseForExecution(s) PROVE Held /\ StrategicApproval'
  <2>1. session[s] \in Requests /\ session[s] # Idle /\ session[s].on \in Actions
    BY <1>0, <1>4, RequestOf DEF LoadCaseForExecution, Idle
  <2> DEFINE old == session[s].view
             v == [CurrentView EXCEPT !.state = old.state, !.priority = old.priority]
  <2>2. /\ UNCHANGED <<action, case>> /\ session[s].step = "LOADED"
        /\ \E r : /\ session' = [session EXCEPT ![s] = r] /\ r.step = "EXECUTING"
                  /\ r.view = v /\ r.row = session[s].row /\ r.on = session[s].on
    <3> DEFINE r == [session[s] EXCEPT !.step = "EXECUTING", !.view = v]
    <3>1. session' = [session EXCEPT ![s] = r]
      BY <1>4, <2>1 DEF LoadCaseForExecution, Requests
    <3>2. r.step = "EXECUTING" /\ r.view = v /\ r.row = session[s].row /\ r.on = session[s].on
      BY <2>1 DEF Requests
    <3> HIDE DEF v, r
    <3> QED BY <1>4, <3>1, <3>2 DEF LoadCaseForExecution
  <2>3. SameFacts(v, case)
    <3>1. old.state = case.state /\ old.priority = case.priority
      BY <1>0, <2>1 DEF StillInv, FactsHeld, SameFacts, CaseViews
    <3>2. v = CurrentView
      BY <1>0, <3>1 DEF CurrentView, CaseViews
    <3> QED BY <1>0, <3>2, CurrentFacts
  <2>4. Exists(session[s].on) => session[s].row.rec = action[session[s].on].rec
    BY <2>2 DEF StillInv, RowHeld
  <2> HIDE DEF v
  <2>5. FactsHeld(s)' /\ RowHeld(s)' /\ UNCHANGED <<action, case>>
    <3>1. PICK r : /\ session' = [session EXCEPT ![s] = r] /\ r.step = "EXECUTING"
                   /\ r.view = v /\ r.row = session[s].row /\ r.on = session[s].on
      BY <2>2
    <3>2. session'[s] = r
      BY <1>0, <3>1 DEF TypeOK
    <3> QED BY <2>2, <2>3, <2>4, <3>1, <3>2 DEF FactsHeld, RowHeld, Exists
  <2> QED BY <1>a, <2>2, <2>5 DEF Exists
<1>5. ASSUME NEW s \in Sessions, CommitCreate(s) PROVE Held /\ StrategicApproval'
  <2> DEFINE a == session[s].on
             v == session[s].view
             r == NewAction(v)
  <2>1. a \in Actions /\ session[s] # Idle
    BY <1>0, <1>5, RequestOf DEF CommitCreate, Idle
  <2>2. FactsHeld(s)' /\ RowHeld(s)' /\ session' = [session EXCEPT ![s] = Idle] /\ case' = case
    BY <1>5, <1>c DEF CommitCreate
  <2>3. CASE action[a].status = "NONE"
    <3>1. action' = [action EXCEPT ![a] = r]
      BY <1>5, <2>3 DEF CommitCreate
    <3>2. \A b \in Actions : action'[b] = IF b = a THEN r ELSE action[b]
      BY <1>0, <3>1 DEF TypeOK
    <3>3. v.strategic = case.strategic
      BY <1>0, <2>1 DEF StillInv, FactsHeld, SameFacts, CaseViews
    <3>4. r.rec = "MONITOR_ACTIVE_PROMISE" /\ case.strategic => r.required
      BY <3>3 DEF NewAction, ApprovalRequired
    <3> HIDE DEF r
    <3>5. \A b \in Actions : Exists(b) =>
              action'[b].rec = action[b].rec /\ action'[b].required = action[b].required
      BY <2>3, <3>2 DEF Exists, ActionStatuses
    <3>6. \A b \in Actions : Exists(b)' =>
              \/ Exists(b)
              \/ /\ action[b].status = "NONE"
                 /\ action'[b].rec = "MONITOR_ACTIVE_PROMISE" /\ case.strategic
                       => action'[b].required
      BY <2>3, <3>2, <3>4 DEF Exists
    <3> QED BY <1>a, <2>2, <3>5, <3>6
  <2>4. CASE action[a].status # "NONE"
    <3>1. action' = action
      BY <1>0, <1>5, <2>1, <2>4 DEF CommitCreate, TypeOK
    <3> QED BY <1>a, <2>2, <3>1 DEF Exists
  <2> QED BY <2>3, <2>4
<1>6. ASSUME NEW s \in Sessions, CommitDecision(s) \/ CommitExecution(s)
      PROVE  Held /\ StrategicApproval'
  <2> DEFINE a == session[s].on
  <2>1. session[s] \in Requests /\ a \in Actions
    BY <1>0, <1>6, RequestOf DEF CommitDecision, CommitExecution, Idle
  <2>2. FactsHeld(s)' /\ RowHeld(s)' /\ session' = [session EXCEPT ![s] = Idle] /\ case' = case
    BY <1>6, <1>c DEF CommitDecision, CommitExecution
  <2>3. \/ action' = action
        \/ /\ Exists(a)
           /\ \E r : /\ action' = [action EXCEPT ![a] = r]
                     /\ r.rec = action[a].rec /\ r.required = action[a].required
    <3>1. action[a] \in Rows
      BY <1>0, <2>1 DEF TypeOK
    <3>2. CASE CommitExecution(s)
      <4> DEFINE r == [action[a] EXCEPT !.status = "EXECUTED", !.executedOn = wall]
      <4>1. r.rec = action[a].rec /\ r.required = action[a].required
        BY <3>1 DEF Rows
      <4>2. action' = action \/ (action' = [action EXCEPT ![a] = r] /\ Exists(a))
        BY <1>0, <2>1, <3>2 DEF CommitExecution, TypeOK
      <4> HIDE DEF r
      <4> QED BY <4>1, <4>2
    <3>3. CASE CommitDecision(s)
      <4> DEFINE r == Decided(action[a], session[s].decision)
      <4>1. session[s].decision \in Decisions
        BY <2>1, <3>3 DEF CommitDecision, Requests, Steps
      <4>2. r.rec = action[a].rec /\ r.required = action[a].required
        BY <3>1, <4>1 DEF Rows, Decided, Decisions
      <4>3. action' = action \/ (action' = [action EXCEPT ![a] = r] /\ Exists(a))
        BY <1>0, <2>1, <3>3 DEF CommitDecision, TypeOK
      <4> HIDE DEF r
      <4> QED BY <4>2, <4>3
    <3> QED BY <1>6, <3>2, <3>3
  <2>4. CASE action' = action
    BY <1>a, <2>2, <2>4 DEF Exists
  <2>5. CASE /\ Exists(a)
             /\ \E r : /\ action' = [action EXCEPT ![a] = r]
                       /\ r.rec = action[a].rec /\ r.required = action[a].required
    <3>1. PICK r : /\ action' = [action EXCEPT ![a] = r]
                   /\ r.rec = action[a].rec /\ r.required = action[a].required
      BY <2>5
    <3>2. \A b \in Actions : action'[b] = IF b = a THEN r ELSE action[b]
      BY <1>0, <3>1 DEF TypeOK
    <3>3. \A b \in Actions : action'[b].rec = action[b].rec /\ action'[b].required = action[b].required
      BY <3>1, <3>2
    <3>4. \A b \in Actions : Exists(b)' => Exists(b)
      BY <2>5, <3>2 DEF Exists
    <3> QED BY <1>a, <2>2, <3>3, <3>4
  <2> QED BY <2>3, <2>4, <2>5
<1>7. CASE NextWallDay \/ UNCHANGED vars
  <2>1. UNCHANGED <<action, case, session>>
    BY <1>7 DEF NextWallDay, vars
  <2> QED BY <2>1 DEF StillInv, FactsHeld, RowHeld, StrategicApproval, Exists
<1>8. CASE FactsChange \/ NextSimulationDay \/ ResetSimulation
  <2>1. session' = session /\ \A t \in Sessions : session[t] = Idle
    BY <1>8 DEF FactsChange, NextSimulationDay, ResetSimulation, Undisturbed
  <2>2. Held
    BY <2>1 DEF FactsHeld, RowHeld, Idle
  <2>3. case' \in Views /\ case'.strategic = case.strategic
    BY <1>0, <1>8, WorkflowConstants DEF FactsChange, NextSimulationDay, ResetSimulation, TypeOK
  <2>4. CASE ResetSimulation
    <3>1. \A a \in Actions : ~Exists(a)'
      BY <2>4 DEF ResetSimulation, Exists, Unused, ActionStatuses
    <3> QED BY <2>2, <3>1 DEF StrategicApproval
  <2>5. CASE FactsChange \/ NextSimulationDay
    <3>1. action' = action
      BY <2>5 DEF FactsChange, NextSimulationDay
    <3> QED BY <2>2, <2>3, <3>1 DEF StillInv, StrategicApproval, Exists
  <2> QED BY <1>8, <2>4, <2>5
<1> QED
  BY <1>1, <1>2, <1>3, <1>4, <1>5, <1>6, <1>7, <1>8 DEF Next, Handle

\* What an execution that commits saw is what the facts say now.
LEMMA ExecutionIsCurrent ==
    ASSUME StillInv, [Next]_vars, NEW a \in Actions, executions'[a] > executions[a]
    PROVE  /\ action[a].rec = RecommendedAction(case)
           /\ ~Settled(case)
           /\ action[a].rec \in OutreachActions =>
                 ~case.disputed /\ CommunicationPermitted(case)
           /\ ApprovalRequired(case) => a \in approved
<1>0. TypeOK /\ case \in CaseViews
  BY WorkflowConstants DEF StillInv, ApprovalInv, TypeOK
<1>1. PICK s \in Sessions :
         /\ CommitExecution(s) /\ session[s].on = a /\ Exists(a)
         /\ MayExecute(session[s].row, session[s].view)
  <2>1. ASSUME NEW s \in Sessions, CommitExecution(s)
        PROVE  session[s].on = a /\ Exists(a) /\ MayExecute(session[s].row, session[s].view)
    BY <1>0, <2>1 DEF CommitExecution, TypeOK
  <2>2. ASSUME \A s \in Sessions : ~CommitExecution(s) PROVE FALSE
    <3>1. executions' = executions \/ ResetSimulation
      BY <2>2 DEF Next, Handle, LoadCaseForCreate, LoadForExecution, LoadForDecision,
                  CheckDuplicate, CommitCreate, CommitDecision, LoadCaseForExecution,
                  FactsChange, NextSimulationDay, NextWallDay, vars
    <3>2. executions[a] \in Nat
      BY <1>0 DEF TypeOK
    <3> QED BY <3>1, <3>2 DEF ResetSimulation
  <2> QED BY <2>1, <2>2
<1> DEFINE row == session[s].row
           v == session[s].view
<1>2. /\ session[s].step = "EXECUTING"
      /\ row.rec = action[a].rec /\ row.required = action[a].required
      /\ row.status = "APPROVED" => a \in approved
  BY <1>1 DEF CommitExecution, StillInv, RowHeld, ApprovalInv, LoadedStillValid
<1>3. SameFacts(v, case)
  BY <1>2 DEF StillInv, FactsHeld, Idle
<1>4. /\ RecommendedAction(v) = RecommendedAction(case)
      /\ DesiredCaseState(v) = DesiredCaseState(case)
      /\ CommunicationPermitted(v) <=> CommunicationPermitted(case)
      /\ v.disputed = case.disputed
  BY <1>0, <1>3, SameAdvice
<1>5. action[a].rec = RecommendedAction(case) /\ RecommendedAction(case) # "NO_ACTION_REQUIRED"
  BY <1>1, <1>2, <1>4 DEF MayExecute, FactsAllowExecution
<1>6. ~Settled(case)
  BY <1>5 DEF RecommendedAction
<1>7. action[a].rec \in OutreachActions => ~case.disputed /\ CommunicationPermitted(case)
  BY <1>1, <1>4, <1>5 DEF MayExecute, FactsAllowExecution
<1>8. ASSUME ApprovalRequired(case) PROVE a \in approved
  <2>1. \/ action[a].rec \in ReviewedRecommendations
        \/ action[a].rec = "MONITOR_ACTIVE_PROMISE" /\ case.strategic
    BY <1>5, <1>7, <1>8 DEF ApprovalRequired, ReviewedRecommendations
  <2>2. action[a].required
    BY <1>1, <2>1 DEF StillInv, ApprovalInv, ApprovalOnRecord, StrategicApproval
  <2> QED BY <1>1, <1>2, <2>2 DEF MayExecute
<1> QED BY <1>5, <1>6, <1>7, <1>8

(* When the facts of a case wait for the requests in progress, whatever    *)
(* these do to each other, what is executed is what the facts of that      *)
(* moment advise and allow, with the approval they now ask for.            *)
THEOREM StillFactsAreFollowed ==
    ASSUME ~Interleaved PROVE Spec => ExecutesCurrentRecommendation
<1>1. StillInv /\ [Next]_vars => StillInv'
  BY StillNext
<1>2. StillInv /\ [Next]_vars =>
        [\A a \in Actions :
            executions'[a] > executions[a] =>
                /\ action[a].rec = RecommendedAction(case)
                /\ ~Settled(case)
                /\ action[a].rec \in OutreachActions =>
                      ~case.disputed /\ CommunicationPermitted(case)
                /\ ApprovalRequired(case) => a \in approved]_vars
  BY ExecutionIsCurrent
<1> QED BY StillInit, <1>1, <1>2, PTL DEF Spec, ExecutesCurrentRecommendation
=============================================================================
