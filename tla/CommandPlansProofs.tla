------------------------- MODULE CommandPlansProofs -------------------------
(***************************************************************************)
(* That command plans keep the promise of ConfirmOnce, for any number of   *)
(* plans, proposals and overlapping requests, any size of the registry and *)
(* any number of restarts, as long as no reset overlaps another request.   *)
(***************************************************************************)
EXTENDS CommandPlans, FiniteInduction

DurableType ==
    /\ selection \in [Plans -> {NoSelection} \cup SUBSET Works]
    /\ work \in [Plans -> [Works -> {"NONE", "STANDING", "STOPPED"}]]
    /\ answer \in [Plans -> {NoAnswer} \cup Outcomes]
    /\ session \in [Sessions -> Requests \cup {Idle, Clearing}]

\* What a request in progress holds, against the rows of its plan: the
\* outcomes are those of the selected proposals it has already looked at.
Grounded(r, chosen, made) ==
    /\ r.step \in {"PERSIST", "CLAIM", "SELECT"} => r.outcome = NoOutcome
    /\ r.step \in {"FIND", "CHECK", "INSERT"} =>
        /\ chosen[r.plan] # NoSelection
        /\ r.todo \subseteq chosen[r.plan]
        /\ \A w \in Works :
            /\ r.outcome[w] # "NONE" <=> w \in chosen[r.plan] \ r.todo
            /\ r.outcome[w] = "EXECUTED" => made[r.plan][w] # "NONE"

IInv == DurableType /\ \A s \in Sessions : Grounded(session[s], selection, work)

\* Rows are only added: what was selected stays, what was made stays made.
RowsKept ==
    /\ \A p \in Plans : selection[p] # NoSelection => selection'[p] = selection[p]
    /\ \A p \in Plans, w \in Works : work[p][w] # "NONE" => work'[p][w] # "NONE"

-----------------------------------------------------------------------------
LEMMA RequestInProgress ==
    ASSUME DurableType, NEW s \in Sessions,
           session[s].step \in {"PERSIST", "CLAIM", "SELECT", "FIND", "CHECK",
                                "INSERT", "REMEMBER"}
    PROVE  session[s] \in Requests
  BY DEF DurableType, Idle, Clearing

LEMMA NewRequest ==
    ASSUME NEW p \in Plans, NEW S \in SUBSET Works,
           NEW step \in {"PERSIST", "CLAIM"}
    PROVE  /\ Request(step, p, S) \in Requests
           /\ Grounded(Request(step, p, S), selection', work')
<1>1. NoOutcome \in Outcomes
  BY DEF NoOutcome, Outcomes
<1> QED BY <1>1 DEF Request, Requests, Grounded, NoOutcome

\* The requests a step does not concern stay grounded.
LEMMA OthersGrounded ==
    ASSUME IInv, RowsKept, NEW t \in Sessions, session'[t] = session[t]
    PROVE  Grounded(session[t], selection, work)'
<1>1. CASE session[t].step \in {"FIND", "CHECK", "INSERT"}
  <2>1. session[t] \in Requests
    BY <1>1, RequestInProgress DEF IInv
  <2> QED BY <1>1, <2>1 DEF IInv, Grounded, RowsKept, Requests
<1>2. CASE session[t].step \notin {"FIND", "CHECK", "INSERT"}
  BY <1>2 DEF IInv, Grounded
<1> QED BY <1>1, <1>2

LEMMA RestGrounded ==
    Grounded(Idle, selection', work') /\ Grounded(Clearing, selection', work')
  BY DEF Grounded, Idle, Clearing

\* One step of the request r of session s, with its rows kept.
LEMMA StepOfOne ==
    ASSUME IInv, RowsKept, DurableType', NEW s \in Sessions,
           NEW r \in Requests \cup {Idle, Clearing},
           session' = [session EXCEPT ![s] = r], Grounded(r, selection', work')
    PROVE  IInv'
<1> SUFFICES ASSUME NEW t \in Sessions PROVE Grounded(session[t], selection, work)'
  BY DEF IInv
<1>1. CASE t = s
  <2>1. session'[t] = r
    BY <1>1 DEF IInv, DurableType
  <2> QED BY <2>1 DEF Grounded
<1>2. CASE t # s
  <2>1. session'[t] = session[t]
    BY <1>2 DEF IInv, DurableType
  <2> QED BY <2>1, OthersGrounded
<1> QED BY <1>1, <1>2

LEMMA RowsUnchanged == selection' = selection /\ work' = work => RowsKept
  BY DEF RowsKept

-----------------------------------------------------------------------------
(* The types hold although resets overlap requests.                        *)
LEMMA SettledType ==
    ASSUME DurableType, NEW s \in Sessions, NEW w \in Works,
           session[s].step \in {"FIND", "CHECK", "INSERT"},
           NEW result \in {"EXECUTED", "FAILED"}, Settle(s, w, result)
    PROVE  \E r \in Requests : r.step = "FIND" /\ session' = [session EXCEPT ![s] = r]
<1> DEFINE r == [session[s] EXCEPT !.step = "FIND",
                                   !.todo = session[s].todo \ {w},
                                   !.outcome[w] = result]
<1>1. session[s] \in Requests
  BY RequestInProgress
<1>2. r \in Requests /\ r.step = "FIND"
  BY <1>1 DEF Requests, Outcomes
<1> QED BY <1>2 DEF Settle

\* A step of session s leaves it with a request, typed, or with none; only
\* RegisterPlan leaves it with a plan to persist.
LEMMA SessionStep ==
    ASSUME DurableType, NEW s \in Sessions, Proceed(s) \/ \E p \in Plans : Confirm(s, p)
    PROVE  \/ UNCHANGED session
           \/ \E r \in Requests \cup {Idle, Clearing} :
                  r.step # "PERSIST" /\ session' = [session EXCEPT ![s] = r]
<1> USE DEF durable, memory, history
<1> DEFINE Goal == \E r \in Requests \cup {Idle, Clearing} :
                       r.step # "PERSIST" /\ session' = [session EXCEPT ![s] = r]
<1>0. ASSUME Finish(s) PROVE Goal
  BY <1>0 DEF Finish, Idle
<1>1. ASSUME NEW p \in Plans, Confirm(s, p) PROVE UNCHANGED session \/ Goal
  <2>1. PICK wanted \in SUBSET Works : ReceiveConfirmation(s, p, wanted)
    BY <1>1 DEF Confirm
  <2>2. Selected(p, wanted) \in SUBSET Works
    BY PlanConstants DEF Selected
  <2>3. Request("CLAIM", p, Selected(p, wanted)) \in Requests
    BY <2>2, NewRequest
  <2>4. \/ UNCHANGED session
        \/ session' = [session EXCEPT ![s] = Idle]
        \/ session' = [session EXCEPT ![s] = Request("CLAIM", p, Selected(p, wanted))]
    BY <2>1 DEF ReceiveConfirmation
  <2> QED BY <2>3, <2>4 DEF Request, Idle
<1>2. ASSUME PersistPlan(s) \/ RememberResult(s) \/ ClearRegistry(s) PROVE Goal
  BY <1>0, <1>2 DEF PersistPlan, RememberResult, ClearRegistry
<1>3. ASSUME ClaimPlan(s) PROVE Goal
  <2>1. session[s] \in Requests
    BY <1>3, RequestInProgress DEF ClaimPlan
  <2>2. [session[s] EXCEPT !.step = "SELECT"] \in Requests
    BY <2>1 DEF Requests
  <2>3. [session[s] EXCEPT !.step = "SELECT"].step = "SELECT"
    BY <2>1 DEF Requests
  <2> QED BY <1>3, <2>2, <2>3 DEF ClaimPlan, Idle
<1>4. ASSUME FixSelection(s) PROVE Goal
  <2> DEFINE r == [session[s] EXCEPT !.step = "FIND",
                      !.todo = DecidedSelection(session[s].plan, session[s].todo)]
  <2>1. session[s] \in Requests
    BY <1>4, RequestInProgress DEF FixSelection
  <2>2. DecidedSelection(session[s].plan, session[s].todo) \in SUBSET Works
    BY <2>1 DEF DecidedSelection, DurableType, Requests
  <2>3. r \in Requests /\ r.step = "FIND"
    BY <2>1, <2>2 DEF Requests
  <2> QED BY <1>4, <2>3 DEF FixSelection
<1>5. ASSUME NEW w \in Works, FindAction(s, w) PROVE Goal
  <2>1. session[s] \in Requests /\ session[s].step = "FIND"
    BY <1>5, RequestInProgress DEF FindAction
  <2>2. [session[s] EXCEPT !.step = "CHECK"] \in Requests
        /\ [session[s] EXCEPT !.step = "CHECK"].step = "CHECK"
    BY <2>1 DEF Requests
  <2> QED BY <1>5, <2>1, <2>2, SettledType DEF FindAction
<1>6. ASSUME NEW w \in Works, NEW stale \in BOOLEAN, CheckProposal(s, w, stale) PROVE Goal
  <2>1. session[s] \in Requests /\ session[s].step = "CHECK"
    BY <1>6, RequestInProgress DEF CheckProposal
  <2>2. [session[s] EXCEPT !.step = "INSERT"] \in Requests
        /\ [session[s] EXCEPT !.step = "INSERT"].step = "INSERT"
    BY <2>1 DEF Requests
  <2> QED BY <1>6, <2>1, <2>2, SettledType DEF CheckProposal
<1>7. ASSUME NEW w \in Works, InsertAction(s, w) PROVE Goal
  BY <1>0, <1>7, SettledType DEF InsertAction
<1>8. ASSUME RecordResult(s) PROVE Goal
  <2>1. session[s] \in Requests
    BY <1>8, RequestInProgress DEF RecordResult
  <2>2. [session[s] EXCEPT !.step = "REMEMBER"] \in Requests
        /\ [session[s] EXCEPT !.step = "REMEMBER"].step = "REMEMBER"
    BY <2>1 DEF Requests
  <2> QED BY <1>8, <2>2 DEF RecordResult
<1> QED BY <1>1, <1>2, <1>3, <1>4, <1>5, <1>6, <1>7, <1>8 DEF Proceed

LEMMA DurableTypeKept ==
    ASSUME DurableType, [Next]_vars PROVE DurableType'
<1> USE DEF durable, memory, history
<1>1. session' \in [Sessions -> Requests \cup {Idle, Clearing}]
  <2>1. ASSUME NEW s \in Sessions, NEW p \in Plans, RegisterPlan(s, p)
        PROVE  session' \in [Sessions -> Requests \cup {Idle, Clearing}]
    <3>1. Request("PERSIST", p, {}) \in Requests
      BY NewRequest
    <3> QED BY <2>1, <3>1 DEF RegisterPlan, DurableType
  <2>2. ASSUME NEW s \in Sessions, Proceed(s) \/ \E p \in Plans : Confirm(s, p)
        PROVE  session' \in [Sessions -> Requests \cup {Idle, Clearing}]
    BY <2>2, SessionStep DEF DurableType
  <2>3. ASSUME NEW s \in Sessions, CommitReset(s)
        PROVE  session' \in [Sessions -> Requests \cup {Idle, Clearing}]
    BY <2>3 DEF CommitReset, DurableType
  <2>4. ASSUME Restart PROVE session' \in [Sessions -> Requests \cup {Idle, Clearing}]
    BY <2>4 DEF Restart
  <2>5. ASSUME \/ \E p \in Plans : ThirtyMinutesPass(p) \/ \E w \in Works : StopAction(p, w)
               \/ EvictPlan \/ EvictConfirmation \/ UNCHANGED vars
        PROVE  session' = session
    BY <2>5 DEF ThirtyMinutesPass, StopAction, EvictPlan, EvictConfirmation, vars
  <2> QED BY <2>1, <2>2, <2>3, <2>4, <2>5 DEF Next, DurableType
<1>2. /\ selection' \in [Plans -> {NoSelection} \cup SUBSET Works]
      /\ work' \in [Plans -> [Works -> {"NONE", "STANDING", "STOPPED"}]]
      /\ answer' \in [Plans -> {NoAnswer} \cup Outcomes]
  <2>1. ASSUME NEW s \in Sessions, FixSelection(s)
        PROVE  selection' \in [Plans -> {NoSelection} \cup SUBSET Works]
               /\ work' = work /\ answer' = answer
    <3>1. session[s] \in Requests
      BY <2>1, RequestInProgress DEF FixSelection
    <3> QED BY <2>1, <3>1 DEF FixSelection, DurableType, Requests
  <2>2. ASSUME NEW s \in Sessions, NEW w \in Works, InsertAction(s, w)
        PROVE  work' \in [Plans -> [Works -> {"NONE", "STANDING", "STOPPED"}]]
               /\ selection' = selection /\ answer' = answer
    <3>1. session[s].plan \in Plans
      BY <2>2, RequestInProgress DEF InsertAction, Requests
    <3>2. work' = work \/ work' = [work EXCEPT ![session[s].plan][w] = "STANDING"]
      BY <2>2 DEF InsertAction
    <3>3. selection' = selection /\ answer' = answer
      BY <2>2 DEF InsertAction
    <3> QED BY <3>1, <3>2, <3>3 DEF DurableType
  <2>3. ASSUME NEW s \in Sessions, RecordResult(s)
        PROVE  answer' \in [Plans -> {NoAnswer} \cup Outcomes]
               /\ selection' = selection /\ work' = work
    <3>1. session[s] \in Requests
      BY <2>3, RequestInProgress DEF RecordResult
    <3> QED BY <2>3, <3>1 DEF RecordResult, DurableType, Requests
  <2>4. ASSUME NEW s \in Sessions, CommitReset(s)
        PROVE  /\ selection' \in [Plans -> {NoSelection} \cup SUBSET Works]
               /\ work' \in [Plans -> [Works -> {"NONE", "STANDING", "STOPPED"}]]
               /\ answer' \in [Plans -> {NoAnswer} \cup Outcomes]
    BY <2>4 DEF CommitReset
  <2>5. ASSUME NEW p \in Plans, NEW w \in Works, StopAction(p, w)
        PROVE  work' \in [Plans -> [Works -> {"NONE", "STANDING", "STOPPED"}]]
               /\ selection' = selection /\ answer' = answer
    BY <2>5 DEF StopAction, DurableType
  <2>6. ASSUME \/ \E s \in Sessions :
                    \/ \E p \in Plans : RegisterPlan(s, p) \/ Confirm(s, p)
                    \/ PersistPlan(s) \/ ClaimPlan(s)
                    \/ \E w \in Works : \/ FindAction(s, w)
                                       \/ \E stale \in BOOLEAN : CheckProposal(s, w, stale)
                    \/ RememberResult(s) \/ ClearRegistry(s)
               \/ \E p \in Plans : ThirtyMinutesPass(p)
               \/ EvictPlan \/ EvictConfirmation \/ Restart \/ UNCHANGED vars
        PROVE  UNCHANGED <<selection, work, answer>>
    BY <2>6 DEF RegisterPlan, Confirm, ReceiveConfirmation, PersistPlan, ClaimPlan,
                FindAction, CheckProposal, RememberResult, ClearRegistry,
                ThirtyMinutesPass, EvictPlan, EvictConfirmation, Restart, vars
  <2> QED BY <2>1, <2>2, <2>3, <2>4, <2>5, <2>6 DEF Next, Proceed, DurableType
<1> QED BY <1>1, <1>2 DEF DurableType

-----------------------------------------------------------------------------
LEMMA Initially == Init => IInv
<1> SUFFICES ASSUME Init PROVE IInv
  OBVIOUS
<1>1. DurableType
  BY DEF Init, DurableType
<1> QED BY <1>1 DEF Init, IInv, Grounded, Idle

\* An outcome settled for a selected proposal keeps the request grounded.
LEMMA Settled ==
    ASSUME IInv, NEW s \in Sessions, NEW w \in Works, IsNext(s, w),
           session[s].step \in {"FIND", "CHECK", "INSERT"},
           NEW result \in {"EXECUTED", "FAILED"}, Settle(s, w, result),
           selection' = selection, RowsKept,
           work' \in [Plans -> [Works -> {"NONE", "STANDING", "STOPPED"}]],
           answer' = answer,
           result = "EXECUTED" => work'[session[s].plan][w] # "NONE"
    PROVE  IInv'
<1> DEFINE r == [session[s] EXCEPT !.step = "FIND",
                                   !.todo = session[s].todo \ {w},
                                   !.outcome[w] = result]
<1>1. session[s] \in Requests
  BY RequestInProgress DEF IInv
<1>2. r \in Requests
  BY <1>1 DEF Requests, Outcomes
<1>3. session' = [session EXCEPT ![s] = r]
  BY DEF Settle
<1>4. DurableType'
  BY <1>2, <1>3 DEF IInv, DurableType
<1>5. Grounded(r, selection', work')
  <2>1. r.step = "FIND" /\ r.plan = session[s].plan
        /\ r.todo = session[s].todo \ {w}
        /\ r.outcome = [session[s].outcome EXCEPT ![w] = result]
    BY <1>1 DEF Requests
  <2>2. /\ selection[r.plan] # NoSelection
        /\ session[s].todo \subseteq selection[r.plan]
        /\ w \in session[s].todo
        /\ r.plan \in Plans
    BY <1>1, <2>1 DEF IInv, Grounded, IsNext, Requests
  <2>3. ASSUME NEW v \in Works
        PROVE  /\ r.outcome[v] # "NONE" <=> v \in selection[r.plan] \ r.todo
               /\ r.outcome[v] = "EXECUTED" => work'[r.plan][v] # "NONE"
    <3>1. /\ session[s].outcome[v] # "NONE" <=> v \in selection[r.plan] \ session[s].todo
          /\ session[s].outcome[v] = "EXECUTED" => work[r.plan][v] # "NONE"
      BY <2>1 DEF IInv, Grounded
    <3>2. r.outcome[v] = IF v = w THEN result ELSE session[s].outcome[v]
      BY <1>1, <2>1 DEF Requests, Outcomes
    <3> QED BY <2>1, <2>2, <3>1, <3>2 DEF RowsKept
  <2> QED BY <2>1, <2>2, <2>3 DEF Grounded
<1> QED BY <1>2, <1>3, <1>4, <1>5, StepOfOne

-----------------------------------------------------------------------------
(* The invariant is inductive.                                             *)
LEMMA Inductive ==
    ASSUME ~ResetRaces, IInv, [Next]_vars PROVE IInv'
<1> USE DEF durable, memory, history
<1>0. DurableType /\ DurableType' /\ Idle \in Requests \cup {Idle, Clearing}
      /\ Clearing \in Requests \cup {Idle, Clearing}
  BY DurableTypeKept DEF IInv
<1>1. ASSUME NEW s \in Sessions, NEW p \in Plans, RegisterPlan(s, p) PROVE IInv'
  <2>1. session' = [session EXCEPT ![s] = Request("PERSIST", p, {})] /\ RowsKept
    BY <1>1, RowsUnchanged DEF RegisterPlan
  <2>2. Request("PERSIST", p, {}) \in Requests /\ Grounded(Request("PERSIST", p, {}), selection', work')
    BY NewRequest
  <2> QED BY <2>1, <2>2, <1>0, StepOfOne
<1>2. ASSUME NEW s \in Sessions, PersistPlan(s) PROVE IInv'
  <2>1. session' = [session EXCEPT ![s] = Idle] /\ RowsKept
    BY <1>2, RowsUnchanged DEF PersistPlan, Finish
  <2> QED BY <1>0, <2>1, RestGrounded, StepOfOne
<1>3. ASSUME NEW s \in Sessions, NEW p \in Plans, Confirm(s, p) PROVE IInv'
  <2>1. PICK wanted \in SUBSET Works : ReceiveConfirmation(s, p, wanted)
    BY <1>3 DEF Confirm
  <2>2. RowsKept /\ selection' = selection /\ work' = work /\ answer' = answer
    BY <2>1, RowsUnchanged DEF ReceiveConfirmation
  <2>3. CASE session' = session
    BY <1>0, <2>2, <2>3, OthersGrounded DEF IInv, DurableType
  <2>4. CASE session' = [session EXCEPT ![s] = Idle]
    <3> QED BY <1>0, <2>2, <2>4, RestGrounded, StepOfOne
  <2>5. CASE session' = [session EXCEPT ![s] = Request("CLAIM", p, Selected(p, wanted))]
    <3>1. Selected(p, wanted) \in SUBSET Works
      BY PlanConstants DEF Selected
    <3>2. /\ Request("CLAIM", p, Selected(p, wanted)) \in Requests
          /\ Grounded(Request("CLAIM", p, Selected(p, wanted)), selection', work')
      BY <3>1, NewRequest
    <3> QED BY <2>2, <2>5, <3>2, <1>0, StepOfOne
  <2> QED BY <2>1, <2>3, <2>4, <2>5 DEF ReceiveConfirmation
<1>4. ASSUME NEW s \in Sessions, ClaimPlan(s) PROVE IInv'
  <2>1. RowsKept /\ selection' = selection /\ work' = work /\ answer' = answer
    BY <1>4, RowsUnchanged DEF ClaimPlan
  <2>2. session[s] \in Requests
    BY <1>0, <1>4, RequestInProgress DEF ClaimPlan
  <2> DEFINE r == [session[s] EXCEPT !.step = "SELECT"]
  <2>3. r \in Requests /\ Grounded(r, selection', work')
    <3>1. session[s].outcome = NoOutcome
      BY <1>4 DEF ClaimPlan, IInv, Grounded
    <3> QED BY <2>2, <3>1 DEF Requests, Grounded, NoOutcome
  <2>4. \/ session' = [session EXCEPT ![s] = r]
        \/ session' = [session EXCEPT ![s] = Idle]
    BY <1>4 DEF ClaimPlan
  <2> QED BY <1>0, <2>1, <2>3, <2>4, RestGrounded, StepOfOne
<1>5. ASSUME NEW s \in Sessions, FixSelection(s) PROVE IInv'
  <2> DEFINE p == session[s].plan
             r == [session[s] EXCEPT !.step = "FIND",
                                     !.todo = DecidedSelection(p, session[s].todo)]
  <2>1. session[s] \in Requests /\ p \in Plans
    BY <1>0, <1>5, RequestInProgress DEF FixSelection, Requests
  <2>2. /\ session' = [session EXCEPT ![s] = r]
        /\ selection' = [selection EXCEPT ![p] =
              IF selection[p] = NoSelection THEN session[s].todo ELSE selection[p]]
        /\ work' = work /\ answer' = answer
    BY <1>5 DEF FixSelection
  <2>3. session[s].todo \in SUBSET Works
    BY <2>1 DEF Requests
  <2>4. RowsKept
    BY <1>0, <2>1, <2>2 DEF RowsKept, DurableType
  <2>5. selection'[p] = DecidedSelection(p, session[s].todo)
        /\ selection'[p] \in SUBSET Works /\ selection'[p] # NoSelection
    BY <1>0, <2>1, <2>2, <2>3, PlanConstants DEF DecidedSelection, DurableType
  <2>6. r \in Requests
    BY <2>1, <2>5 DEF Requests
  <2>8. Grounded(r, selection', work')
    <3>1. session[s].outcome = NoOutcome
      BY <1>5 DEF FixSelection, IInv, Grounded
    <3>2. r.step = "FIND" /\ r.plan = p /\ r.todo = selection'[p] /\ r.outcome = NoOutcome
      BY <2>1, <2>5, <3>1 DEF Requests
    <3> QED BY <2>5, <3>2 DEF Grounded, NoOutcome
  <2> QED BY <2>2, <2>4, <2>6, <1>0, <2>8, StepOfOne
<1>6. ASSUME NEW s \in Sessions, NEW w \in Works, FindAction(s, w) PROVE IInv'
  <2>1. /\ RowsKept /\ selection' = selection /\ work' = work /\ answer' = answer
        /\ work' \in [Plans -> [Works -> {"NONE", "STANDING", "STOPPED"}]]
    BY <1>0, <1>6, RowsUnchanged DEF FindAction, DurableType
  <2>2. CASE work[session[s].plan][w] # "NONE"
    <3>1. Settle(s, w, "EXECUTED") /\ session[s].step = "FIND" /\ IsNext(s, w)
      BY <1>6, <2>2 DEF FindAction
    <3> QED BY <2>1, <2>2, <3>1, Settled
  <2>3. CASE work[session[s].plan][w] = "NONE"
    <3> DEFINE r == [session[s] EXCEPT !.step = "CHECK"]
    <3>1. session[s] \in Requests /\ session' = [session EXCEPT ![s] = r]
      BY <1>0, <1>6, <2>3, RequestInProgress DEF FindAction
    <3>2. r \in Requests /\ Grounded(r, selection', work')
      BY <1>6, <2>1, <3>1 DEF Requests, Grounded, IInv, FindAction
    <3> QED BY <2>1, <3>1, <3>2, <1>0, StepOfOne
  <2> QED BY <2>2, <2>3
<1>7. ASSUME NEW s \in Sessions, NEW w \in Works, NEW stale \in BOOLEAN,
             CheckProposal(s, w, stale)
      PROVE IInv'
  <2>1. /\ RowsKept /\ selection' = selection /\ work' = work /\ answer' = answer
        /\ work' \in [Plans -> [Works -> {"NONE", "STANDING", "STOPPED"}]]
    BY <1>0, <1>7, RowsUnchanged DEF CheckProposal, DurableType
  <2>2. CASE Settle(s, w, "FAILED")
    <3>1. session[s].step = "CHECK" /\ IsNext(s, w)
      BY <1>7 DEF CheckProposal
    <3> QED BY <2>1, <2>2, <3>1, Settled
  <2>3. CASE session' = [session EXCEPT ![s].step = "INSERT"]
    <3> DEFINE r == [session[s] EXCEPT !.step = "INSERT"]
    <3>1. session[s] \in Requests /\ session' = [session EXCEPT ![s] = r]
      BY <1>0, <1>7, <2>3, RequestInProgress DEF CheckProposal
    <3>2. r \in Requests /\ Grounded(r, selection', work')
      BY <1>7, <2>1, <3>1 DEF Requests, Grounded, IInv, CheckProposal
    <3> QED BY <2>1, <3>1, <3>2, <1>0, StepOfOne
  <2> QED BY <1>7, <2>2, <2>3 DEF CheckProposal
<1>8. ASSUME NEW s \in Sessions, NEW w \in Works, InsertAction(s, w) PROVE IInv'
  <2> DEFINE p == session[s].plan
  <2>1. session[s] \in Requests /\ p \in Plans
    BY <1>0, <1>8, RequestInProgress DEF InsertAction, Requests
  <2>2. selection' = selection /\ answer' = answer /\ IsNext(s, w)
        /\ session[s].step = "INSERT"
    BY <1>8 DEF InsertAction
  <2>3. CASE MayInsert(p, w)
    <3>1. work' = [work EXCEPT ![p][w] = "STANDING"] /\ Settle(s, w, "EXECUTED")
      BY <1>8, <2>3 DEF InsertAction
    <3>2. work' \in [Plans -> [Works -> {"NONE", "STANDING", "STOPPED"}]]
      BY <1>0, <2>1, <3>1 DEF DurableType
    <3>3. work'[p][w] # "NONE"
      BY <1>0, <2>1, <3>1 DEF DurableType
    <3>4. RowsKept
      BY <1>0, <2>1, <2>2, <3>1 DEF RowsKept, DurableType
    <3> QED BY <2>2, <3>1, <3>2, <3>3, <3>4, Settled
  <2>4. CASE ~MayInsert(p, w)
    <3>1. work' = work /\ session' = [session EXCEPT ![s] = Idle] /\ RowsKept
      BY <1>8, <2>2, <2>4, RowsUnchanged DEF InsertAction, Finish
    <3> QED BY <1>0, <3>1, RestGrounded, StepOfOne
  <2> QED BY <2>3, <2>4
<1>9. ASSUME NEW s \in Sessions, RecordResult(s) PROVE IInv'
  <2> DEFINE r == [session[s] EXCEPT !.step = "REMEMBER"]
  <2>1. session[s] \in Requests /\ session' = [session EXCEPT ![s] = r]
    BY <1>0, <1>9, RequestInProgress DEF RecordResult
  <2>2. RowsKept
    BY <1>9, RowsUnchanged DEF RecordResult
  <2>3. r \in Requests /\ Grounded(r, selection', work')
    BY <2>1 DEF Requests, Grounded
  <2> QED BY <2>1, <2>2, <2>3, <1>0, StepOfOne
<1>10. ASSUME NEW s \in Sessions, RememberResult(s) \/ ClearRegistry(s) PROVE IInv'
  <2>1. session' = [session EXCEPT ![s] = Idle] /\ RowsKept
    BY <1>10, RowsUnchanged DEF RememberResult, ClearRegistry, Finish
  <2> QED BY <1>0, <2>1, RestGrounded, StepOfOne
<1>11. ASSUME NEW s \in Sessions, CommitReset(s) PROVE IInv'
  <2>2. \A t \in Sessions : session'[t] \in {Idle, Clearing}
    BY <1>0, <1>11 DEF CommitReset, DurableType
  <2>3. ASSUME NEW t \in Sessions PROVE Grounded(session[t], selection, work)'
    <3>1. session'[t].step \in {"IDLE", "CLEAR"}
      BY <2>2 DEF Idle, Clearing
    <3> QED BY <3>1 DEF Grounded
  <2> QED BY <1>0, <2>3 DEF IInv
<1>12. ASSUME NEW p \in Plans, NEW w \in Works, StopAction(p, w) PROVE IInv'
  <2>1. RowsKept /\ session' = session
    BY <1>0, <1>12 DEF StopAction, RowsKept, DurableType
  <2> QED BY <2>1, <1>0, OthersGrounded DEF IInv
<1>13. ASSUME \/ \E p \in Plans : ThirtyMinutesPass(p)
              \/ EvictPlan \/ EvictConfirmation \/ UNCHANGED vars
       PROVE IInv'
  <2>1. UNCHANGED <<selection, work, answer, session>>
    BY <1>13 DEF ThirtyMinutesPass, EvictPlan, EvictConfirmation, vars
  <2>2. RowsKept /\ DurableType'
    BY <1>0, <2>1, RowsUnchanged DEF DurableType
  <2> QED BY <2>1, <2>2, OthersGrounded DEF IInv
<1>14. ASSUME Restart PROVE IInv'
  <2>1. DurableType' /\ \A t \in Sessions : session'[t] = Idle
    BY <1>0, <1>14 DEF Restart, DurableType
  <2> QED BY <2>1 DEF IInv, Grounded, Idle
<1> QED BY <1>1, <1>2, <1>3, <1>4, <1>5, <1>6, <1>7, <1>8, <1>9, <1>10, <1>11,
           <1>12, <1>13, <1>14 DEF Next, Proceed

(* A request between two of its steps still knows something true of the     *)
(* rows others may have written.                                            *)
THEOREM Invariance == ASSUME ~ResetRaces PROVE Spec => []IInv
<1>1. IInv /\ [Next]_vars => IInv'
  BY Inductive
<1> QED BY Initially, <1>1, PTL DEF Spec

-----------------------------------------------------------------------------
(* What ConfirmOnce sees of the table of actions, when a row is added and  *)
(* when the action of one is stopped.                                      *)
LEMMA MadeOnce ==
    ASSUME DurableType, NEW p \in Plans, NEW w \in Works, work[p][w] = "NONE",
           work' = [work EXCEPT ![p][w] = "STANDING"]
    PROVE  w \notin Made[p] /\ Made' = [Made EXCEPT ![p] = @ \cup {w}] /\ Stopped' = Stopped
<1>1. \A q \in Plans, v \in Works :
        work'[q][v] = IF q = p /\ v = w THEN "STANDING" ELSE work[q][v]
  BY DEF DurableType
<1>2. \A q \in Plans : Made'[q] = IF q = p THEN Made[p] \cup {w} ELSE Made[q]
  BY <1>1 DEF Made
<1>3. \A q \in Plans : Stopped'[q] = Stopped[q]
  BY <1>1 DEF Stopped
<1> QED BY <1>2, <1>3 DEF Made, Stopped

LEMMA StoppedForGood ==
    ASSUME DurableType, NEW p \in Plans, NEW w \in Works, work[p][w] = "STANDING",
           work' = [work EXCEPT ![p][w] = "STOPPED"]
    PROVE  /\ w \in Made[p] \ Stopped[p]
           /\ Stopped' = [Stopped EXCEPT ![p] = @ \cup {w}] /\ Made' = Made
<1>1. \A q \in Plans, v \in Works :
        work'[q][v] = IF q = p /\ v = w THEN "STOPPED" ELSE work[q][v]
  BY DEF DurableType
<1>2. \A q \in Plans : Stopped'[q] = IF q = p THEN Stopped[p] \cup {w} ELSE Stopped[q]
  BY <1>1 DEF Stopped
<1>3. \A q \in Plans : Made'[q] = Made[q]
  BY <1>1 DEF Made
<1> QED BY <1>2, <1>3 DEF Made, Stopped

(* Every step of a request, of the registry and of the operator is a step  *)
(* of ConfirmOnce or leaves its variables alone.                           *)
LEMMA StepRefines ==
    ASSUME IInv, [Next]_vars PROVE [Promise!Next]_(Promise!vars)
<1> USE DEF durable, memory, history
<1>0. DurableType
  BY DEF IInv
<1>1. ASSUME NEW s \in Sessions, FixSelection(s)
      PROVE  [Promise!Next]_(Promise!vars)
  <2> DEFINE p == session[s].plan
             asked == session[s].todo
  <2>1. session[s] \in Requests /\ p \in Plans /\ asked \in SUBSET Works
    BY <1>0, <1>1, RequestInProgress DEF FixSelection, Requests
  <2>2. /\ selection' = [selection EXCEPT ![p] = IF selection[p] = NoSelection THEN asked ELSE selection[p]]
        /\ work' = work /\ answer' = answer
    BY <1>1 DEF FixSelection
  <2>3. CASE selection[p] = NoSelection
    <3>1. Promise!Select(p, asked)
      BY <2>2, <2>3 DEF Promise!Select, Made, Stopped
    <3> QED BY <2>1, <3>1 DEF Promise!Next
  <2>4. CASE selection[p] # NoSelection
    <3>1. selection' = selection
      BY <1>0, <2>1, <2>2, <2>4 DEF DurableType
    <3> QED BY <2>2, <3>1 DEF Promise!vars, Made, Stopped
  <2> QED BY <2>3, <2>4
<1>2. ASSUME NEW s \in Sessions, NEW w \in Works, InsertAction(s, w)
      PROVE  [Promise!Next]_(Promise!vars)
  <2> DEFINE p == session[s].plan
  <2>1. session[s] \in Requests /\ p \in Plans
    BY <1>0, <1>2, RequestInProgress DEF InsertAction, Requests
  <2>2. selection[p] # NoSelection /\ w \in selection[p]
        /\ selection' = selection /\ answer' = answer
    BY <1>2 DEF InsertAction, IsNext, IInv, Grounded
  <2>3. CASE MayInsert(p, w)
    <3>1. work[p][w] = "NONE" /\ work' = [work EXCEPT ![p][w] = "STANDING"]
      BY <1>2, <2>3 DEF InsertAction, MayInsert
    <3>2. Promise!Make(p, w)
      BY <1>0, <2>1, <2>2, <3>1, MadeOnce DEF Promise!Make
    <3> QED BY <2>1, <3>2 DEF Promise!Next
  <2>4. CASE ~MayInsert(p, w)
    BY <1>2, <2>2, <2>4 DEF InsertAction, Promise!vars, Made, Stopped
  <2> QED BY <2>3, <2>4
<1>3. ASSUME NEW s \in Sessions, RecordResult(s)
      PROVE  [Promise!Next]_(Promise!vars)
  <2> DEFINE p == session[s].plan
             outcome == session[s].outcome
  <2>1. session[s] \in Requests /\ p \in Plans /\ outcome \in Outcomes
    BY <1>0, <1>3, RequestInProgress DEF RecordResult, Requests
  <2>2. /\ selection[p] # NoSelection
        /\ \A w \in Works : outcome[w] # "NONE" <=> w \in selection[p]
        /\ \A w \in Works : outcome[w] = "EXECUTED" => work[p][w] # "NONE"
    BY <1>3 DEF RecordResult, IInv, Grounded
  <2>3. /\ answer' = [answer EXCEPT ![p] = IF answer[p] = NoAnswer THEN outcome ELSE answer[p]]
        /\ selection' = selection /\ work' = work
    BY <1>3 DEF RecordResult
  <2>4. CASE answer[p] = NoAnswer
    <3>1. Promise!Answer(p, outcome)
      BY <2>1, <2>2, <2>3, <2>4 DEF Promise!Answer, Made, Stopped
    <3>2. outcome \in Promise!Outcomes
      BY <2>1 DEF Outcomes, Promise!Outcomes
    <3> QED BY <2>1, <3>1, <3>2 DEF Promise!Next
  <2>5. CASE answer[p] # NoAnswer
    <3>1. answer' = answer
      BY <1>0, <2>1, <2>3, <2>5 DEF DurableType
    <3> QED BY <2>3, <3>1 DEF Promise!vars, Made, Stopped
  <2> QED BY <2>4, <2>5
<1>4. ASSUME NEW p \in Plans, NEW w \in Works, StopAction(p, w)
      PROVE  [Promise!Next]_(Promise!vars)
  <2>1. Promise!Stop(p, w)
    BY <1>0, <1>4, StoppedForGood DEF StopAction, Promise!Stop
  <2> QED BY <2>1 DEF Promise!Next
<1>5. ASSUME NEW s \in Sessions, CommitReset(s)
      PROVE  [Promise!Next]_(Promise!vars)
  <2>1. Promise!Reset
    BY <1>5 DEF CommitReset, Promise!Reset, Promise!Init, Made, Stopped
  <2> QED BY <2>1 DEF Promise!Next
<1>6. ASSUME \/ \E s \in Sessions :
                  \/ \E p \in Plans : RegisterPlan(s, p) \/ Confirm(s, p)
                  \/ PersistPlan(s) \/ ClaimPlan(s)
                  \/ \E w \in Works : \/ FindAction(s, w)
                                     \/ \E stale \in BOOLEAN : CheckProposal(s, w, stale)
                  \/ RememberResult(s) \/ ClearRegistry(s)
             \/ \E p \in Plans : ThirtyMinutesPass(p)
             \/ EvictPlan \/ EvictConfirmation \/ Restart \/ UNCHANGED vars
      PROVE  [Promise!Next]_(Promise!vars)
  <2>1. UNCHANGED <<selection, work, answer>>
    BY <1>6 DEF RegisterPlan, Confirm, ReceiveConfirmation, PersistPlan, ClaimPlan,
                FindAction, CheckProposal, RememberResult, ClearRegistry,
                ThirtyMinutesPass, EvictPlan, EvictConfirmation, Restart, vars
  <2> QED BY <2>1 DEF Promise!vars, Made, Stopped
<1> QED BY <1>1, <1>2, <1>3, <1>4, <1>5, <1>6 DEF Next, Proceed

(* Command plans confirm once: however many confirmations of a plan        *)
(* overlap, fail, are cut off by a restart and sent again, its durable     *)
(* rows behave as ConfirmOnce says.                                        *)
THEOREM PlansConfirmOnce == ASSUME ~ResetRaces PROVE Spec => ConfirmsOnce
<1>1. Init => Promise!Init
  BY DEF Init, Promise!Init, Made, Stopped
<1>2. IInv /\ [Next]_vars => [Promise!Next]_(Promise!vars)
  BY StepRefines
<1> QED BY <1>1, <1>2, Invariance, PTL DEF Spec, ConfirmsOnce, Promise!Spec

-----------------------------------------------------------------------------
(* What the operator may confirm of the present portfolio has a row.       *)
PlansSaved ==
    /\ issued \subseteq planned
    /\ \A s \in Sessions : session[s].step = "PERSIST" => session[s].plan \in planned
    /\ \A p \in issued \ old : Proposed[p] # {} => p \in planRow

\* A request that has its plan to save had it before, or registered it now.
LEMMA SavedLater ==
    ASSUME DurableType, [Next]_vars, NEW t \in Sessions, session'[t].step = "PERSIST",
           \A s \in Sessions : session[s].step = "PERSIST" => session[s].plan \in planned
    PROVE  session'[t].plan \in planned'
<1> USE DEF durable, memory, history
<1>1. ASSUME NEW s \in Sessions, NEW p \in Plans, RegisterPlan(s, p)
      PROVE  session'[t].plan \in planned'
  <2>1. session' = [session EXCEPT ![s] = Request("PERSIST", p, {})]
        /\ planned' = planned \cup {p} /\ Request("PERSIST", p, {}).plan = p
    BY <1>1 DEF RegisterPlan, Request
  <2> QED BY <2>1 DEF DurableType
<1>2. ASSUME NEW s \in Sessions, Proceed(s) \/ \E p \in Plans : Confirm(s, p)
      PROVE  session'[t].plan \in planned'
  <2>1. session'[t] = session[t]
    BY <1>2, SessionStep DEF DurableType
  <2>2. planned' = planned
    BY <1>2 DEF Proceed, Confirm, ReceiveConfirmation, PersistPlan, ClaimPlan, FixSelection,
                FindAction, CheckProposal, InsertAction, RecordResult, RememberResult,
                ClearRegistry
  <2> QED BY <2>1, <2>2
<1>3. ASSUME NEW s \in Sessions, CommitReset(s)
      PROVE  session'[t].plan \in planned'
  <2>1. session'[t] = session[t] /\ planned' = planned
    BY <1>3 DEF CommitReset, DurableType, Clearing
  <2> QED BY <2>1
<1>4. ASSUME Restart PROVE session'[t].plan \in planned'
  BY <1>4 DEF Restart, Idle
<1>5. ASSUME \/ \E p \in Plans : ThirtyMinutesPass(p) \/ \E w \in Works : StopAction(p, w)
             \/ EvictPlan \/ EvictConfirmation \/ UNCHANGED vars
      PROVE  session'[t].plan \in planned'
  <2>1. session' = session /\ planned' = planned
    BY <1>5 DEF ThirtyMinutesPass, StopAction, EvictPlan, EvictConfirmation, vars
  <2> QED BY <2>1
<1> QED BY <1>1, <1>2, <1>3, <1>4, <1>5 DEF Next

LEMMA PlansSavedKept ==
    ASSUME DurableType, PlansSaved, [Next]_vars PROVE PlansSaved'
<1> USE DEF durable, memory, history
<1>1. \A t \in Sessions : session'[t].step = "PERSIST" => session'[t].plan \in planned'
  BY SavedLater DEF PlansSaved
<1> DEFINE Goal == /\ issued' \subseteq planned'
                   /\ \A p \in issued' \ old' : Proposed[p] # {} => p \in planRow'
<1>2. ASSUME NEW s \in Sessions, PersistPlan(s) PROVE Goal
  <2>1. /\ issued' = issued \cup {session[s].plan} /\ planned' = planned /\ old' = old
        /\ planRow' = Persisted(session[s].plan)
    BY <1>2 DEF PersistPlan
  <2>2. session[s].plan \in planned
    BY <1>2 DEF PersistPlan, PlansSaved
  <2> QED BY <2>1, <2>2 DEF Persisted, PlansSaved
<1>3. ASSUME NEW s \in Sessions, NEW p \in Plans, RegisterPlan(s, p) PROVE Goal
  BY <1>3 DEF RegisterPlan, PlansSaved
<1>4. ASSUME NEW s \in Sessions, CommitReset(s) PROVE Goal
  BY <1>4 DEF CommitReset, PlansSaved
<1>5. ASSUME \/ \E s \in Sessions :
                  \/ \E p \in Plans : Confirm(s, p)
                  \/ ClaimPlan(s) \/ FixSelection(s)
                  \/ \E w \in Works : \/ FindAction(s, w)
                                     \/ \E stale \in BOOLEAN : CheckProposal(s, w, stale)
                                     \/ InsertAction(s, w)
                  \/ RecordResult(s) \/ RememberResult(s) \/ ClearRegistry(s)
             \/ \E p \in Plans : ThirtyMinutesPass(p) \/ \E w \in Works : StopAction(p, w)
             \/ EvictPlan \/ EvictConfirmation \/ Restart \/ UNCHANGED vars
      PROVE  Goal
  <2>1. UNCHANGED <<planRow, planned, issued, old>>
    BY <1>5 DEF Confirm, ReceiveConfirmation, ClaimPlan, FixSelection, FindAction,
                CheckProposal, InsertAction, RecordResult, RememberResult, ClearRegistry,
                ThirtyMinutesPass, StopAction, EvictPlan, EvictConfirmation, Restart, vars
  <2> QED BY <2>1 DEF PlansSaved
<1>6. Goal
  BY <1>2, <1>3, <1>4, <1>5 DEF Next, Proceed, PlansSaved, vars
<1> QED BY <1>1, <1>6 DEF PlansSaved

(* A plan whose identity the operator holds is found until it expires or   *)
(* the portfolio is replaced, whatever the registry evicts or a restart    *)
(* takes with it, and also when resets overlap requests; only the seed     *)
(* event must not lie in the future of the server's clock.                 *)
THEOREM IssuedPlansAreFound == ASSUME SeedInPast PROVE Spec => []IssuedPlanIsFound
<1>1. Init => DurableType /\ PlansSaved
  BY DEF Init, DurableType, PlansSaved, Idle
<1>2. DurableType /\ PlansSaved /\ [Next]_vars => (DurableType /\ PlansSaved)'
  BY DurableTypeKept, PlansSavedKept
<1>3. PlansSaved => IssuedPlanIsFound
  BY DEF PlansSaved, IssuedPlanIsFound, Found
<1> QED BY <1>1, <1>2, <1>3, PTL DEF Spec

-----------------------------------------------------------------------------
(* The registry. *)

LEMMA TailType ==
    ASSUME NEW E, NEW q \in Seq(E), q # <<>>
    PROVE  Tail(q) \in Seq(E) /\ Len(Tail(q)) = Len(q) - 1
  OBVIOUS

LEMMA AppendType ==
    ASSUME NEW E, NEW q \in Seq(E), NEW e \in E
    PROVE  Append(q, e) \in Seq(E) /\ Len(Append(q, e)) = Len(q) + 1
  OBVIOUS

Rest(queue, gone, n) ==
    CHOOSE kept : kept = [k \in 0 .. n |->
            IF k = 0 THEN <<>>
            ELSE IF queue[k] \in gone THEN kept[k - 1]
            ELSE Append(kept[k - 1], queue[k])]

LEMMA WithoutIs ==
    ASSUME NEW queue, NEW gone
    PROVE  Without(queue, gone) = Rest(queue, gone, Len(queue))[Len(queue)]
  BY DEF Without, Rest

LEMMA RestRule ==
    ASSUME NEW E, NEW queue \in Seq(E), NEW gone
    PROVE  LET kept == Rest(queue, gone, Len(queue)) IN
           /\ kept[0] = <<>>
           /\ \A k \in 1 .. Len(queue) :
                kept[k] = IF queue[k] \in gone THEN kept[k - 1]
                          ELSE Append(kept[k - 1], queue[k])
<1> DEFINE n == Len(queue)
           g == [kx \in (1 .. n) \X Seq(E) |->
                    IF queue[kx[1]] \in gone THEN kx[2] ELSE Append(kx[2], queue[kx[1]])]
<1>1. n \in Nat /\ <<>> \in Seq(E) /\ \A k \in 1 .. n : queue[k] \in E
  OBVIOUS
<1>2. ASSUME NEW k \in 1 .. n, NEW x \in Seq(E)
      PROVE  /\ g[<<k, x>>] = IF queue[k] \in gone THEN x ELSE Append(x, queue[k])
             /\ g[<<k, x>>] \in Seq(E)
  <2>1. <<k, x>> \in (1 .. n) \X Seq(E) /\ <<k, x>>[1] = k /\ <<k, x>>[2] = x
    OBVIOUS
  <2>2. g[<<k, x>>] = IF queue[k] \in gone THEN x ELSE Append(x, queue[k])
    BY <2>1
  <2>3. Append(x, queue[k]) \in Seq(E)
    BY <1>1, AppendType
  <2> QED BY <2>2, <2>3
<1> HIDE DEF g, n
<1>3. PICK f \in [0 .. n -> Seq(E)] : Iterates(f, n, <<>>, g)
  BY <1>1, <1>2, Recursion
<1>4. f = [k \in 0 .. n |->
            IF k = 0 THEN <<>>
            ELSE IF queue[k] \in gone THEN f[k - 1] ELSE Append(f[k - 1], queue[k])]
  <2>1. ASSUME NEW k \in 0 .. n, k # 0
        PROVE  f[k] = IF queue[k] \in gone THEN f[k - 1] ELSE Append(f[k - 1], queue[k])
    <3>1. k \in 1 .. n /\ k - 1 \in 0 .. n
      BY <1>1, <2>1
    <3>2. f[k] = g[<<k, f[k - 1]>>] /\ f[k - 1] \in Seq(E)
      BY <1>3, <3>1 DEF Iterates
    <3> QED BY <1>2, <3>1, <3>2
  <2>2. f[0] = <<>>
    BY <1>3 DEF Iterates
  <2>3. f = [k \in 0 .. n |-> f[k]]
    BY <1>3
  <2> QED BY <2>1, <2>2, <2>3
<1> DEFINE kept == Rest(queue, gone, n)
<1>5. kept = [k \in 0 .. n |->
                IF k = 0 THEN <<>>
                ELSE IF queue[k] \in gone THEN kept[k - 1] ELSE Append(kept[k - 1], queue[k])]
  BY <1>4 DEF Rest
<1> HIDE DEF kept
<1>6. kept[0] = <<>>
  <2>1. 0 \in 0 .. n
    BY <1>1
  <2> QED BY <1>5, <2>1
<1>7. ASSUME NEW k \in 1 .. n
      PROVE  kept[k] = IF queue[k] \in gone THEN kept[k - 1] ELSE Append(kept[k - 1], queue[k])
  <2>1. k \in 0 .. n /\ k # 0
    BY <1>1
  <2> QED BY <1>5, <2>1
<1> QED BY <1>6, <1>7 DEF kept, n

(* Taking entries out leaves a queue that is no longer, and is shorter when *)
(* there was one to take.                                                   *)
LEMMA WithoutShorter ==
    ASSUME NEW E, NEW queue \in Seq(E), NEW gone
    PROVE  /\ Without(queue, gone) \in Seq(E)
           /\ Len(Without(queue, gone)) <= Len(queue)
           /\ (\E i \in 1 .. Len(queue) : queue[i] \in gone) =>
                  Len(Without(queue, gone)) < Len(queue)
<1> DEFINE n == Len(queue)
           kept == Rest(queue, gone, n)
           Shorter(m) == /\ kept[m] \in Seq(E)
                         /\ Len(kept[m]) <= m
                         /\ (\E i \in 1 .. m : queue[i] \in gone) => Len(kept[m]) < m
           P == {m \in 0 .. n : Shorter(m)}
<1>1. n \in Nat /\ \A k \in 1 .. n : queue[k] \in E
  OBVIOUS
<1>2. /\ kept[0] = <<>>
      /\ \A k \in 1 .. n : kept[k] = IF queue[k] \in gone THEN kept[k - 1]
                                    ELSE Append(kept[k - 1], queue[k])
  BY RestRule
<1> HIDE DEF n, kept
<1>3. 0 \in P
  <2>1. kept[0] \in Seq(E) /\ Len(kept[0]) = 0
    BY <1>2
  <2>2. 0 \in 0 .. n /\ 1 .. 0 = {}
    BY <1>1
  <2> QED BY <2>1, <2>2
<1>4. ASSUME NEW m \in 0 .. n - 1, m \in P PROVE m + 1 \in P
  <2>1. m \in Nat /\ m + 1 \in 1 .. n /\ m + 1 \in 0 .. n /\ (m + 1) - 1 = m
    BY <1>1
  <2>2. kept[m + 1] = IF queue[m + 1] \in gone THEN kept[m] ELSE Append(kept[m], queue[m + 1])
    BY <1>2, <2>1
  <2>3. Shorter(m) /\ Len(kept[m]) \in Nat
    BY <1>4
  <2>4. CASE queue[m + 1] \in gone
    <3>1. kept[m + 1] = kept[m]
      BY <2>2, <2>4
    <3> QED BY <2>1, <2>3, <3>1
  <2>5. CASE queue[m + 1] \notin gone
    <3>1. kept[m + 1] \in Seq(E) /\ Len(kept[m + 1]) = Len(kept[m]) + 1
      BY <1>1, <2>1, <2>2, <2>3, <2>5, AppendType
    <3>2. (\E i \in 1 .. m + 1 : queue[i] \in gone) => \E i \in 1 .. m : queue[i] \in gone
      BY <2>1, <2>5
    <3> QED BY <2>1, <2>3, <3>1, <3>2
  <2> QED BY <2>4, <2>5
<1> HIDE DEF P
<1>5. \A m \in 0 .. n : m \in P
  BY <1>1, <1>3, <1>4, IntervalInduction
<1>6. n \in P
  BY <1>1, <1>5
<1>7. Without(queue, gone) = kept[n]
  BY WithoutIs DEF kept, n
<1> QED BY <1>6, <1>7 DEF P, n

LEMMA BoundedType ==
    ASSUME NEW E, NEW q \in Seq(E), Len(q) <= MaxPlans + 1
    PROVE  Bounded(q) \in Seq(E) /\ Len(Bounded(q)) <= MaxPlans
<1>1. MaxPlans \in Nat /\ Len(q) \in Nat /\ MaxPlans >= 1
  BY PlanConstants
<1>2. CASE Len(q) > MaxPlans
  <2>1. q # <<>>
    BY <1>1, <1>2
  <2> QED BY <1>1, <1>2, <2>1, TailType DEF Bounded
<1>3. CASE ~(Len(q) > MaxPlans)
  BY <1>1, <1>3 DEF Bounded
<1> QED BY <1>2, <1>3

Entries == [plan : Plans, outcome : Outcomes]

Registry ==
    /\ pending \in Seq(Plans) /\ Len(pending) <= MaxPlans
    /\ remembered \in Seq(Entries) /\ Len(remembered) <= MaxPlans

LEMMA RenewedType ==
    ASSUME Registry, NEW p \in Plans, NEW outcome \in Outcomes
    PROVE  /\ Renewed(p, outcome) \in Seq(Entries)
           /\ Len(Renewed(p, outcome)) <= MaxPlans + 1
           /\ Remembered(p) # {} => Len(Renewed(p, outcome)) <= MaxPlans
<1> DEFINE gone == [plan : {p}, outcome : Outcomes]
           rest == Without(remembered, gone)
<1>1. MaxPlans \in Nat /\ Len(remembered) \in Nat
  BY PlanConstants DEF Registry
<1>2. /\ rest \in Seq(Entries) /\ Len(rest) <= Len(remembered)
      /\ (\E i \in 1 .. Len(remembered) : remembered[i] \in gone) =>
             Len(rest) < Len(remembered)
  <2> HIDE DEF gone
  <2> QED BY WithoutShorter DEF Registry
<1>3. [plan |-> p, outcome |-> outcome] \in Entries
  BY DEF Entries
<1>4. ASSUME Remembered(p) # {} PROVE Len(rest) < Len(remembered)
  <2>1. PICK i \in 1 .. Len(remembered) : remembered[i].plan = p
    BY <1>4 DEF Remembered
  <2>2. remembered[i] \in Entries
    BY DEF Registry
  <2>3. remembered[i] \in gone
    BY <2>1, <2>2 DEF Entries
  <2> QED BY <1>2, <2>3
<1> HIDE DEF rest
<1>5. /\ Append(rest, [plan |-> p, outcome |-> outcome]) \in Seq(Entries)
      /\ Len(Append(rest, [plan |-> p, outcome |-> outcome])) = Len(rest) + 1
  BY <1>2, <1>3, AppendType
<1>6. Renewed(p, outcome) = Append(rest, [plan |-> p, outcome |-> outcome])
  BY DEF Renewed, rest
<1>7. Len(rest) \in Nat /\ Len(remembered) <= MaxPlans
  BY <1>2 DEF Registry
<1> QED BY <1>1, <1>2, <1>4, <1>5, <1>6, <1>7

Histories ==
    /\ planRow \in SUBSET planned
    /\ planned \in SUBSET Plans /\ issued \in SUBSET planned
    /\ expired \in SUBSET planned /\ old \in SUBSET planned
    /\ \A s \in Sessions : session[s].step = "PERSIST" => session[s].plan \in planned

TypeInv == DurableType /\ Registry /\ Histories

LEMMA RegistryKept ==
    ASSUME DurableType, Registry, issued \in SUBSET Plans, [Next]_vars PROVE Registry'
<1> USE DEF durable, memory, history
<1>1. MaxPlans \in Nat /\ <<>> \in Seq(Plans) /\ <<>> \in Seq(Entries) /\ Len(<<>>) = 0
  BY PlanConstants
<1>2. ASSUME NEW s \in Sessions, NEW p \in Plans, RegisterPlan(s, p) PROVE Registry'
  <2> DEFINE rest == Without(pending, expired)
  <2>1. rest \in Seq(Plans) /\ Len(rest) <= Len(pending)
    BY WithoutShorter DEF Registry
  <2> HIDE DEF rest
  <2>2. Append(rest, p) \in Seq(Plans) /\ Len(Append(rest, p)) = Len(rest) + 1
    BY <2>1, AppendType
  <2>3. Len(rest) \in Nat /\ Len(pending) \in Nat /\ Len(pending) <= MaxPlans
    BY <2>1 DEF Registry
  <2>4. Bounded(Append(rest, p)) \in Seq(Plans) /\ Len(Bounded(Append(rest, p))) <= MaxPlans
    <3> DEFINE q == Append(rest, p)
    <3>1. q \in Seq(Plans) /\ Len(q) = Len(rest) + 1
      BY <2>2
    <3> HIDE DEF q
    <3>2. Len(q) <= MaxPlans + 1
      BY <1>1, <2>1, <2>3, <3>1
    <3>3. Bounded(q) \in Seq(Plans) /\ Len(Bounded(q)) <= MaxPlans
      BY <3>1, <3>2, BoundedType
    <3> QED BY <3>3 DEF q
  <2>5. pending' = pending \/ pending' = Bounded(Append(rest, p))
    BY <1>2 DEF RegisterPlan, rest
  <2>6. remembered' = remembered
    BY <1>2 DEF RegisterPlan
  <2> QED BY <2>4, <2>5, <2>6 DEF Registry
<1>3. ASSUME NEW s \in Sessions, NEW p \in Plans, Confirm(s, p) PROVE Registry'
  <2>1. pending' = pending
    BY <1>3 DEF Confirm, ReceiveConfirmation
  <2>2. CASE Remembered(p) # {}
    <3>1. PICK i \in Remembered(p) : remembered' = Renewed(p, remembered[i].outcome)
      BY <1>3, <2>2 DEF Confirm, ReceiveConfirmation
    <3>2. i \in 1 .. Len(remembered)
      BY DEF Remembered
    <3>3. remembered[i] \in Entries
      BY <3>2 DEF Registry
    <3>4. remembered[i].outcome \in Outcomes
      BY <3>3 DEF Entries
    <3> QED BY <2>1, <2>2, <3>1, <3>4, RenewedType DEF Registry
  <2>3. CASE Remembered(p) = {}
    BY <1>3, <2>1, <2>3 DEF Confirm, ReceiveConfirmation, Registry
  <2> QED BY <2>2, <2>3
<1>4. ASSUME NEW s \in Sessions, ClaimPlan(s) PROVE Registry'
  <2> DEFINE gone == {session[s].plan}
             rest == Without(pending, gone)
  <2>1. pending' = rest /\ remembered' = remembered
    BY <1>4 DEF ClaimPlan
  <2>2. rest \in Seq(Plans) /\ Len(rest) <= Len(pending)
    <3> HIDE DEF gone
    <3> QED BY WithoutShorter DEF Registry
  <2> HIDE DEF rest
  <2>3. Len(rest) \in Nat /\ Len(pending) \in Nat /\ Len(pending) <= MaxPlans
    BY <2>2 DEF Registry
  <2>4. Len(rest) <= MaxPlans
    BY <1>1, <2>2, <2>3
  <2> QED BY <2>1, <2>2, <2>4 DEF Registry
<1>5. ASSUME NEW s \in Sessions, RememberResult(s) PROVE Registry'
  <2>1. session[s] \in Requests
    BY <1>5, RequestInProgress DEF RememberResult
  <2>2. session[s].plan \in Plans /\ session[s].outcome \in Outcomes
    BY <2>1 DEF Requests
  <2> DEFINE new == Renewed(session[s].plan, session[s].outcome)
  <2>3. new \in Seq(Entries) /\ Len(new) <= MaxPlans + 1
    BY <2>2, RenewedType
  <2>4. pending' = pending /\ remembered' = Bounded(new)
    BY <1>5 DEF RememberResult
  <2> HIDE DEF new
  <2> QED BY <2>3, <2>4, BoundedType DEF Registry
<1>6. ASSUME EvictPlan \/ EvictConfirmation PROVE Registry'
  <2>1. CASE EvictPlan
    <3>1. Tail(pending) \in Seq(Plans) /\ Len(Tail(pending)) = Len(pending) - 1
      BY <2>1, TailType DEF EvictPlan, Registry
    <3>2. pending' = Tail(pending) /\ remembered' = remembered /\ Len(pending) \in Nat
      BY <2>1 DEF EvictPlan, Registry
    <3> QED BY <1>1, <3>1, <3>2 DEF Registry
  <2>2. CASE EvictConfirmation
    <3>1. Tail(remembered) \in Seq(Entries) /\ Len(Tail(remembered)) = Len(remembered) - 1
      BY <2>2, TailType DEF EvictConfirmation, Registry
    <3>2. remembered' = Tail(remembered) /\ pending' = pending /\ Len(remembered) \in Nat
      BY <2>2 DEF EvictConfirmation, Registry
    <3> QED BY <1>1, <3>1, <3>2 DEF Registry
  <2> QED BY <1>6, <2>1, <2>2
<1>7. ASSUME Restart \/ \E s \in Sessions : ClearRegistry(s) PROVE Registry'
  <2>1. pending' = <<>> /\ remembered' = <<>>
    BY <1>7 DEF Restart, ClearRegistry
  <2> QED BY <1>1, <2>1 DEF Registry
<1>8. ASSUME \/ \E s \in Sessions :
                  \/ PersistPlan(s) \/ FixSelection(s) \/ RecordResult(s) \/ CommitReset(s)
                  \/ \E w \in Works : \/ FindAction(s, w) \/ InsertAction(s, w)
                                     \/ \E stale \in BOOLEAN : CheckProposal(s, w, stale)
             \/ \E p \in Plans : ThirtyMinutesPass(p) \/ \E w \in Works : StopAction(p, w)
             \/ UNCHANGED vars
      PROVE  Registry'
  <2>1. pending' = pending /\ remembered' = remembered
    BY <1>8 DEF PersistPlan, FixSelection, RecordResult, CommitReset, FindAction,
                InsertAction, CheckProposal, ThirtyMinutesPass, StopAction, vars
  <2> QED BY <2>1 DEF Registry
<1> QED BY <1>2, <1>3, <1>4, <1>5, <1>6, <1>7, <1>8 DEF Next, Proceed

LEMMA HistoriesKept ==
    ASSUME DurableType, Histories, [Next]_vars PROVE Histories'
<1> USE DEF durable, memory, history
<1> DEFINE Rows == /\ planRow' \in SUBSET planned'
                   /\ planned' \in SUBSET Plans /\ issued' \in SUBSET planned'
                   /\ expired' \in SUBSET planned' /\ old' \in SUBSET planned'
           Saving == \A s \in Sessions :
                        session'[s].step = "PERSIST" => session'[s].plan \in planned'
<1>0. Idle.step # "PERSIST" /\ Clearing.step # "PERSIST"
  BY DEF Idle, Clearing
<1>1. ASSUME NEW s \in Sessions, NEW p \in Plans, RegisterPlan(s, p) PROVE Rows /\ Saving
  <2>1. planned' = planned \cup {p} /\ session' = [session EXCEPT ![s] = Request("PERSIST", p, {})]
        /\ planRow' = planRow /\ issued' = issued /\ expired' = expired /\ old' = old
    BY <1>1 DEF RegisterPlan
  <2>2. Request("PERSIST", p, {}).plan = p
    BY DEF Request
  <2>3. Saving
    BY <2>1, <2>2 DEF Histories, DurableType
  <2> QED BY <2>1, <2>3 DEF Histories
<1>2. ASSUME NEW s \in Sessions, PersistPlan(s) PROVE Rows
  <2>1. session[s].plan \in planned
    BY <1>2 DEF PersistPlan, Histories
  <2> QED BY <1>2, <2>1 DEF PersistPlan, Persisted, Histories
<1>3. ASSUME NEW s \in Sessions, CommitReset(s) PROVE Rows /\ Saving
  BY <1>0, <1>3 DEF CommitReset, Histories, DurableType
<1>4. ASSUME NEW p \in Plans, ThirtyMinutesPass(p) PROVE Rows /\ Saving
  BY <1>4 DEF ThirtyMinutesPass, Histories
<1>5. ASSUME Restart PROVE Rows /\ Saving
  BY <1>0, <1>5 DEF Restart, Histories
<1>6. ASSUME \/ \E p \in Plans, w \in Works : StopAction(p, w)
             \/ EvictPlan \/ EvictConfirmation \/ UNCHANGED vars
      PROVE  Rows /\ Saving
  BY <1>6 DEF StopAction, EvictPlan, EvictConfirmation, vars, Histories
<1>7. ASSUME NEW s \in Sessions, Proceed(s) \/ \E p \in Plans : Confirm(s, p)
      PROVE  planned' = planned /\ (PersistPlan(s) \/ UNCHANGED <<planRow, issued, expired, old>>)
  BY <1>7 DEF Proceed, Confirm, ReceiveConfirmation, PersistPlan, ClaimPlan, FixSelection,
              FindAction, CheckProposal, InsertAction, RecordResult, RememberResult,
              ClearRegistry
<1>8. ASSUME NEW s \in Sessions, Proceed(s) \/ \E p \in Plans : Confirm(s, p)
      PROVE  Rows /\ Saving
  <2>1. Rows
    BY <1>2, <1>7, <1>8 DEF Histories
  <2>2. Saving
    BY <1>7, <1>8, SessionStep DEF Histories, DurableType
  <2> QED BY <2>1, <2>2
<1>9. Rows /\ Saving
  BY <1>1, <1>3, <1>4, <1>5, <1>6, <1>8 DEF Next
<1> QED BY <1>9 DEF Histories

(* The registry never holds more than its bound, although a confirmation   *)
(* that is asked for again is moved without a look at the bound, and what  *)
(* is issued, expired or replaced is what was planned.                     *)
THEOREM TypeCorrect == Spec => []TypeOK
<1>1. Init => TypeInv
  <2> SUFFICES ASSUME Init PROVE TypeInv
    OBVIOUS
  <2>1. DurableType
    BY DEF Init, DurableType, Idle
  <2>2. Registry
    BY PlanConstants DEF Init, Registry
  <2>3. Histories
    BY DEF Init, Histories, Idle
  <2> QED BY <2>1, <2>2, <2>3 DEF TypeInv
<1>2. TypeInv /\ [Next]_vars => TypeInv'
  <2> SUFFICES ASSUME TypeInv, [Next]_vars PROVE TypeInv'
    OBVIOUS
  <2>1. DurableType /\ Registry /\ Histories /\ issued \in SUBSET Plans
    BY DEF TypeInv, Histories
  <2> QED BY <2>1, DurableTypeKept, RegistryKept, HistoriesKept DEF TypeInv
<1>3. TypeInv => TypeOK
  BY DEF TypeInv, DurableType, Registry, Histories, Entries, TypeOK
<1> QED BY <1>1, <1>2, <1>3, PTL DEF Spec
=============================================================================
