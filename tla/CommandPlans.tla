---------------------------- MODULE CommandPlans ----------------------------
(***************************************************************************)
(* Command plans and their confirmation (commands/service.py,              *)
(* commands/executor.py).  A plan is kept twice: in the registry of the    *)
(* process, which is bounded and lost with it, and as a row of the audit   *)
(* trail.  Requests run in worker threads, so every commit, and every read *)
(* another commit can slip in after, is a step of its own.                 *)
(***************************************************************************)
EXTENDS Naturals, Sequences

CONSTANTS
    Plans,        \* plan identities (bound)
    Works,        \* work of the portfolio: a case and its recommended action
    Proposed,     \* the confirmation-required proposals of each plan
    Sessions,     \* requests that may be in progress at once (bound)
    MaxPlans,     \* max_plans of the registry
    MaxRestarts,  \* restarts of the process explored (bound)
    MaxResets,    \* resets of the portfolio explored (bound)
    SeedInPast,   \* the seed's fixed date lies before the server's clock
    ResetRaces,   \* a reset may overlap other requests
    NoSelection, NoAnswer

ASSUME PlanConstants ==
    /\ Works \subseteq Nat
    /\ Proposed \in [Plans -> SUBSET Works]
    /\ MaxPlans \in Nat \ {0}
    /\ \A S \in SUBSET Works : S # NoSelection
    /\ \A f \in [Works -> {"NONE", "EXECUTED", "FAILED"}] : f # NoAnswer
    /\ SeedInPast \in BOOLEAN /\ ResetRaces \in BOOLEAN

VARIABLES
    planRow,     \* plans with a COMMAND_PLAN_PREPARED row
    selection,   \* COMMAND_CONFIRMATION_RECEIVED: the selected proposals
    work,        \* recovery_actions with the identity of a proposal
    answer,      \* COMMAND_CONFIRMATION_RECORDED: the outcomes
    pending,     \* PLAN_REGISTRY._plans, oldest first
    remembered,  \* PLAN_REGISTRY._confirmations, oldest first
    session,     \* what each request in progress holds
    planned,     \* plans that were computed
    issued,      \* plans whose identity the operator received
    expired,     \* plans older than thirty minutes
    old,         \* plans computed before the last reset
    restarts, resets

durable == <<planRow, selection, work, answer>>
memory == <<pending, remembered>>
history == <<planned, issued, expired, old, restarts, resets>>
vars == <<durable, memory, session, history>>

NoOutcome == [w \in Works |-> "NONE"]
Outcomes == [Works -> {"NONE", "EXECUTED", "FAILED"}]
Idle == [step |-> "IDLE"]

\* todo is the work asked for, then the selected work not looked at yet.
Requests ==
    [step : {"PERSIST", "CLAIM", "SELECT", "FIND", "CHECK", "INSERT", "REMEMBER"},
     plan : Plans, todo : SUBSET Works, outcome : Outcomes]
Clearing == [step |-> "CLEAR"]

Request(step, p, todo) ==
    [step |-> step, plan |-> p, todo |-> todo, outcome |-> NoOutcome]

Init ==
    /\ planRow = {}
    /\ selection = [p \in Plans |-> NoSelection]
    /\ work = [p \in Plans |-> [w \in Works |-> "NONE"]]
    /\ answer = [p \in Plans |-> NoAnswer]
    /\ pending = <<>> /\ remembered = <<>>
    /\ session = [s \in Sessions |-> Idle]
    /\ planned = {} /\ issued = {} /\ expired = {} /\ old = {}
    /\ restarts = 0 /\ resets = 0

\* Without races no request starts before a reset has ended.
MayStart(s) ==
    /\ session[s] = Idle
    /\ ResetRaces \/ \A t \in Sessions : session[t] # Clearing

Finish(s) == session' = [session EXCEPT ![s] = Idle]

-----------------------------------------------------------------------------
(* run: the plan is registered, persisted, and its identity returned. *)

\* queue in its order, without the entries that are gone.
Without(queue, gone) ==
    LET kept[n \in 0 .. Len(queue)] ==
            IF n = 0 THEN <<>>
            ELSE IF queue[n] \in gone THEN kept[n - 1]
            ELSE Append(kept[n - 1], queue[n])
    IN kept[Len(queue)]

\* The newest entry last; beyond the limit the oldest is evicted.
Bounded(queue) == IF Len(queue) > MaxPlans THEN Tail(queue) ELSE queue

RegisterPlan(s, p) ==
    /\ MayStart(s)
    /\ p \notin planned
    /\ planned' = planned \cup {p}
    /\ pending' = IF Proposed[p] = {} THEN pending
                  ELSE Bounded(Append(Without(pending, expired), p))
    /\ session' = [session EXCEPT ![s] = Request("PERSIST", p, {})]
    /\ UNCHANGED <<durable, remembered, issued, expired, old, restarts, resets>>

\* Mutant: the registry of the process is the only place of a plan.
PersistedNowhere(p) == planRow
Persisted(p) == IF Proposed[p] = {} THEN planRow ELSE planRow \cup {p}

PersistPlan(s) ==
    LET p == session[s].plan IN
    /\ session[s].step = "PERSIST"
    /\ planRow' = Persisted(p)
    /\ issued' = issued \cup {p}
    /\ Finish(s)
    /\ UNCHANGED <<selection, work, answer, memory, planned, expired, old, restarts, resets>>

-----------------------------------------------------------------------------
(* confirm *)

Remembered(p) == {i \in 1 .. Len(remembered) : remembered[i].plan = p}

\* remembered without plan p, then p's entry as the newest.
Renewed(p, outcome) ==
    Append(Without(remembered, [plan : {p}, outcome : Outcomes]),
           [plan |-> p, outcome |-> outcome])

\* No identity selects every proposal; unknown ones are ignored.
Selected(p, wanted) == IF wanted = {} THEN Proposed[p] ELSE wanted \cap Proposed[p]

\* A remembered or recorded result is returned as it is.
ReceiveConfirmation(s, p, wanted) ==
    /\ MayStart(s)
    /\ p \in issued
    /\ IF Remembered(p) # {}
       THEN /\ \E i \in Remembered(p) :
                  remembered' = Renewed(p, remembered[i].outcome)
            /\ UNCHANGED session
       ELSE /\ session' = [session EXCEPT ![s] =
                  IF answer[p] # NoAnswer THEN Idle ELSE Request("CLAIM", p, Selected(p, wanted))]
            /\ UNCHANGED remembered
    /\ UNCHANGED <<durable, pending, history>>

Registered(p) == \E i \in 1 .. Len(pending) : pending[i] = p

\* Mutant: a plan that is not registered any more is not looked up.
FoundInRegistry(p) == Registered(p)
\* _load_plan refuses plans older than the portfolio's seed event.
Found(p) == Registered(p) \/ (p \in planRow /\ SeedInPast)

\* A plan that cannot be found or is expired answers 404 or 410.
ClaimPlan(s) ==
    LET p == session[s].plan IN
    /\ session[s].step = "CLAIM"
    /\ pending' = Without(pending, {p})
    /\ session' = [session EXCEPT ![s] =
            IF Found(p) /\ p \notin expired THEN [@ EXCEPT !.step = "SELECT"] ELSE Idle]
    /\ UNCHANGED <<durable, remembered, history>>

\* Mutant: each confirmation works on the selection it brought.
OwnSelection(p, asked) == asked
\* The first recorded request decides, whoever sent it.
DecidedSelection(p, asked) == IF selection[p] = NoSelection THEN asked ELSE selection[p]

FixSelection(s) ==
    LET p == session[s].plan
        asked == session[s].todo IN
    /\ session[s].step = "SELECT"
    /\ selection' = [selection EXCEPT ![p] = IF @ = NoSelection THEN asked ELSE @]
    /\ session' = [session EXCEPT ![s] =
            [@ EXCEPT !.step = "FIND", !.todo = DecidedSelection(p, asked)]]
    /\ UNCHANGED <<planRow, work, answer, memory, history>>

\* Mutant: the outcome keeps the status the proposal had in the plan.
SettleAsPlanned(s, w, result) ==
    session' = [session EXCEPT ![s] =
        [session[s] EXCEPT !.step = "FIND", !.todo = session[s].todo \ {w},
                           !.outcome[w] = "AWAITING_CONFIRMATION"]]
\* The request moves on to the next proposal with this outcome for w.
Settle(s, w, result) ==
    session' = [session EXCEPT ![s] =
        [session[s] EXCEPT !.step = "FIND", !.todo = session[s].todo \ {w},
                           !.outcome[w] = result]]

\* The proposals are taken in the plan's order.
IsNext(s, w) ==
    /\ w \in session[s].todo
    /\ \A v \in session[s].todo : w <= v

\* create_action: an action with this identity is returned unchanged.
FindAction(s, w) ==
    LET p == session[s].plan IN
    /\ session[s].step = "FIND"
    /\ IsNext(s, w)
    /\ IF work[p][w] # "NONE" THEN Settle(s, w, "EXECUTED")
       ELSE session' = [session EXCEPT ![s].step = "CHECK"]
    /\ UNCHANGED <<durable, memory, history>>

Duplicate(w) == \E q \in Plans : work[q][w] = "STANDING"

\* Whether the facts still advise the work is left open: stale.
\* A case that is gone (NOT_EXECUTABLE) counts as work that failed.
CheckProposal(s, w, stale) ==
    /\ session[s].step = "CHECK"
    /\ IsNext(s, w)
    /\ IF stale \/ Duplicate(w) THEN Settle(s, w, "FAILED")
       ELSE session' = [session EXCEPT ![s].step = "INSERT"]
    /\ UNCHANGED <<durable, memory, history>>

\* Mutant: an action that was made and stopped is made again.
MayInsertAgain(p, w) == work[p][w] # "STANDING"
\* The primary key of recovery_actions.
MayInsert(p, w) == work[p][w] = "NONE"

\* A second insertion fails, and the whole confirmation with it (500).
InsertAction(s, w) ==
    LET p == session[s].plan IN
    /\ session[s].step = "INSERT"
    /\ IsNext(s, w)
    /\ IF MayInsert(p, w)
       THEN work' = [work EXCEPT ![p][w] = "STANDING"] /\ Settle(s, w, "EXECUTED")
       ELSE UNCHANGED work /\ Finish(s)
    /\ UNCHANGED <<planRow, selection, answer, memory, history>>

\* The first recorded result stays.
RecordResult(s) ==
    LET p == session[s].plan IN
    /\ session[s].step = "FIND" /\ session[s].todo = {}
    /\ answer' = [answer EXCEPT ![p] = IF @ = NoAnswer THEN session[s].outcome ELSE @]
    /\ session' = [session EXCEPT ![s].step = "REMEMBER"]
    /\ UNCHANGED <<planRow, selection, work, memory, history>>

\* The registry remembers, and the operator receives, this request's result.
RememberResult(s) ==
    /\ session[s].step = "REMEMBER"
    /\ remembered' = Bounded(Renewed(session[s].plan, session[s].outcome))
    /\ Finish(s)
    /\ UNCHANGED <<durable, pending, history>>

-----------------------------------------------------------------------------
(* The rest of the system. *)

\* An operator rejects or cancels the action.
StopAction(p, w) ==
    /\ work[p][w] = "STANDING"
    /\ work' = [work EXCEPT ![p][w] = "STOPPED"]
    /\ UNCHANGED <<planRow, selection, answer, memory, session, history>>

ThirtyMinutesPass(p) ==
    /\ p \in issued \ expired
    /\ expired' = expired \cup {p}
    /\ UNCHANGED <<durable, memory, session, planned, issued, old, restarts, resets>>

\* Plans and confirmations of other operators push the oldest entry out.
EvictPlan ==
    /\ pending # <<>>
    /\ pending' = Tail(pending)
    /\ UNCHANGED <<durable, remembered, session, history>>

EvictConfirmation ==
    /\ remembered # <<>>
    /\ remembered' = Tail(remembered)
    /\ UNCHANGED <<durable, pending, session, history>>

\* The process stops, at any point of any request, and starts again.
Restart ==
    /\ restarts < MaxRestarts
    /\ restarts' = restarts + 1
    /\ pending' = <<>> /\ remembered' = <<>>
    /\ session' = [s \in Sessions |-> Idle]
    /\ UNCHANGED <<durable, planned, issued, expired, old, resets>>

\* reset_simulation: the rows are deleted and committed, then the registry is
\* cleared.
CommitReset(s) ==
    /\ resets < MaxResets
    /\ MayStart(s)
    /\ ResetRaces \/ \A t \in Sessions : session[t] = Idle
    /\ resets' = resets + 1
    /\ planRow' = {}
    /\ selection' = [p \in Plans |-> NoSelection]
    /\ work' = [p \in Plans |-> [w \in Works |-> "NONE"]]
    /\ answer' = [p \in Plans |-> NoAnswer]
    /\ old' = planned
    /\ session' = [session EXCEPT ![s] = Clearing]
    /\ UNCHANGED <<memory, planned, issued, expired, restarts>>

ClearRegistry(s) ==
    /\ session[s] = Clearing
    /\ pending' = <<>> /\ remembered' = <<>>
    /\ Finish(s)
    /\ UNCHANGED <<durable, history>>

-----------------------------------------------------------------------------
Confirm(s, p) == \E wanted \in SUBSET Works : ReceiveConfirmation(s, p, wanted)

\* A request in progress goes on.
Proceed(s) ==
    \/ PersistPlan(s)
    \/ ClaimPlan(s) \/ FixSelection(s)
    \/ \E w \in Works :
        \/ FindAction(s, w)
        \/ \E stale \in BOOLEAN : CheckProposal(s, w, stale)
        \/ InsertAction(s, w)
    \/ RecordResult(s) \/ RememberResult(s)
    \/ ClearRegistry(s)

Next ==
    \/ \E s \in Sessions :
        \/ \E p \in Plans : RegisterPlan(s, p) \/ Confirm(s, p)
        \/ Proceed(s)
        \/ CommitReset(s)
    \/ \E p \in Plans : ThirtyMinutesPass(p) \/ \E w \in Works : StopAction(p, w)
    \/ EvictPlan \/ EvictConfirmation \/ Restart

Spec == Init /\ [][Next]_vars

\* A request that was accepted runs to its end unless the process stops, and
\* the operator sends a confirmation again until it is answered.
FairSpec ==
    /\ Spec
    /\ \A s \in Sessions : WF_vars(Proceed(s))
    /\ \A p \in Plans : SF_vars(\E s \in Sessions : Confirm(s, p))

-----------------------------------------------------------------------------
TypeOK ==
    /\ planRow \in SUBSET planned
    /\ selection \in [Plans -> {NoSelection} \cup SUBSET Works]
    /\ work \in [Plans -> [Works -> {"NONE", "STANDING", "STOPPED"}]]
    /\ answer \in [Plans -> {NoAnswer} \cup Outcomes]
    /\ pending \in Seq(Plans) /\ Len(pending) <= MaxPlans
    /\ remembered \in Seq([plan : Plans, outcome : Outcomes])
    /\ Len(remembered) <= MaxPlans
    /\ session \in [Sessions -> Requests \cup {Idle, Clearing}]
    /\ planned \in SUBSET Plans /\ issued \in SUBSET planned
    /\ expired \in SUBSET planned /\ old \in SUBSET planned

(* A plan whose identity the operator holds can be confirmed until it      *)
(* expires or the portfolio is replaced, although the registry evicts the  *)
(* oldest plans, gives a plan out once, and is lost with the process.      *)
IssuedPlanIsFound ==
    \A p \in issued \ (expired \cup old) : Proposed[p] # {} => Found(p)

\* Read from the table of actions: the work of each plan that was done, and
\* what of it was stopped since.
Made == [p \in Plans |-> {w \in Works : work[p][w] # "NONE"}]
Stopped == [p \in Plans |-> {w \in Works : work[p][w] = "STOPPED"}]

Promise == INSTANCE ConfirmOnce WITH made <- Made, stopped <- Stopped,
                                     selection <- selection, answer <- answer

(* However confirmations of one plan overlap, fail halfway, are cut off by *)
(* a restart and sent again, the plan keeps the one promise of ConfirmOnce *)
(* about its selection, its actions and its recorded answer.               *)
ConfirmsOnce == Promise!Spec

(* A confirmation that was received and is sent again is answered in the   *)
(* end, from wherever an earlier attempt stopped, unless it expires or the *)
(* portfolio is replaced first.                                            *)
ConfirmationCompletes ==
    \A p \in Plans :
        selection[p] # NoSelection ~>
            answer[p] # NoAnswer \/ p \in expired \cup old

(* Replaying a confirmation gives the recorded result, before and after a  *)
(* restart: what the process remembers is what the audit trail holds.      *)
ReplaysAgree ==
    \A i \in 1 .. Len(remembered) :
        LET p == remembered[i].plan IN
        answer[p] # NoAnswer => remembered[i].outcome = answer[p]

(* A plan of the replaced portfolio makes no action in the new one.        *)
PlansDoNotSurviveReset ==
    [][\A p \in old, w \in Works :
        work[p][w] = "NONE" => work'[p][w] = "NONE"]_vars
=============================================================================
