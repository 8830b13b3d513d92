----------------------------- MODULE ConfirmOnce -----------------------------
(***************************************************************************)
(* What confirming a command plan promises (commands/service.py), with     *)
(* nothing of how it is kept: a plan has one selection of its work, each   *)
(* selected piece of work becomes at most one action of the plan, and the  *)
(* plan has one recorded answer, which reports no action that was never    *)
(* made.                                                                   *)
(***************************************************************************)
CONSTANTS
    Plans,   \* command plans
    Works,   \* pieces of work a plan can propose
    NoSelection, NoAnswer

VARIABLES
    selection,  \* the work the operator selected, of each plan
    made,       \* the work each plan made an action for
    stopped,    \* the work whose action was rejected or cancelled since
    answer      \* the recorded outcome of each plan

vars == <<selection, made, stopped, answer>>

Outcomes == [Works -> {"NONE", "EXECUTED", "FAILED"}]

Init ==
    /\ selection = [p \in Plans |-> NoSelection]
    /\ made = [p \in Plans |-> {}] /\ stopped = [p \in Plans |-> {}]
    /\ answer = [p \in Plans |-> NoAnswer]

Select(p, S) ==
    /\ selection[p] = NoSelection
    /\ selection' = [selection EXCEPT ![p] = S]
    /\ UNCHANGED <<made, stopped, answer>>

Make(p, w) ==
    /\ selection[p] # NoSelection
    /\ w \in selection[p] \ made[p]
    /\ made' = [made EXCEPT ![p] = @ \cup {w}]
    /\ UNCHANGED <<selection, stopped, answer>>

\* For good: nothing makes the action stand again.
Stop(p, w) ==
    /\ w \in made[p] \ stopped[p]
    /\ stopped' = [stopped EXCEPT ![p] = @ \cup {w}]
    /\ UNCHANGED <<selection, made, answer>>

\* Every selected piece of work has an outcome, no other has one.
Answer(p, outcome) ==
    /\ selection[p] # NoSelection
    /\ answer[p] = NoAnswer
    /\ \A w \in Works : outcome[w] # "NONE" <=> w \in selection[p]
    /\ \A w \in Works : outcome[w] = "EXECUTED" => w \in made[p]
    /\ answer' = [answer EXCEPT ![p] = outcome]
    /\ UNCHANGED <<selection, made, stopped>>

\* The portfolio is replaced, and every record with it.
Reset == Init'

Next ==
    \/ \E p \in Plans :
        \/ \E S \in SUBSET Works : Select(p, S)
        \/ \E w \in Works : Make(p, w) \/ Stop(p, w)
        \/ \E outcome \in Outcomes : Answer(p, outcome)
    \/ Reset

Spec == Init /\ [][Next]_vars
=============================================================================
