---------------------------- MODULE RecoverySystem ----------------------------
(***************************************************************************)
(* The operations that change the facts of one customer, one request at a  *)
(* time, except for two handlers that have several steps.  The simulator's *)
(* cycle draws a random number of events, each of which depends on what    *)
(* the earlier ones left; it works on its own copy of the facts and        *)
(* commits it whole or not at all.  The creation of a payment request      *)
(* waits for the provider between its checks and its commit, while other   *)
(* requests go on.                                                         *)
(***************************************************************************)
EXTENDS Portfolio

CONSTANTS
    Baseline,            \* the facts the deterministic seed writes
    MaxSecondary,        \* largest entry of secondary_count_population
    Requests,            \* payment requests (bound)
    ProviderStatuses,    \* statuses the configured provider may answer with
    EventIds,            \* provider event ids (bound)
    PaymentRefs,         \* provider payment references (bound)
    Analyses,            \* stored interpretations (bound)
    Communication,       \* the communication each analysis interprets
    CommunicationDate,   \* occurred_at of that communication
    FactTypes,           \* the candidate fact types each analysis contains
    CandidateAmount, CandidateDate,   \* proposed data of its promise
    RecentSignalDays     \* RECENT_SIGNAL_DAYS

CandidateFactTypes == {"ACTIVE_DISPUTE", "PAYMENT_PROMISE", "BROKEN_PROMISE",
                       "CUSTOMER_DELAY_REASON", "POSSIBLE_PAYMENT_CLAIM"}

ASSUME SystemConstants ==
    /\ Baseline \in Facts
    /\ Balanced(Baseline)      \* asserted by the seed itself, seed/portfolio.py:403
    /\ PromisesKept(Baseline)  \* its settled promises precede their payments, :271 and :335
    /\ MaxSecondary \in Nat
    /\ IsFiniteSet(Requests)
    /\ ProviderStatuses \cap {"NONE", "PENDING_PROVIDER", "PAID"} = {}
                               \* a new link is there, and has received nothing
    /\ FactTypes \in [Analyses -> SUBSET CandidateFactTypes]
    /\ CommunicationDate \in [Analyses -> 0 .. Baseline.date]
    /\ CandidateAmount \in [Analyses -> Nat]
    /\ CandidateDate \in [Analyses -> Nat]
    /\ RecentSignalDays \in Nat
    /\ \A i \in Invoices : Baseline.case[i] # "RESOLVED"  \* the seed opens no such case

VARIABLES
    db,        \* the committed facts
    tick,      \* the simulation cycle in progress, if any
    request,   \* external_payment_requests
    event,     \* provider_events
    analysed,  \* the analyses that have been stored
    accepted,  \* accepted_analysis_ids over all communications
    decision   \* the recorded decision on each candidate

vars == <<db, tick, request, event, analysed, accepted, decision>>

LiveStatuses == {"PENDING_PROVIDER", "ACTIVE", "PARTIALLY_PAID"}
PayableRequestStatuses == {"ACTIVE", "PARTIALLY_PAID"}
RequestStatuses == LiveStatuses \cup ProviderStatuses \cup {"NONE", "PAID", "FAILED"}
RequestRows ==
    [status : RequestStatuses, invoice : Invoices, amount : Nat, paid : Nat]
EventRows ==
    [id : EventIds, ref : PaymentRefs, request : Requests, amount : Nat]

Idle == [phase |-> "IDLE"]
UsedPairs == EventKinds \X (Invoices \cup Promises)
Cycles ==
    [phase : {"PRIMARY", "SECONDARY"}, work : Facts,
     used : SUBSET UsedPairs, left : 0 .. MaxSecondary]

NoRequests ==
    [r \in Requests |-> [status |-> "NONE", invoice |-> CHOOSE i \in Invoices : TRUE,
                         amount |-> 0, paid |-> 0]]
NoDecisions == [a \in Analyses |-> [t \in CandidateFactTypes |-> "NONE"]]

\* At most one analysis of a communication exists before anyone asks for a
\* fresh one; which analyses those are is left open.
FirstAnalyses ==
    {A \in SUBSET Analyses : \A a, b \in A :
        Communication[a] = Communication[b] => a = b}

Init ==
    /\ db = Baseline
    /\ tick = Idle
    /\ request = NoRequests
    /\ event = {}
    /\ analysed \in FirstAnalyses
    /\ accepted = {}
    /\ decision = NoDecisions

-----------------------------------------------------------------------------
(* The recommendation for a case, with the customer's accepted signals. *)

ClaimSignal == \E a \in accepted : "POSSIBLE_PAYMENT_CLAIM" \in FactTypes[a]

\* The summary's intent is PAYMENT_DELAY when no stronger candidate exists.
DelaySignal(date) ==
    \E a \in accepted :
        /\ date - CommunicationDate[a] <= RecentSignalDays
        /\ \/ "PAYMENT_PROMISE" \in FactTypes[a]
           \/ FactTypes[a] \in SUBSET {"CUSTOMER_DELAY_REASON", "BROKEN_PROMISE"}
              /\ "CUSTOMER_DELAY_REASON" \in FactTypes[a]

CurrentView(i) == CaseView(db, i, ClaimSignal, DelaySignal(db.date))
Recommended(i) == RecommendedAction(CurrentView(i))

-----------------------------------------------------------------------------
(* run_tick *)

BeginTick ==
    /\ tick = Idle
    /\ db.date < LastDate
    /\ tick' = [phase |-> "PRIMARY",
                work |-> ApplyOverdueRules([db EXCEPT !.date = @ + 1]),
                used |-> {}, left |-> 0]
    /\ UNCHANGED <<db, request, event, analysed, accepted, decision>>

\* One generated event, after which left events may still follow.
GenerateEvent(left) ==
    \E kind \in AvailableKinds(tick.work, tick.used) :
      \E x \in Targets(tick.work, tick.used, kind) :
        \E g \in EventOutcomes(tick.work, kind, x) :
          /\ tick' = [phase |-> "SECONDARY", work |-> g,
                      used |-> tick.used \cup Consumed(tick.work, g, kind, x),
                      left |-> left]
          /\ UNCHANGED <<db, request, event, analysed, accepted, decision>>

GeneratePrimary ==
    /\ tick.phase = "PRIMARY"
    /\ \E secondary \in 0 .. MaxSecondary : GenerateEvent(secondary)

GenerateSecondary ==
    /\ tick.phase = "SECONDARY"
    /\ tick.left > 0
    /\ GenerateEvent(tick.left - 1)

\* No primary event is valid: ValueError, 409, nothing of the cycle is kept.
TickConflict ==
    /\ tick.phase = "PRIMARY"
    /\ AvailableKinds(tick.work, tick.used) = {}
    /\ tick' = Idle
    /\ UNCHANGED <<db, request, event, analysed, accepted, decision>>

CommitTick ==
    /\ tick.phase = "SECONDARY"
    /\ tick.left = 0 \/ AvailableKinds(tick.work, tick.used) = {}
    /\ db' = Synchronize(tick.work)
    /\ tick' = Idle
    /\ UNCHANGED <<request, event, analysed, accepted, decision>>

\* The process stops, or the request fails, before the commit.
AbortTick ==
    /\ tick # Idle
    /\ tick' = Idle
    /\ UNCHANGED <<db, request, event, analysed, accepted, decision>>

-----------------------------------------------------------------------------
(* reset_simulation: every row is deleted, the seed is written again.  A   *)
(* request that is being created refers to its case: the delete of the     *)
(* case waits for it, and fails when it was committed.                     *)

ResetSimulation ==
    /\ tick = Idle
    /\ \A r \in Requests : request[r].status # "PENDING_PROVIDER"
    /\ db' = Baseline
    /\ request' = NoRequests
    /\ event' = {}
    /\ analysed' \in FirstAnalyses
    /\ accepted' = {}
    /\ decision' = NoDecisions
    /\ UNCHANGED tick

\* python -m app.recovery: the synchronization on its own.
SynchronizeCommand ==
    /\ tick = Idle
    /\ db' = Synchronize(db)
    /\ UNCHANGED <<tick, request, event, analysed, accepted, decision>>

-----------------------------------------------------------------------------
(* payments/service.py *)

\* The guards of create_external_payment_request; the values the operator
\* reviewed equal the current ones, or the request is refused.  The duplicate
\* check sees committed rows: a PENDING_PROVIDER row exists only inside the
\* transaction that inserted it.
MayRequestPayment(i) ==
    /\ i \in Cases(db)
    /\ db.case[i] \notin {"AWAITING_CUSTOMER", "PROMISE_MONITORING",
                          "RESOLVED", "CLOSED"}
    /\ db.outstanding[i] > 0
    /\ db.status[i] # "PAID"
    /\ Recommended(i) \in OutreachActions
    /\ RecommendationBlockers(CurrentView(i)) = {}
    /\ \A r \in Requests :
        request[r].invoice = i =>
            request[r].status \notin LiveStatuses \ {"PENDING_PROVIDER"}

\* The checks, and the row that is flushed before the provider is called.
CreatePaymentRequest(r, i, amount) ==
    /\ tick = Idle
    /\ request[r].status = "NONE"
    /\ MayRequestPayment(i)
    /\ amount <= db.outstanding[i]
    /\ request' = [request EXCEPT ![r] =
            [status |-> "PENDING_PROVIDER", invoice |-> i, amount |-> amount, paid |-> 0]]
    /\ UNCHANGED <<db, tick, event, analysed, accepted, decision>>

\* The provider answers with a status, or fails and the request is kept as
\* FAILED; nothing is checked again before the commit.
CommitPaymentRequest(r) ==
    /\ request[r].status = "PENDING_PROVIDER"
    /\ \E answer \in ProviderStatuses \cup {"FAILED"} :
          request' = [request EXCEPT ![r].status = answer]
    /\ UNCHANGED <<db, tick, event, analysed, accepted, decision>>

\* The process stops, or the handler fails otherwise, before the commit.
AbortPaymentRequest(r) ==
    /\ request[r].status = "PENDING_PROVIDER"
    /\ request' = [request EXCEPT ![r] = NoRequests[r]]
    /\ UNCHANGED <<db, tick, event, analysed, accepted, decision>>

\* Mutant: a replay is recognised by its event identity only.
KnownEventById(id, ref) == \E e \in event : e.id = id
KnownEvent(id, ref) == \E e \in event : e.id = id \/ e.ref = ref

\* Mutant: a request is complete only when its invoice is settled.
AfterPaymentOfInvoice(row, amount) ==
    [row EXCEPT !.paid = @ + amount,
                !.status = IF db.outstanding[row.invoice] = amount
                           THEN "PAID" ELSE "PARTIALLY_PAID"]
AfterPayment(row, amount) ==
    [row EXCEPT !.paid = @ + amount,
                !.status = IF row.paid + amount = row.amount
                           THEN "PAID" ELSE "PARTIALLY_PAID"]

\* A known event only adds a duplicate audit.  A "paid" event must clear the
\* request and a "partially paid" one must not, so that every amount up to
\* the remainder is valid with one of the two types.
IngestPaymentEvent(r, id, ref, amount, date) ==
    LET row == request[r]
        i == row.invoice IN
    /\ tick = Idle
    /\ ~KnownEvent(id, ref)
    /\ row.status \in PayableRequestStatuses
    /\ date <= db.date
    /\ amount <= db.outstanding[i]
    /\ amount <= row.amount - row.paid
    /\ db' = Synchronize(ReceivePayment(db, i, amount, date))
    /\ request' = [request EXCEPT ![r] = AfterPayment(@, amount)]
    /\ event' = event \cup {[id |-> id, ref |-> ref, request |-> r, amount |-> amount]}
    /\ UNCHANGED <<tick, analysed, accepted, decision>>

-----------------------------------------------------------------------------
(* Interpretations and their review. *)

\* A fresh analysis replaces the communication's metadata, and with it the
\* decisions recorded there.
AnalyzeCommunication(a) ==
    /\ tick = Idle
    /\ a \notin analysed
    /\ analysed' = analysed \cup {a}
    /\ accepted' = {b \in accepted : Communication[b] # Communication[a]}
    /\ UNCHANGED <<db, tick, request, event, decision>>

\* The provider is unavailable: the metadata is replaced by the error.
AnalysisFails(a) ==
    /\ tick = Idle
    /\ a \in accepted
    /\ accepted' = {b \in accepted : Communication[b] # Communication[a]}
    /\ UNCHANGED <<db, tick, request, event, analysed, decision>>

\* What accepting a candidate of type t persists on invoice i.
AcceptedFacts(a, t, i) ==
    CASE t = "ACTIVE_DISPUTE" -> {OpenDispute(db, i)}
      [] t = "PAYMENT_PROMISE" ->
            {AddPromise(db, CHOOSE p \in FreePromiseRows(db) : TRUE, i,
                        CandidateAmount[a], CandidateDate[a], CommunicationDate[a]) :
                x \in {y \in {i} : /\ FreePromiseRows(db) # {}
                                   /\ CandidateAmount[a] \in 1 .. db.outstanding[i]
                                   /\ CandidateDate[a] >= db.date}}
      [] t = "BROKEN_PROMISE" ->
            {[db EXCEPT !.promise[p].status = "BROKEN"] :
                p \in {q \in PromisesOn(db, i) : db.promise[q].status = "ACTIVE"}}
      [] OTHER -> {db}

\* A candidate that already has a decision only replays it.
AcceptCandidate(a, t, i) ==
    /\ tick = Idle
    /\ a \in analysed /\ t \in FactTypes[a] /\ i \in Cases(db)
    /\ decision[a][t] = "NONE"
    /\ \E g \in AcceptedFacts(a, t, i) : db' = Synchronize(g)
    /\ decision' = [decision EXCEPT ![a][t] = "ACCEPT"]
    /\ accepted' = accepted \cup {a}
    /\ UNCHANGED <<tick, request, event, analysed>>

RejectCandidate(a, t, i) ==
    /\ tick = Idle
    /\ a \in analysed /\ t \in FactTypes[a] /\ i \in Cases(db)
    /\ decision[a][t] = "NONE"
    /\ decision' = [decision EXCEPT ![a][t] = "REJECT"]
    /\ UNCHANGED <<db, tick, request, event, analysed, accepted>>

-----------------------------------------------------------------------------
RunTick == BeginTick \/ GeneratePrimary \/ GenerateSecondary \/ TickConflict \/ CommitTick

PaymentStep ==
    \E r \in Requests :
        \/ \E i \in Invoices :
              \E amount \in 1 .. db.outstanding[i] : CreatePaymentRequest(r, i, amount)
        \/ CommitPaymentRequest(r)
        \/ AbortPaymentRequest(r)
        \/ \E id \in EventIds, ref \in PaymentRefs, date \in Dates :
              \E amount \in 1 .. request[r].amount :
                  IngestPaymentEvent(r, id, ref, amount, date)

ReviewStep ==
    \E a \in Analyses :
        \/ AnalyzeCommunication(a)
        \/ AnalysisFails(a)
        \/ \E t \in FactTypes[a], i \in Invoices :
              AcceptCandidate(a, t, i) \/ RejectCandidate(a, t, i)

Next ==
    RunTick \/ AbortTick \/ ResetSimulation \/ SynchronizeCommand
    \/ PaymentStep \/ ReviewStep

Spec == Init /\ [][Next]_vars

\* Cycles keep being run: the dashboard's automatic mode starts one at every
\* interval, and after a failure, which switches it off, the operator starts
\* one again.  A cycle may fail now and then, but one that is started again
\* and again does not fail every time at the same point.
CyclesGoOn ==
    /\ WF_vars(BeginTick)
    /\ SF_vars(GeneratePrimary)
    /\ SF_vars(GenerateSecondary)
    /\ SF_vars(CommitTick)

-----------------------------------------------------------------------------
TypeOK ==
    /\ db \in Facts
    /\ tick \in Cycles \cup {Idle}
    /\ request \in [Requests -> RequestRows]
    /\ event \in SUBSET EventRows
    /\ analysed \in SUBSET Analyses
    /\ accepted \in SUBSET analysed
    /\ decision \in [Analyses -> [CandidateFactTypes -> {"NONE", "ACCEPT", "REJECT"}]]

(* No operation creates or destroys money: in the committed facts and in   *)
(* every intermediate copy of a cycle, an invoice's balance and the        *)
(* payments recorded for it add up to its original amount.                 *)
BalanceConserved == Balanced(db) /\ (tick # Idle => Balanced(tick.work))

(* Every committed change of facts leaves the stored case states in line   *)
(* with what the evaluator derives from those facts, whichever handler     *)
(* made it; a second synchronization would change nothing.                 *)
CaseStatesCurrent ==
    db = Baseline \/ \A i \in Cases(db) : db.case[i] = DerivedCaseState(db, i)

(* A case that reached RESOLVED is never worked again: no cycle, provider  *)
(* event or accepted interpretation reopens it, only a reset does.         *)
ResolvedStaysResolved ==
    [][db' # Baseline =>
        \A i \in Invoices : db.case[i] = "RESOLVED" => db'.case[i] = "RESOLVED"]_vars

PaidThrough(i) ==
    SumFunctionOnSet([r \in Requests |-> request[r].paid],
                     {r \in Requests : request[r].status # "NONE" /\ request[r].invoice = i})

AppliedTo(r) == {e \in event : e.request = r}

(* What a payment request says it received is exactly what its provider    *)
(* events applied; it never exceeds what was requested, the request is     *)
(* PAID when and only when it is complete, and the requests of an invoice  *)
(* together never claim more than the payments the invoice received: of    *)
(* events handled one after the other, as here.  What is left of it when   *)
(* they overlap is PaidIsReceived of ProviderEvents.                       *)
RequestAccounting ==
    /\ \A r \in Requests :
        /\ request[r].paid = SumFunction([e \in AppliedTo(r) |-> e.amount])
        /\ request[r].paid <= request[r].amount
        /\ request[r].status # "NONE" =>
              (request[r].status = "PAID" <=> request[r].paid = request[r].amount)
    /\ \A i \in Invoices : PaidThrough(i) <= TotalPaid(db, i)

(* A provider event is applied at most once, whether the replay repeats    *)
(* the event identity or only the payment reference, of events that do not *)
(* overlap; those that do are in AppliedOnce of ProviderEvents.            *)
EventsAppliedOnce ==
    \A e, d \in event : e.id = d.id \/ e.ref = d.ref => e = d

(* A payment request is begun only while the invoice is overdue and        *)
(* undisputed, no promise on it is running, the customer may be contacted  *)
(* and has not claimed to have paid, and no request of the case that is    *)
(* already known can still take a payment.                                 *)
RequestsOnlyWhenRecoverable ==
    [][\A r \in Requests :
        request[r].status = "NONE" /\ request'[r].status # "NONE" =>
            LET i == request'[r].invoice IN
            /\ InvoiceStateOf(db, i) = "OVERDUE"
            /\ db.status[i] # "DISPUTED"
            /\ \A p \in PromisesOn(db, i) : PromiseStateOf(db, p) # "ACTIVE"
            /\ Consent = "OPTED_IN" /\ ChannelAvailable
            /\ ~ClaimSignal
            /\ \A s \in Requests \ {r} :
                  request[s].status \in PayableRequestStatuses => request[s].invoice # i]_vars

(* A promise the simulator settled was really paid: the payments since it  *)
(* was made cover it, now and later.                                       *)
StoredFulfilmentIsReal ==
    \A p \in Promises :
        db.promise[p].status = "FULFILLED" => PromiseStateOf(db, p) = "FULFILLED"

(* A cycle finds no event only when no invoice has a balance left: as long *)
(* as something is owed, the simulator is never refused.                   *)
CycleFindsAnEvent ==
    tick.phase = "PRIMARY" /\ AvailableKinds(tick.work, tick.used) = {} =>
        \A i \in Invoices : tick.work.outstanding[i] = 0

(* Inside a cycle a disputed document receives no payment, and a settled   *)
(* one keeps its status and its promises.                                  *)
DocumentsProtected ==
    [][tick # Idle /\ tick' # Idle => \A i \in Invoices :
        /\ tick.work.status[i] = "DISPUTED" =>
              tick'.work.outstanding[i] = tick.work.outstanding[i]
        /\ tick.work.outstanding[i] = 0 =>
              /\ tick'.work.status[i] = tick.work.status[i]
              /\ \A p \in PromisesOn(tick.work, i) :
                    tick'.work.promise[p] = tick.work.promise[p]]_vars

(* A case does not wait for a promise for ever: with cycles that go on, it *)
(* leaves promise monitoring, at the latest once every promise is past its *)
(* date and the invoice is overdue.  Promises for the last explored date   *)
(* or later are excepted, because no later cycle is explored.              *)
PromiseMonitoringEnds ==
    \A i \in Invoices :
        db.case[i] = "PROMISE_MONITORING" ~>
            \/ db.case[i] # "PROMISE_MONITORING"
            \/ \E p \in PromisesOn(db, i) : db.promise[p].due >= LastDate

-----------------------------------------------------------------------------
(* What the documentation says and the code does not keep. *)

(* Outside a cycle a dispute on an unpaid invoice is never lifted: nothing *)
(* but a recorded resolution ends the hold.                                *)
DisputeOutlivesPayment ==
    [][tick = Idle /\ db' # Baseline => \A i \in Invoices :
        db.status[i] = "DISPUTED" /\ db'.outstanding[i] > 0 =>
            db'.status[i] = "DISPUTED"]_vars

(* A promise that an operator or the simulator marked broken no longer     *)
(* counts as active.                                                       *)
BrokenPromiseCounts ==
    \A p \in Promises :
        db.promise[p].status = "BROKEN" => PromiseStateOf(db, p) # "ACTIVE"

(* A payment claim the operator rejected puts no case under claim review.  *)
RejectedClaimHasNoEffect ==
    (\E i \in Cases(db) : Recommended(i) = "REVIEW_PAYMENT_CLAIM") =>
        \E a \in accepted :
            /\ "POSSIBLE_PAYMENT_CLAIM" \in FactTypes[a]
            /\ decision[a]["POSSIBLE_PAYMENT_CLAIM"] # "REJECT"

(* At most one request of a case can still take a payment, which is what   *)
(* the duplicate check of payments/service.py:55-60 is for.                *)
OneLiveRequest ==
    \A r, s \in Requests :
        /\ request[r].status \in PayableRequestStatuses
        /\ request[s].status \in PayableRequestStatuses
        /\ request[r].invoice = request[s].invoice
        => r = s

(* A case has at most one request that is neither paid nor failed.         *)
OneOpenRequest ==
    \A r, s \in Requests :
        /\ request[r].status \notin {"NONE", "PAID", "FAILED"}
        /\ request[s].status \notin {"NONE", "PAID", "FAILED"}
        /\ request[r].invoice = request[s].invoice
        => r = s
=============================================================================
