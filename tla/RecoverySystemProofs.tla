------------------------ MODULE RecoverySystemProofs ------------------------
(***************************************************************************)
(* Proofs about RecoverySystem, for any portfolio of one customer, any     *)
(* number of requests, events and interpretations, and any number of       *)
(* events in a cycle.  The last part is about money: its totals are sums   *)
(* over the dates, the events and the requests, and FiniteInduction has    *)
(* the facts about sums.                                                   *)
(***************************************************************************)
EXTENDS RecoverySystem, FiniteInduction

-----------------------------------------------------------------------------
(* The operators of Portfolio keep facts well formed.                      *)

LEMMA DesiredCaseStateType ==
    ASSUME NEW v, v.state \in RecoveryStates
    PROVE  DesiredCaseState(v) \in RecoveryStates
  BY DEF DesiredCaseState, RecoveryStates

LEMMA DerivedCaseStateType ==
    ASSUME NEW f \in Facts, NEW i \in Cases(f)
    PROVE  DerivedCaseState(f, i) \in RecoveryStates
<1>1. f.case[i] \in RecoveryStates
  BY DEF Facts, Cases
<1>2. CaseView(f, i, FALSE, FALSE).state = f.case[i]
  BY DEF CaseView
<1> QED BY <1>1, <1>2, DesiredCaseStateType DEF DerivedCaseState

LEMMA SynchronizeType ==
    ASSUME NEW f \in Facts PROVE Synchronize(f) \in Facts
<1>1. \A i \in Cases(f) : DerivedCaseState(f, i) \in RecoveryStates
  BY DerivedCaseStateType
<1> QED BY <1>1 DEF Synchronize, Facts

LEMMA ReceivePaymentType ==
    ASSUME NEW f \in Facts, NEW i \in Invoices, NEW amount \in Nat,
           amount <= f.outstanding[i], NEW date \in Dates
    PROVE  ReceivePayment(f, i, amount, date) \in Facts
<1>1. f.outstanding[i] \in Nat /\ f.paidOn[i] \in [Dates -> Nat]
  BY DEF Facts
<1>2. f.outstanding[i] - amount \in Nat /\ f.paidOn[i][date] + amount \in Nat
  BY <1>1
<1>3. [f.paidOn[i] EXCEPT ![date] = @ + amount] \in [Dates -> Nat]
  BY <1>1, <1>2
<1> QED BY <1>2, <1>3 DEF ReceivePayment, Facts, InvoiceStatuses

LEMMA FulfilPromisesType ==
    ASSUME NEW f \in Facts, NEW i, NEW amount
    PROVE  FulfilPromises(f, i, amount) \in Facts
<1>1. \A p \in Promises : [f.promise[p] EXCEPT !.status = "FULFILLED"] \in PromiseRows
  BY DEF Facts, PromiseRows, PromiseStatuses
<1> QED BY <1>1 DEF FulfilPromises, Facts

LEMMA AddPromiseType ==
    ASSUME NEW f \in Facts, NEW p \in Promises, NEW i \in Invoices,
           NEW amount \in Nat, NEW due \in Nat, NEW source \in Nat
    PROVE  AddPromise(f, p, i, amount, due, source) \in Facts
  BY DEF AddPromise, Facts, PromiseRows, PromiseStatuses

LEMMA OpenDisputeType ==
    ASSUME NEW f \in Facts, NEW i \in Invoices
    PROVE  OpenDispute(f, i) \in Facts
  BY DEF OpenDispute, Facts, InvoiceStatuses

LEMMA ResolveDisputeType ==
    ASSUME NEW f \in Facts, NEW i \in Invoices
    PROVE  ResolveDispute(f, i) \in Facts
  BY DEF ResolveDispute, Facts, InvoiceStatuses

LEMMA BreakPromiseType ==
    ASSUME NEW f \in Facts, f.date >= 1, NEW p \in Promises
    PROVE  BreakPromise(f, p) \in Facts
<1>1. f.date - 1 \in Nat
  BY PortfolioConstants DEF Facts, Dates
<1> DEFINE row == [f.promise[p] EXCEPT !.status = "BROKEN", !.due = f.date - 1]
<1>2. row \in PromiseRows
  BY <1>1 DEF Facts, PromiseRows, PromiseStatuses
<1>3. BreakPromise(f, p) = [f EXCEPT !.promise = [f.promise EXCEPT ![p] = row]]
  BY DEF BreakPromise
<1> HIDE DEF row
<1>4. [f.promise EXCEPT ![p] = row] \in [Promises -> PromiseRows]
  BY <1>2 DEF Facts
<1> QED BY <1>3, <1>4 DEF Facts

LEMMA OpenCaseType ==
    ASSUME NEW f \in Facts, NEW i \in Invoices
    PROVE  OpenCase(f, i) \in Facts
  BY DEF OpenCase, Facts, RecoveryStates, Priorities

LEMMA ApplyOverdueRulesType ==
    ASSUME NEW f \in Facts PROVE ApplyOverdueRules(f) \in Facts
  BY DEF ApplyOverdueRules, Facts, InvoiceStatuses

-----------------------------------------------------------------------------
(* The simulator's events.                                                 *)

LEMMA FractionalAmountsType ==
    ASSUME NEW balance \in Nat \ {0}, NEW low, NEW high,
           NEW a \in FractionalAmounts(balance, low, high)
    PROVE  a \in 1 .. balance
  BY DEF FractionalAmounts, Smallest, Largest

LEMMA PartialAmountsType ==
    ASSUME NEW balance \in Nat \ {0}, NEW a \in PartialAmounts(balance)
    PROVE  a \in 1 .. balance
  BY FractionalAmountsType DEF PartialAmounts, Largest

LEMMA TargetsType ==
    ASSUME NEW f \in Facts, NEW used, NEW kind \in EventKinds,
           NEW x \in Targets(f, used, kind)
    PROVE  /\ kind = "PROMISE_BROKEN" => x \in BreakablePromises(f)
           /\ kind = "DISPUTE_RESOLVED" => x \in DisputedUnpaid(f)
           /\ kind = "PROMISE_CREATED" =>
                 /\ x \in Payable(f) /\ FreePromiseRows(f) # {}
                 /\ ~HasActivePromise(f, x)
           /\ kind \notin {"PROMISE_BROKEN", "DISPUTE_RESOLVED"} => x \in Payable(f)
  BY DEF Targets, EventKinds

LEMMA SimulatedPaymentType ==
    ASSUME NEW f \in Facts, NEW i \in Invoices, NEW a \in 1 .. f.outstanding[i]
    PROVE  SimulatedPayment(f, i, a) \in Facts
<1>1. f.outstanding[i] \in Nat /\ f.date \in Dates
  BY DEF Facts
<1>2. a \in Nat /\ a <= f.outstanding[i]
  BY <1>1
<1> QED BY <1>1, <1>2, ReceivePaymentType, FulfilPromisesType, OpenCaseType
        DEF SimulatedPayment

(* An event leaves facts, of the same date.                                *)
LEMMA OutcomeType ==
    ASSUME NEW f \in Facts, f.date >= 1, NEW used, NEW kind \in EventKinds,
           NEW x \in Targets(f, used, kind), NEW g \in EventOutcomes(f, kind, x)
    PROVE  g \in Facts
<1>0. f.date \in Nat
  BY PortfolioConstants DEF Facts, Dates
<1>1. kind \notin {"PROMISE_BROKEN", "DISPUTE_RESOLVED"} =>
        /\ x \in Invoices /\ f.outstanding[x] \in Nat \ {0}
        /\ f.outstanding[x] \in 1 .. f.outstanding[x]
  BY TargetsType DEF Payable, Facts
<1>2. CASE kind = "PARTIAL_PAYMENT"
  <2>1. PICK a \in PartialAmounts(f.outstanding[x]) : g = SimulatedPayment(f, x, a)
    BY <1>2 DEF EventOutcomes
  <2> QED BY <1>1, <1>2, <2>1, PartialAmountsType, SimulatedPaymentType
<1>3. CASE kind = "FULL_PAYMENT"
  <2>1. g = SimulatedPayment(f, x, f.outstanding[x])
    BY <1>3 DEF EventOutcomes
  <2> QED BY <1>1, <1>3, <2>1, SimulatedPaymentType
<1>4. CASE kind = "PROMISE_CREATED"
  <2> DEFINE p == CHOOSE q \in FreePromiseRows(f) : TRUE
  <2>1. p \in Promises
    BY <1>4, TargetsType DEF FreePromiseRows
  <2>2. PICK a \in FractionalAmounts(f.outstanding[x], 20, 75),
             days \in PromiseDaysMin .. PromiseDaysMax :
                g = OpenCase(AddPromise(f, p, x, a, f.date + days, f.date), x)
    BY <1>4 DEF EventOutcomes
  <2>3. a \in Nat /\ days \in Nat
    BY <1>1, <1>4, FractionalAmountsType, PortfolioConstants
  <2> HIDE DEF p
  <2>4. AddPromise(f, p, x, a, f.date + days, f.date) \in Facts
    BY <1>0, <1>1, <1>4, <2>1, <2>3, AddPromiseType
  <2> QED BY <1>1, <1>4, <2>2, <2>4, OpenCaseType
<1>5. CASE kind = "PROMISE_BROKEN"
  <2>1. x \in Promises /\ f.promise[x].invoice \in Invoices
    BY <1>5, TargetsType DEF BreakablePromises, Facts, PromiseRows
  <2>2. g = OpenCase(BreakPromise(f, x), f.promise[x].invoice)
    BY <1>5 DEF EventOutcomes
  <2> QED BY <2>1, <2>2, BreakPromiseType, OpenCaseType
<1>6. CASE kind = "DISPUTE_OPENED"
  <2>1. g = OpenCase(OpenDispute(f, x), x)
    BY <1>6 DEF EventOutcomes
  <2> QED BY <1>1, <1>6, <2>1, OpenDisputeType, OpenCaseType
<1>7. CASE kind = "DISPUTE_RESOLVED"
  <2>1. x \in Invoices
    BY <1>7, TargetsType DEF DisputedUnpaid
  <2>2. g = OpenCase(ResolveDispute(f, x), x)
    BY <1>7 DEF EventOutcomes
  <2> QED BY <2>1, <2>2, ResolveDisputeType, OpenCaseType
<1>8. CASE kind = "CUSTOMER_DELAY_RESPONSE"
  <2>1. g = OpenCase(f, x)
    BY <1>8 DEF EventOutcomes
  <2> QED BY <1>1, <1>8, <2>1, OpenCaseType
<1> QED BY <1>2, <1>3, <1>4, <1>5, <1>6, <1>7, <1>8 DEF EventKinds

(* Events and overdue rules change no date, so that a cycle stays on its.  *)
LEMMA OutcomeDate ==
    ASSUME NEW f \in Facts, NEW kind \in EventKinds, NEW x,
           NEW g \in EventOutcomes(f, kind, x)
    PROVE  g.date = f.date
<1>1. \A h, i : OpenCase(h, i).date = h.date
  BY DEF OpenCase
<1>2. \A h, i, a : FulfilPromises(h, i, a).date = h.date
  BY DEF FulfilPromises
<1>3. \A h, i, a, d : ReceivePayment(h, i, a, d).date = h.date
  BY DEF ReceivePayment
<1>4. \A h, i, a : SimulatedPayment(h, i, a).date = h.date
  BY <1>1, <1>2, <1>3 DEF SimulatedPayment
<1>5. \A h, p, i, a, d, c : AddPromise(h, p, i, a, d, c).date = h.date
  BY DEF AddPromise
<1>6. \A h, i : OpenDispute(h, i).date = h.date /\ ResolveDispute(h, i).date = h.date
  BY DEF OpenDispute, ResolveDispute
<1>7. \A h, p : BreakPromise(h, p).date = h.date
  BY DEF BreakPromise
<1> QED BY <1>1, <1>4, <1>5, <1>6, <1>7 DEF EventOutcomes, EventKinds

LEMMA ConsumedType ==
    ASSUME NEW f \in Facts, NEW g, NEW used, NEW kind \in EventKinds,
           NEW x \in Targets(f, used, kind)
    PROVE  Consumed(f, g, kind, x) \in SUBSET UsedPairs
<1>1. kind # "PROMISE_BROKEN" => x \in Invoices
  BY TargetsType DEF Payable, DisputedUnpaid
<1>2. kind = "PROMISE_BROKEN" => x \in Promises /\ f.promise[x].invoice \in Invoices
  BY TargetsType DEF BreakablePromises, Facts, PromiseRows
<1>3. FreePromiseRows(f) \subseteq Promises
  BY DEF FreePromiseRows
<1> QED BY <1>1, <1>2, <1>3 DEF Consumed, UsedPairs, EventKinds

-----------------------------------------------------------------------------
(* Type correctness.  A broken promise is dated the day before, which is a *)
(* date only because a cycle never works on the first one.                 *)

CycleDate == tick # Idle => tick.work.date = db.date + 1

TypeInv == TypeOK /\ CycleDate

LEMMA CycleTyped ==
    ASSUME TypeInv, tick # Idle
    PROVE  /\ tick \in Cycles
           /\ tick.work \in Facts
           /\ tick.work.date >= 1
<1>1. tick \in Cycles
  BY DEF TypeInv, TypeOK
<1>2. tick.work \in Facts
  BY <1>1 DEF Cycles
<1>3. db.date \in Nat
  BY PortfolioConstants DEF TypeInv, TypeOK, Facts, Dates
<1> QED BY <1>1, <1>2, <1>3 DEF TypeInv, CycleDate

LEMMA NoRequestsType == NoRequests \in [Requests -> RequestRows]
  BY PortfolioConstants DEF NoRequests, RequestRows, RequestStatuses

LEMMA InitType == Init => TypeInv
<1> SUFFICES ASSUME Init PROVE TypeInv
  OBVIOUS
<1>1. accepted \in SUBSET analysed /\ analysed \in SUBSET Analyses
  BY DEF Init, FirstAnalyses
<1>2. decision \in [Analyses -> [CandidateFactTypes -> {"NONE", "ACCEPT", "REJECT"}]]
  BY DEF Init, NoDecisions
<1> QED BY <1>1, <1>2, SystemConstants, NoRequestsType
        DEF Init, TypeInv, TypeOK, CycleDate

-----------------------------------------------------------------------------
LEMMA BeginTickType == TypeInv /\ BeginTick => TypeInv'
<1> SUFFICES ASSUME TypeInv, BeginTick PROVE TypeInv'
  OBVIOUS
<1> DEFINE next == [db EXCEPT !.date = @ + 1]
<1>1. db \in Facts /\ db.date + 1 \in Dates
  BY PortfolioConstants DEF TypeInv, TypeOK, BeginTick, Facts, Dates
<1>2. next \in Facts /\ next.date = db.date + 1
  BY <1>1 DEF Facts
<1>3. ApplyOverdueRules(next) \in Facts
  BY <1>2, ApplyOverdueRulesType
<1>4. ApplyOverdueRules(next).date = db.date + 1
  BY <1>2 DEF ApplyOverdueRules
<1>5. tick' = [phase |-> "PRIMARY", work |-> ApplyOverdueRules(next),
               used |-> {}, left |-> 0]
  BY DEF BeginTick
<1>6. 0 \in 0 .. MaxSecondary
  BY SystemConstants
<1> HIDE DEF next
<1>7. tick' \in Cycles
  BY <1>3, <1>5, <1>6 DEF Cycles
<1>8. CycleDate'
  BY <1>4, <1>5 DEF BeginTick, CycleDate
<1> QED BY <1>7, <1>8 DEF TypeInv, TypeOK, BeginTick

LEMMA GenerateEventType ==
    ASSUME TypeInv, tick # Idle, NEW left \in 0 .. MaxSecondary, GenerateEvent(left)
    PROVE  TypeInv'
<1>1. PICK kind \in AvailableKinds(tick.work, tick.used) :
        \E x \in Targets(tick.work, tick.used, kind) :
          \E g \in EventOutcomes(tick.work, kind, x) :
            /\ tick' = [phase |-> "SECONDARY", work |-> g,
                        used |-> tick.used \cup Consumed(tick.work, g, kind, x),
                        left |-> left]
            /\ UNCHANGED <<db, request, event, analysed, accepted, decision>>
  BY DEF GenerateEvent
<1>2. PICK x \in Targets(tick.work, tick.used, kind) :
          \E g \in EventOutcomes(tick.work, kind, x) :
            /\ tick' = [phase |-> "SECONDARY", work |-> g,
                        used |-> tick.used \cup Consumed(tick.work, g, kind, x),
                        left |-> left]
            /\ UNCHANGED <<db, request, event, analysed, accepted, decision>>
  BY <1>1
<1>3. PICK g \in EventOutcomes(tick.work, kind, x) :
            /\ tick' = [phase |-> "SECONDARY", work |-> g,
                        used |-> tick.used \cup Consumed(tick.work, g, kind, x),
                        left |-> left]
            /\ UNCHANGED <<db, request, event, analysed, accepted, decision>>
  BY <1>2
<1>4. kind \in EventKinds
  BY DEF AvailableKinds
<1>5. tick \in Cycles /\ tick.work \in Facts /\ tick.work.date >= 1
  BY CycleTyped
<1>6. g \in Facts
  BY <1>4, <1>5, OutcomeType
<1>7. g.date = tick.work.date
  BY <1>4, <1>5, OutcomeDate
<1>8. tick.used \cup Consumed(tick.work, g, kind, x) \in SUBSET UsedPairs
  BY <1>4, <1>5, ConsumedType DEF Cycles
<1>9. tick' \in Cycles
  BY <1>3, <1>6, <1>8 DEF Cycles
<1>10. CycleDate'
  BY <1>3, <1>7 DEF TypeInv, CycleDate
<1> QED BY <1>3, <1>9, <1>10 DEF TypeInv, TypeOK

LEMMA GenerateType == TypeInv /\ (GeneratePrimary \/ GenerateSecondary) => TypeInv'
<1>1. ASSUME TypeInv, GeneratePrimary PROVE TypeInv'
  <2>1. tick # Idle
    BY <1>1 DEF GeneratePrimary, Idle
  <2> QED BY <1>1, <2>1, GenerateEventType DEF GeneratePrimary
<1>2. ASSUME TypeInv, GenerateSecondary PROVE TypeInv'
  <2>1. tick # Idle
    BY <1>2 DEF GenerateSecondary, Idle
  <2>2. tick.left \in 0 .. MaxSecondary
    BY <1>2, <2>1, CycleTyped DEF Cycles
  <2>3. tick.left - 1 \in 0 .. MaxSecondary
    BY <1>2, <2>2, SystemConstants DEF GenerateSecondary
  <2> QED BY <1>2, <2>1, <2>3, GenerateEventType DEF GenerateSecondary
<1> QED BY <1>1, <1>2

LEMMA CommitTickType == TypeInv /\ CommitTick => TypeInv'
<1> SUFFICES ASSUME TypeInv, CommitTick PROVE TypeInv'
  OBVIOUS
<1>1. tick # Idle
  BY DEF CommitTick, Idle
<1>2. db' \in Facts
  BY <1>1, CycleTyped, SynchronizeType DEF CommitTick
<1> QED BY <1>2 DEF CommitTick, TypeInv, TypeOK, CycleDate

LEMMA AbortType ==
    TypeInv /\ (TickConflict \/ AbortTick \/ SynchronizeCommand \/ ResetSimulation) => TypeInv'
<1> SUFFICES ASSUME TypeInv PROVE
        TickConflict \/ AbortTick \/ SynchronizeCommand \/ ResetSimulation => TypeInv'
  OBVIOUS
<1>1. TickConflict \/ AbortTick => TypeInv'
  BY DEF TickConflict, AbortTick, TypeInv, TypeOK, CycleDate
<1>2. SynchronizeCommand => TypeInv'
  BY SynchronizeType DEF SynchronizeCommand, TypeInv, TypeOK, CycleDate
<1>3. ASSUME ResetSimulation PROVE TypeInv'
  <2>1. accepted' \in SUBSET analysed' /\ analysed' \in SUBSET Analyses
    BY <1>3 DEF ResetSimulation, FirstAnalyses
  <2>2. decision' \in [Analyses -> [CandidateFactTypes -> {"NONE", "ACCEPT", "REJECT"}]]
    BY <1>3 DEF ResetSimulation, NoDecisions
  <2> QED BY <1>3, <2>1, <2>2, SystemConstants, NoRequestsType
          DEF ResetSimulation, TypeInv, TypeOK, CycleDate
<1> QED BY <1>1, <1>2, <1>3

LEMMA CreatePaymentRequestType ==
    ASSUME TypeInv, NEW r \in Requests, NEW i \in Invoices, NEW amount \in Nat,
           CreatePaymentRequest(r, i, amount)
    PROVE  TypeInv'
<1>1. [status |-> "PENDING_PROVIDER", invoice |-> i, amount |-> amount, paid |-> 0]
        \in RequestRows
  BY DEF RequestRows, RequestStatuses, LiveStatuses
<1>2. request' \in [Requests -> RequestRows]
  BY <1>1 DEF CreatePaymentRequest, TypeInv, TypeOK
<1> QED BY <1>2 DEF CreatePaymentRequest, TypeInv, TypeOK, CycleDate

LEMMA CommitPaymentRequestType ==
    ASSUME TypeInv, NEW r \in Requests, CommitPaymentRequest(r) \/ AbortPaymentRequest(r)
    PROVE  TypeInv'
<1>1. \A answer \in ProviderStatuses \cup {"FAILED"} :
        [request[r] EXCEPT !.status = answer] \in RequestRows
  BY DEF RequestRows, RequestStatuses, TypeInv, TypeOK
<1>2. request' \in [Requests -> RequestRows]
  BY <1>1, NoRequestsType DEF CommitPaymentRequest, AbortPaymentRequest, TypeInv, TypeOK
<1> QED BY <1>2 DEF CommitPaymentRequest, AbortPaymentRequest, TypeInv, TypeOK, CycleDate

LEMMA IngestPaymentEventType ==
    ASSUME TypeInv, NEW r \in Requests, NEW id \in EventIds, NEW ref \in PaymentRefs,
           NEW amount \in Nat, NEW date \in Dates,
           IngestPaymentEvent(r, id, ref, amount, date)
    PROVE  TypeInv'
<1>1. request[r] \in RequestRows /\ db \in Facts
  BY DEF TypeInv, TypeOK
<1>2. request[r].invoice \in Invoices /\ request[r].paid + amount \in Nat
  BY <1>1 DEF RequestRows
<1>3. db' \in Facts
  BY <1>1, <1>2, ReceivePaymentType, SynchronizeType DEF IngestPaymentEvent
<1>4. AfterPayment(request[r], amount) \in RequestRows
  BY <1>1, <1>2 DEF AfterPayment, RequestRows, RequestStatuses, LiveStatuses
<1>5. request' \in [Requests -> RequestRows]
  BY <1>4 DEF IngestPaymentEvent, TypeInv, TypeOK
<1>6. event' \in SUBSET EventRows
  BY DEF IngestPaymentEvent, EventRows, TypeInv, TypeOK
<1> QED BY <1>3, <1>5, <1>6 DEF IngestPaymentEvent, TypeInv, TypeOK, CycleDate

LEMMA AcceptedFactsType ==
    ASSUME TypeInv, NEW a \in Analyses, NEW t, NEW i \in Invoices,
           NEW g \in AcceptedFacts(a, t, i)
    PROVE  g \in Facts
<1>1. db \in Facts
  BY DEF TypeInv, TypeOK
<1>2. CASE t = "ACTIVE_DISPUTE"
  BY <1>1, <1>2, OpenDisputeType DEF AcceptedFacts
<1>3. CASE t = "PAYMENT_PROMISE"
  <2> DEFINE p == CHOOSE q \in FreePromiseRows(db) : TRUE
  <2>1. /\ FreePromiseRows(db) # {}
        /\ g = AddPromise(db, p, i, CandidateAmount[a], CandidateDate[a],
                          CommunicationDate[a])
    BY <1>3 DEF AcceptedFacts
  <2>2. p \in Promises
    BY <2>1 DEF FreePromiseRows
  <2>3. CandidateAmount[a] \in Nat /\ CandidateDate[a] \in Nat
    BY SystemConstants
  <2>4. CommunicationDate[a] \in Nat
    BY SystemConstants, PortfolioConstants DEF Facts, Dates
  <2> HIDE DEF p
  <2> QED BY <1>1, <2>1, <2>2, <2>3, <2>4, AddPromiseType
<1>4. CASE t = "BROKEN_PROMISE"
  <2>1. PICK p \in Promises : g = [db EXCEPT !.promise[p].status = "BROKEN"]
    BY <1>4 DEF AcceptedFacts, PromisesOn
  <2>2. [db.promise[p] EXCEPT !.status = "BROKEN"] \in PromiseRows
    BY <1>1 DEF Facts, PromiseRows, PromiseStatuses
  <2> QED BY <1>1, <2>1, <2>2 DEF Facts
<1>5. CASE t \notin {"ACTIVE_DISPUTE", "PAYMENT_PROMISE", "BROKEN_PROMISE"}
  BY <1>1, <1>5 DEF AcceptedFacts
<1> QED BY <1>2, <1>3, <1>4, <1>5

LEMMA ReviewType ==
    ASSUME TypeInv, NEW a \in Analyses
    PROVE  /\ AnalyzeCommunication(a) \/ AnalysisFails(a) => TypeInv'
           /\ \A t \in FactTypes[a], i \in Invoices :
                AcceptCandidate(a, t, i) \/ RejectCandidate(a, t, i) => TypeInv'
<1>1. AnalyzeCommunication(a) \/ AnalysisFails(a) => TypeInv'
  BY DEF AnalyzeCommunication, AnalysisFails, TypeInv, TypeOK, CycleDate
<1>2. ASSUME NEW t \in FactTypes[a], NEW i \in Invoices PROVE t \in CandidateFactTypes
  BY <1>2, SystemConstants
<1>3. ASSUME NEW t \in FactTypes[a], NEW i \in Invoices, AcceptCandidate(a, t, i)
      PROVE  TypeInv'
  <2>1. db' \in Facts
    BY <1>3, AcceptedFactsType, SynchronizeType DEF AcceptCandidate
  <2>2. decision' \in [Analyses -> [CandidateFactTypes -> {"NONE", "ACCEPT", "REJECT"}]]
    BY <1>2, <1>3 DEF AcceptCandidate, TypeInv, TypeOK
  <2> QED BY <1>3, <2>1, <2>2 DEF AcceptCandidate, TypeInv, TypeOK, CycleDate
<1>4. ASSUME NEW t \in FactTypes[a], NEW i \in Invoices, RejectCandidate(a, t, i)
      PROVE  TypeInv'
  <2>1. decision' \in [Analyses -> [CandidateFactTypes -> {"NONE", "ACCEPT", "REJECT"}]]
    BY <1>2, <1>4 DEF RejectCandidate, TypeInv, TypeOK
  <2> QED BY <1>4, <2>1 DEF RejectCandidate, TypeInv, TypeOK, CycleDate
<1> QED BY <1>1, <1>3, <1>4

LEMMA NextType == TypeInv /\ [Next]_vars => TypeInv'
<1> SUFFICES ASSUME TypeInv, [Next]_vars PROVE TypeInv'
  OBVIOUS
<1>1. RunTick => TypeInv'
  BY BeginTickType, GenerateType, CommitTickType, AbortType DEF RunTick
<1>2. AbortTick \/ ResetSimulation \/ SynchronizeCommand => TypeInv'
  BY AbortType
<1>3. ASSUME PaymentStep PROVE TypeInv'
  <2>1. PICK r \in Requests :
        \/ \E i \in Invoices :
              \E amount \in 1 .. db.outstanding[i] : CreatePaymentRequest(r, i, amount)
        \/ CommitPaymentRequest(r) \/ AbortPaymentRequest(r)
        \/ \E id \in EventIds, ref \in PaymentRefs, date \in Dates :
              \E amount \in 1 .. request[r].amount :
                  IngestPaymentEvent(r, id, ref, amount, date)
    BY <1>3 DEF PaymentStep
  <2>2. \A i \in Invoices : 1 .. db.outstanding[i] \subseteq Nat
    BY DEF TypeInv, TypeOK, Facts
  <2>3. 1 .. request[r].amount \subseteq Nat
    BY DEF TypeInv, TypeOK, RequestRows
  <2> QED BY <2>1, <2>2, <2>3, CreatePaymentRequestType, CommitPaymentRequestType,
            IngestPaymentEventType
<1>4. ReviewStep => TypeInv'
  BY ReviewType DEF ReviewStep
<1>5. UNCHANGED vars => TypeInv'
  BY DEF vars, TypeInv, TypeOK, CycleDate
<1> QED BY <1>1, <1>2, <1>3, <1>4, <1>5 DEF Next

(* The committed facts, the copy of a cycle, the requests, the events and  *)
(* the review records keep their types, whatever the provider answers.     *)
THEOREM TypeCorrect == Spec => []TypeOK
<1>1. TypeInv => TypeOK
  BY DEF TypeInv
<1> QED BY <1>1, InitType, NextType, PTL DEF Spec

-----------------------------------------------------------------------------
(* Provider events and requests.                                           *)

(* No replay of an event identity or of a payment reference is applied     *)
(* twice, for any number of events and requests.                           *)
THEOREM ReplaysIgnored == Spec => []EventsAppliedOnce
<1>1. Init => EventsAppliedOnce
  BY DEF Init, EventsAppliedOnce
<1>2. EventsAppliedOnce /\ [Next]_vars => EventsAppliedOnce'
  <2> SUFFICES ASSUME EventsAppliedOnce, [Next]_vars PROVE EventsAppliedOnce'
    OBVIOUS
  <2>1. CASE event' = event
    BY <2>1 DEF EventsAppliedOnce
  <2>2. ASSUME NEW r \in Requests, NEW id \in EventIds, NEW ref \in PaymentRefs,
               NEW date \in Dates, NEW amount \in 1 .. request[r].amount,
               IngestPaymentEvent(r, id, ref, amount, date)
        PROVE  EventsAppliedOnce'
    BY <2>2 DEF IngestPaymentEvent, KnownEvent, EventsAppliedOnce
  <2>3. CASE ResetSimulation
    BY <2>3 DEF ResetSimulation, EventsAppliedOnce
  <2>4. RunTick \/ AbortTick \/ SynchronizeCommand => event' = event
    BY DEF RunTick, BeginTick, GeneratePrimary, GenerateSecondary, GenerateEvent,
           TickConflict, CommitTick, AbortTick, SynchronizeCommand
  <2>5. ReviewStep => event' = event
    BY DEF ReviewStep, AnalyzeCommunication, AnalysisFails, AcceptCandidate,
           RejectCandidate
  <2>6. PaymentStep => EventsAppliedOnce'
    BY <2>1, <2>2 DEF PaymentStep, CreatePaymentRequest, CommitPaymentRequest,
                     AbortPaymentRequest
  <2>7. UNCHANGED vars => event' = event
    BY DEF vars
  <2> QED BY <2>1, <2>3, <2>4, <2>5, <2>6, <2>7 DEF Next
<1> QED BY <1>1, <1>2, PTL DEF Spec

(* Only a few steps write payment requests.                                *)
LEMMA RequestSteps ==
    ASSUME [Next]_vars
    PROVE  \/ request' = request
           \/ request' = NoRequests
           \/ \E r \in Requests, i \in Invoices, amount \in Int :
                 CreatePaymentRequest(r, i, amount)
           \/ \E r \in Requests : CommitPaymentRequest(r) \/ AbortPaymentRequest(r)
           \/ \E r \in Requests : \E id, ref, amount, date :
                 IngestPaymentEvent(r, id, ref, amount, date)
<1>1. RunTick \/ AbortTick \/ SynchronizeCommand => request' = request
  BY DEF RunTick, BeginTick, GeneratePrimary, GenerateSecondary, GenerateEvent,
         TickConflict, CommitTick, AbortTick, SynchronizeCommand
<1>2. ReviewStep => request' = request
  BY DEF ReviewStep, AnalyzeCommunication, AnalysisFails, AcceptCandidate,
         RejectCandidate
<1>3. ResetSimulation => request' = NoRequests
  BY DEF ResetSimulation
<1>4. UNCHANGED vars => request' = request
  BY DEF vars
<1> QED BY <1>1, <1>2, <1>3, <1>4 DEF Next, PaymentStep

(* The rules that lead to outreach, read backwards.                        *)
LEMMA OutreachConditions ==
    ASSUME NEW v, RecommendedAction(v) \in OutreachActions
    PROVE  /\ v.invoice = "OVERDUE"
           /\ ~v.disputed
           /\ "ACTIVE" \notin v.promises
           /\ ~v.claim
  BY DEF RecommendedAction, OutreachActions

LEMMA OutreachPermitted ==
    ASSUME NEW v, RecommendedAction(v) \in OutreachActions,
           RecommendationBlockers(v) = {}, v.consent \in ConsentStatuses,
           v.channel \in BOOLEAN
    PROVE  v.consent = "OPTED_IN" /\ v.channel
<1>1. CommunicationBlockers(v) = {}
  BY DEF RecommendationBlockers
<1> QED BY <1>1 DEF CommunicationBlockers, ConsentStatuses

(* However facts, claims and requests came about, a payment request is     *)
(* begun only for an overdue, undisputed invoice without a running promise *)
(* or a known request that can take a payment, of a customer who may be    *)
(* contacted and claims no payment.                                        *)
THEOREM RequestsJustified == Spec => RequestsOnlyWhenRecoverable
<1> DEFINE A == \A r \in Requests :
        request[r].status = "NONE" /\ request'[r].status # "NONE" =>
            LET i == request'[r].invoice IN
            /\ InvoiceStateOf(db, i) = "OVERDUE"
            /\ db.status[i] # "DISPUTED"
            /\ \A p \in PromisesOn(db, i) : PromiseStateOf(db, p) # "ACTIVE"
            /\ Consent = "OPTED_IN" /\ ChannelAvailable
            /\ ~ClaimSignal
            /\ \A s \in Requests \ {r} :
                  request[s].status \in PayableRequestStatuses => request[s].invoice # i
<1>1. TypeOK /\ [Next]_vars => [A]_vars
  <2> SUFFICES ASSUME TypeOK, [Next]_vars PROVE A
    OBVIOUS
  <2>1. CASE request' = request
    BY <2>1
  <2>2. CASE request' = NoRequests
    BY <2>2 DEF NoRequests
  <2>3. ASSUME NEW r \in Requests, NEW i \in Invoices, NEW amount \in Int,
               CreatePaymentRequest(r, i, amount)
        PROVE  A
    <3>1. \A s \in Requests \ {r} : request'[s] = request[s]
      BY <2>3 DEF CreatePaymentRequest, TypeOK
    <3>2. request'[r].invoice = i
      BY <2>3 DEF CreatePaymentRequest, TypeOK
    <3> DEFINE v == CurrentView(i)
    <3>3. RecommendedAction(v) \in OutreachActions /\ RecommendationBlockers(v) = {}
      BY <2>3 DEF CreatePaymentRequest, MayRequestPayment, Recommended
    <3>4. /\ v.invoice = InvoiceStateOf(db, i)
          /\ v.disputed = (db.status[i] = "DISPUTED")
          /\ v.promises = {PromiseStateOf(db, p) : p \in PromisesOn(db, i)}
          /\ v.claim = ClaimSignal
          /\ v.consent = Consent
          /\ v.channel = ChannelAvailable
      BY DEF CurrentView, CaseView
    <3> HIDE DEF v
    <3>5. /\ v.invoice = "OVERDUE" /\ ~v.disputed
          /\ "ACTIVE" \notin v.promises /\ ~v.claim
      BY <3>3, OutreachConditions
    <3>6. v.consent = "OPTED_IN" /\ v.channel
      BY <3>3, <3>4, OutreachPermitted, PortfolioConstants
    <3>7. \A p \in PromisesOn(db, i) : PromiseStateOf(db, p) # "ACTIVE"
      BY <3>4, <3>5
    <3>8. \A s \in Requests : request[s].status \in PayableRequestStatuses =>
                                 request[s].invoice # i
      BY <2>3 DEF CreatePaymentRequest, MayRequestPayment, LiveStatuses,
                  PayableRequestStatuses
    <3> QED BY <3>1, <3>2, <3>4, <3>5, <3>6, <3>7, <3>8
  <2>4. ASSUME NEW r \in Requests, NEW id, NEW ref, NEW amount, NEW date,
               IngestPaymentEvent(r, id, ref, amount, date)
        PROVE  A
    <3>1. \A s \in Requests \ {r} : request'[s] = request[s]
      BY <2>4 DEF IngestPaymentEvent, TypeOK
    <3>2. request[r].status # "NONE"
      BY <2>4 DEF IngestPaymentEvent, PayableRequestStatuses
    <3> QED BY <3>1, <3>2
  <2>5. ASSUME NEW r \in Requests, CommitPaymentRequest(r) \/ AbortPaymentRequest(r)
        PROVE  A
    <3>1. \A s \in Requests \ {r} : request'[s] = request[s]
      BY <2>5 DEF CommitPaymentRequest, AbortPaymentRequest, TypeOK
    <3>2. request[r].status # "NONE"
      BY <2>5 DEF CommitPaymentRequest, AbortPaymentRequest
    <3> QED BY <3>1, <3>2
  <2> QED BY <2>1, <2>2, <2>3, <2>4, <2>5, RequestSteps
<1> QED BY <1>1, TypeCorrect, PTL DEF Spec, RequestsOnlyWhenRecoverable

-----------------------------------------------------------------------------
(* Synchronization is idempotent: the state it stores is the one that the  *)
(* rules derive again when they read it.                                   *)

LEMMA DesiredStateStable ==
    ASSUME NEW v, NEW w, w.state = DesiredCaseState(v), w.invoice = v.invoice,
           w.disputed = v.disputed, w.promises = v.promises, w.priority = v.priority
    PROVE  DesiredCaseState(w) = DesiredCaseState(v)
  BY DEF DesiredCaseState

LEMMA SynchronizedView ==
    ASSUME NEW f \in Facts, NEW i \in Cases(f)
    PROVE  /\ Synchronize(f).case[i] = DerivedCaseState(f, i)
           /\ DerivedCaseState(Synchronize(f), i) = DerivedCaseState(f, i)
<1> DEFINE s == Synchronize(f)
           v == CaseView(f, i, FALSE, FALSE)
           w == CaseView(s, i, FALSE, FALSE)
<1>1. /\ s.date = f.date /\ s.outstanding = f.outstanding /\ s.status = f.status
      /\ s.paidOn = f.paidOn /\ s.promise = f.promise /\ s.priority = f.priority
  BY DEF Synchronize
<1>2. s.case[i] = DerivedCaseState(f, i)
  BY DEF Synchronize, Cases, Facts
<1>3. \A p : PromiseStateOf(s, p) = PromiseStateOf(f, p)
  BY <1>1 DEF PromiseStateOf, PaidBetween
<1>4. PromisesOn(s, i) = PromisesOn(f, i)
  BY <1>1 DEF PromisesOn
<1>5. InvoiceStateOf(s, i) = InvoiceStateOf(f, i)
  BY <1>1 DEF InvoiceStateOf
<1> HIDE DEF s
<1>6. /\ w.state = s.case[i] /\ w.invoice = v.invoice /\ w.disputed = v.disputed
      /\ w.promises = v.promises /\ w.priority = v.priority
  BY <1>1, <1>3, <1>4, <1>5 DEF CaseView
<1>7. DesiredCaseState(w) = DesiredCaseState(v)
  <2> HIDE DEF v, w
  <2>1. w.state = DesiredCaseState(v)
    BY <1>2, <1>6 DEF DerivedCaseState, v
  <2> QED BY <1>6, <2>1, DesiredStateStable
<1> QED BY <1>2, <1>7 DEF DerivedCaseState, s

LEMMA SynchronizedIsCurrent ==
    ASSUME NEW f \in Facts, NEW i \in Cases(Synchronize(f))
    PROVE  Synchronize(f).case[i] = DerivedCaseState(Synchronize(f), i)
<1>1. i \in Cases(f)
  BY DEF Cases, Synchronize, Facts
<1> QED BY <1>1, SynchronizedView

-----------------------------------------------------------------------------
(* What a step may do to the committed facts.  g follows f when no balance *)
(* that was settled is open again, no case changed its state except those  *)
(* that were opened, and time did not go back.                             *)

Follows(f, g) ==
    /\ \A i \in Invoices : f.outstanding[i] = 0 => g.outstanding[i] = 0
    /\ \A i \in Invoices :
        g.case[i] = f.case[i] \/ (f.case[i] = "NONE" /\ g.case[i] = "NEW")
    /\ g.date >= f.date

LEMMA FollowsTransitive ==
    ASSUME NEW f \in Facts, NEW g \in Facts, NEW h \in Facts,
           Follows(f, g), Follows(g, h)
    PROVE  Follows(f, h)
<1>1. f.date \in Int /\ g.date \in Int /\ h.date \in Int
  BY DEF Facts, Dates
<1> QED BY <1>1 DEF Follows

LEMMA SmallSteps ==
    ASSUME NEW f \in Facts
    PROVE  /\ Follows(f, f)
           /\ \A i \in Invoices : Follows(f, OpenCase(f, i))
           /\ \A i, amount : Follows(f, FulfilPromises(f, i, amount))
           /\ \A i \in Invoices : Follows(f, OpenDispute(f, i))
           /\ \A i \in Invoices : Follows(f, ResolveDispute(f, i))
           /\ \A p, i, amount, due, source :
                Follows(f, AddPromise(f, p, i, amount, due, source))
           /\ \A p : Follows(f, BreakPromise(f, p))
           /\ Follows(f, ApplyOverdueRules(f))
<1>1. f.date \in Int
  BY DEF Facts, Dates
<1> USE <1>1 DEF Follows
<1>2. Follows(f, f)
  OBVIOUS
<1>3. \A i \in Invoices : Follows(f, OpenCase(f, i))
  BY DEF OpenCase, Cases, Facts
<1>4. \A i, amount : Follows(f, FulfilPromises(f, i, amount))
  BY DEF FulfilPromises
<1>5. \A i \in Invoices : Follows(f, OpenDispute(f, i)) /\ Follows(f, ResolveDispute(f, i))
  BY DEF OpenDispute, ResolveDispute
<1>6. \A p, i, amount, due, source : Follows(f, AddPromise(f, p, i, amount, due, source))
  BY DEF AddPromise
<1>7. \A p : Follows(f, BreakPromise(f, p))
  BY DEF BreakPromise
<1>8. Follows(f, ApplyOverdueRules(f))
  BY DEF ApplyOverdueRules
<1> QED BY <1>2, <1>3, <1>4, <1>5, <1>6, <1>7, <1>8

LEMMA PaymentFollows ==
    ASSUME NEW f \in Facts, NEW i \in Invoices, NEW amount \in 1 .. f.outstanding[i],
           NEW date \in Dates
    PROVE  Follows(f, ReceivePayment(f, i, amount, date))
<1>1. f.date \in Int /\ f.outstanding \in [Invoices -> Nat]
  BY DEF Facts, Dates
<1>2. f.outstanding[i] # 0
  BY <1>1
<1> QED BY <1>1, <1>2 DEF ReceivePayment, Follows

LEMMA SimulatedPaymentFollows ==
    ASSUME NEW f \in Facts, NEW i \in Invoices, NEW a \in 1 .. f.outstanding[i]
    PROVE  Follows(f, SimulatedPayment(f, i, a))
<1> DEFINE g == ReceivePayment(f, i, a, f.date)
           h == FulfilPromises(g, i, a)
<1>1. f.date \in Dates /\ a \in Nat /\ a <= f.outstanding[i]
  BY DEF Facts
<1>2. g \in Facts /\ Follows(f, g)
  BY <1>1, ReceivePaymentType, PaymentFollows
<1> HIDE DEF g
<1>3. h \in Facts /\ Follows(g, h)
  BY <1>2, FulfilPromisesType, SmallSteps
<1> HIDE DEF h
<1>4. OpenCase(h, i) \in Facts /\ Follows(h, OpenCase(h, i))
  BY <1>3, OpenCaseType, SmallSteps
<1>5. Follows(f, h)
  BY <1>2, <1>3, FollowsTransitive
<1> QED BY <1>3, <1>4, <1>5, FollowsTransitive DEF SimulatedPayment, g, h

LEMMA OutcomeFollows ==
    ASSUME NEW f \in Facts, f.date >= 1, NEW used, NEW kind \in EventKinds,
           NEW x \in Targets(f, used, kind), NEW g \in EventOutcomes(f, kind, x)
    PROVE  Follows(f, g)
<1>0. f.date \in Nat
  BY PortfolioConstants DEF Facts, Dates
<1>1. kind \notin {"PROMISE_BROKEN", "DISPUTE_RESOLVED"} =>
        /\ x \in Invoices /\ f.outstanding[x] \in Nat \ {0}
        /\ f.outstanding[x] \in 1 .. f.outstanding[x]
  BY TargetsType DEF Payable, Facts
<1>2. CASE kind = "PARTIAL_PAYMENT"
  <2>1. PICK a \in PartialAmounts(f.outstanding[x]) : g = SimulatedPayment(f, x, a)
    BY <1>2 DEF EventOutcomes
  <2> QED BY <1>1, <1>2, <2>1, PartialAmountsType, SimulatedPaymentFollows
<1>3. CASE kind = "FULL_PAYMENT"
  <2>1. g = SimulatedPayment(f, x, f.outstanding[x])
    BY <1>3 DEF EventOutcomes
  <2> QED BY <1>1, <1>3, <2>1, SimulatedPaymentFollows
<1>4. ASSUME NEW h \in Facts, Follows(f, h), NEW i \in Invoices, g = OpenCase(h, i)
      PROVE  Follows(f, g)
  BY <1>4, SmallSteps, OpenCaseType, FollowsTransitive
<1>5. CASE kind = "PROMISE_CREATED"
  <2> DEFINE p == CHOOSE q \in FreePromiseRows(f) : TRUE
  <2>1. p \in Promises
    BY <1>5, TargetsType DEF FreePromiseRows
  <2>2. PICK a \in FractionalAmounts(f.outstanding[x], 20, 75),
             days \in PromiseDaysMin .. PromiseDaysMax :
                g = OpenCase(AddPromise(f, p, x, a, f.date + days, f.date), x)
    BY <1>5 DEF EventOutcomes
  <2>3. a \in Nat /\ days \in Nat
    BY <1>1, <1>5, FractionalAmountsType, PortfolioConstants
  <2> HIDE DEF p
  <2>4. AddPromise(f, p, x, a, f.date + days, f.date) \in Facts
    BY <1>0, <1>1, <1>5, <2>1, <2>3, AddPromiseType
  <2> QED BY <1>1, <1>4, <1>5, <2>2, <2>4, SmallSteps
<1>6. CASE kind = "PROMISE_BROKEN"
  <2>1. x \in Promises /\ f.promise[x].invoice \in Invoices
    BY <1>6, TargetsType DEF BreakablePromises, Facts, PromiseRows
  <2>2. g = OpenCase(BreakPromise(f, x), f.promise[x].invoice)
    BY <1>6 DEF EventOutcomes
  <2> QED BY <1>4, <2>1, <2>2, BreakPromiseType, SmallSteps
<1>7. CASE kind = "DISPUTE_OPENED"
  <2>1. g = OpenCase(OpenDispute(f, x), x)
    BY <1>7 DEF EventOutcomes
  <2> QED BY <1>1, <1>4, <1>7, <2>1, OpenDisputeType, SmallSteps
<1>8. CASE kind = "DISPUTE_RESOLVED"
  <2>1. x \in Invoices
    BY <1>8, TargetsType DEF DisputedUnpaid
  <2>2. g = OpenCase(ResolveDispute(f, x), x)
    BY <1>8 DEF EventOutcomes
  <2> QED BY <1>4, <2>1, <2>2, ResolveDisputeType, SmallSteps
<1>9. CASE kind = "CUSTOMER_DELAY_RESPONSE"
  <2>1. g = OpenCase(f, x)
    BY <1>9 DEF EventOutcomes
  <2> QED BY <1>1, <1>9, <2>1, SmallSteps
<1> QED BY <1>2, <1>3, <1>5, <1>6, <1>7, <1>8, <1>9 DEF EventKinds

LEMMA AcceptedFollows ==
    ASSUME db \in Facts, NEW a \in Analyses, NEW t, NEW i \in Invoices,
           NEW g \in AcceptedFacts(a, t, i)
    PROVE  Follows(db, g)
<1>1. CASE t = "ACTIVE_DISPUTE"
  BY <1>1, SmallSteps DEF AcceptedFacts
<1>2. CASE t = "PAYMENT_PROMISE"
  BY <1>2, SmallSteps DEF AcceptedFacts
<1>3. CASE t = "BROKEN_PROMISE"
  <2>1. PICK p \in Promises : g = [db EXCEPT !.promise[p].status = "BROKEN"]
    BY <1>3 DEF AcceptedFacts, PromisesOn
  <2>2. db.date \in Int
    BY DEF Facts, Dates
  <2> QED BY <2>1, <2>2 DEF Follows
<1>4. CASE t \notin {"ACTIVE_DISPUTE", "PAYMENT_PROMISE", "BROKEN_PROMISE"}
  BY <1>4, SmallSteps DEF AcceptedFacts
<1> QED BY <1>1, <1>2, <1>3, <1>4

(* The copy a cycle works on follows the facts the cycle started from.     *)
CycleFollows == tick # Idle => Follows(db, tick.work)

CycleInv == TypeInv /\ CycleFollows

LEMMA CycleInit == Init => CycleInv
  BY InitType DEF Init, CycleInv, CycleFollows

LEMMA GenerateEventFollows ==
    ASSUME CycleInv, tick # Idle, NEW left, GenerateEvent(left)
    PROVE  CycleFollows'
<1>1. PICK kind \in AvailableKinds(tick.work, tick.used) :
        \E x \in Targets(tick.work, tick.used, kind) :
          \E g \in EventOutcomes(tick.work, kind, x) : tick'.work = g /\ db' = db
  BY DEF GenerateEvent
<1>2. PICK x \in Targets(tick.work, tick.used, kind) :
          \E g \in EventOutcomes(tick.work, kind, x) : tick'.work = g /\ db' = db
  BY <1>1
<1>3. tick'.work \in EventOutcomes(tick.work, kind, x) /\ db' = db
  BY <1>2
<1>4. kind \in EventKinds /\ db \in Facts
  BY DEF AvailableKinds, CycleInv, TypeInv, TypeOK
<1>5. tick.work \in Facts /\ tick.work.date >= 1
  BY CycleTyped DEF CycleInv
<1>6. tick'.work \in Facts /\ Follows(tick.work, tick'.work)
  BY <1>3, <1>4, <1>5, OutcomeType, OutcomeFollows
<1>7. Follows(db, tick'.work)
  BY <1>4, <1>5, <1>6, FollowsTransitive DEF CycleInv, CycleFollows
<1> QED BY <1>3, <1>7 DEF CycleFollows

LEMMA CycleNext == CycleInv /\ [Next]_vars => CycleInv'
<1> SUFFICES ASSUME CycleInv, [Next]_vars PROVE CycleInv'
  OBVIOUS
<1>1. TypeInv'
  BY NextType DEF CycleInv
<1>2. BeginTick => CycleFollows'
  <2> SUFFICES ASSUME BeginTick PROVE CycleFollows'
    OBVIOUS
  <2> DEFINE next == [db EXCEPT !.date = @ + 1]
  <2>1. db \in Facts /\ db.date + 1 \in Dates /\ db.date \in Int
    BY PortfolioConstants DEF CycleInv, TypeInv, TypeOK, BeginTick, Facts, Dates
  <2>2. next \in Facts /\ Follows(db, next)
    BY <2>1 DEF Facts, Follows
  <2>3. tick'.work = ApplyOverdueRules(next) /\ db' = db
    BY DEF BeginTick
  <2> HIDE DEF next
  <2> QED BY <2>1, <2>2, <2>3, SmallSteps, ApplyOverdueRulesType, FollowsTransitive
          DEF CycleFollows
<1>3. GeneratePrimary \/ GenerateSecondary => CycleFollows'
  BY GenerateEventFollows DEF GeneratePrimary, GenerateSecondary, Idle
<1>4. TickConflict \/ CommitTick \/ AbortTick => CycleFollows'
  BY DEF TickConflict, CommitTick, AbortTick, CycleFollows
<1>5. (ResetSimulation \/ SynchronizeCommand \/ PaymentStep \/ ReviewStep)
        /\ ~UNCHANGED <<db, tick>> => CycleFollows'
  BY DEF ResetSimulation, SynchronizeCommand, PaymentStep, CreatePaymentRequest,
         CommitPaymentRequest, AbortPaymentRequest,
         IngestPaymentEvent, ReviewStep, AnalyzeCommunication, AnalysisFails,
         AcceptCandidate, RejectCandidate, CycleFollows
<1>6. UNCHANGED <<db, tick>> \/ UNCHANGED vars => CycleFollows'
  BY DEF vars, CycleInv, CycleFollows
<1> QED BY <1>1, <1>2, <1>3, <1>4, <1>5, <1>6 DEF Next, RunTick, CycleInv

(* Every step keeps the committed facts, restores the seed, or stores the  *)
(* synchronization of facts that follow them.                              *)
LEMMA CommittedStep ==
    ASSUME CycleInv, [Next]_vars
    PROVE  \/ db' = db
           \/ db' = Baseline
           \/ \E g \in Facts : Follows(db, g) /\ db' = Synchronize(g)
<1>0. db \in Facts
  BY DEF CycleInv, TypeInv, TypeOK
<1>1. BeginTick \/ GeneratePrimary \/ GenerateSecondary \/ TickConflict \/ AbortTick
        => db' = db
  BY DEF BeginTick, GeneratePrimary, GenerateSecondary, GenerateEvent, TickConflict,
         AbortTick
<1>2. ASSUME CommitTick PROVE \E g \in Facts : Follows(db, g) /\ db' = Synchronize(g)
  <2>1. tick # Idle
    BY <1>2 DEF CommitTick, Idle
  <2>2. tick.work \in Facts /\ Follows(db, tick.work)
    BY <2>1, CycleTyped DEF CycleInv, CycleFollows
  <2> QED BY <1>2, <2>2 DEF CommitTick
<1>3. ResetSimulation => db' = Baseline
  BY DEF ResetSimulation
<1>4. SynchronizeCommand => \E g \in Facts : Follows(db, g) /\ db' = Synchronize(g)
  BY <1>0, SmallSteps DEF SynchronizeCommand
<1>5. ASSUME PaymentStep, db' # db
      PROVE  \E g \in Facts : Follows(db, g) /\ db' = Synchronize(g)
  <2>1. PICK r \in Requests : \E id \in EventIds, ref \in PaymentRefs, date \in Dates :
              \E amount \in 1 .. request[r].amount :
                  IngestPaymentEvent(r, id, ref, amount, date)
    BY <1>5 DEF PaymentStep, CreatePaymentRequest, CommitPaymentRequest,
                     AbortPaymentRequest
  <2>2. PICK date \in Dates : \E id \in EventIds, ref \in PaymentRefs :
              \E amount \in 1 .. request[r].amount :
                  IngestPaymentEvent(r, id, ref, amount, date)
    BY <2>1
  <2>3. PICK amount \in 1 .. request[r].amount : \E id \in EventIds, ref \in PaymentRefs :
                  IngestPaymentEvent(r, id, ref, amount, date)
    BY <2>2
  <2> DEFINE i == request[r].invoice
             g == ReceivePayment(db, i, amount, date)
  <2>4. request[r] \in RequestRows
    BY DEF CycleInv, TypeInv, TypeOK
  <2>5. i \in Invoices /\ db.outstanding[i] \in Nat /\ amount \in Nat /\ amount >= 1
    BY <1>0, <2>4 DEF RequestRows, Facts
  <2>6. amount <= db.outstanding[i] /\ db' = Synchronize(g)
    BY <2>3 DEF IngestPaymentEvent
  <2>7. amount \in 1 .. db.outstanding[i]
    BY <2>5, <2>6
  <2>8. g \in Facts /\ Follows(db, g)
    BY <1>0, <2>5, <2>6, <2>7, ReceivePaymentType, PaymentFollows
  <2> QED BY <2>6, <2>8
<1>6. ASSUME ReviewStep, db' # db
      PROVE  \E g \in Facts : Follows(db, g) /\ db' = Synchronize(g)
  <2>1. PICK a \in Analyses : \E t \in FactTypes[a], i \in Invoices : AcceptCandidate(a, t, i)
    BY <1>6 DEF ReviewStep, AnalyzeCommunication, AnalysisFails, RejectCandidate
  <2>2. PICK i \in Invoices : \E t \in FactTypes[a] : AcceptCandidate(a, t, i)
    BY <2>1
  <2>3. PICK t \in FactTypes[a] : AcceptCandidate(a, t, i)
    BY <2>2
  <2>4. PICK g \in AcceptedFacts(a, t, i) : db' = Synchronize(g)
    BY <2>3 DEF AcceptCandidate
  <2> QED BY <1>0, <2>4, AcceptedFactsType, AcceptedFollows DEF CycleInv
<1>7. UNCHANGED vars => db' = db
  BY DEF vars
<1> QED BY <1>1, <1>2, <1>3, <1>4, <1>5, <1>6, <1>7 DEF Next, RunTick

(* After any commit of any handler the stored state of every case is the   *)
(* one the rules derive from the facts.                                    *)
THEOREM CaseStatesFollowFacts == Spec => []CaseStatesCurrent
<1>1. Init => CaseStatesCurrent
  BY DEF Init, CaseStatesCurrent
<1>2. CycleInv /\ CaseStatesCurrent /\ [Next]_vars => CaseStatesCurrent'
  <2> SUFFICES ASSUME CycleInv, CaseStatesCurrent, [Next]_vars PROVE CaseStatesCurrent'
    OBVIOUS
  <2>1. CASE db' = db \/ db' = Baseline
    BY <2>1 DEF CaseStatesCurrent
  <2>2. ASSUME NEW g \in Facts, db' = Synchronize(g) PROVE CaseStatesCurrent'
    BY <2>2, SynchronizedIsCurrent DEF CaseStatesCurrent
  <2> QED BY <2>1, <2>2, CommittedStep
<1> QED BY <1>1, <1>2, CycleInit, CycleNext, PTL DEF Spec

-----------------------------------------------------------------------------
(* A resolved case stays resolved because it is settled, and nothing opens *)
(* a settled balance again.                                                *)

ResolvedSettled ==
    \A i \in Invoices : db.case[i] = "RESOLVED" =>
        db.outstanding[i] = 0 /\ IssueDate[i] <= db.date

LEMMA ResolvedReasons ==
    ASSUME NEW v
    PROVE  /\ DesiredCaseState(v) = "RESOLVED" => v.invoice = "PAID" \/ v.state = "RESOLVED"
           /\ v.invoice = "PAID" /\ v.state = "RESOLVED" => DesiredCaseState(v) = "RESOLVED"
  BY DEF DesiredCaseState

LEMMA PaidMeansSettled ==
    ASSUME NEW f \in Facts, NEW i \in Invoices
    PROVE  InvoiceStateOf(f, i) = "PAID" <=>
                f.outstanding[i] = 0 /\ IssueDate[i] <= f.date
<1>1. f.date \in Int /\ IssueDate[i] \in Int /\ DueDate[i] \in Int
  BY PortfolioConstants DEF Facts, Dates
<1> QED BY <1>1 DEF InvoiceStateOf, InvoiceState

LEMMA SynchronizedResolved ==
    ASSUME CycleInv, ResolvedSettled, NEW g \in Facts, Follows(db, g), NEW i \in Invoices
    PROVE  /\ db.case[i] = "RESOLVED" => Synchronize(g).case[i] = "RESOLVED"
           /\ Synchronize(g).case[i] = "RESOLVED" =>
                Synchronize(g).outstanding[i] = 0 /\ IssueDate[i] <= Synchronize(g).date
<1> DEFINE v == CaseView(g, i, FALSE, FALSE)
<1>1. v.state = g.case[i] /\ v.invoice = InvoiceStateOf(g, i)
  BY DEF CaseView
<1>2. Synchronize(g).case[i] = IF i \in Cases(g) THEN DesiredCaseState(v) ELSE "NONE"
  BY DEF Synchronize, DerivedCaseState
<1>3. Synchronize(g).outstanding = g.outstanding /\ Synchronize(g).date = g.date
  BY DEF Synchronize
<1>4. db.date \in Int /\ g.date \in Int /\ IssueDate[i] \in Int
  BY PortfolioConstants DEF CycleInv, TypeInv, TypeOK, Facts, Dates
<1>5. db.case[i] = "RESOLVED" =>
        g.case[i] = "RESOLVED" /\ g.outstanding[i] = 0 /\ IssueDate[i] <= g.date
  BY <1>4 DEF Follows, ResolvedSettled
<1>6. g.case[i] = "RESOLVED" => db.case[i] = "RESOLVED"
  BY DEF Follows
<1> HIDE DEF v
<1>7. ASSUME db.case[i] = "RESOLVED" PROVE Synchronize(g).case[i] = "RESOLVED"
  <2>1. v.invoice = "PAID" /\ v.state = "RESOLVED" /\ i \in Cases(g)
    BY <1>1, <1>5, <1>7, PaidMeansSettled DEF Cases
  <2> QED BY <1>2, <2>1, ResolvedReasons
<1>8. ASSUME Synchronize(g).case[i] = "RESOLVED"
      PROVE  g.outstanding[i] = 0 /\ IssueDate[i] <= g.date
  <2>1. v.invoice = "PAID" \/ v.state = "RESOLVED"
    BY <1>2, <1>8, ResolvedReasons
  <2> QED BY <1>1, <1>5, <1>6, <2>1, PaidMeansSettled
<1> QED BY <1>3, <1>7, <1>8

LEMMA ResolvedInit == Init => ResolvedSettled
  BY SystemConstants DEF Init, ResolvedSettled

LEMMA ResolvedNext == CycleInv /\ ResolvedSettled /\ [Next]_vars => ResolvedSettled'
<1> SUFFICES ASSUME CycleInv, ResolvedSettled, [Next]_vars PROVE ResolvedSettled'
  OBVIOUS
<1>1. CASE db' = db
  BY <1>1 DEF ResolvedSettled
<1>2. CASE db' = Baseline
  BY <1>2, SystemConstants DEF ResolvedSettled
<1>3. ASSUME NEW g \in Facts, Follows(db, g), db' = Synchronize(g)
      PROVE  ResolvedSettled'
  BY <1>3, SynchronizedResolved DEF ResolvedSettled
<1> QED BY <1>1, <1>2, <1>3, CommittedStep

(* Once a case is RESOLVED, no cycle, provider event, interpretation or    *)
(* synchronization takes it out of that state; only a reset does.          *)
THEOREM ResolvedIsFinal == Spec => ResolvedStaysResolved
<1> DEFINE A == db' # Baseline =>
        \A i \in Invoices : db.case[i] = "RESOLVED" => db'.case[i] = "RESOLVED"
<1>1. CycleInv /\ ResolvedSettled /\ [Next]_vars => [A]_vars
  <2> SUFFICES ASSUME CycleInv, ResolvedSettled, [Next]_vars PROVE A
    OBVIOUS
  <2>1. ASSUME NEW g \in Facts, Follows(db, g), db' = Synchronize(g) PROVE A
    BY <2>1, SynchronizedResolved
  <2> QED BY <2>1, CommittedStep
<1> QED BY <1>1, ResolvedInit, ResolvedNext, CycleInit, CycleNext, PTL
        DEF Spec, ResolvedStaysResolved

-----------------------------------------------------------------------------
(* What an event of a cycle leaves alone.                                  *)

Protects(f, g) ==
    \A i \in Invoices :
        /\ f.status[i] = "DISPUTED" => g.outstanding[i] = f.outstanding[i]
        /\ f.outstanding[i] = 0 =>
              /\ g.status[i] = f.status[i]
              /\ \A p \in PromisesOn(f, i) : g.promise[p] = f.promise[p]

LEMMA OpenCaseProtects ==
    ASSUME NEW f, NEW g \in Facts, Protects(f, g), NEW i \in Invoices
    PROVE  Protects(f, OpenCase(g, i))
<1>1. LET h == OpenCase(g, i) IN
        h.status = g.status /\ h.outstanding = g.outstanding /\ h.promise = g.promise
  BY DEF OpenCase
<1> QED BY <1>1 DEF Protects

LEMMA SimulatedPaymentProtects ==
    ASSUME NEW f \in Facts, NEW x \in Payable(f), NEW a \in 1 .. f.outstanding[x]
    PROVE  Protects(f, SimulatedPayment(f, x, a))
<1> DEFINE g == ReceivePayment(f, x, a, f.date)
           h == FulfilPromises(g, x, a)
<1>1. x \in Invoices /\ f.outstanding[x] > 0 /\ f.status[x] # "DISPUTED"
  BY DEF Payable
<1>2. f.date \in Dates /\ a \in Nat /\ a <= f.outstanding[x]
  BY <1>1 DEF Facts
<1>3. g \in Facts /\ h \in Facts
  BY <1>1, <1>2, ReceivePaymentType, FulfilPromisesType
<1>4. /\ h.status = g.status /\ h.outstanding = g.outstanding
      /\ h.promise = [p \in Promises |->
            IF p \in PromisesOn(g, x) /\ g.promise[p].status = "ACTIVE"
               /\ a >= g.promise[p].amount
            THEN [g.promise[p] EXCEPT !.status = "FULFILLED"]
            ELSE g.promise[p]]
  BY DEF FulfilPromises
<1>5. /\ g.promise = f.promise
      /\ \A i \in Invoices \ {x} : g.status[i] = f.status[i]
                                   /\ g.outstanding[i] = f.outstanding[i]
  BY DEF ReceivePayment, Facts
<1> HIDE DEF g, h
<1>6. \A i \in Invoices \ {x} : \A p \in PromisesOn(f, i) : h.promise[p] = f.promise[p]
  BY <1>4, <1>5 DEF PromisesOn
<1>7. Protects(f, h)
  BY <1>1, <1>4, <1>5, <1>6 DEF Protects
<1> QED BY <1>1, <1>3, <1>7, OpenCaseProtects DEF SimulatedPayment, g, h

LEMMA OutcomeProtects ==
    ASSUME NEW f \in Facts, f.date >= 1, NEW used, NEW kind \in EventKinds,
           NEW x \in Targets(f, used, kind), NEW g \in EventOutcomes(f, kind, x)
    PROVE  Protects(f, g)
<1>0. f.date \in Nat
  BY PortfolioConstants DEF Facts, Dates
<1>1. kind \notin {"PROMISE_BROKEN", "DISPUTE_RESOLVED"} =>
        /\ x \in Payable(f) /\ x \in Invoices
        /\ f.outstanding[x] \in Nat \ {0}
        /\ f.outstanding[x] \in 1 .. f.outstanding[x]
  BY TargetsType DEF Payable, Facts
<1>2. CASE kind = "PARTIAL_PAYMENT"
  <2>1. PICK a \in PartialAmounts(f.outstanding[x]) : g = SimulatedPayment(f, x, a)
    BY <1>2 DEF EventOutcomes
  <2> QED BY <1>1, <1>2, <2>1, PartialAmountsType, SimulatedPaymentProtects
<1>3. CASE kind = "FULL_PAYMENT"
  <2>1. g = SimulatedPayment(f, x, f.outstanding[x])
    BY <1>3 DEF EventOutcomes
  <2> QED BY <1>1, <1>3, <2>1, SimulatedPaymentProtects
<1>4. ASSUME NEW h \in Facts, Protects(f, h), NEW i \in Invoices, g = OpenCase(h, i)
      PROVE  Protects(f, g)
  BY <1>4, OpenCaseProtects
<1>5. CASE kind = "PROMISE_CREATED"
  <2> DEFINE p == CHOOSE q \in FreePromiseRows(f) : TRUE
  <2>1. p \in Promises /\ f.promise[p].status = "NONE"
    BY <1>5, TargetsType DEF FreePromiseRows
  <2>2. PICK a \in FractionalAmounts(f.outstanding[x], 20, 75),
             days \in PromiseDaysMin .. PromiseDaysMax :
                g = OpenCase(AddPromise(f, p, x, a, f.date + days, f.date), x)
    BY <1>5 DEF EventOutcomes
  <2>3. a \in Nat /\ days \in Nat
    BY <1>1, <1>5, FractionalAmountsType, PortfolioConstants
  <2> HIDE DEF p
  <2> DEFINE h == AddPromise(f, p, x, a, f.date + days, f.date)
  <2>4. h \in Facts
    BY <1>0, <1>1, <1>5, <2>1, <2>3, AddPromiseType
  <2>5. /\ h.status = f.status /\ h.outstanding = f.outstanding
        /\ \A q \in Promises \ {p} : h.promise[q] = f.promise[q]
    BY <2>1 DEF AddPromise, Facts
  <2>6. \A i : p \notin PromisesOn(f, i) /\ PromisesOn(f, i) \subseteq Promises
    BY <2>1 DEF PromisesOn
  <2> HIDE DEF h
  <2>7. Protects(f, h)
    BY <2>5, <2>6 DEF Protects
  <2> QED BY <1>1, <1>4, <1>5, <2>2, <2>4, <2>7 DEF h
<1>6. CASE kind = "PROMISE_BROKEN"
  <2> DEFINE h == BreakPromise(f, x)
             j == f.promise[x].invoice
  <2>1. x \in Promises /\ j \in Invoices /\ f.outstanding[j] > 0
    BY <1>6, TargetsType DEF BreakablePromises, Facts, PromiseRows
  <2>2. g = OpenCase(h, j)
    BY <1>6 DEF EventOutcomes
  <2>3. h \in Facts
    BY <2>1, BreakPromiseType
  <2>4. /\ h.status = f.status /\ h.outstanding = f.outstanding
        /\ \A q \in Promises \ {x} : h.promise[q] = f.promise[q]
    BY <2>1 DEF BreakPromise, Facts
  <2>5. \A i \in Invoices : f.outstanding[i] = 0 => x \notin PromisesOn(f, i)
    BY <2>1 DEF PromisesOn
  <2>6. \A i : PromisesOn(f, i) \subseteq Promises
    BY DEF PromisesOn
  <2> HIDE DEF h
  <2>7. Protects(f, h)
    BY <2>4, <2>5, <2>6 DEF Protects
  <2> QED BY <1>4, <2>1, <2>2, <2>3, <2>7
<1>7. CASE kind = "DISPUTE_OPENED"
  <2>1. g = OpenCase(OpenDispute(f, x), x)
    BY <1>7 DEF EventOutcomes
  <2>2. Protects(f, OpenDispute(f, x))
    BY <1>1, <1>7 DEF OpenDispute, Protects, Facts
  <2> QED BY <1>1, <1>4, <1>7, <2>1, <2>2, OpenDisputeType
<1>8. CASE kind = "DISPUTE_RESOLVED"
  <2>1. x \in Invoices /\ f.outstanding[x] > 0
    BY <1>8, TargetsType DEF DisputedUnpaid
  <2>2. g = OpenCase(ResolveDispute(f, x), x)
    BY <1>8 DEF EventOutcomes
  <2>3. Protects(f, ResolveDispute(f, x))
    BY <2>1 DEF ResolveDispute, Protects, Facts
  <2> QED BY <1>4, <2>1, <2>2, <2>3, ResolveDisputeType
<1>9. CASE kind = "CUSTOMER_DELAY_RESPONSE"
  <2>1. g = OpenCase(f, x)
    BY <1>9 DEF EventOutcomes
  <2>2. Protects(f, f)
    BY DEF Protects
  <2> QED BY <1>1, <1>4, <1>9, <2>1, <2>2
<1> QED BY <1>2, <1>3, <1>5, <1>6, <1>7, <1>8, <1>9 DEF EventKinds

(* In a cycle of any length, no event pays a disputed invoice, and none    *)
(* changes the status or the promises of one that is settled.              *)
THEOREM CycleProtectsDocuments == Spec => DocumentsProtected
<1> DEFINE A == tick # Idle /\ tick' # Idle => \A i \in Invoices :
        /\ tick.work.status[i] = "DISPUTED" =>
              tick'.work.outstanding[i] = tick.work.outstanding[i]
        /\ tick.work.outstanding[i] = 0 =>
              /\ tick'.work.status[i] = tick.work.status[i]
              /\ \A p \in PromisesOn(tick.work, i) :
                    tick'.work.promise[p] = tick.work.promise[p]
<1>1. TypeInv /\ [Next]_vars => [A]_vars
  <2> SUFFICES ASSUME TypeInv, [Next]_vars, tick # Idle, tick' # Idle
               PROVE  Protects(tick.work, tick'.work)
    BY DEF Protects
  <2>1. CASE tick' = tick
    BY <2>1 DEF Protects
  <2>2. ASSUME NEW left, GenerateEvent(left)
        PROVE  Protects(tick.work, tick'.work)
    <3>1. PICK kind \in AvailableKinds(tick.work, tick.used) :
            \E x \in Targets(tick.work, tick.used, kind) :
              \E g \in EventOutcomes(tick.work, kind, x) : tick'.work = g
      BY <2>2 DEF GenerateEvent
    <3>2. PICK x \in Targets(tick.work, tick.used, kind) :
              tick'.work \in EventOutcomes(tick.work, kind, x)
      BY <3>1
    <3>3. kind \in EventKinds
      BY DEF AvailableKinds
    <3> QED BY <3>2, <3>3, CycleTyped, OutcomeProtects
  <2>3. ~BeginTick /\ ~TickConflict /\ ~CommitTick /\ ~AbortTick
    BY DEF BeginTick, TickConflict, CommitTick, AbortTick
  <2>4. GeneratePrimary \/ GenerateSecondary => Protects(tick.work, tick'.work)
    BY <2>2 DEF GeneratePrimary, GenerateSecondary
  <2>5. ResetSimulation \/ SynchronizeCommand \/ PaymentStep \/ ReviewStep => tick' = tick
    BY DEF ResetSimulation, SynchronizeCommand, PaymentStep, CreatePaymentRequest,
         CommitPaymentRequest, AbortPaymentRequest,
           IngestPaymentEvent, ReviewStep, AnalyzeCommunication, AnalysisFails,
           AcceptCandidate, RejectCandidate
  <2> QED BY <2>1, <2>3, <2>4, <2>5 DEF Next, RunTick, vars
<1> QED BY <1>1, InitType, NextType, PTL DEF Spec, DocumentsProtected

-----------------------------------------------------------------------------
(* When a cycle is refused.                                                *)

PrimaryUnused == tick.phase = "PRIMARY" => tick.used = {}

LEMMA SomethingOwed ==
    ASSUME NEW f \in Facts, NEW i \in Invoices, f.outstanding[i] # 0
    PROVE  AvailableKinds(f, {}) # {}
<1>1. f.outstanding[i] > 0
  BY DEF Facts
<1>2. CASE f.status[i] = "DISPUTED"
  <2>1. i \in Targets(f, {}, "DISPUTE_RESOLVED")
    BY <1>1, <1>2 DEF Targets, DisputedUnpaid
  <2>2. "DISPUTE_RESOLVED" \in AvailableKinds(f, {})
    BY <2>1 DEF AvailableKinds, EventKinds
  <2> QED BY <2>2
<1>3. CASE f.status[i] # "DISPUTED"
  <2>1. i \in Targets(f, {}, "FULL_PAYMENT")
    BY <1>1, <1>3 DEF Targets, Payable
  <2>2. "FULL_PAYMENT" \in AvailableKinds(f, {})
    BY <2>1 DEF AvailableKinds, EventKinds
  <2> QED BY <2>2
<1> QED BY <1>2, <1>3

(* A cycle that is refused for want of an event has a portfolio in which   *)
(* nothing is owed.                                                        *)
THEOREM RefusedOnlyWhenSettled == Spec => []CycleFindsAnEvent
<1>1. Init => PrimaryUnused
  BY DEF Init, Idle, PrimaryUnused
<1>2. PrimaryUnused /\ [Next]_vars => PrimaryUnused'
  <2> SUFFICES ASSUME PrimaryUnused, [Next]_vars PROVE PrimaryUnused'
    OBVIOUS
  <2>1. tick' = tick => PrimaryUnused'
    BY DEF PrimaryUnused
  <2>2. RunTick \/ AbortTick => PrimaryUnused'
    BY DEF RunTick, BeginTick, GeneratePrimary, GenerateSecondary, GenerateEvent,
           TickConflict, CommitTick, AbortTick, Idle, PrimaryUnused
  <2>3. ResetSimulation \/ SynchronizeCommand \/ PaymentStep \/ ReviewStep => tick' = tick
    BY DEF ResetSimulation, SynchronizeCommand, PaymentStep, CreatePaymentRequest,
         CommitPaymentRequest, AbortPaymentRequest,
           IngestPaymentEvent, ReviewStep, AnalyzeCommunication, AnalysisFails,
           AcceptCandidate, RejectCandidate
  <2> QED BY <2>1, <2>2, <2>3 DEF Next, vars
<1>3. TypeInv /\ PrimaryUnused => CycleFindsAnEvent
  <2> SUFFICES ASSUME TypeInv, PrimaryUnused, tick.phase = "PRIMARY",
                      AvailableKinds(tick.work, tick.used) = {},
                      NEW i \in Invoices
               PROVE  tick.work.outstanding[i] = 0
    BY DEF CycleFindsAnEvent
  <2>1. tick.work \in Facts
    BY CycleTyped DEF Idle
  <2> QED BY <2>1, SomethingOwed DEF PrimaryUnused
<1> QED BY <1>1, <1>2, <1>3, InitType, NextType, PTL DEF Spec

-----------------------------------------------------------------------------
(* Money: what an invoice is owed and was paid, which promises are settled, *)
(* and what the payment requests say they received.                         *)

Days(from, to) == {d \in Dates : from <= d /\ d <= to}

LEMMA DaysFinite ==
    ASSUME NEW from, NEW to
    PROVE  IsFiniteSet(Dates) /\ IsFiniteSet(Days(from, to)) /\ Days(from, to) \in SUBSET Dates
<1>1. IsFiniteSet(Dates)
  BY PortfolioConstants, FS_Interval DEF Dates
<1> QED BY <1>1, FS_Subset DEF Days

LEMMA AllDays == Days(0, LastDate) = Dates
  BY PortfolioConstants DEF Days, Dates

LEMMA PaidBetweenType ==
    ASSUME NEW f \in Facts, NEW i \in Invoices, NEW from, NEW to
    PROVE  PaidBetween(f, i, from, to) \in Nat
<1>1. \A d \in Days(from, to) : f.paidOn[i][d] \in Nat
  BY DEF Facts, Days
<1>2. PaidBetween(f, i, from, to) = SumFunctionOnSet(f.paidOn[i], Days(from, to))
  BY DEF PaidBetween, Days
<1> QED BY <1>1, <1>2, DaysFinite, SumNat

(* Payments are only ever added.                                           *)
Grows(f, g) == \A i \in Invoices : \A d \in Dates : f.paidOn[i][d] <= g.paidOn[i][d]

LEMMA GrowsTransitive ==
    ASSUME NEW f \in Facts, NEW g \in Facts, NEW h \in Facts, Grows(f, g), Grows(g, h)
    PROVE  Grows(f, h)
<1>1. \A i \in Invoices : \A d \in Dates :
        f.paidOn[i][d] \in Nat /\ g.paidOn[i][d] \in Nat /\ h.paidOn[i][d] \in Nat
  BY DEF Facts
<1> QED BY <1>1 DEF Grows

LEMMA PaidGrows ==
    ASSUME NEW f \in Facts, NEW g \in Facts, Grows(f, g), NEW i \in Invoices,
           NEW from, NEW to, NEW later, Days(from, to) \subseteq Days(from, later)
    PROVE  PaidBetween(f, i, from, to) <= PaidBetween(g, i, from, later)
<1>1. \A d \in Days(from, later) :
        /\ f.paidOn[i][d] \in Nat /\ g.paidOn[i][d] \in Nat
        /\ f.paidOn[i][d] <= g.paidOn[i][d]
  BY DEF Grows, Facts, Days
<1>2. /\ PaidBetween(f, i, from, to) = SumFunctionOnSet(f.paidOn[i], Days(from, to))
      /\ PaidBetween(g, i, from, later) = SumFunctionOnSet(g.paidOn[i], Days(from, later))
  BY DEF PaidBetween, Days
<1>3. IsFiniteSet(Days(from, later))
  BY DaysFinite
<1> QED BY <1>1, <1>2, <1>3, SumMonotone

(* A payment adds its amount to the total of its invoice, and only there.  *)
LEMMA PaymentAdds ==
    ASSUME NEW f \in Facts, NEW i \in Invoices, NEW amount \in Nat, NEW date \in Dates,
           NEW k \in Invoices
    PROVE  LET g == ReceivePayment(f, i, amount, date)
           IN  TotalPaid(g, k) = TotalPaid(f, k) + (IF k = i THEN amount ELSE 0)
<1> DEFINE g == ReceivePayment(f, i, amount, date)
           old == f.paidOn[k]
           new == g.paidOn[k]
<1>1. \A d \in Dates : old[d] \in Nat
  BY DEF Facts
<1>2. new = IF k = i THEN [old EXCEPT ![date] = @ + amount] ELSE old
  BY DEF ReceivePayment, Facts
<1>3. old \in [Dates -> Nat]
  BY DEF Facts
<1>4. TotalPaid(g, k) = SumFunctionOnSet(new, Dates)
      /\ TotalPaid(f, k) = SumFunctionOnSet(old, Dates)
  BY AllDays DEF TotalPaid, PaidBetween, Days
<1>5. IsFiniteSet(Dates)
  BY DaysFinite
<1> HIDE DEF old, new, g
<1>6. SumFunctionOnSet(old, Dates) \in Int
  BY <1>1, <1>5, SumInt
<1>7. CASE k = i
  <2>1. \A d \in Dates : old[d] \in Int /\ new[d] \in Int
    BY <1>2, <1>3, <1>7
  <2>2. (\A d \in Dates \ {date} : old[d] = new[d]) /\ new[date] = old[date] + amount
    BY <1>2, <1>3, <1>7
  <2>3. SumFunctionOnSet(new, Dates) = SumFunctionOnSet(old, Dates) + (new[date] - old[date])
    BY <1>5, <2>1, <2>2, SumChange
  <2>4. new[date] - old[date] = amount
    BY <2>1, <2>2
  <2> QED BY <1>4, <1>7, <2>3, <2>4 DEF g
<1>8. CASE k # i
  BY <1>2, <1>4, <1>6, <1>8 DEF g
<1> QED BY <1>7, <1>8

-----------------------------------------------------------------------------
(* What the money of facts must satisfy: balanced, and every settled       *)
(* promise paid since the day it was made, a day that is not in the        *)
(* future.  The last conjunct lets an accepted promise, made on or before  *)
(* the day of the seed, keep the third.                                    *)

Reconciled(f) == Balanced(f) /\ PromisesKept(f) /\ Baseline.date <= f.date

\* From facts that are kept, an operation leads to facts that are.
Keeps(f, g) == Reconciled(f) => Reconciled(g) /\ Grows(f, g)

LEMMA KeepsTransitive ==
    ASSUME NEW f \in Facts, NEW g \in Facts, NEW h \in Facts, Keeps(f, g), Keeps(g, h)
    PROVE  Keeps(f, h)
  BY GrowsTransitive DEF Keeps

LEMMA SettledMeansPaid ==
    ASSUME NEW f \in Facts, NEW p \in Promises, f.promise[p].status = "FULFILLED"
    PROVE  LET row == f.promise[p]
           IN  PromiseStateOf(f, p) = "FULFILLED" <=>
                    PaidBetween(f, row.invoice, row.source, f.date) >= row.amount
  BY DEF PromiseStateOf, PromiseState

(* A settled promise that was paid stays paid while payments are added.    *)
LEMMA SettledStaysPaid ==
    ASSUME NEW f \in Facts, NEW g \in Facts, Grows(f, g), f.date <= g.date,
           NEW p \in Promises, g.promise[p] = f.promise[p],
           f.promise[p].status = "FULFILLED", PromiseStateOf(f, p) = "FULFILLED"
    PROVE  PromiseStateOf(g, p) = "FULFILLED"
<1> DEFINE row == f.promise[p]
<1>1. row \in PromiseRows /\ f.date \in Int /\ g.date \in Int
  BY DEF Facts, Dates
<1>2. row.invoice \in Invoices /\ row.amount \in Nat
  BY <1>1 DEF PromiseRows
<1>3. Days(row.source, f.date) \subseteq Days(row.source, g.date)
  BY <1>1 DEF Days, Dates
<1>4. PaidBetween(f, row.invoice, row.source, f.date)
        <= PaidBetween(g, row.invoice, row.source, g.date)
  BY <1>2, <1>3, PaidGrows
<1>5. /\ PaidBetween(f, row.invoice, row.source, f.date) \in Nat
      /\ PaidBetween(g, row.invoice, row.source, g.date) \in Nat
  BY <1>2, PaidBetweenType
<1>6. PaidBetween(f, row.invoice, row.source, f.date) >= row.amount
  BY SettledMeansPaid
<1>7. PaidBetween(g, row.invoice, row.source, g.date) >= row.amount
  BY <1>2, <1>4, <1>5, <1>6
<1> HIDE DEF row
<1>8. PromiseStateOf(g, p) = "FULFILLED" <=>
        PaidBetween(g, row.invoice, row.source, g.date) >= row.amount
  BY SettledMeansPaid DEF row
<1> QED BY <1>7, <1>8

(* An operation that leaves the money alone and settles no promise keeps   *)
(* the ledger.                                                             *)
LEMMA SameMoney ==
    ASSUME NEW f \in Facts, NEW g \in Facts,
           g.outstanding = f.outstanding, g.paidOn = f.paidOn, f.date <= g.date,
           \A p \in Promises :
               /\ g.promise[p].status = "FULFILLED" => g.promise[p] = f.promise[p]
               /\ \/ g.promise[p].status = "NONE"
                  \/ g.promise[p].source <= g.date
                  \/ /\ f.promise[p].status # "NONE"
                     /\ g.promise[p].source = f.promise[p].source
    PROVE  Keeps(f, g)
<1> SUFFICES ASSUME Reconciled(f) PROVE Reconciled(g) /\ Grows(f, g)
  BY DEF Keeps
<1>1. Grows(f, g)
  BY DEF Grows, Facts
<1>2. \A i \in Invoices : TotalPaid(g, i) = TotalPaid(f, i)
  BY DEF TotalPaid, PaidBetween
<1>3. Balanced(g)
  BY <1>2 DEF Reconciled, Balanced
<1>4. Baseline.date \in Int /\ f.date \in Int /\ g.date \in Int
  BY SystemConstants DEF Facts, Dates
<1>5. Baseline.date <= g.date
  BY <1>4 DEF Reconciled
<1>6. ASSUME NEW p \in Promises
      PROVE  /\ g.promise[p].status # "NONE" => g.promise[p].source <= g.date
             /\ g.promise[p].status = "FULFILLED" => PromiseStateOf(g, p) = "FULFILLED"
  <2>1. f.promise[p].source \in Int
    BY DEF Facts, PromiseRows
  <2>2. g.promise[p].status # "NONE" => g.promise[p].source <= g.date
    BY <1>4, <2>1 DEF Reconciled, PromisesKept
  <2>3. g.promise[p].status = "FULFILLED" => PromiseStateOf(g, p) = "FULFILLED"
    BY <1>1, SettledStaysPaid DEF Reconciled, PromisesKept
  <2> QED BY <2>2, <2>3
<1> QED BY <1>1, <1>3, <1>5, <1>6 DEF Reconciled, PromisesKept

-----------------------------------------------------------------------------
(* Every operation of the simulator and of the other handlers keeps the    *)
(* ledger.                                                                 *)

LEMMA OpenCaseKeeps ==
    ASSUME NEW f \in Facts, NEW i \in Invoices
    PROVE  Keeps(f, OpenCase(f, i))
<1> DEFINE g == OpenCase(f, i)
<1>1. g \in Facts
  BY OpenCaseType
<1>2. /\ g.outstanding = f.outstanding /\ g.paidOn = f.paidOn
      /\ g.date = f.date /\ g.promise = f.promise
  BY DEF OpenCase, Facts
<1>3. f.date \in Int
  BY DEF Facts, Dates
<1> HIDE DEF g
<1>4. Keeps(f, g)
  <2>1. \A p \in Promises : g.promise[p] = f.promise[p]
    BY <1>2
  <2> QED BY <1>1, <1>2, <1>3, <2>1, SameMoney
<1> QED BY <1>4 DEF g

LEMMA SynchronizeKeeps ==
    ASSUME NEW f \in Facts
    PROVE  Keeps(f, Synchronize(f))
<1> DEFINE g == Synchronize(f)
<1>1. g \in Facts
  BY SynchronizeType
<1>2. /\ g.outstanding = f.outstanding /\ g.paidOn = f.paidOn
      /\ g.date = f.date /\ g.promise = f.promise
  BY DEF Synchronize, Facts
<1>3. f.date \in Int
  BY DEF Facts, Dates
<1> HIDE DEF g
<1>4. Keeps(f, g)
  BY <1>1, <1>2, <1>3, SameMoney
<1> QED BY <1>4 DEF g

LEMMA DisputeKeeps ==
    ASSUME NEW f \in Facts, NEW i \in Invoices
    PROVE  Keeps(f, OpenDispute(f, i)) /\ Keeps(f, ResolveDispute(f, i))
<1>1. ASSUME NEW g \in Facts, g.outstanding = f.outstanding, g.paidOn = f.paidOn,
             g.date = f.date, g.promise = f.promise
      PROVE  Keeps(f, g)
  <2>1. f.date \in Int
    BY DEF Facts, Dates
  <2> QED BY <1>1, <2>1, SameMoney
<1>2. LET g == OpenDispute(f, i)
      IN  /\ g \in Facts
          /\ g.outstanding = f.outstanding /\ g.paidOn = f.paidOn
          /\ g.date = f.date /\ g.promise = f.promise
  BY OpenDisputeType DEF OpenDispute, Facts
<1>3. LET g == ResolveDispute(f, i)
      IN  /\ g \in Facts
          /\ g.outstanding = f.outstanding /\ g.paidOn = f.paidOn
          /\ g.date = f.date /\ g.promise = f.promise
  BY ResolveDisputeType DEF ResolveDispute, Facts
<1> QED BY <1>1, <1>2, <1>3

LEMMA AddPromiseKeeps ==
    ASSUME NEW f \in Facts, NEW p \in Promises, NEW i \in Invoices,
           NEW amount \in Nat, NEW due \in Nat, NEW source \in Nat, source <= f.date
    PROVE  Keeps(f, AddPromise(f, p, i, amount, due, source))
<1> DEFINE g == AddPromise(f, p, i, amount, due, source)
<1>1. g \in Facts
  BY AddPromiseType
<1>2. /\ g.outstanding = f.outstanding /\ g.paidOn = f.paidOn /\ g.date = f.date
  BY DEF AddPromise, Facts
<1>3. \A q \in Promises :
        IF q = p THEN g.promise[q].status = "ACTIVE" /\ g.promise[q].source = source
        ELSE g.promise[q] = f.promise[q]
  BY DEF AddPromise, Facts
<1>4. f.date \in Int
  BY DEF Facts, Dates
<1> HIDE DEF g
<1>5. \A q \in Promises :
         /\ g.promise[q].status = "FULFILLED" => g.promise[q] = f.promise[q]
         /\ \/ g.promise[q].status = "NONE"
            \/ g.promise[q].source <= g.date
            \/ /\ f.promise[q].status # "NONE"
               /\ g.promise[q].source = f.promise[q].source
  BY <1>2, <1>3
<1>6. Keeps(f, g)
  BY <1>1, <1>2, <1>4, <1>5, SameMoney
<1> QED BY <1>6 DEF g

(* Marking a promise broken, whichever way, leaves the others alone.       *)
LEMMA BreakKeeps ==
    ASSUME NEW f \in Facts, NEW p \in Promises, f.promise[p].status # "NONE",
           NEW g \in Facts,
           g.outstanding = f.outstanding, g.paidOn = f.paidOn, g.date = f.date,
           \A q \in Promises :
               IF q = p THEN /\ g.promise[q].status = "BROKEN"
                             /\ g.promise[q].source = f.promise[q].source
               ELSE g.promise[q] = f.promise[q]
    PROVE  Keeps(f, g)
<1>1. f.date \in Int
  BY DEF Facts, Dates
<1>2. \A q \in Promises :
         /\ g.promise[q].status = "FULFILLED" => g.promise[q] = f.promise[q]
         /\ \/ g.promise[q].status = "NONE"
            \/ g.promise[q].source <= g.date
            \/ /\ f.promise[q].status # "NONE"
               /\ g.promise[q].source = f.promise[q].source
  OBVIOUS
<1> QED BY <1>1, <1>2, SameMoney

LEMMA OverdueRulesKeep ==
    ASSUME NEW f \in Facts
    PROVE  Keeps(f, ApplyOverdueRules(f))
<1> DEFINE g == ApplyOverdueRules(f)
<1>1. g \in Facts
  BY ApplyOverdueRulesType
<1>2. /\ g.outstanding = f.outstanding /\ g.paidOn = f.paidOn
      /\ g.date = f.date /\ g.promise = f.promise
  BY DEF ApplyOverdueRules, Facts
<1>3. f.date \in Int
  BY DEF Facts, Dates
<1> HIDE DEF g
<1>4. Keeps(f, g)
  BY <1>1, <1>2, <1>3, SameMoney
<1> QED BY <1>4 DEF g

(* A payment moves its amount from the balance to the payments.            *)
LEMMA ReceiveKeeps ==
    ASSUME NEW f \in Facts, NEW i \in Invoices, NEW amount \in Nat,
           amount <= f.outstanding[i], NEW date \in Dates
    PROVE  Keeps(f, ReceivePayment(f, i, amount, date))
<1> DEFINE g == ReceivePayment(f, i, amount, date)
<1> SUFFICES ASSUME Reconciled(f) PROVE Reconciled(g) /\ Grows(f, g)
  BY DEF Keeps
<1>0. g \in Facts
  BY ReceivePaymentType
<1>1. g.date = f.date /\ g.promise = f.promise /\ f.date \in Int
  BY DEF ReceivePayment, Facts, Dates
<1>2. Grows(f, g)
  <2>1. ASSUME NEW k \in Invoices, NEW d \in Dates
        PROVE  g.paidOn[k][d] = f.paidOn[k][d] + (IF k = i /\ d = date THEN amount ELSE 0)
    BY DEF ReceivePayment, Facts
  <2>2. \A k \in Invoices : \A d \in Dates : f.paidOn[k][d] \in Nat
    BY DEF Facts
  <2> HIDE DEF g
  <2> QED BY <2>1, <2>2 DEF Grows
<1>3. Balanced(g)
  <2> SUFFICES ASSUME NEW k \in Invoices
               PROVE  g.outstanding[k] + TotalPaid(g, k) = Original[k]
    BY DEF Balanced
  <2>1. g.outstanding[k] = f.outstanding[k] - (IF k = i THEN amount ELSE 0)
    BY DEF ReceivePayment, Facts
  <2>2. TotalPaid(g, k) = TotalPaid(f, k) + (IF k = i THEN amount ELSE 0)
    BY PaymentAdds
  <2>3. f.outstanding[k] + TotalPaid(f, k) = Original[k]
    BY DEF Reconciled, Balanced
  <2>4. f.outstanding[k] \in Nat /\ TotalPaid(f, k) \in Nat
    BY PaidBetweenType DEF Facts, TotalPaid
  <2> HIDE DEF g
  <2> QED BY <2>1, <2>2, <2>3, <2>4
<1> HIDE DEF g
<1>4. PromisesKept(g)
  <2> SUFFICES ASSUME NEW p \in Promises
               PROVE  /\ g.promise[p].status # "NONE" => g.promise[p].source <= g.date
                      /\ g.promise[p].status = "FULFILLED" => PromiseStateOf(g, p) = "FULFILLED"
    BY DEF PromisesKept
  <2> QED BY <1>0, <1>1, <1>2, SettledStaysPaid DEF Reconciled, PromisesKept
<1> QED BY <1>1, <1>2, <1>3, <1>4 DEF Reconciled

(* The simulator settles a promise after a payment of today that is as     *)
(* large as what was promised.                                             *)
LEMMA FulfilKeeps ==
    ASSUME NEW f \in Facts, NEW i \in Invoices, NEW amount \in Nat,
           f.paidOn[i][f.date] >= amount
    PROVE  Keeps(f, FulfilPromises(f, i, amount))
<1> DEFINE g == FulfilPromises(f, i, amount)
<1> SUFFICES ASSUME Reconciled(f) PROVE Reconciled(g) /\ Grows(f, g)
  BY DEF Keeps
<1>1. /\ g.outstanding = f.outstanding /\ g.paidOn = f.paidOn /\ g.date = f.date
      /\ f.date \in Dates /\ f.date \in Int
  BY DEF FulfilPromises, Facts, Dates
<1>2. g \in Facts
  BY FulfilPromisesType
<1>3. \A p \in Promises :
        \/ g.promise[p] = f.promise[p]
        \/ /\ f.promise[p].status = "ACTIVE" /\ f.promise[p].invoice = i
           /\ amount >= f.promise[p].amount
           /\ g.promise[p] = [f.promise[p] EXCEPT !.status = "FULFILLED"]
  BY DEF FulfilPromises, PromisesOn
<1> HIDE DEF g
<1>4. Grows(f, g)
  BY <1>1 DEF Grows, Facts
<1>5. Balanced(g)
  BY <1>1 DEF Reconciled, Balanced, TotalPaid, PaidBetween
<1>6. PromisesKept(g)
  <2> SUFFICES ASSUME NEW p \in Promises
               PROVE  /\ g.promise[p].status # "NONE" => g.promise[p].source <= g.date
                      /\ g.promise[p].status = "FULFILLED" => PromiseStateOf(g, p) = "FULFILLED"
    BY DEF PromisesKept
  <2>1. CASE g.promise[p] = f.promise[p]
    BY <1>1, <1>2, <1>4, <2>1, SettledStaysPaid DEF Reconciled, PromisesKept
  <2>2. CASE g.promise[p] # f.promise[p]
    <3> DEFINE row == f.promise[p]
               days == Days(row.source, f.date)
    <3>1. row \in PromiseRows
      BY DEF Facts
    <3>2. /\ row.invoice = i /\ amount >= row.amount /\ row.amount \in Nat
          /\ row.status = "ACTIVE"
          /\ g.promise[p] = [row EXCEPT !.status = "FULFILLED"]
      BY <1>3, <2>2, <3>1 DEF PromiseRows
    <3>3. /\ g.promise[p].source = row.source /\ g.promise[p].amount = row.amount
          /\ g.promise[p].invoice = i /\ g.promise[p].status = "FULFILLED"
      BY <3>1, <3>2 DEF PromiseRows
    <3>4. row.source <= f.date
      BY <3>2 DEF Reconciled, PromisesKept
    <3>5. f.date \in days
      BY <1>1, <3>4 DEF Days
    <3> HIDE DEF row, days
    <3>6. \A d \in days : f.paidOn[i][d] \in Nat
      BY DEF Facts, days, Days
    <3>7. f.paidOn[i][f.date] <= SumFunctionOnSet(f.paidOn[i], days)
          /\ SumFunctionOnSet(f.paidOn[i], days) \in Nat
      BY <3>5, <3>6, DaysFinite, SumNat DEF days
    <3>8. PaidBetween(g, i, row.source, g.date) = SumFunctionOnSet(f.paidOn[i], days)
      BY <1>1 DEF PaidBetween, Days, days
    <3>9. f.paidOn[i][f.date] \in Nat
      BY <3>5, <3>6
    <3>10. PaidBetween(g, i, row.source, g.date) >= row.amount
      BY <3>2, <3>7, <3>8, <3>9
    <3>11. PromiseStateOf(g, p) = "FULFILLED"
      BY <1>2, <3>3, <3>10, SettledMeansPaid
    <3> QED BY <1>1, <3>3, <3>4, <3>11
  <2> QED BY <2>1, <2>2
<1> QED BY <1>1, <1>4, <1>5, <1>6 DEF Reconciled

LEMMA SimulatedPaymentKeeps ==
    ASSUME NEW f \in Facts, NEW i \in Invoices, NEW a \in 1 .. f.outstanding[i]
    PROVE  Keeps(f, SimulatedPayment(f, i, a))
<1> DEFINE g == ReceivePayment(f, i, a, f.date)
           h == FulfilPromises(g, i, a)
<1>1. f.date \in Dates /\ a \in Nat /\ a <= f.outstanding[i]
  BY DEF Facts
<1>2. g \in Facts /\ Keeps(f, g)
  BY <1>1, ReceivePaymentType, ReceiveKeeps
<1>3. g.paidOn[i][g.date] >= a
  <2>1. g.paidOn[i][g.date] = f.paidOn[i][f.date] + a /\ f.paidOn[i][f.date] \in Nat
    BY <1>1 DEF ReceivePayment, Facts
  <2> HIDE DEF g
  <2> QED BY <1>1, <2>1
<1> HIDE DEF g
<1>4. h \in Facts /\ Keeps(g, h)
  BY <1>1, <1>2, <1>3, FulfilPromisesType, FulfilKeeps
<1> HIDE DEF h
<1>5. OpenCase(h, i) \in Facts /\ Keeps(h, OpenCase(h, i))
  BY <1>4, OpenCaseType, OpenCaseKeeps
<1>6. Keeps(f, h)
  BY <1>2, <1>4, KeepsTransitive
<1> QED BY <1>4, <1>5, <1>6, KeepsTransitive DEF SimulatedPayment, g, h

LEMMA OutcomeKeeps ==
    ASSUME NEW f \in Facts, f.date >= 1, NEW used, NEW kind \in EventKinds,
           NEW x \in Targets(f, used, kind), NEW g \in EventOutcomes(f, kind, x)
    PROVE  Keeps(f, g)
<1>0. f.date \in Nat
  BY PortfolioConstants DEF Facts, Dates
<1>1. kind \notin {"PROMISE_BROKEN", "DISPUTE_RESOLVED"} =>
        /\ x \in Invoices /\ f.outstanding[x] \in Nat \ {0}
        /\ f.outstanding[x] \in 1 .. f.outstanding[x]
  BY TargetsType DEF Payable, Facts
<1>2. CASE kind = "PARTIAL_PAYMENT"
  <2>1. PICK a \in PartialAmounts(f.outstanding[x]) : g = SimulatedPayment(f, x, a)
    BY <1>2 DEF EventOutcomes
  <2> QED BY <1>1, <1>2, <2>1, PartialAmountsType, SimulatedPaymentKeeps
<1>3. CASE kind = "FULL_PAYMENT"
  <2>1. g = SimulatedPayment(f, x, f.outstanding[x])
    BY <1>3 DEF EventOutcomes
  <2> QED BY <1>1, <1>3, <2>1, SimulatedPaymentKeeps
<1>4. ASSUME NEW h \in Facts, Keeps(f, h), NEW i \in Invoices, g = OpenCase(h, i)
      PROVE  Keeps(f, g)
  BY <1>4, OpenCaseKeeps, OpenCaseType, KeepsTransitive
<1>5. CASE kind = "PROMISE_CREATED"
  <2> DEFINE p == CHOOSE q \in FreePromiseRows(f) : TRUE
  <2>1. p \in Promises
    BY <1>5, TargetsType DEF FreePromiseRows
  <2>2. PICK a \in FractionalAmounts(f.outstanding[x], 20, 75),
             days \in PromiseDaysMin .. PromiseDaysMax :
                g = OpenCase(AddPromise(f, p, x, a, f.date + days, f.date), x)
    BY <1>5 DEF EventOutcomes
  <2>3. a \in Nat /\ days \in Nat /\ f.date + days \in Nat /\ f.date <= f.date
    BY <1>0, <1>1, <1>5, FractionalAmountsType, PortfolioConstants
  <2> HIDE DEF p
  <2>4. /\ AddPromise(f, p, x, a, f.date + days, f.date) \in Facts
        /\ Keeps(f, AddPromise(f, p, x, a, f.date + days, f.date))
    BY <1>0, <1>1, <1>5, <2>1, <2>3, AddPromiseType, AddPromiseKeeps
  <2> QED BY <1>1, <1>4, <1>5, <2>2, <2>4
<1>6. CASE kind = "PROMISE_BROKEN"
  <2> DEFINE h == BreakPromise(f, x)
  <2>1. /\ x \in Promises /\ f.promise[x].invoice \in Invoices
        /\ f.promise[x].status # "NONE"
    BY <1>6, TargetsType DEF BreakablePromises, Facts, PromiseRows
  <2>2. g = OpenCase(h, f.promise[x].invoice)
    BY <1>6 DEF EventOutcomes
  <2>3. h \in Facts
    BY <2>1, BreakPromiseType
  <2>4. /\ h.outstanding = f.outstanding /\ h.paidOn = f.paidOn /\ h.date = f.date
        /\ \A q \in Promises :
              IF q = x THEN /\ h.promise[q].status = "BROKEN"
                            /\ h.promise[q].source = f.promise[q].source
              ELSE h.promise[q] = f.promise[q]
    BY <2>1 DEF BreakPromise, Facts, PromiseRows
  <2> HIDE DEF h
  <2>5. Keeps(f, h)
    BY <2>1, <2>3, <2>4, BreakKeeps
  <2> QED BY <1>4, <2>1, <2>2, <2>3, <2>5
<1>7. CASE kind = "DISPUTE_OPENED"
  <2>1. g = OpenCase(OpenDispute(f, x), x)
    BY <1>7 DEF EventOutcomes
  <2> QED BY <1>1, <1>4, <1>7, <2>1, OpenDisputeType, DisputeKeeps
<1>8. CASE kind = "DISPUTE_RESOLVED"
  <2>1. x \in Invoices
    BY <1>8, TargetsType DEF DisputedUnpaid
  <2>2. g = OpenCase(ResolveDispute(f, x), x)
    BY <1>8 DEF EventOutcomes
  <2> QED BY <1>4, <2>1, <2>2, ResolveDisputeType, DisputeKeeps
<1>9. CASE kind = "CUSTOMER_DELAY_RESPONSE"
  <2>1. g = OpenCase(f, x)
    BY <1>9 DEF EventOutcomes
  <2> QED BY <1>1, <1>9, <2>1, OpenCaseKeeps
<1> QED BY <1>2, <1>3, <1>5, <1>6, <1>7, <1>8, <1>9 DEF EventKinds

LEMMA AcceptedKeeps ==
    ASSUME TypeInv, Reconciled(db), NEW a \in Analyses, NEW t, NEW i \in Invoices,
           NEW g \in AcceptedFacts(a, t, i)
    PROVE  g \in Facts /\ Keeps(db, g)
<1>0. db \in Facts /\ g \in Facts
  BY AcceptedFactsType DEF TypeInv, TypeOK
<1>1. CASE t = "ACTIVE_DISPUTE"
  BY <1>0, <1>1, DisputeKeeps DEF AcceptedFacts
<1>2. CASE t = "PAYMENT_PROMISE"
  <2> DEFINE p == CHOOSE q \in FreePromiseRows(db) : TRUE
  <2>1. /\ g = AddPromise(db, p, i, CandidateAmount[a], CandidateDate[a], CommunicationDate[a])
        /\ FreePromiseRows(db) # {}
    BY <1>2 DEF AcceptedFacts
  <2>2. p \in Promises
    BY <2>1 DEF FreePromiseRows
  <2>3. /\ CandidateAmount[a] \in Nat /\ CandidateDate[a] \in Nat
        /\ CommunicationDate[a] \in Nat /\ CommunicationDate[a] <= Baseline.date
    BY SystemConstants
  <2>4. CommunicationDate[a] <= db.date
    <3>1. Baseline.date \in Int /\ db.date \in Int
      BY <1>0, SystemConstants DEF Facts, Dates
    <3>2. Baseline.date <= db.date
      BY DEF Reconciled
    <3> QED BY <2>3, <3>1, <3>2
  <2> HIDE DEF p
  <2> QED BY <1>0, <2>1, <2>2, <2>3, <2>4, AddPromiseKeeps
<1>3. CASE t = "BROKEN_PROMISE"
  <2>1. PICK p \in Promises : /\ db.promise[p].status = "ACTIVE"
                              /\ g = [db EXCEPT !.promise[p].status = "BROKEN"]
    BY <1>3 DEF AcceptedFacts, PromisesOn
  <2>2. /\ g.outstanding = db.outstanding /\ g.paidOn = db.paidOn /\ g.date = db.date
        /\ \A q \in Promises :
              IF q = p THEN /\ g.promise[q].status = "BROKEN"
                            /\ g.promise[q].source = db.promise[q].source
              ELSE g.promise[q] = db.promise[q]
    BY <1>0, <2>1 DEF Facts, PromiseRows
  <2> QED BY <1>0, <2>1, <2>2, BreakKeeps
<1>4. CASE t \notin {"ACTIVE_DISPUTE", "PAYMENT_PROMISE", "BROKEN_PROMISE"}
  <2>1. g = db
    BY <1>4 DEF AcceptedFacts
  <2>2. Grows(db, db)
    BY <1>0 DEF Grows, Facts
  <2> QED BY <1>0, <2>1, <2>2 DEF Keeps
<1> QED BY <1>0, <1>1, <1>2, <1>3, <1>4

-----------------------------------------------------------------------------
(* The committed facts and the copy of a cycle are kept; the copy has at   *)
(* least the payments that were committed when the cycle began.            *)

LedgerInv ==
    /\ TypeInv
    /\ Reconciled(db)
    /\ tick # Idle => Reconciled(tick.work) /\ Grows(db, tick.work)

LEMMA BaselineKept == Reconciled(Baseline)
  BY SystemConstants DEF Reconciled, Facts, Dates

LEMMA LedgerInit == Init => LedgerInv
  BY InitType, BaselineKept DEF Init, LedgerInv

(* Every step keeps the committed facts, restores the seed, or stores the  *)
(* synchronization of facts whose ledger follows from theirs.              *)
LEMMA LedgerCommits ==
    ASSUME LedgerInv, [Next]_vars
    PROVE  \/ db' = db
           \/ ResetSimulation
           \/ \E g \in Facts : /\ Reconciled(g) /\ Grows(db, g)
                               /\ db' = Synchronize(g)
<1>0. db \in Facts /\ Grows(db, db) /\ Reconciled(db)
  BY DEF LedgerInv, TypeInv, TypeOK, Grows, Facts
<1>1. BeginTick \/ GeneratePrimary \/ GenerateSecondary \/ TickConflict \/ AbortTick
        => db' = db
  BY DEF BeginTick, GeneratePrimary, GenerateSecondary, GenerateEvent, TickConflict,
         AbortTick
<1>2. ASSUME CommitTick
      PROVE  \E g \in Facts : Reconciled(g) /\ Grows(db, g) /\ db' = Synchronize(g)
  <2>1. tick # Idle
    BY <1>2 DEF CommitTick, Idle
  <2>2. tick.work \in Facts /\ Reconciled(tick.work) /\ Grows(db, tick.work)
    BY <2>1, CycleTyped DEF LedgerInv
  <2> QED BY <1>2, <2>2 DEF CommitTick
<1>4. SynchronizeCommand => \E g \in Facts : Reconciled(g) /\ Grows(db, g) /\ db' = Synchronize(g)
  BY <1>0 DEF SynchronizeCommand
<1>5. ASSUME NEW r \in Requests, NEW id \in EventIds, NEW ref \in PaymentRefs,
             NEW date \in Dates, NEW amount \in 1 .. request[r].amount,
             IngestPaymentEvent(r, id, ref, amount, date)
      PROVE  \E g \in Facts : Reconciled(g) /\ Grows(db, g) /\ db' = Synchronize(g)
  <2> DEFINE i == request[r].invoice
             g == ReceivePayment(db, i, amount, date)
  <2>1. request[r] \in RequestRows
    BY DEF LedgerInv, TypeInv, TypeOK
  <2>2. i \in Invoices /\ amount \in Nat
    BY <2>1 DEF RequestRows
  <2>3. amount <= db.outstanding[i] /\ db' = Synchronize(g)
    BY <1>5 DEF IngestPaymentEvent
  <2>4. g \in Facts /\ Keeps(db, g)
    BY <1>0, <2>2, <2>3, ReceivePaymentType, ReceiveKeeps
  <2> HIDE DEF g
  <2>5. Reconciled(g) /\ Grows(db, g)
    BY <1>0, <2>4 DEF Keeps
  <2> QED BY <2>3, <2>4, <2>5
<1>6. PaymentStep /\ db' # db
        => \E g \in Facts : Reconciled(g) /\ Grows(db, g) /\ db' = Synchronize(g)
  <2> SUFFICES ASSUME PaymentStep, db' # db
               PROVE  \E g \in Facts : Reconciled(g) /\ Grows(db, g) /\ db' = Synchronize(g)
    OBVIOUS
  <2>1. PICK r \in Requests : \E id \in EventIds, ref \in PaymentRefs, date \in Dates :
              \E amount \in 1 .. request[r].amount :
                  IngestPaymentEvent(r, id, ref, amount, date)
    BY DEF PaymentStep, CreatePaymentRequest, CommitPaymentRequest,
                     AbortPaymentRequest
  <2> QED BY <1>5, <2>1
<1>7. ASSUME ReviewStep, db' # db
      PROVE  \E g \in Facts : Reconciled(g) /\ Grows(db, g) /\ db' = Synchronize(g)
  <2>1. PICK a \in Analyses : \E t \in FactTypes[a], i \in Invoices : AcceptCandidate(a, t, i)
    BY <1>7 DEF ReviewStep, AnalyzeCommunication, AnalysisFails, RejectCandidate
  <2>2. PICK i \in Invoices : \E t \in FactTypes[a] : AcceptCandidate(a, t, i)
    BY <2>1
  <2>3. PICK t \in FactTypes[a] : AcceptCandidate(a, t, i)
    BY <2>2
  <2>4. PICK g \in AcceptedFacts(a, t, i) : db' = Synchronize(g)
    BY <2>3 DEF AcceptCandidate
  <2> QED BY <1>0, <2>4, AcceptedKeeps DEF LedgerInv, Keeps
<1>8. UNCHANGED vars => db' = db
  BY DEF vars
<1> QED BY <1>1, <1>2, <1>4, <1>6, <1>7, <1>8 DEF Next, RunTick

LEMMA LedgerNext == LedgerInv /\ [Next]_vars => LedgerInv'
<1> SUFFICES ASSUME LedgerInv, [Next]_vars PROVE LedgerInv'
  OBVIOUS
<1>1. TypeInv'
  BY NextType DEF LedgerInv
<1>2. Reconciled(db')
  <2>1. CASE db' = db
    BY <2>1 DEF LedgerInv
  <2>2. CASE ResetSimulation
    BY <2>2, BaselineKept DEF ResetSimulation
  <2>3. ASSUME NEW g \in Facts, Reconciled(g), db' = Synchronize(g) PROVE Reconciled(db')
    BY <2>3, SynchronizeKeeps DEF Keeps
  <2> QED BY <2>1, <2>2, <2>3, LedgerCommits
<1> DEFINE Copy == tick' # Idle => Reconciled(tick'.work) /\ Grows(db', tick'.work)
<1>3. BeginTick => Copy
  <2> SUFFICES ASSUME BeginTick PROVE Copy
    OBVIOUS
  <2> DEFINE next == [db EXCEPT !.date = @ + 1]
  <2>1. db \in Facts /\ db.date + 1 \in Dates /\ db.date \in Int
    BY PortfolioConstants DEF LedgerInv, TypeInv, TypeOK, BeginTick, Facts, Dates
  <2>2. /\ next \in Facts /\ db.date <= next.date
        /\ next.outstanding = db.outstanding /\ next.paidOn = db.paidOn
        /\ next.promise = db.promise
    BY <2>1 DEF Facts
  <2>3. \A p \in Promises :
          \/ next.promise[p].status = "NONE"
          \/ /\ db.promise[p].status # "NONE"
             /\ next.promise[p].source = db.promise[p].source
    BY <2>2
  <2>4. tick'.work = ApplyOverdueRules(next) /\ db' = db
    BY DEF BeginTick
  <2> HIDE DEF next
  <2>5. Keeps(db, next)
    BY <2>1, <2>2, <2>3, SameMoney
  <2>6. Keeps(db, ApplyOverdueRules(next))
    BY <2>1, <2>2, <2>5, OverdueRulesKeep, ApplyOverdueRulesType, KeepsTransitive
  <2> QED BY <2>4, <2>6 DEF LedgerInv, Keeps
<1>4. ASSUME tick # Idle, NEW left, GenerateEvent(left) PROVE Copy
  <2>1. PICK kind \in AvailableKinds(tick.work, tick.used) :
          \E x \in Targets(tick.work, tick.used, kind) :
            \E g \in EventOutcomes(tick.work, kind, x) : tick'.work = g /\ db' = db
    BY <1>4 DEF GenerateEvent
  <2>2. PICK x \in Targets(tick.work, tick.used, kind) :
            \E g \in EventOutcomes(tick.work, kind, x) : tick'.work = g /\ db' = db
    BY <2>1
  <2>3. tick'.work \in EventOutcomes(tick.work, kind, x) /\ db' = db
    BY <2>2
  <2>4. kind \in EventKinds /\ db \in Facts
    BY DEF AvailableKinds, LedgerInv, TypeInv, TypeOK
  <2>5. tick.work \in Facts /\ tick.work.date >= 1
    BY <1>4, CycleTyped DEF LedgerInv
  <2>6. tick'.work \in Facts /\ Keeps(tick.work, tick'.work)
    BY <2>3, <2>4, <2>5, OutcomeType, OutcomeKeeps
  <2>7. Reconciled(tick.work) /\ Grows(db, tick.work)
    BY <1>4 DEF LedgerInv
  <2> QED BY <2>3, <2>4, <2>5, <2>6, <2>7, GrowsTransitive DEF Keeps
<1>5. GeneratePrimary \/ GenerateSecondary => Copy
  BY <1>4 DEF GeneratePrimary, GenerateSecondary, Idle
<1>6. TickConflict \/ CommitTick \/ AbortTick => Copy
  BY DEF TickConflict, CommitTick, AbortTick
<1>7. (ResetSimulation \/ SynchronizeCommand \/ PaymentStep \/ ReviewStep)
        /\ ~UNCHANGED <<db, tick>> => Copy
  BY DEF ResetSimulation, SynchronizeCommand, PaymentStep, CreatePaymentRequest,
         CommitPaymentRequest, AbortPaymentRequest,
         IngestPaymentEvent, ReviewStep, AnalyzeCommunication, AnalysisFails,
         AcceptCandidate, RejectCandidate
<1>8. UNCHANGED <<db, tick>> \/ UNCHANGED vars => Copy
  BY DEF vars, LedgerInv
<1>9. Copy
  BY <1>3, <1>5, <1>6, <1>7, <1>8 DEF Next, RunTick
<1> QED BY <1>1, <1>2, <1>9 DEF LedgerInv

(* No operation creates or destroys money, whatever the amounts, the       *)
(* number of events in a cycle and the order of the requests: balance and  *)
(* recorded payments of every invoice come to what was billed.             *)
THEOREM MoneyConserved == Spec => []BalanceConserved
<1>1. LedgerInv => BalanceConserved
  BY DEF LedgerInv, Reconciled, BalanceConserved
<1> QED BY <1>1, LedgerInit, LedgerNext, PTL DEF Spec

(* A promise stored as settled stays paid for by the payments since it was *)
(* made, although the simulator settles it by looking at one payment.      *)
THEOREM SettledPromisesArePaid == Spec => []StoredFulfilmentIsReal
<1>1. LedgerInv => StoredFulfilmentIsReal
  BY DEF LedgerInv, Reconciled, PromisesKept, StoredFulfilmentIsReal
<1> QED BY <1>1, LedgerInit, LedgerNext, PTL DEF Spec

-----------------------------------------------------------------------------
(* What the payment requests say.  Events belong to requests that were     *)
(* committed, so that a new one starts with none and one that is not       *)
(* committed leaves none behind, and a row says PAID exactly when it is    *)
(* complete.                                                               *)

Applied(ev, r) == {e \in ev : e.request = r}
Received(ev, r) == SumFunction([e \in Applied(ev, r) |-> e.amount])

RowSound(row, received) ==
    /\ row.paid = received
    /\ row.paid <= row.amount
    /\ row.status = "NONE" => row.paid = 0
    /\ row.status # "NONE" => (row.status = "PAID" <=> row.paid = row.amount)

Through(rows, i) == {r \in Requests : rows[r].status # "NONE" /\ rows[r].invoice = i}
Claimed(rows, i) == SumFunctionOnSet([r \in Requests |-> rows[r].paid], Through(rows, i))

EventsBelong ==
    /\ IsFiniteSet(event)
    /\ \A e \in event : request[e.request].status \notin {"NONE", "PENDING_PROVIDER"}
RowsSound == \A r \in Requests : RowSound(request[r], Received(event, r))
ClaimsCovered == \A i \in Invoices : Claimed(request, i) <= TotalPaid(db, i)

RequestInv == LedgerInv /\ EventsBelong /\ RowsSound /\ ClaimsCovered

LEMMA RequestInvImplies == RequestInv => RequestAccounting
<1>1. \A r \in Requests : Received(event, r) = SumFunction([e \in AppliedTo(r) |-> e.amount])
  BY DEF Received, Applied, AppliedTo
<1>2. \A i \in Invoices : PaidThrough(i) = Claimed(request, i)
  BY DEF PaidThrough, Claimed, Through
<1> QED BY <1>1, <1>2 DEF RequestInv, RowsSound, RowSound, ClaimsCovered, RequestAccounting

LEMMA TotalPaidType ==
    ASSUME NEW f \in Facts, NEW i \in Invoices PROVE TotalPaid(f, i) \in Nat
  BY PaidBetweenType DEF TotalPaid

LEMMA ReceivedSum ==
    ASSUME NEW ev, NEW r
    PROVE  Received(ev, r) = SumFunctionOnSet([e \in Applied(ev, r) |-> e.amount], Applied(ev, r))
<1>1. DOMAIN [e \in Applied(ev, r) |-> e.amount] = Applied(ev, r)
  OBVIOUS
<1> QED BY <1>1 DEF Received, SumFunction

LEMMA ClaimedType ==
    ASSUME NEW rows \in [Requests -> RequestRows], NEW i
    PROVE  Claimed(rows, i) \in Int
<1> DEFINE f == [r \in Requests |-> rows[r].paid]
<1>1. \A r \in Through(rows, i) : f[r] \in Int
  BY DEF Through, RequestRows
<1>2. IsFiniteSet(Through(rows, i))
  BY SystemConstants, FS_Subset DEF Through
<1> HIDE DEF f
<1>3. SumFunctionOnSet(f, Through(rows, i)) \in Int
  BY <1>1, <1>2, SumInt
<1> QED BY <1>3 DEF f, Claimed

LEMMA NothingReceived ==
    ASSUME NEW ev, NEW r, Applied(ev, r) = {} PROVE Received(ev, r) = 0
  BY ReceivedSum, SumEmpty

(* Another event adds its amount to its own request and to no other.       *)
LEMMA EventAdds ==
    ASSUME NEW ev \in SUBSET EventRows, IsFiniteSet(ev), NEW new \in EventRows,
           new \notin ev, NEW r
    PROVE  Received(ev \cup {new}, r)
             = Received(ev, r) + (IF new.request = r THEN new.amount ELSE 0)
<1> DEFINE A == Applied(ev, r)
           B == Applied(ev \cup {new}, r)
           f == [e \in A |-> e.amount]
           g == [e \in B |-> e.amount]
<1>1. IsFiniteSet(A) /\ A \subseteq ev
  BY FS_Subset DEF Applied
<1>2. (\A e \in A : f[e] \in Int /\ g[e] = f[e]) /\ new \notin A
  BY <1>1 DEF Applied, EventRows
<1>3. Received(ev, r) = SumFunctionOnSet(f, A) /\ Received(ev \cup {new}, r) = SumFunctionOnSet(g, B)
  BY ReceivedSum
<1>4. CASE new.request = r
  <2>1. B = A \cup {new}
    BY <1>4 DEF Applied
  <2>2. g[new] = new.amount /\ new.amount \in Int
    BY <2>1 DEF EventRows
  <2> HIDE DEF A, B, f, g
  <2>3. SumFunctionOnSet(f, A) = SumFunctionOnSet(g, A) /\ SumFunctionOnSet(f, A) \in Int
    BY <1>1, <1>2, SumSame, SumInt
  <2>4. \A e \in A \cup {new} : g[e] \in Int
    BY <1>2, <2>2
  <2>5. SumFunctionOnSet(g, A \cup {new}) = g[new] + SumFunctionOnSet(g, A)
    BY <1>1, <1>2, <2>4, SumAdd
  <2> QED BY <1>3, <1>4, <2>1, <2>2, <2>3, <2>5
<1>5. CASE new.request # r
  <2>1. B = A
    BY <1>5 DEF Applied
  <2>2. SumFunctionOnSet(f, A) \in Int
    <3> HIDE DEF A, f
    <3> QED BY <1>1, <1>2, SumInt
  <2> HIDE DEF A, B, f, g
  <2>3. SumFunctionOnSet(f, A) = SumFunctionOnSet(g, A)
    BY <1>1, <1>2, SumSame
  <2> QED BY <1>3, <1>5, <2>1, <2>2, <2>3
<1> QED BY <1>4, <1>5

(* Committed facts are never followed by facts with fewer payments, except *)
(* by a reset.                                                             *)
LEMMA CommitsGrow ==
    ASSUME LedgerInv, [Next]_vars, NEW i \in Invoices
    PROVE  ResetSimulation \/ TotalPaid(db, i) <= TotalPaid(db', i)
<1>0. db \in Facts
  BY DEF LedgerInv, TypeInv, TypeOK
<1>1. CASE db' = db
  <2>1. TotalPaid(db, i) \in Nat
    BY <1>0, TotalPaidType
  <2> QED BY <1>1, <2>1
<1>2. ASSUME NEW g \in Facts, Grows(db, g), db' = Synchronize(g)
      PROVE  TotalPaid(db, i) <= TotalPaid(db', i)
  <2>1. TotalPaid(db', i) = TotalPaid(g, i)
    BY <1>2 DEF Synchronize, TotalPaid, PaidBetween, Facts
  <2>2. TotalPaid(db, i) <= TotalPaid(g, i)
    BY <1>0, <1>2, PaidGrows DEF TotalPaid
  <2> QED BY <2>1, <2>2
<1> QED BY <1>1, <1>2, LedgerCommits

(* Without a request there is nothing to account for.                      *)
LEMMA NoRequestsSound ==
    /\ \A r \in Requests : RowSound(NoRequests[r], Received({}, r))
    /\ \A f \in Facts, i \in Invoices : Claimed(NoRequests, i) <= TotalPaid(f, i)
<1>1. ASSUME NEW r \in Requests PROVE RowSound(NoRequests[r], Received({}, r))
  <2>1. Applied({}, r) = {}
    BY DEF Applied
  <2>2. NoRequests[r].paid = 0 /\ NoRequests[r].amount = 0 /\ NoRequests[r].status = "NONE"
    BY DEF NoRequests
  <2> QED BY <2>1, <2>2, NothingReceived DEF RowSound
<1>2. ASSUME NEW f \in Facts, NEW i \in Invoices PROVE Claimed(NoRequests, i) <= TotalPaid(f, i)
  <2>1. Through(NoRequests, i) = {}
    BY DEF NoRequests, Through
  <2>2. Claimed(NoRequests, i) = 0
    BY <2>1, SumEmpty DEF Claimed
  <2> QED BY <2>2, TotalPaidType
<1> QED BY <1>1, <1>2

LEMMA RequestInit == Init => RequestInv
  BY LedgerInit, NoRequestsSound, SystemConstants, FS_EmptySet
     DEF Init, RequestInv, EventsBelong, RowsSound, ClaimsCovered

(* A row that is written only adds to the claims of its own invoice, and   *)
(* exactly what it says it received.                                       *)
LEMMA RowClaims ==
    ASSUME NEW rows \in [Requests -> RequestRows], NEW r \in Requests,
           NEW row \in RequestRows, row.status # "NONE", NEW i \in Invoices,
           \/ rows[r].status = "NONE" /\ rows[r].paid = 0
           \/ rows[r].status # "NONE" /\ row.invoice = rows[r].invoice
    PROVE  Claimed([rows EXCEPT ![r] = row], i)
             = Claimed(rows, i) + (IF row.invoice = i THEN row.paid - rows[r].paid ELSE 0)
<1> DEFINE new == [rows EXCEPT ![r] = row]
           f == [q \in Requests |-> rows[q].paid]
           g == [q \in Requests |-> new[q].paid]
           A == Through(rows, i)
           B == Through(new, i)
<1>1. \A q \in Requests :
        /\ f[q] \in Int /\ g[q] \in Int
        /\ q # r => f[q] = g[q]
  BY DEF RequestRows
<1>2. IsFiniteSet(A) /\ IsFiniteSet(B) /\ A \subseteq Requests /\ B \subseteq Requests
  BY SystemConstants, FS_Subset DEF Through
<1>3. g[r] = row.paid /\ f[r] = rows[r].paid
  OBVIOUS
<1>4. Claimed(rows, i) = SumFunctionOnSet(f, A) /\ Claimed(new, i) = SumFunctionOnSet(g, B)
  BY DEF Claimed
<1> HIDE DEF f, g, A, B
<1>5. SumFunctionOnSet(f, A) \in Int
  <2>1. \A q \in A : f[q] \in Int
    BY <1>1, <1>2
  <2> QED BY <1>2, <2>1, SumInt
<1>6. CASE row.invoice # i
  <2>1. A = B /\ r \notin A
    BY <1>6 DEF Through, A, B
  <2>2. \A q \in A : f[q] = g[q]
    BY <1>1, <1>2, <2>1
  <2> HIDE DEF new
  <2>3. SumFunctionOnSet(f, A) = SumFunctionOnSet(g, B)
    BY <1>2, <2>1, <2>2, SumSame
  <2> QED BY <1>4, <1>5, <1>6, <2>3 DEF new
<1>7. CASE row.invoice = i /\ rows[r].status = "NONE"
  <2>1. B = A \cup {r} /\ r \notin A
    BY <1>7 DEF Through, A, B
  <2>2. \A q \in A : f[q] = g[q]
    BY <1>1, <1>2, <2>1
  <2>3. (\A q \in B : g[q] \in Int) /\ rows[r].paid = 0
    BY <1>1, <1>2, <1>7, <2>1
  <2>4. row.paid \in Int
    BY DEF RequestRows
  <2> HIDE DEF new
  <2>5. SumFunctionOnSet(f, A) = SumFunctionOnSet(g, A)
    BY <1>2, <2>2, SumSame
  <2>6. SumFunctionOnSet(g, B) = g[r] + SumFunctionOnSet(g, A)
    BY <1>2, <2>1, <2>3, SumAdd
  <2> QED BY <1>3, <1>4, <1>5, <1>7, <2>3, <2>4, <2>5, <2>6 DEF new
<1>8. CASE row.invoice = i /\ rows[r].status # "NONE"
  <2>1. A = B /\ r \in A
    BY <1>8 DEF Through, A, B
  <2>2. \A q \in A : f[q] \in Int /\ g[q] \in Int
    BY <1>1, <1>2
  <2>3. \A q \in A \ {r} : f[q] = g[q]
    BY <1>1, <1>2
  <2> HIDE DEF new
  <2>4. SumFunctionOnSet(g, A) = SumFunctionOnSet(f, A) + (g[r] - f[r])
    BY <1>2, <2>1, <2>2, <2>3, SumChange
  <2> QED BY <1>3, <1>4, <1>8, <2>1, <2>4 DEF new
<1> QED BY <1>6, <1>7, <1>8

LEMMA CreateKeepsRequests ==
    ASSUME RequestInv, NEW r \in Requests, NEW i \in Invoices,
           NEW amount \in 1 .. db.outstanding[i], CreatePaymentRequest(r, i, amount)
    PROVE  EventsBelong' /\ RowsSound' /\ ClaimsCovered'
<1>0. db \in Facts /\ request \in [Requests -> RequestRows] /\ event \in SUBSET EventRows
  BY DEF RequestInv, LedgerInv, TypeInv, TypeOK
<1>1. amount \in Nat /\ amount >= 1
  BY <1>0 DEF Facts
<1> DEFINE row == [status |-> "PENDING_PROVIDER", invoice |-> i, amount |-> amount, paid |-> 0]
<1>3. /\ row \in RequestRows /\ row.status \notin {"NONE", "PAID"} /\ row.paid = 0
      /\ row.amount = amount
  BY <1>1 DEF RequestRows, RequestStatuses, LiveStatuses
<1>4. request' = [request EXCEPT ![r] = row] /\ event' = event /\ db' = db
      /\ request[r].status = "NONE"
  BY DEF CreatePaymentRequest
<1> HIDE DEF row
<1>5. request[r].paid = 0
  BY <1>4 DEF RequestInv, RowsSound, RowSound
<1>6. \A q \in Requests : request'[q] = IF q = r THEN row ELSE request[q]
  BY <1>0, <1>4
<1>7. Applied(event, r) = {}
  BY <1>4 DEF RequestInv, EventsBelong, Applied
<1>8. EventsBelong'
  <2>1. \A e \in event : e.request \in Requests
    BY <1>0 DEF EventRows
  <2> QED BY <1>3, <1>4, <1>6, <2>1 DEF RequestInv, EventsBelong
<1>9. RowsSound'
  <2> SUFFICES ASSUME NEW q \in Requests PROVE RowSound(request'[q], Received(event, q))
    BY <1>4 DEF RowsSound
  <2>1. CASE q = r
    <3>1. Received(event, q) = 0
      BY <1>7, <2>1, NothingReceived
    <3> QED BY <1>1, <1>3, <1>6, <2>1, <3>1 DEF RowSound
  <2>2. CASE q # r
    BY <1>6, <2>2 DEF RequestInv, RowsSound
  <2> QED BY <2>1, <2>2
<1>10. ClaimsCovered'
  <2> SUFFICES ASSUME NEW k \in Invoices PROVE Claimed(request', k) <= TotalPaid(db, k)
    BY <1>4 DEF ClaimsCovered
  <2>1. Claimed(request', k)
          = Claimed(request, k) + (IF row.invoice = k THEN row.paid - request[r].paid ELSE 0)
    BY <1>0, <1>3, <1>4, <1>5, RowClaims
  <2>2. Claimed(request, k) <= TotalPaid(db, k)
    BY DEF RequestInv, ClaimsCovered
  <2>3. Claimed(request, k) \in Int
    BY <1>0, ClaimedType
  <2> QED BY <1>3, <1>5, <2>1, <2>2, <2>3
<1> QED BY <1>8, <1>9, <1>10

\* A request that is not committed yet has received nothing.
LEMMA PendingReceivedNothing ==
    ASSUME RequestInv, NEW r \in Requests, request[r].status = "PENDING_PROVIDER"
    PROVE  /\ Received(event, r) = 0 /\ request[r].paid = 0
           /\ \A e \in event : e.request # r
           /\ request[r].amount \in Nat \ {0}
<1>1. Applied(event, r) = {}
  BY DEF RequestInv, EventsBelong, Applied
<1>2. Received(event, r) = 0
  BY <1>1, NothingReceived
<1>3. request[r].amount \in Nat /\ request[r].paid = 0 /\ request[r].paid # request[r].amount
  BY <1>2 DEF RequestInv, RowsSound, RowSound, LedgerInv, TypeInv, TypeOK, RequestRows
<1> QED BY <1>1, <1>2, <1>3 DEF Applied

LEMMA CommitKeepsRequests ==
    ASSUME RequestInv, NEW r \in Requests, CommitPaymentRequest(r)
    PROVE  EventsBelong' /\ RowsSound' /\ ClaimsCovered'
<1>0. db \in Facts /\ request \in [Requests -> RequestRows] /\ event \in SUBSET EventRows
  BY DEF RequestInv, LedgerInv, TypeInv, TypeOK
<1>1. PICK answer \in ProviderStatuses \cup {"FAILED"} :
        request' = [request EXCEPT ![r].status = answer]
  BY DEF CommitPaymentRequest
<1> DEFINE row == [request[r] EXCEPT !.status = answer]
<1>2. /\ row \in RequestRows /\ row.status \notin {"NONE", "PENDING_PROVIDER", "PAID"}
      /\ row.paid = request[r].paid /\ row.amount = request[r].amount
      /\ row.invoice = request[r].invoice
  BY <1>0, SystemConstants DEF RequestRows, RequestStatuses
<1>3. request' = [request EXCEPT ![r] = row] /\ event' = event /\ db' = db
      /\ request[r].status = "PENDING_PROVIDER"
  BY <1>1 DEF CommitPaymentRequest
<1> HIDE DEF row
<1>4. /\ Received(event, r) = 0 /\ request[r].paid = 0
      /\ \A e \in event : e.request # r
      /\ request[r].amount \in Nat \ {0}
  BY <1>3, PendingReceivedNothing
<1>5. \A q \in Requests : request'[q] = IF q = r THEN row ELSE request[q]
  BY <1>0, <1>3
<1>6. EventsBelong'
  <2>1. \A e \in event : e.request \in Requests
    BY <1>0 DEF EventRows
  <2> QED BY <1>3, <1>4, <1>5, <2>1 DEF RequestInv, EventsBelong
<1>7. RowsSound'
  <2> SUFFICES ASSUME NEW q \in Requests PROVE RowSound(request'[q], Received(event, q))
    BY <1>3 DEF RowsSound
  <2>1. CASE q = r
    BY <1>2, <1>4, <1>5, <2>1 DEF RowSound
  <2>2. CASE q # r
    BY <1>5, <2>2 DEF RequestInv, RowsSound
  <2> QED BY <2>1, <2>2
<1>8. ClaimsCovered'
  <2> SUFFICES ASSUME NEW k \in Invoices PROVE Claimed(request', k) <= TotalPaid(db, k)
    BY <1>3 DEF ClaimsCovered
  <2>1. Claimed(request', k)
          = Claimed(request, k) + (IF row.invoice = k THEN row.paid - request[r].paid ELSE 0)
    BY <1>0, <1>2, <1>3, RowClaims
  <2>2. Claimed(request, k) <= TotalPaid(db, k)
    BY DEF RequestInv, ClaimsCovered
  <2>3. Claimed(request, k) \in Int
    BY <1>0, ClaimedType
  <2> QED BY <1>2, <1>4, <2>1, <2>2, <2>3
<1> QED BY <1>6, <1>7, <1>8

\* The row that is rolled back claimed nothing.
LEMMA AbortKeepsRequests ==
    ASSUME RequestInv, NEW r \in Requests, AbortPaymentRequest(r)
    PROVE  EventsBelong' /\ RowsSound' /\ ClaimsCovered'
<1> DEFINE row == request[r]
           none == NoRequests[r]
<1>0. db \in Facts /\ request \in [Requests -> RequestRows] /\ event \in SUBSET EventRows
  BY DEF RequestInv, LedgerInv, TypeInv, TypeOK
<1>1. request' = [request EXCEPT ![r] = none] /\ event' = event /\ db' = db
      /\ row.status = "PENDING_PROVIDER"
  BY DEF AbortPaymentRequest
<1>2. none \in RequestRows /\ none.status = "NONE" /\ none.paid = 0 /\ none.amount = 0
  BY NoRequestsType DEF NoRequests
<1>3. /\ Received(event, r) = 0 /\ row.paid = 0
      /\ \A e \in event : e.request # r
  BY <1>1, PendingReceivedNothing
<1>4. \A q \in Requests : request'[q] = IF q = r THEN none ELSE request[q]
  BY <1>0, <1>1
<1>5. EventsBelong'
  <2>1. \A e \in event : e.request \in Requests
    BY <1>0 DEF EventRows
  <2> QED BY <1>1, <1>3, <1>4, <2>1 DEF RequestInv, EventsBelong
<1>6. RowsSound'
  <2> SUFFICES ASSUME NEW q \in Requests PROVE RowSound(request'[q], Received(event, q))
    BY <1>1 DEF RowsSound
  <2>1. CASE q = r
    BY <1>2, <1>3, <1>4, <2>1 DEF RowSound
  <2>2. CASE q # r
    BY <1>4, <2>2 DEF RequestInv, RowsSound
  <2> QED BY <2>1, <2>2
<1>7. ClaimsCovered'
  <2> SUFFICES ASSUME NEW k \in Invoices PROVE Claimed(request', k) <= TotalPaid(db, k)
    BY <1>1 DEF ClaimsCovered
  <2>1. /\ request' \in [Requests -> RequestRows]
        /\ request'[r].status = "NONE" /\ request'[r].paid = 0
        /\ request = [request' EXCEPT ![r] = row]
        /\ row \in RequestRows /\ row.status # "NONE"
    BY <1>0, <1>1, <1>2, <1>4
  <2> HIDE DEF row, none
  <2>2. Claimed([request' EXCEPT ![r] = row], k)
          = Claimed(request', k)
            + (IF row.invoice = k THEN row.paid - request'[r].paid ELSE 0)
    BY <2>1, RowClaims
  <2>3. Claimed(request, k) <= TotalPaid(db, k)
    BY DEF RequestInv, ClaimsCovered
  <2>4. Claimed(request', k) \in Int
    BY <2>1, ClaimedType
  <2> QED BY <1>3, <2>1, <2>2, <2>3, <2>4
<1> QED BY <1>5, <1>6, <1>7

LEMMA AfterPaymentRow ==
    ASSUME NEW row \in RequestRows, NEW amount \in Nat
    PROVE  LET new == AfterPayment(row, amount) IN
           /\ new \in RequestRows /\ new.status \notin {"NONE", "PENDING_PROVIDER"}
           /\ new.invoice = row.invoice
           /\ new.paid = row.paid + amount /\ new.amount = row.amount
           /\ new.status = "PAID" <=> new.paid = new.amount
<1> DEFINE new == AfterPayment(row, amount)
<1>1. /\ new.invoice = row.invoice /\ new.amount = row.amount
      /\ new.paid = row.paid + amount
      /\ new.status = IF row.paid + amount = row.amount THEN "PAID" ELSE "PARTIALLY_PAID"
  BY DEF AfterPayment, RequestRows
<1>2. new \in RequestRows
  <2>1. row.paid + amount \in Nat
    BY DEF RequestRows
  <2> QED BY <2>1 DEF AfterPayment, RequestRows, RequestStatuses, LiveStatuses
<1> HIDE DEF new
<1>3. new.status \notin {"NONE", "PENDING_PROVIDER"} /\ (new.status = "PAID" <=> new.paid = new.amount)
  BY <1>1
<1> QED BY <1>1, <1>2, <1>3 DEF new

LEMMA IngestKeepsRequests ==
    ASSUME RequestInv, NEW r \in Requests, NEW id \in EventIds, NEW ref \in PaymentRefs,
           NEW date \in Dates, NEW amount \in 1 .. request[r].amount,
           IngestPaymentEvent(r, id, ref, amount, date)
    PROVE  EventsBelong' /\ RowsSound' /\ ClaimsCovered'
<1> DEFINE i == request[r].invoice
           row == AfterPayment(request[r], amount)
           new == [id |-> id, ref |-> ref, request |-> r, amount |-> amount]
           g == ReceivePayment(db, i, amount, date)
<1>0. /\ db \in Facts /\ request \in [Requests -> RequestRows] /\ event \in SUBSET EventRows
      /\ request[r] \in RequestRows /\ IsFiniteSet(event)
  BY DEF RequestInv, LedgerInv, TypeInv, TypeOK, EventsBelong
<1>1. /\ i \in Invoices /\ amount \in Nat /\ request[r].paid \in Nat
      /\ request[r].amount \in Nat /\ amount >= 1
  BY <1>0 DEF RequestRows
<1>2. /\ db' = Synchronize(g) /\ request' = [request EXCEPT ![r] = row]
      /\ event' = event \cup {new}
      /\ request[r].status \in PayableRequestStatuses
      /\ amount <= request[r].amount - request[r].paid
      /\ amount <= db.outstanding[i]
  BY <1>0 DEF IngestPaymentEvent
<1>3. new \in EventRows /\ new \notin event /\ new.request = r /\ new.amount = amount
  BY <1>1 DEF EventRows, IngestPaymentEvent, KnownEvent
<1>4. /\ row \in RequestRows /\ row.status \notin {"NONE", "PENDING_PROVIDER"}
      /\ row.invoice = i
      /\ row.paid = request[r].paid + amount /\ row.amount = request[r].amount
      /\ row.status = "PAID" <=> row.paid = row.amount
  BY <1>0, <1>1, AfterPaymentRow
<1>5. g \in Facts
  BY <1>0, <1>1, <1>2, ReceivePaymentType
<1>6. \A k \in Invoices : TotalPaid(g, k) = TotalPaid(db, k) + (IF k = i THEN amount ELSE 0)
  BY <1>0, <1>1, PaymentAdds
<1> HIDE DEF row, new, g
<1>7. \A q \in Requests : request'[q] = IF q = r THEN row ELSE request[q]
  BY <1>0, <1>2
<1>8. EventsBelong'
  <2>1. IsFiniteSet(event \cup {new})
    BY <1>0, FS_AddElement
  <2>2. \A e \in event : e.request \in Requests
    BY <1>0 DEF EventRows
  <2> QED BY <1>2, <1>3, <1>4, <1>7, <2>1, <2>2 DEF RequestInv, EventsBelong
<1>9. RowsSound'
  <2> SUFFICES ASSUME NEW q \in Requests
               PROVE  RowSound(request'[q], Received(event \cup {new}, q))
    BY <1>2 DEF RowsSound
  <2>1. Received(event \cup {new}, q) = Received(event, q) + (IF r = q THEN amount ELSE 0)
    BY <1>0, <1>3, EventAdds
  <2>2. RowSound(request[q], Received(event, q))
    BY DEF RequestInv, RowsSound
  <2>3. CASE q = r
    BY <1>1, <1>2, <1>4, <1>7, <2>1, <2>2, <2>3 DEF RowSound
  <2>4. CASE q # r
    <3>1. Received(event, q) \in Int
      BY <1>0, <2>2 DEF RowSound, RequestRows
    <3> QED BY <1>7, <2>1, <2>2, <2>4, <3>1
  <2> QED BY <2>3, <2>4
<1>10. ClaimsCovered'
  <2> SUFFICES ASSUME NEW k \in Invoices PROVE Claimed(request', k) <= TotalPaid(db', k)
    BY DEF ClaimsCovered
  <2>1. Claimed(request', k)
          = Claimed(request, k) + (IF row.invoice = k THEN row.paid - request[r].paid ELSE 0)
    BY <1>0, <1>2, <1>4, RowClaims DEF PayableRequestStatuses
  <2>2. TotalPaid(db', k) = TotalPaid(g, k)
    BY <1>2, <1>5 DEF Synchronize, TotalPaid, PaidBetween, Facts
  <2>3. Claimed(request, k) <= TotalPaid(db, k)
    BY DEF RequestInv, ClaimsCovered
  <2>4. Claimed(request, k) \in Int /\ TotalPaid(db, k) \in Int
    BY <1>0, ClaimedType, TotalPaidType
  <2>5. row.paid - request[r].paid = amount
    BY <1>1, <1>4
  <2> QED BY <1>1, <1>4, <1>6, <2>1, <2>2, <2>3, <2>4, <2>5
<1> QED BY <1>8, <1>9, <1>10

LEMMA RequestNext == RequestInv /\ [Next]_vars => RequestInv'
<1> SUFFICES ASSUME RequestInv, [Next]_vars PROVE RequestInv'
  OBVIOUS
<1>1. LedgerInv'
  BY LedgerNext DEF RequestInv
<1>2. CASE ResetSimulation
  <2>1. request' = NoRequests /\ event' = {} /\ db' = Baseline /\ Baseline \in Facts
    BY <1>2, SystemConstants DEF ResetSimulation
  <2> QED BY <1>1, <2>1, NoRequestsSound, FS_EmptySet
          DEF RequestInv, EventsBelong, RowsSound, ClaimsCovered
<1>3. CASE UNCHANGED <<request, event>> /\ ~ResetSimulation
  <2>1. EventsBelong' /\ RowsSound'
    BY <1>3 DEF RequestInv, EventsBelong, RowsSound
  <2>2. ASSUME NEW i \in Invoices PROVE Claimed(request', i) <= TotalPaid(db', i)
    <3>1. TotalPaid(db, i) <= TotalPaid(db', i)
      BY <1>3, CommitsGrow DEF RequestInv
    <3>2. Claimed(request, i) <= TotalPaid(db, i) /\ request' = request
      BY <1>3 DEF RequestInv, ClaimsCovered
    <3>3. Claimed(request, i) \in Int
      BY ClaimedType DEF RequestInv, LedgerInv, TypeInv, TypeOK
    <3>4. TotalPaid(db, i) \in Int /\ TotalPaid(db', i) \in Int
      BY <1>1, TotalPaidType DEF RequestInv, LedgerInv, TypeInv, TypeOK
    <3> QED BY <3>1, <3>2, <3>3, <3>4
  <2> QED BY <1>1, <2>1, <2>2 DEF RequestInv, ClaimsCovered
<1>4. CASE PaymentStep
  <2>1. PICK r \in Requests :
        \/ \E i \in Invoices :
              \E amount \in 1 .. db.outstanding[i] : CreatePaymentRequest(r, i, amount)
        \/ CommitPaymentRequest(r) \/ AbortPaymentRequest(r)
        \/ \E id \in EventIds, ref \in PaymentRefs, date \in Dates :
              \E amount \in 1 .. request[r].amount :
                  IngestPaymentEvent(r, id, ref, amount, date)
    BY <1>4 DEF PaymentStep
  <2> QED BY <1>1, <2>1, CreateKeepsRequests, CommitKeepsRequests, AbortKeepsRequests,
            IngestKeepsRequests DEF RequestInv
<1>5. RunTick \/ AbortTick \/ SynchronizeCommand \/ ReviewStep \/ UNCHANGED vars
        => UNCHANGED <<request, event>>
  BY DEF RunTick, BeginTick, GeneratePrimary, GenerateSecondary, GenerateEvent,
         TickConflict, CommitTick, AbortTick, SynchronizeCommand, ReviewStep,
         AnalyzeCommunication, AnalysisFails, AcceptCandidate, RejectCandidate, vars
<1> QED BY <1>2, <1>3, <1>4, <1>5 DEF Next

(* What a payment request says it received is what its provider events     *)
(* applied and never more than was requested, it is PAID exactly when it   *)
(* is complete, and the requests of an invoice never claim more than the   *)
(* invoice received: for any number of requests and of events that do not  *)
(* overlap, among cycles, reviews, resets and requests being created.      *)
THEOREM RequestsAddUp == Spec => []RequestAccounting
<1> QED BY RequestInit, RequestNext, RequestInvImplies, PTL DEF Spec
=============================================================================
