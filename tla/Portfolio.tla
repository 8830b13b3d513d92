------------------------------ MODULE Portfolio ------------------------------
(***************************************************************************)
(* The persisted facts of the invoices of one customer, and the pure       *)
(* effect of every operation on them: how the policy reads them, how       *)
(* payments, promises and disputes change them, and how the stored case    *)
(* states are brought back in line (synchronize_recovery_states).          *)
(* Facts are one record, so that a handler can work on a copy of it and    *)
(* commit or discard the copy, as a database session does.                 *)
(***************************************************************************)
EXTENDS RecoveryPolicy, Functions

CONSTANTS
    Invoices,         \* invoices of the customer
    Promises,         \* rows available for promises to pay (bound)
    Original,         \* original_amount of each invoice
    IssueDate,        \* issue_date of each invoice
    DueDate,          \* due_date of each invoice
    LastDate,         \* last simulation date explored (bound)
    HighExposure,     \* outstanding that gives a new case HIGH priority
    PromiseDaysMin, PromiseDaysMax,
    Strategic, Consent, ChannelAvailable  \* attributes of the customer

ASSUME PortfolioConstants ==
    /\ IsFiniteSet(Invoices) /\ Invoices # {}
    /\ IsFiniteSet(Promises)
    /\ Original \in [Invoices -> Nat]
    /\ IssueDate \in [Invoices -> Int]
    /\ DueDate \in [Invoices -> Int]
    /\ LastDate \in Nat
    /\ HighExposure \in Nat
    /\ PromiseDaysMin \in Nat /\ PromiseDaysMax \in Nat
    /\ Strategic \in BOOLEAN
    /\ Consent \in ConsentStatuses
    /\ ChannelAvailable \in BOOLEAN

Dates == 0 .. LastDate

\* source is the date of the communication that recorded the promise.
PromiseRows ==
    [status : PromiseStatuses \cup {"NONE"}, invoice : Invoices,
     amount : Nat, due : Nat, source : Nat]

\* One case at most per invoice; "NONE" until the simulator opens it.
Facts ==
    [date : Dates,
     status : [Invoices -> InvoiceStatuses],
     outstanding : [Invoices -> Nat],
     paidOn : [Invoices -> [Dates -> Nat]],
     promise : [Promises -> PromiseRows],
     case : [Invoices -> RecoveryStates \cup {"NONE"}],
     priority : [Invoices -> Priorities]]

-----------------------------------------------------------------------------
(* Reading the facts: recovery/engine.py over one invoice. *)

InvoiceStateOf(f, i) ==
    InvoiceState(IssueDate[i], DueDate[i], f.outstanding[i], f.date)

PaidBetween(f, i, from, to) ==
    SumFunctionOnSet(f.paidOn[i], {d \in Dates : from <= d /\ d <= to})

TotalPaid(f, i) == PaidBetween(f, i, 0, LastDate)

PromiseStateOf(f, p) ==
    LET row == f.promise[p] IN
    PromiseState(row.status, PaidBetween(f, row.invoice, row.source, f.date),
                 row.amount, row.due, f.date)

PromisesOn(f, i) ==
    {p \in Promises : f.promise[p].status # "NONE" /\ f.promise[p].invoice = i}

\* claim and delay are the customer's accepted communication signals.
CaseView(f, i, claim, delay) ==
    [invoice |-> InvoiceStateOf(f, i),
     daysOverdue |-> DaysOverdue(IssueDate[i], DueDate[i], f.outstanding[i], f.date),
     exposure |-> f.outstanding[i],
     disputed |-> f.status[i] = "DISPUTED",
     promises |-> {PromiseStateOf(f, p) : p \in PromisesOn(f, i)},
     state |-> f.case[i], priority |-> f.priority[i], strategic |-> Strategic,
     consent |-> Consent, channel |-> ChannelAvailable, recent |-> 0,
     claim |-> claim, delay |-> delay]

DerivedCaseState(f, i) == DesiredCaseState(CaseView(f, i, FALSE, FALSE))

Cases(f) == {i \in Invoices : f.case[i] # "NONE"}

\* Mutant: only the cases of unpaid invoices are synchronized.
SynchronizeUnpaid(f) ==
    [f EXCEPT !.case = [i \in Invoices |->
        IF i \in Cases(f) /\ f.outstanding[i] > 0
        THEN DerivedCaseState(f, i) ELSE f.case[i]]]
Synchronize(f) ==
    [f EXCEPT !.case = [i \in Invoices |->
        IF i \in Cases(f) THEN DerivedCaseState(f, i) ELSE "NONE"]]

\* The balance of every invoice and its payments come to what was billed.
Balanced(f) == \A i \in Invoices : f.outstanding[i] + TotalPaid(f, i) = Original[i]

\* Promises were recorded by today, and the settled ones are paid.
PromisesKept(f) ==
    \A p \in Promises :
        /\ f.promise[p].status # "NONE" => f.promise[p].source <= f.date
        /\ f.promise[p].status = "FULFILLED" => PromiseStateOf(f, p) = "FULFILLED"

-----------------------------------------------------------------------------
(* Writing the facts. *)

\* Mutant: the balance is reduced but no payment row is added.
ReceiveWithoutRow(f, i, amount, date) ==
    [f EXCEPT
        !.outstanding[i] = @ - amount,
        !.status[i] = IF amount = f.outstanding[i] THEN "PAID" ELSE "PARTIALLY_PAID"]

\* The payment row and the balance it reduces, the same for the simulator
\* and for a provider event.
ReceivePayment(f, i, amount, date) ==
    [f EXCEPT
        !.outstanding[i] = @ - amount,
        !.status[i] = IF amount = f.outstanding[i] THEN "PAID" ELSE "PARTIALLY_PAID",
        !.paidOn[i][date] = @ + amount]

\* Mutant: any payment settles the active promises.
FulfilWhateverPaid(f, i, amount) ==
    [f EXCEPT !.promise = [p \in Promises |->
        IF p \in PromisesOn(f, i) /\ f.promise[p].status = "ACTIVE"
        THEN [f.promise[p] EXCEPT !.status = "FULFILLED"]
        ELSE f.promise[p]]]

\* Only the simulator settles stored promises, with one payment at a time.
FulfilPromises(f, i, amount) ==
    [f EXCEPT !.promise = [p \in Promises |->
        IF /\ p \in PromisesOn(f, i)
           /\ f.promise[p].status = "ACTIVE"
           /\ amount >= f.promise[p].amount
        THEN [f.promise[p] EXCEPT !.status = "FULFILLED"]
        ELSE f.promise[p]]]

AddPromise(f, p, i, amount, due, source) ==
    [f EXCEPT !.promise[p] =
        [status |-> "ACTIVE", invoice |-> i, amount |-> amount,
         due |-> due, source |-> source]]

OpenDispute(f, i) == [f EXCEPT !.status[i] = "DISPUTED"]

ResolveDispute(f, i) ==
    [f EXCEPT !.status[i] = IF DueDate[i] < f.date THEN "OVERDUE" ELSE "OPEN"]

\* The simulator records the broken promise with a deadline in the past.
BreakPromise(f, p) ==
    [f EXCEPT !.promise[p] = [@ EXCEPT !.status = "BROKEN", !.due = f.date - 1]]

OpenCase(f, i) ==
    IF i \in Cases(f) THEN f
    ELSE [f EXCEPT
            !.case[i] = "NEW",
            !.priority[i] = IF f.outstanding[i] >= HighExposure
                            THEN "HIGH" ELSE "NORMAL"]

\* Documents that are disputed or settled are left alone.
ApplyOverdueRules(f) ==
    [f EXCEPT !.status = [i \in Invoices |->
        IF /\ f.outstanding[i] > 0
           /\ DueDate[i] < f.date
           /\ f.status[i] \in {"OPEN", "PARTIALLY_PAID"}
        THEN "OVERDUE" ELSE f.status[i]]]

-----------------------------------------------------------------------------
(* The simulator's events: _available_event_kinds, _apply_generated_event. *)

EventKinds == {"PARTIAL_PAYMENT", "FULL_PAYMENT", "PROMISE_CREATED",
               "PROMISE_BROKEN", "DISPUTE_OPENED", "DISPUTE_RESOLVED",
               "CUSTOMER_DELAY_RESPONSE"}

\* Mutants: settled invoices, or disputed ones, may receive payments.
PayableWhenSettled(f) == {i \in Invoices : f.status[i] # "DISPUTED"}
PayableWhenDisputed(f) == {i \in Invoices : f.outstanding[i] > 0}
Payable(f) ==
    {i \in Invoices : f.outstanding[i] > 0 /\ f.status[i] # "DISPUTED"}

\* Mutant: disputes are looked for among the settled invoices.
DisputedSettled(f) ==
    {i \in Invoices : f.outstanding[i] = 0 /\ f.status[i] = "DISPUTED"}
DisputedUnpaid(f) ==
    {i \in Invoices : f.outstanding[i] > 0 /\ f.status[i] = "DISPUTED"}

HasActivePromise(f, i) ==
    \E p \in PromisesOn(f, i) : f.promise[p].status = "ACTIVE"

BreakablePromises(f) ==
    {p \in Promises : /\ f.promise[p].status = "ACTIVE"
                      /\ f.outstanding[f.promise[p].invoice] > 0}

FreePromiseRows(f) == {p \in Promises : f.promise[p].status = "NONE"}

\* The invoices (for PROMISE_BROKEN, the promises) an event may still pick
\* in this cycle; used holds the <<kind, id>> pairs already taken.
Targets(f, used, kind) ==
    LET fresh(S) == {x \in S : <<kind, x>> \notin used} IN
    CASE kind = "PROMISE_BROKEN"   -> fresh(BreakablePromises(f))
      [] kind = "DISPUTE_RESOLVED" -> fresh(DisputedUnpaid(f))
      [] kind = "PROMISE_CREATED"  ->
            fresh({i \in Payable(f) : /\ ~HasActivePromise(f, i)
                                      /\ FreePromiseRows(f) # {}})
      [] OTHER                     -> fresh(Payable(f))

\* A partial payment is offered only when some balance exceeds one cent, but
\* once offered it may pick any payable invoice.
AvailableKinds(f, used) ==
    {kind \in EventKinds :
        IF kind = "PARTIAL_PAYMENT"
        THEN \E i \in Targets(f, used, kind) : f.outstanding[i] > 1
        ELSE Targets(f, used, kind) # {}}

Largest(a, b) == IF a >= b THEN a ELSE b
Smallest(a, b) == IF a <= b THEN a ELSE b

\* balance * fraction rounded to the cent, for fractions of low to high
\* per cent, at least one cent and at most the balance.
FractionalAmounts(balance, low, high) ==
    {Smallest(balance, Largest(1, n)) :
        n \in {m \in 0 .. balance : /\ 200 * m + 100 >= 2 * low * balance
                                    /\ 200 * m - 100 <= 2 * high * balance}}

\* An amount that would clear the balance is reduced by one cent, but never
\* below one cent.
PartialAmounts(balance) ==
    {IF a >= balance THEN Largest(1, balance - 1) ELSE a :
        a \in FractionalAmounts(balance, 8, 65)}

SimulatedPayment(f, i, amount) ==
    OpenCase(FulfilPromises(ReceivePayment(f, i, amount, f.date), i, amount), i)

\* Every outcome of applying an event of this kind to the chosen target.
EventOutcomes(f, kind, x) ==
    CASE kind = "PARTIAL_PAYMENT" ->
            {SimulatedPayment(f, x, a) : a \in PartialAmounts(f.outstanding[x])}
      [] kind = "FULL_PAYMENT" -> {SimulatedPayment(f, x, f.outstanding[x])}
      [] kind = "PROMISE_CREATED" ->
            {OpenCase(AddPromise(f, CHOOSE p \in FreePromiseRows(f) : TRUE,
                                 x, a, f.date + days, f.date), x) :
                a \in FractionalAmounts(f.outstanding[x], 20, 75),
                days \in PromiseDaysMin .. PromiseDaysMax}
      [] kind = "PROMISE_BROKEN" ->
            {OpenCase(BreakPromise(f, x), f.promise[x].invoice)}
      [] kind = "DISPUTE_OPENED" -> {OpenCase(OpenDispute(f, x), x)}
      [] kind = "DISPUTE_RESOLVED" -> {OpenCase(ResolveDispute(f, x), x)}
      [] kind = "CUSTOMER_DELAY_RESPONSE" -> {OpenCase(f, x)}

\* What the event takes out of the rest of the cycle.
Consumed(f, g, kind, x) ==
    LET new == {p \in FreePromiseRows(f) : g.promise[p].status = "ACTIVE"} IN
    CASE kind = "PROMISE_CREATED" ->
            {<<kind, x>>} \cup {<<"PROMISE_BROKEN", p>> : p \in new}
      [] kind = "PROMISE_BROKEN" -> {<<kind, x>>, <<kind, f.promise[x].invoice>>}
      [] kind = "DISPUTE_OPENED" -> {<<kind, x>>, <<"DISPUTE_RESOLVED", x>>}
      [] kind = "DISPUTE_RESOLVED" -> {<<kind, x>>, <<"DISPUTE_OPENED", x>>}
      [] OTHER -> {<<kind, x>>}
=============================================================================
