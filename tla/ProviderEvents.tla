--------------------------- MODULE ProviderEvents ---------------------------
(***************************************************************************)
(* Payment requests and provider events as the concurrent requests they    *)
(* are (payments/service.py): each handler reads its rows one statement at *)
(* a time, keeps what it read, and writes values computed from it.  The    *)
(* database gives a transaction the committed rows at each read (READ      *)
(* COMMITTED), locks a row from its first update to the end of the         *)
(* transaction, and refuses a second event with a known identity.  An      *)
(* update writes the columns whose value the handler changed and no other. *)
(* A cycle of the simulation pays the same invoices.                       *)
(***************************************************************************)
EXTENDS Naturals, FiniteSets, Functions

CONSTANTS
    Invoices,     \* invoices, each with one recovery case (bound)
    Original,     \* what each invoice asks for
    Requests,     \* payment requests (bound)
    InvoiceOf,    \* the invoice of each request
    Requested,    \* the amount of each request
    Messages,     \* distinct event bodies the provider sends (bound)
    Message,      \* what each of them says
    Sessions,     \* requests that may be in progress at once (bound)
    CycleAmounts, \* what a cycle may pay on an invoice (bound)
    MaxCrashes,   \* stops of the process explored (bound)
    Free          \* no transaction holds the row

Bodies ==
    [request : Requests, event : Nat, payment : Nat, amount : Nat \ {0},
     kind : {"PAID", "PARTIALLY_PAID"}]

ASSUME ProviderConstants ==
    /\ Original \in [Invoices -> Nat]
    /\ InvoiceOf \in [Requests -> Invoices]
    /\ Requested \in [Requests -> Nat \ {0}]
    /\ IsFiniteSet(Messages)
    /\ Message \in [Messages -> Bodies]
    /\ CycleAmounts \subseteq Nat \ {0} /\ MaxCrashes \in Nat
    /\ Free \notin Sessions /\ "cycle" \notin Sessions /\ Free # "cycle"

VARIABLES
    balance,      \* invoices.outstanding_amount
    received,     \* the sum of the payments rows of an invoice
    request,      \* external_payment_requests: status and paid_amount
    rows,         \* per message, its provider_events rows, each with a payment
    heard,        \* the messages the provider has an answer to
    session,      \* what each request in progress holds
    cycle,        \* what the running cycle holds
    lock,         \* the transaction that holds an invoice row
    crashes

ledger == <<balance, received, request, rows>>
vars == <<ledger, heard, session, cycle, lock, crashes>>

Idle == [step |-> "IDLE"]
Answers == {"APPLIED", "DUPLICATE", "REFUSED"}
Live == {"ACTIVE", "PARTIALLY_PAID"}
RequestRows == [status : {"NONE", "PAID", "FAILED"} \cup Live, paid : Nat]

Creating == [step : {"CREATE"}, request : Requests]
Receiving ==
    [step : {"READ", "CHECK", "FLUSH", "COMMIT"}, message : Messages,
     seen : RequestRows, balance : Nat]
Answering == [step : {"ANSWER"}, message : Messages, answer : Answers]

Init ==
    /\ balance = Original
    /\ received = [i \in Invoices |-> 0]
    /\ request = [r \in Requests |-> [status |-> "NONE", paid |-> 0]]
    /\ rows = [m \in Messages |-> 0]
    /\ heard = {}
    /\ session = [s \in Sessions |-> Idle]
    /\ cycle = Idle
    /\ lock = [i \in Invoices |-> Free]
    /\ crashes = 0

Goes(s, held) == session' = [session EXCEPT ![s] = held]
InvoicePaid(m) == InvoiceOf[Message[m].request]

-----------------------------------------------------------------------------
(* create_external_payment_request *)

\* Advice and blockers, decided elsewhere, may allow any request.
CheckCreation(s, r) ==
    /\ session[s] = Idle
    /\ request[r].status = "NONE"
    /\ \A t \in Sessions : session[t] # [step |-> "CREATE", request |-> r]
    /\ balance[InvoiceOf[r]] >= Requested[r]
    /\ \A q \in Requests :
          InvoiceOf[q] = InvoiceOf[r] => request[q].status \notin Live
    /\ Goes(s, [step |-> "CREATE", request |-> r])
    /\ UNCHANGED <<ledger, heard, cycle, lock, crashes>>

\* The provider made the link, or failed.
CommitCreation(s, status) ==
    /\ session[s].step = "CREATE"
    /\ request' = [request EXCEPT ![session[s].request] = [status |-> status, paid |-> 0]]
    /\ Goes(s, Idle)
    /\ UNCHANGED <<balance, received, rows, heard, cycle, lock, crashes>>

-----------------------------------------------------------------------------
(* apply_demo_payment_event, ingest_demo_payment_event *)

\* Requests whose row holds the provider's reference.
Referenced(r) == request[r].status \notin {"NONE", "FAILED"}

\* The provider sends a message, for the first time or again.  One with an
\* unknown reference answers 404.
ReceiveMessage(s, m) ==
    LET r == Message[m].request IN
    /\ session[s] = Idle
    /\ Referenced(r)
    /\ Goes(s, [step |-> "READ", message |-> m, seen |-> request[r], balance |-> 0])
    /\ UNCHANGED <<ledger, heard, cycle, lock, crashes>>

ReadInvoice(s) ==
    /\ session[s].step = "READ"
    /\ Goes(s, [session[s] EXCEPT !.step = "CHECK",
                                  !.balance = balance[InvoicePaid(session[s].message)]])
    /\ UNCHANGED <<ledger, heard, cycle, lock, crashes>>

\* Either identity makes two messages the same payment.
SamePayment(m, n) ==
    \/ Message[m].event = Message[n].event
    \/ Message[m].payment = Message[n].payment
Known(m) == \E n \in Messages : rows[n] > 0 /\ SamePayment(m, n)

\* What the rows that were read allow.
Fits(m, seen, owed) ==
    LET remaining == Requested[Message[m].request] - seen.paid
        amount == Message[m].amount IN
    /\ seen.status \in Live
    /\ amount <= owed
    /\ IF Message[m].kind = "PAID" THEN amount = remaining ELSE amount < remaining

CheckMessage(s) ==
    LET m == session[s].message IN
    /\ session[s].step = "CHECK"
    /\ Goes(s, IF Known(m)
               THEN [step |-> "ANSWER", message |-> m, answer |-> "DUPLICATE"]
               ELSE IF Fits(m, session[s].seen, session[s].balance)
                    THEN [session[s] EXCEPT !.step = "FLUSH"]
                    ELSE [step |-> "ANSWER", message |-> m, answer |-> "REFUSED"])
    /\ UNCHANGED <<ledger, heard, cycle, lock, crashes>>

\* The update of the invoice waits for whoever updated it before.
FlushPayment(s) ==
    LET i == InvoicePaid(session[s].message) IN
    /\ session[s].step = "FLUSH"
    /\ lock[i] = Free
    /\ lock' = [lock EXCEPT ![i] = s]
    /\ Goes(s, [session[s] EXCEPT !.step = "COMMIT"])
    /\ UNCHANGED <<ledger, heard, cycle, crashes>>

\* Mutant: no unique constraint on the identities.
NeverConflicts(m) == FALSE
Conflicts(m) == Known(m)

\* Mutant: a refused transaction is left open.
KeptWhenRefused(i, refused) == IF refused THEN lock ELSE [lock EXCEPT ![i] = Free]
Released(i, refused) == [lock EXCEPT ![i] = Free]

\* Mutant: a PAID event settles the invoice, whatever the request was for.
BalanceSettled(m, owed) == IF Message[m].kind = "PAID" THEN 0 ELSE owed - Message[m].amount
BalanceAfter(m, owed) == owed - Message[m].amount

\* The request row after the update.  The paid amount always differs from the
\* one read and is written.  The status is written when it differs from the
\* one read; otherwise the row keeps its own, whoever wrote that since.
Written(row, seen, status, paid) ==
    [status |-> IF status = seen.status THEN row.status ELSE status, paid |-> paid]

\* A known identity rolls everything back.  The new balance and paid amount
\* come from what was read, not from the rows as they are now.
CommitPayment(s) ==
    LET m == session[s].message
        r == Message[m].request
        i == InvoicePaid(m)
        amount == Message[m].amount
        paid == session[s].seen.paid + amount
        told(answer) == [step |-> "ANSWER", message |-> m, answer |-> answer] IN
    /\ session[s].step = "COMMIT"
    /\ lock' = Released(i, Conflicts(m))
    /\ \/ /\ Conflicts(m)
          /\ Goes(s, told("DUPLICATE"))
          /\ UNCHANGED ledger
       \/ /\ ~Conflicts(m)
          /\ Goes(s, told("APPLIED"))
          /\ balance' = [balance EXCEPT ![i] = BalanceAfter(m, session[s].balance)]
          /\ received' = [received EXCEPT ![i] = received[i] + amount]
          /\ request' = [request EXCEPT ![r] =
                Written(@, session[s].seen,
                        IF paid = Requested[r] THEN "PAID" ELSE "PARTIALLY_PAID", paid)]
          /\ rows' = [rows EXCEPT ![m] = rows[m] + 1]
    /\ UNCHANGED <<heard, cycle, crashes>>

Answer(s) ==
    /\ session[s].step = "ANSWER"
    /\ heard' = heard \cup {session[s].message}
    /\ Goes(s, Idle)
    /\ UNCHANGED <<ledger, cycle, lock, crashes>>

-----------------------------------------------------------------------------
(* run_tick: one cycle at a time, which pays from the balance it read *)

BeginCycle(i, amount) ==
    /\ cycle = Idle
    /\ amount <= balance[i]
    /\ cycle' = [step |-> "FLUSH", invoice |-> i, balance |-> balance[i], amount |-> amount]
    /\ UNCHANGED <<ledger, heard, session, lock, crashes>>

FlushCycle ==
    /\ cycle.step = "FLUSH"
    /\ lock[cycle.invoice] = Free
    /\ lock' = [lock EXCEPT ![cycle.invoice] = "cycle"]
    /\ cycle' = [cycle EXCEPT !.step = "COMMIT"]
    /\ UNCHANGED <<ledger, heard, session, crashes>>

CommitCycle ==
    LET i == cycle.invoice IN
    /\ cycle.step = "COMMIT"
    /\ lock' = [lock EXCEPT ![i] = Free]
    /\ balance' = [balance EXCEPT ![i] = cycle.balance - cycle.amount]
    /\ received' = [received EXCEPT ![i] = received[i] + cycle.amount]
    /\ cycle' = Idle
    /\ UNCHANGED <<request, rows, heard, session, crashes>>

\* The process stops; the database rolls its transactions back.
Crash ==
    /\ crashes < MaxCrashes
    /\ crashes' = crashes + 1
    /\ session' = [s \in Sessions |-> Idle]
    /\ cycle' = Idle
    /\ lock' = [i \in Invoices |-> Free]
    /\ UNCHANGED <<ledger, heard>>

-----------------------------------------------------------------------------
Proceed(s) ==
    \/ \E status \in {"ACTIVE", "FAILED"} : CommitCreation(s, status)
    \/ ReadInvoice(s) \/ CheckMessage(s)
    \/ FlushPayment(s) \/ CommitPayment(s) \/ Answer(s)

Cycle == FlushCycle \/ CommitCycle

Next ==
    \/ \E s \in Sessions :
        \/ \E r \in Requests : CheckCreation(s, r)
        \/ \E m \in Messages : ReceiveMessage(s, m)
        \/ Proceed(s)
    \/ \E i \in Invoices : \E amount \in CycleAmounts : BeginCycle(i, amount)
    \/ Cycle \/ Crash

Spec == Init /\ [][Next]_vars

\* The process runs what it can run, and the provider repeats a message it has
\* no answer to.  Nothing is assumed of who gets a row that several wait for.
FairSpec ==
    /\ Spec
    /\ \A s \in Sessions : WF_vars(Proceed(s))
    /\ WF_vars(Cycle)
    /\ \A m \in Messages : SF_vars(m \notin heard /\ \E s \in Sessions : ReceiveMessage(s, m))

-----------------------------------------------------------------------------
TypeOK ==
    /\ balance \in [Invoices -> Nat]
    /\ received \in [Invoices -> Nat]
    /\ request \in [Requests -> RequestRows]
    /\ rows \in [Messages -> Nat]
    /\ heard \in SUBSET Messages
    /\ session \in [Sessions -> {Idle} \cup Creating \cup Receiving \cup Answering]
    /\ cycle \in {Idle} \cup [step : {"FLUSH", "COMMIT"}, invoice : Invoices,
                              balance : Nat, amount : Nat]
    /\ lock \in [Invoices -> Sessions \cup {"cycle", Free}]

(* However deliveries of one payment overlap, are cut off and repeated, a  *)
(* payment has one row, and what the provider hears is true: APPLIED when   *)
(* the message made the row, DUPLICATE only when there is one.             *)
AppliedOnce ==
    /\ \A m \in Messages :
        /\ rows[m] <= 1
        /\ \A n \in Messages \ {m} : rows[m] > 0 /\ SamePayment(m, n) => rows[n] = 0
    /\ \A s \in Sessions : session[s].step = "ANSWER" =>
        /\ session[s].answer = "APPLIED" => rows[session[s].message] > 0
        /\ session[s].answer = "DUPLICATE" => Known(session[s].message)

\* What the payments with an event row brought to a request.
PaidBy(r) ==
    SumFunctionOnSet([m \in Messages |->
        IF rows[m] > 0 /\ Message[m].request = r THEN Message[m].amount ELSE 0], Messages)

(* What the books call paid was received.  Payments that overlap may leave *)
(* an invoice or a request asking for more than is owed, never for less:   *)
(* what is taken off a balance is covered by payments, a request counts no *)
(* more than its own payments nor than its amount, all of it makes the     *)
(* request PAID, and a PAID request did receive all it asked for, even if  *)
(* its paid amount was overwritten since.                                  *)
PaidIsReceived ==
    /\ \A i \in Invoices : balance[i] + received[i] >= Original[i]
    /\ \A r \in Requests :
        /\ request[r].paid <= Requested[r]
        /\ request[r].paid <= PaidBy(r)
        /\ request[r].paid = Requested[r] => request[r].status = "PAID"
        /\ request[r].status = "PAID" => Requested[r] <= PaidBy(r)

(* A message the provider repeats until it hears is answered in the end:   *)
(* no refused, interrupted or waiting transaction keeps it out for good.   *)
MessagesAreAnswered ==
    \A m \in Messages :
        Referenced(Message[m].request) ~> m \in heard

(* What seed/portfolio.py:403 asserts of every invoice: its payments are   *)
(* what its balance lost.                                                  *)
NoPaymentLost ==
    \A i \in Invoices : received[i] + balance[i] = Original[i]

(* A request that says it is PAID says that all of it was paid: the two    *)
(* columns agree, as tests/test_payment_provider.py:234 asserts of them.   *)
PaidIsComplete ==
    \A r \in Requests : request[r].status = "PAID" => request[r].paid = Requested[r]
=============================================================================
