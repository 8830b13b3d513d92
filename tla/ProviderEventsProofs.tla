----------------------- MODULE ProviderEventsProofs -----------------------
(***************************************************************************)
(* Proofs about ProviderEvents, for any number of invoices, requests,      *)
(* messages, overlapping sessions and crashes.                             *)
(***************************************************************************)
EXTENDS ProviderEvents, FiniteInduction

\* What a handler read stays covered by the payments there are.
Covered(h) ==
    LET r == Message[h.message].request IN
    /\ h.seen.paid <= Requested[r]
    /\ h.seen.paid <= PaidBy(r)
    /\ h.step # "READ" => h.balance + received[InvoiceOf[r]] >= Original[InvoiceOf[r]]
    /\ h.step \in {"FLUSH", "COMMIT"} => Fits(h.message, h.seen, h.balance)

SessionsCovered == \A s \in Sessions : session[s] \in Receiving => Covered(session[s])

CycleCovered ==
    cycle # Idle =>
        /\ cycle.amount <= cycle.balance
        /\ cycle.balance + received[cycle.invoice] >= Original[cycle.invoice]

IInv == TypeOK /\ AppliedOnce /\ PaidIsReceived /\ SessionsCovered /\ CycleCovered

Held == {Idle} \cup Creating \cup Receiving \cup Answering
CycleHeld == [step : {"FLUSH", "COMMIT"}, invoice : Invoices, balance : Nat, amount : Nat]

-----------------------------------------------------------------------------
(* The step says what kind of request a session holds. *)

LEMMA CreatingStep ==
    ASSUME NEW h \in Held, h.step = "CREATE" PROVE h \in Creating
  BY DEF Held, Idle, Creating, Receiving, Answering

LEMMA ReceivingStep ==
    ASSUME NEW h \in Held, h.step \in {"READ", "CHECK", "FLUSH", "COMMIT"}
    PROVE  h \in Receiving
  BY DEF Held, Idle, Creating, Receiving, Answering

LEMMA AnsweringStep ==
    ASSUME NEW h \in Held, h.step = "ANSWER" PROVE h \in Answering
  BY DEF Held, Idle, Creating, Receiving, Answering

LEMMA ReceivingFields ==
    ASSUME NEW h \in Receiving
    PROVE  /\ h.message \in Messages /\ h.balance \in Nat
           /\ h.seen \in RequestRows /\ h.seen.paid \in Nat
           /\ Message[h.message] \in Bodies
           /\ Message[h.message].request \in Requests
           /\ Message[h.message].amount \in Nat \ {0}
           /\ InvoiceOf[Message[h.message].request] \in Invoices
           /\ Requested[Message[h.message].request] \in Nat
           /\ h.step # "ANSWER"
  BY ProviderConstants DEF Receiving, RequestRows, Bodies

\* What a request was paid is a number, and a new event row adds its amount.
LEMMA PaidByType ==
    ASSUME TypeOK, NEW r PROVE PaidBy(r) \in Nat
<1> DEFINE f == [m \in Messages |->
               IF rows[m] > 0 /\ Message[m].request = r THEN Message[m].amount ELSE 0]
<1>1. \A m \in Messages : f[m] \in Nat
  BY ProviderConstants DEF Bodies
<1> HIDE DEF f
<1>2. SumFunctionOnSet(f, Messages) \in Nat
  BY <1>1, SumNat, ProviderConstants
<1> QED BY <1>2 DEF PaidBy, f

LEMMA PaidByMore ==
    ASSUME TypeOK, NEW m \in Messages, rows[m] = 0, rows' = [rows EXCEPT ![m] = 1], NEW r
    PROVE  /\ PaidBy(r)' \in Nat /\ PaidBy(r)' >= PaidBy(r)
           /\ r = Message[m].request => PaidBy(r)' = PaidBy(r) + Message[m].amount
<1> DEFINE f == [n \in Messages |->
               IF rows[n] > 0 /\ Message[n].request = r THEN Message[n].amount ELSE 0]
           g == [n \in Messages |->
               IF rows'[n] > 0 /\ Message[n].request = r THEN Message[n].amount ELSE 0]
<1>1. \A n \in Messages : f[n] \in Int /\ g[n] \in Int
  BY ProviderConstants DEF Bodies
<1>2. \A n \in Messages \ {m} : f[n] = g[n]
  BY DEF TypeOK
<1>3. f[m] = 0 /\ g[m] \in Nat /\ (r = Message[m].request => g[m] = Message[m].amount)
  <2>1. rows'[m] = 1
    BY DEF TypeOK
  <2>2. Message[m].amount \in Nat
    BY ProviderConstants DEF Bodies
  <2> QED BY <2>1, <2>2
<1> HIDE DEF f, g
<1>4. SumFunctionOnSet(g, Messages) = SumFunctionOnSet(f, Messages) + (g[m] - f[m])
  BY <1>1, <1>2, SumChange, ProviderConstants
<1>5. PaidBy(r) = SumFunctionOnSet(f, Messages) /\ PaidBy(r) \in Nat
  BY PaidByType DEF PaidBy, f
<1>6. PaidBy(r)' = SumFunctionOnSet(g, Messages)
  BY DEF PaidBy, g
<1> QED BY <1>3, <1>4, <1>5, <1>6

\* A new holding that is covered, if it is a received message, is all that
\* a step that leaves the ledger alone must give.
LEMMA QuietStep ==
    ASSUME TypeOK, AppliedOnce, PaidIsReceived, SessionsCovered, CycleCovered,
           NEW s \in Sessions, NEW h \in Held,
           session' = [session EXCEPT ![s] = h],
           UNCHANGED <<ledger, cycle>>,
           heard' \in SUBSET Messages,
           lock' \in [Invoices -> Sessions \cup {"cycle", Free}],
           h \in Receiving => Covered(h),
           h.step = "ANSWER" =>
               h.answer = "REFUSED" \/ (h.answer = "DUPLICATE" /\ Known(h.message))
    PROVE  IInv'
<1>1. UNCHANGED <<balance, received, request, rows, cycle>>
  BY DEF ledger
<1>2. session \in [Sessions -> Held]
  BY DEF TypeOK, Held
<1>3. session' \in [Sessions -> Held]
  BY <1>2
<1>4. /\ session'[s] = h
      /\ \A t \in Sessions \ {s} : session'[t] = session[t]
  BY <1>2
<1>5. TypeOK'
  BY <1>1, <1>3 DEF TypeOK, Held
<1>6. AppliedOnce'
  <2>2. ASSUME NEW t \in Sessions, session'[t].step = "ANSWER"
        PROVE  /\ session'[t].answer = "APPLIED" => rows[session'[t].message] > 0
               /\ session'[t].answer = "DUPLICATE" => Known(session'[t].message)
    <3>1. CASE t = s
      BY <1>4, <2>2, <3>1
    <3>2. CASE t # s
      BY <1>4, <2>2, <3>2 DEF AppliedOnce
    <3> QED BY <3>1, <3>2
  <2>5. \A m \in Messages :
            /\ rows'[m] <= 1
            /\ \A n \in Messages \ {m} : rows'[m] > 0 /\ SamePayment(m, n) => rows'[n] = 0
    BY <1>1 DEF AppliedOnce
  <2> QED BY <1>1, <2>2, <2>5 DEF AppliedOnce, Known, SamePayment
<1>7. PaidIsReceived'
  BY <1>1 DEF PaidIsReceived, PaidBy
<1>8. SessionsCovered'
  <2>1. \A t \in Sessions : session'[t] \in Receiving => Covered(session'[t])
    BY <1>4 DEF SessionsCovered
  <2> QED BY <1>1, <2>1 DEF SessionsCovered, Covered, PaidBy
<1>9. CycleCovered'
  BY <1>1 DEF CycleCovered
<1> QED BY <1>5, <1>6, <1>7, <1>8, <1>9 DEF IInv

LEMMA InitInv == Init => IInv
<1> SUFFICES ASSUME Init PROVE IInv
  OBVIOUS
<1> USE ProviderConstants
<1>1. TypeOK
  BY DEF Init, TypeOK, RequestRows, Live
<1>2. AppliedOnce
  BY DEF Init, AppliedOnce, Idle
<1>3. PaidIsReceived
  <2>1. \A r \in Requests : PaidBy(r) \in Nat
    BY <1>1, PaidByType
  <2> QED BY <2>1 DEF Init, PaidIsReceived
<1>4. SessionsCovered
  BY DEF Init, SessionsCovered, Idle, Receiving
<1> QED BY <1>1, <1>2, <1>3, <1>4 DEF IInv, CycleCovered, Init

-----------------------------------------------------------------------------
(* The steps of a request that leave the ledger alone. *)

LEMMA CheckCreationInv ==
    ASSUME IInv, NEW s \in Sessions, NEW r \in Requests, CheckCreation(s, r)
    PROVE  IInv'
<1> DEFINE h == [step |-> "CREATE", request |-> r]
<1>1. h \in Held /\ h \notin Receiving /\ h.step # "ANSWER"
  BY DEF Held, Creating, Receiving
<1> QED BY <1>1, QuietStep DEF CheckCreation, Goes, IInv, ledger, TypeOK

LEMMA ReceiveMessageInv ==
    ASSUME IInv, NEW s \in Sessions, NEW m \in Messages, ReceiveMessage(s, m)
    PROVE  IInv'
<1> DEFINE r == Message[m].request
           h == [step |-> "READ", message |-> m, seen |-> request[r], balance |-> 0]
<1>1. r \in Requests
  BY ProviderConstants DEF Bodies
<1>2. h \in Receiving
  BY <1>1 DEF Receiving, IInv, TypeOK
<1>3. h \in Held /\ h.step # "ANSWER"
  BY <1>2 DEF Held
<1>4. Covered(h)
  BY <1>1 DEF Covered, IInv, PaidIsReceived
<1>5. session' = [session EXCEPT ![s] = h] /\ UNCHANGED <<ledger, cycle, heard, lock>>
  BY DEF ReceiveMessage, Goes
<1> QED BY <1>3, <1>4, <1>5, QuietStep DEF IInv, TypeOK

LEMMA ReadInvoiceInv ==
    ASSUME IInv, NEW s \in Sessions, ReadInvoice(s)
    PROVE  IInv'
<1> DEFINE m == session[s].message
           i == InvoicePaid(m)
           h == [session[s] EXCEPT !.step = "CHECK", !.balance = balance[i]]
<1>1. session[s] \in Receiving
  BY ReceivingStep DEF ReadInvoice, IInv, TypeOK, Held
<1>2. i \in Invoices /\ balance[i] \in Nat
  BY <1>1, ReceivingFields, ProviderConstants DEF InvoicePaid, IInv, TypeOK
<1>3. h \in Receiving /\ h.step = "CHECK" /\ h.message = m
      /\ h.balance = balance[i] /\ h.seen = session[s].seen
  BY <1>1, <1>2 DEF Receiving
<1>4. Covered(session[s])
  BY <1>1 DEF IInv, SessionsCovered
<1>5. Covered(h)
  BY <1>2, <1>3, <1>4 DEF Covered, IInv, PaidIsReceived, InvoicePaid
<1>6. session' = [session EXCEPT ![s] = h] /\ UNCHANGED <<ledger, cycle, heard, lock>>
  BY DEF ReadInvoice, Goes
<1> QED BY <1>3, <1>5, <1>6, QuietStep DEF IInv, TypeOK, Held

LEMMA CheckMessageInv ==
    ASSUME IInv, NEW s \in Sessions, CheckMessage(s)
    PROVE  IInv'
<1> DEFINE m == session[s].message
           told(answer) == [step |-> "ANSWER", message |-> m, answer |-> answer]
           fits == Fits(m, session[s].seen, session[s].balance)
           on == [session[s] EXCEPT !.step = "FLUSH"]
           h == IF Known(m) THEN told("DUPLICATE") ELSE IF fits THEN on ELSE told("REFUSED")
<1>1. session[s] \in Receiving
  BY ReceivingStep DEF CheckMessage, IInv, TypeOK, Held
<1>2. m \in Messages
  BY <1>1, ReceivingFields
<1>3. told("DUPLICATE") \in Answering /\ told("REFUSED") \in Answering
  BY <1>2 DEF Answering, Answers
<1>4. on \in Receiving /\ on.step = "FLUSH" /\ on.message = m
      /\ on.seen = session[s].seen /\ on.balance = session[s].balance
  BY <1>1 DEF Receiving
<1>5. fits => Covered(on)
  <2>1. Covered(session[s]) /\ session[s].step = "CHECK"
    BY <1>1 DEF IInv, SessionsCovered, CheckMessage
  <2> QED BY <1>4, <2>1 DEF Covered
<1>6. session' = [session EXCEPT ![s] = h] /\ UNCHANGED <<ledger, cycle, heard, lock>>
  BY DEF CheckMessage, Goes
<1>7. h \in Held
  BY <1>3, <1>4 DEF Held
<1>8. h \in Receiving => Covered(h)
  BY <1>5, ReceivingFields
<1>9. h.step = "ANSWER" =>
        h.answer = "REFUSED" \/ (h.answer = "DUPLICATE" /\ Known(h.message))
  BY <1>4
<1> HIDE DEF h
<1> QED BY <1>6, <1>7, <1>8, <1>9, QuietStep DEF IInv, TypeOK

LEMMA FlushPaymentInv ==
    ASSUME IInv, NEW s \in Sessions, FlushPayment(s)
    PROVE  IInv'
<1> DEFINE i == InvoicePaid(session[s].message)
           h == [session[s] EXCEPT !.step = "COMMIT"]
<1>1. session[s] \in Receiving
  BY ReceivingStep DEF FlushPayment, IInv, TypeOK, Held
<1>2. h \in Receiving /\ h.step = "COMMIT" /\ h.message = session[s].message
      /\ h.seen = session[s].seen /\ h.balance = session[s].balance
  BY <1>1 DEF Receiving
<1>3. Covered(session[s]) /\ session[s].step = "FLUSH"
  BY <1>1 DEF IInv, SessionsCovered, FlushPayment
<1>4. Covered(h)
  BY <1>2, <1>3 DEF Covered
<1>5. lock' \in [Invoices -> Sessions \cup {"cycle", Free}]
  BY DEF FlushPayment, IInv, TypeOK
<1>6. session' = [session EXCEPT ![s] = h] /\ UNCHANGED <<ledger, cycle, heard>>
  BY DEF FlushPayment, Goes
<1> QED BY <1>2, <1>4, <1>5, <1>6, QuietStep DEF IInv, TypeOK, Held

LEMMA AnswerInv ==
    ASSUME IInv, NEW s \in Sessions, Answer(s)
    PROVE  IInv'
<1>1. session[s].message \in Messages
  BY AnsweringStep DEF Answer, IInv, TypeOK, Held, Answering
<1>2. heard' \in SUBSET Messages
  BY <1>1 DEF Answer, IInv, TypeOK
<1>3. Idle \in Held /\ Idle \notin Receiving /\ Idle.step # "ANSWER"
  BY DEF Held, Idle, Receiving
<1> QED BY <1>2, <1>3, QuietStep DEF Answer, Goes, IInv, TypeOK

-----------------------------------------------------------------------------
(* The steps that change the ledger. *)

\* A payment taken off a balance that was read, and added to the payments.
LEMMA LedgerStep ==
    ASSUME TypeOK, PaidIsReceived,
           NEW i \in Invoices, NEW amount \in Nat, NEW owed \in Nat,
           amount <= owed, owed + received[i] >= Original[i],
           balance' = [balance EXCEPT ![i] = owed - amount],
           received' = [received EXCEPT ![i] = received[i] + amount]
    PROVE  /\ balance' \in [Invoices -> Nat] /\ received' \in [Invoices -> Nat]
           /\ received'[i] = received[i] + amount
           /\ \A j \in Invoices : received'[j] >= received[j]
           /\ \A j \in Invoices : balance'[j] + received'[j] >= Original[j]
<1>1. balance \in [Invoices -> Nat] /\ received \in [Invoices -> Nat]
      /\ Original \in [Invoices -> Nat]
  BY ProviderConstants DEF TypeOK
<1>2. owed - amount \in Nat /\ received[i] + amount \in Nat
  BY <1>1
<1>3. balance' \in [Invoices -> Nat] /\ received' \in [Invoices -> Nat]
  BY <1>1, <1>2
<1>4. balance'[i] = owed - amount /\ received'[i] = received[i] + amount
      /\ \A j \in Invoices \ {i} : balance'[j] = balance[j] /\ received'[j] = received[j]
  BY <1>1
<1>5. ASSUME NEW j \in Invoices
      PROVE  received'[j] >= received[j] /\ balance'[j] + received'[j] >= Original[j]
  <2>1. received[j] \in Nat /\ balance[j] \in Nat /\ Original[j] \in Nat
        /\ balance[j] + received[j] >= Original[j]
    BY <1>1 DEF PaidIsReceived
  <2>2. CASE j = i
    BY <1>4, <2>1, <2>2
  <2>3. CASE j # i
    BY <1>4, <2>1, <2>3
  <2> QED BY <2>2, <2>3
<1> QED BY <1>3, <1>4, <1>5

\* Payments only ever add up, so what was covered stays covered.
LEMMA MorePayments ==
    ASSUME SessionsCovered, session' = session,
           received \in [Invoices -> Nat], received' \in [Invoices -> Nat],
           UNCHANGED rows, \A i \in Invoices : received'[i] >= received[i]
    PROVE  SessionsCovered'
<1> SUFFICES ASSUME NEW s \in Sessions, session[s] \in Receiving
             PROVE  Covered(session[s])'
  BY DEF SessionsCovered
<1> DEFINE h == session[s]
           r == Message[h.message].request
<1>1. Covered(h) /\ h.seen.paid \in Nat /\ h.balance \in Nat /\ r \in Requests
      /\ InvoiceOf[r] \in Invoices /\ Requested[r] \in Nat
  BY ReceivingFields DEF SessionsCovered
<1>2. received[InvoiceOf[r]] \in Nat /\ received'[InvoiceOf[r]] \in Nat
      /\ received'[InvoiceOf[r]] >= received[InvoiceOf[r]]
  BY <1>1
<1>3. Original[InvoiceOf[r]] \in Nat
  BY <1>1, ProviderConstants
<1>4. /\ h.seen.paid <= Requested[r]
      /\ h.seen.paid <= PaidBy(r)
      /\ h.step # "READ" => h.balance + received'[InvoiceOf[r]] >= Original[InvoiceOf[r]]
      /\ h.step \in {"FLUSH", "COMMIT"} => Fits(h.message, h.seen, h.balance)
  BY <1>1, <1>2, <1>3 DEF Covered
<1> QED BY <1>4 DEF Covered, Fits, PaidBy

LEMMA CommitCreationInv ==
    ASSUME IInv, NEW s \in Sessions, NEW status \in {"ACTIVE", "FAILED"},
           CommitCreation(s, status)
    PROVE  IInv'
<1> DEFINE r == session[s].request
           row == [status |-> status, paid |-> 0]
<1>1. r \in Requests /\ row \in RequestRows
  BY CreatingStep DEF CommitCreation, IInv, TypeOK, Held, Creating, RequestRows, Live
<1>2. request' = [request EXCEPT ![r] = row] /\ session' = [session EXCEPT ![s] = Idle]
      /\ UNCHANGED <<balance, received, rows, heard, cycle, lock>>
  BY DEF CommitCreation, Goes
<1>3. TypeOK'
  BY <1>1, <1>2 DEF IInv, TypeOK
<1>4. session \in [Sessions -> Held] /\ Idle \notin Receiving /\ Idle.step # "ANSWER"
  BY DEF IInv, TypeOK, Held, Idle, Receiving
<1>5. AppliedOnce'
  <2>1. \A t \in Sessions : session'[t].step = "ANSWER" => session'[t] = session[t]
    BY <1>2, <1>4
  <2> QED BY <1>2, <2>1 DEF IInv, AppliedOnce, Known, SamePayment
<1>6. PaidIsReceived'
  <2>1. PaidBy(r) \in Nat /\ Requested[r] \in Nat \ {0}
    BY <1>1, PaidByType, ProviderConstants DEF IInv
  <2>2. request'[r] = row /\ \A q \in Requests \ {r} : request'[q] = request[q]
    BY <1>1, <1>2 DEF IInv, TypeOK
  <2>3. ASSUME NEW q \in Requests
        PROVE  /\ request'[q].paid <= Requested[q]
               /\ request'[q].paid <= PaidBy(q)
               /\ request'[q].paid = Requested[q] => request'[q].status = "PAID"
               /\ request'[q].status = "PAID" => Requested[q] <= PaidBy(q)
    BY <2>1, <2>2 DEF IInv, PaidIsReceived
  <2> QED BY <1>2, <2>3 DEF IInv, PaidIsReceived, PaidBy
<1>7. SessionsCovered'
  <2>1. \A t \in Sessions : session'[t] \in Receiving => Covered(session'[t])
    BY <1>2, <1>4 DEF IInv, SessionsCovered
  <2> QED BY <1>2, <2>1 DEF SessionsCovered, Covered, PaidBy
<1>8. CycleCovered'
  BY <1>2 DEF IInv, CycleCovered
<1> QED BY <1>3, <1>5, <1>6, <1>7, <1>8 DEF IInv

LEMMA CommitPaymentInv ==
    ASSUME IInv, NEW s \in Sessions, CommitPayment(s)
    PROVE  IInv'
<1> DEFINE m == session[s].message
           r == Message[m].request
           i == InvoiceOf[r]
           amount == Message[m].amount
           owed == session[s].balance
           paid == session[s].seen.paid + amount
           computed == IF paid = Requested[r] THEN "PAID" ELSE "PARTIALLY_PAID"
           told(answer) == [step |-> "ANSWER", message |-> m, answer |-> answer]
<1>1. session[s] \in Receiving /\ session[s].step = "COMMIT"
  BY ReceivingStep DEF CommitPayment, IInv, TypeOK, Held
<1>2. m \in Messages /\ r \in Requests /\ i \in Invoices /\ amount \in Nat \ {0}
      /\ owed \in Nat /\ session[s].seen.paid \in Nat /\ Requested[r] \in Nat \ {0}
      /\ Original[i] \in Nat /\ received[i] \in Nat /\ rows[m] \in Nat
  BY <1>1, ReceivingFields, ProviderConstants DEF IInv, TypeOK
<1>3. /\ session[s].seen.paid <= PaidBy(r)
      /\ session[s].seen.status \in Live
      /\ owed + received[i] >= Original[i]
      /\ amount <= owed /\ amount <= Requested[r] - session[s].seen.paid
  BY <1>1, <1>2 DEF IInv, SessionsCovered, Covered, Fits
<1>4. lock' \in [Invoices -> Sessions \cup {"cycle", Free}]
  BY DEF CommitPayment, Released, InvoicePaid, IInv, TypeOK
<1>5. UNCHANGED <<heard, cycle>>
  BY DEF CommitPayment
<1>6. told("DUPLICATE") \in Held /\ told("APPLIED") \in Held
  BY <1>2 DEF Held, Answering, Answers
<1>7. \A answer : told(answer) \notin Receiving
  BY ReceivingFields
<1>8. CASE Conflicts(m)
  <2>1. session' = [session EXCEPT ![s] = told("DUPLICATE")] /\ UNCHANGED <<ledger, cycle>>
    BY <1>5, <1>8 DEF CommitPayment, Goes
  <2>2. Known(m)
    BY <1>8 DEF Conflicts
  <2> QED BY <1>4, <1>5, <1>6, <1>7, <2>1, <2>2, QuietStep DEF IInv, TypeOK
<1>9. CASE ~Conflicts(m)
  <2>1. /\ session' = [session EXCEPT ![s] = told("APPLIED")]
        /\ balance' = [balance EXCEPT ![i] = owed - amount]
        /\ received' = [received EXCEPT ![i] = received[i] + amount]
        /\ request' = [request EXCEPT ![r] = Written(@, session[s].seen, computed, paid)]
        /\ rows' = [rows EXCEPT ![m] = rows[m] + 1]
    BY <1>9 DEF CommitPayment, Goes, BalanceAfter, InvoicePaid
  <2>2. session \in [Sessions -> Held]
    BY DEF IInv, TypeOK, Held
  <2>3. session' \in [Sessions -> Held] /\ session'[s] = told("APPLIED")
        /\ \A t \in Sessions \ {s} : session'[t] = session[t]
    BY <1>6, <2>1, <2>2
  <2>4. rows' \in [Messages -> Nat]
    BY <1>2, <2>1 DEF IInv, TypeOK
  <2> HIDE DEF i, amount, owed
  <2>12. /\ balance' \in [Invoices -> Nat] /\ received' \in [Invoices -> Nat]
         /\ received'[i] = received[i] + amount
         /\ \A j \in Invoices : received'[j] >= received[j]
         /\ \A j \in Invoices : balance'[j] + received'[j] >= Original[j]
    BY <1>2, <1>3, <2>1, LedgerStep DEF IInv
  <2> USE DEF i, amount, owed
  <2>5. request' \in [Requests -> RequestRows]
    <3>1. request[r] \in RequestRows /\ paid \in Nat
      BY <1>2 DEF IInv, TypeOK
    <3>2. Written(request[r], session[s].seen, computed, paid) \in RequestRows
      BY <3>1 DEF Written, RequestRows, Live
    <3> QED BY <1>2, <2>1, <3>2 DEF IInv, TypeOK
  <2>6. TypeOK'
    BY <1>4, <1>5, <2>3, <2>4, <2>5, <2>12 DEF IInv, TypeOK, Held
  <2>7. \A n \in Messages : SamePayment(m, n) => rows[n] = 0
    BY <1>9 DEF Conflicts, Known, IInv, TypeOK
  <2>14. rows[m] = 0
    BY <1>2, <2>7 DEF SamePayment
  <2>13. ASSUME NEW q \in Requests
         PROVE  /\ PaidBy(q)' \in Nat /\ PaidBy(q)' >= PaidBy(q)
                /\ q = r => PaidBy(q)' = PaidBy(q) + amount
    <3>1. PICK n \in Messages : n = m
      BY <1>2
    <3>2. rows[n] = 0 /\ rows' = [rows EXCEPT ![n] = 1] /\ TypeOK
      BY <2>1, <2>14, <3>1 DEF IInv
    <3>3. /\ PaidBy(q)' \in Nat /\ PaidBy(q)' >= PaidBy(q)
          /\ q = Message[n].request => PaidBy(q)' = PaidBy(q) + Message[n].amount
      BY <3>2, PaidByMore
    <3> QED BY <3>1, <3>3
  <2>8. AppliedOnce'
    <3>2. rows'[m] = 1 /\ \A n \in Messages \ {m} : rows'[n] = rows[n]
      BY <1>2, <2>1, <2>14 DEF IInv, TypeOK
    <3>3. \A k, n \in Messages : SamePayment(k, n) <=> SamePayment(n, k)
      BY DEF SamePayment
    <3>4. ASSUME NEW k \in Messages
          PROVE  /\ rows'[k] <= 1
                 /\ \A n \in Messages \ {k} : rows'[k] > 0 /\ SamePayment(k, n) => rows'[n] = 0
      <4>1. CASE k = m
        BY <2>7, <3>2, <4>1
      <4>2. CASE k # m
        BY <1>2, <2>7, <3>2, <3>3, <4>2 DEF IInv, AppliedOnce
      <4> QED BY <4>1, <4>2
    <3>5. \A n \in Messages : rows[n] > 0 => rows'[n] > 0
      BY <3>2
    <3>6. ASSUME NEW t \in Sessions, session'[t].step = "ANSWER"
          PROVE  /\ session'[t].answer = "APPLIED" => rows'[session'[t].message] > 0
                 /\ session'[t].answer = "DUPLICATE" =>
                      \E n \in Messages : rows'[n] > 0 /\ SamePayment(session'[t].message, n)
      <4>1. CASE t = s
        BY <2>3, <3>2, <4>1
      <4>2. CASE t # s
        <5>1. session'[t] = session[t] /\ session[t].step = "ANSWER"
          BY <2>3, <3>6, <4>2
        <5>2. session[t].message \in Messages
          BY <2>2, <5>1, AnsweringStep DEF Answering
        <5> QED BY <3>5, <5>1, <5>2 DEF IInv, AppliedOnce, Known
      <4> QED BY <4>1, <4>2
    <3> QED BY <3>4, <3>6 DEF AppliedOnce, Known, SamePayment
  <2>9. PaidIsReceived'
    <3>4. ASSUME NEW q \in Requests
          PROVE  /\ request'[q].paid <= Requested[q]
                 /\ request'[q].paid <= PaidBy(q)'
                 /\ request'[q].paid = Requested[q] => request'[q].status = "PAID"
                 /\ request'[q].status = "PAID" => Requested[q] <= PaidBy(q)'
      <4>0. /\ request[q].status = "PAID" => Requested[q] <= PaidBy(q)
            /\ request[q].paid <= Requested[q] /\ request[q].paid <= PaidBy(q)
            /\ request[q].paid = Requested[q] => request[q].status = "PAID"
        BY DEF IInv, PaidIsReceived
      <4>3. /\ PaidBy(q) \in Nat /\ PaidBy(q)' \in Nat /\ PaidBy(q)' >= PaidBy(q)
            /\ request[q].paid \in Nat /\ Requested[q] \in Nat
        BY <2>13, PaidByType, ProviderConstants DEF IInv, TypeOK, RequestRows
      <4>1. CASE q = r
        <5> HIDE DEF paid, computed
        <5>1. /\ request'[q].paid = paid
              /\ request'[q].status = IF computed = session[s].seen.status
                                      THEN request[q].status ELSE computed
          BY <1>2, <2>1, <4>1 DEF IInv, TypeOK, Written
        <5> USE DEF paid
        <5>2. PaidBy(q)' = PaidBy(q) + amount
          BY <2>13, <4>1
        <5>3. paid \in Nat /\ paid <= Requested[q] /\ paid <= PaidBy(q)'
          BY <1>2, <1>3, <4>1, <4>3, <5>2
        <5> HIDE DEF paid
        <5>4. computed = "PAID" => paid = Requested[q] /\ computed # session[s].seen.status
          BY <1>3, <4>1 DEF computed, Live
        <5>5. computed # "PAID" => paid # Requested[q]
          BY <4>1 DEF computed
        <5>6. CASE computed = "PAID"
          BY <5>1, <5>3, <5>4, <5>6
        <5>7. CASE computed # "PAID"
          <6>1. request'[q].status = "PAID" => request[q].status = "PAID"
            BY <5>1, <5>7
          <6>2. request'[q].status = "PAID" => Requested[q] <= PaidBy(q)'
            BY <4>0, <4>3, <6>1
          <6> QED BY <5>1, <5>3, <5>5, <5>7, <6>2
        <5> QED BY <5>6, <5>7
      <4>2. CASE q # r
        <5>1. request'[q] = request[q]
          BY <2>1, <4>2 DEF IInv, TypeOK
        <5> QED BY <4>0, <4>3, <5>1
      <4> QED BY <4>1, <4>2
    <3> QED BY <2>12, <3>4 DEF PaidIsReceived
  <2>10. SessionsCovered'
    <3>1. ASSUME NEW t \in Sessions, session'[t] \in Receiving
          PROVE  Covered(session[t])' /\ session'[t] = session[t]
      <4>1. t # s
        BY <1>7, <2>3, <3>1
      <4>2. session'[t] = session[t] /\ Covered(session[t])
        BY <2>3, <3>1, <4>1 DEF IInv, SessionsCovered
      <4>3. InvoiceOf[Message[session[t].message].request] \in Invoices
        BY <3>1, <4>2, ReceivingFields
      <4>4. \A j \in Invoices : received'[j] >= received[j] /\ received[j] \in Nat
                               /\ received'[j] \in Nat /\ Original[j] \in Nat
        BY <2>12, ProviderConstants DEF IInv, TypeOK
      <4>5. session[t].seen.paid \in Nat /\ session[t].balance \in Nat
            /\ Message[session[t].message].request \in Requests
        BY <3>1, <4>2, ReceivingFields
      <4>6. session[t].seen.paid <= PaidBy(Message[session[t].message].request)'
        <5>3. PICK q \in Requests : q = Message[session[t].message].request
          BY <4>5
        <5>1. PaidBy(q) \in Nat /\ PaidBy(q)' \in Nat /\ PaidBy(q)' >= PaidBy(q)
          BY <2>13, PaidByType DEF IInv
        <5>2. session[t].seen.paid <= PaidBy(q)
          BY <4>2, <5>3 DEF Covered
        <5>4. session[t].seen.paid <= PaidBy(q)'
          BY <4>5, <5>1, <5>2
        <5>5. PaidBy(q)' = PaidBy(Message[session[t].message].request)'
          BY <4>2, <5>3
        <5> QED BY <4>2, <5>4, <5>5
      <4> QED BY <4>2, <4>3, <4>4, <4>5, <4>6 DEF Covered, Fits
    <3> QED BY <3>1 DEF SessionsCovered
  <2>11. CycleCovered'
    <3>1. cycle # Idle => /\ cycle.invoice \in Invoices /\ cycle.balance \in Nat
                         /\ received[cycle.invoice] \in Nat /\ received'[cycle.invoice] \in Nat
                         /\ received'[cycle.invoice] >= received[cycle.invoice]
                         /\ Original[cycle.invoice] \in Nat
      BY <2>12, ProviderConstants DEF IInv, TypeOK
    <3> QED BY <1>5, <3>1 DEF IInv, CycleCovered
  <2> QED BY <2>6, <2>8, <2>9, <2>10, <2>11 DEF IInv
<1> QED BY <1>8, <1>9

-----------------------------------------------------------------------------
(* The cycle and the crash. *)

\* A step of the cycle that leaves the ledger and the sessions alone.
LEMMA CycleStep ==
    ASSUME IInv, UNCHANGED <<ledger, heard, session>>,
           cycle' \in {Idle} \cup CycleHeld,
           lock' \in [Invoices -> Sessions \cup {"cycle", Free}],
           CycleCovered'
    PROVE  IInv'
<1>1. UNCHANGED <<balance, received, request, rows>>
  BY DEF ledger
<1> QED BY <1>1 DEF IInv, TypeOK, CycleHeld, AppliedOnce, Known, SamePayment,
                    PaidIsReceived, PaidBy, SessionsCovered, Covered, Fits

LEMMA CycleInvariant ==
    ASSUME IInv, (\E i \in Invoices : \E amount \in CycleAmounts : BeginCycle(i, amount))
                 \/ FlushCycle
    PROVE  IInv'
<1>1. ASSUME NEW i \in Invoices, NEW amount \in CycleAmounts, BeginCycle(i, amount)
      PROVE  IInv'
  <2>1. cycle' \in CycleHeld /\ cycle'.amount <= cycle'.balance
        /\ cycle'.balance = balance[i] /\ cycle'.invoice = i
    BY <1>1, ProviderConstants DEF BeginCycle, CycleHeld, IInv, TypeOK
  <2>2. UNCHANGED <<ledger, heard, session, lock, received>>
    BY <1>1 DEF BeginCycle, ledger
  <2>3. CycleCovered'
    BY <2>1, <2>2 DEF CycleCovered, IInv, PaidIsReceived
  <2> QED BY <2>1, <2>2, <2>3, CycleStep DEF IInv, TypeOK
<1>2. ASSUME FlushCycle PROVE IInv'
  <2>1. cycle \in CycleHeld
    BY <1>2 DEF FlushCycle, CycleHeld, IInv, TypeOK, Idle
  <2>2. cycle' \in CycleHeld /\ cycle'.amount = cycle.amount
        /\ cycle'.balance = cycle.balance /\ cycle'.invoice = cycle.invoice /\ cycle # Idle
    BY <1>2, <2>1 DEF FlushCycle, CycleHeld, Idle
  <2>3. UNCHANGED <<ledger, heard, session, received>>
        /\ lock' \in [Invoices -> Sessions \cup {"cycle", Free}]
    BY <1>2, <2>1 DEF FlushCycle, CycleHeld, ledger, IInv, TypeOK
  <2>4. CycleCovered'
    BY <2>2, <2>3 DEF CycleCovered, IInv
  <2> QED BY <2>2, <2>3, <2>4, CycleStep
<1> QED BY <1>1, <1>2

LEMMA CommitCycleInv ==
    ASSUME IInv, CommitCycle
    PROVE  IInv'
<1> DEFINE i == cycle.invoice
<1>1. cycle \in CycleHeld /\ cycle # Idle
  BY DEF CommitCycle, CycleHeld, IInv, TypeOK, Idle
<1>2. i \in Invoices /\ cycle.amount \in Nat /\ cycle.balance \in Nat
  BY <1>1 DEF CycleHeld
<1>3. cycle.amount <= cycle.balance /\ cycle.balance + received[i] >= Original[i]
  BY <1>1 DEF IInv, CycleCovered
<1>4. /\ balance' = [balance EXCEPT ![i] = cycle.balance - cycle.amount]
      /\ received' = [received EXCEPT ![i] = received[i] + cycle.amount]
      /\ cycle' = Idle
      /\ UNCHANGED <<request, rows, heard, session>>
      /\ lock' \in [Invoices -> Sessions \cup {"cycle", Free}]
  BY DEF CommitCycle, IInv, TypeOK
<1>5. /\ balance' \in [Invoices -> Nat] /\ received' \in [Invoices -> Nat]
      /\ \A j \in Invoices : received'[j] >= received[j]
      /\ \A j \in Invoices : balance'[j] + received'[j] >= Original[j]
  BY <1>2, <1>3, <1>4, LedgerStep DEF IInv
<1>6. TypeOK'
  BY <1>4, <1>5 DEF IInv, TypeOK
<1>7. AppliedOnce'
  BY <1>4 DEF IInv, AppliedOnce, Known, SamePayment
<1>8. PaidIsReceived'
  BY <1>4, <1>5 DEF IInv, PaidIsReceived, PaidBy
<1>9. SessionsCovered'
  BY <1>4, <1>5, MorePayments DEF IInv, TypeOK
<1>10. CycleCovered'
  BY <1>4 DEF CycleCovered
<1> QED BY <1>6, <1>7, <1>8, <1>9, <1>10 DEF IInv

LEMMA CrashInv ==
    ASSUME IInv, Crash
    PROVE  IInv'
<1>1. UNCHANGED <<balance, received, request, rows, heard>>
      /\ session' = [s \in Sessions |-> Idle] /\ cycle' = Idle
      /\ lock' = [i \in Invoices |-> Free]
  BY DEF Crash, ledger
<1>2. Idle \notin Receiving /\ Idle.step # "ANSWER"
  BY DEF Idle, Receiving
<1>3. TypeOK'
  BY <1>1 DEF IInv, TypeOK
<1>4. AppliedOnce' /\ PaidIsReceived'
  BY <1>1, <1>2 DEF IInv, AppliedOnce, PaidIsReceived, PaidBy, Known, SamePayment
<1>5. SessionsCovered' /\ CycleCovered'
  BY <1>1, <1>2 DEF SessionsCovered, CycleCovered
<1> QED BY <1>3, <1>4, <1>5 DEF IInv

LEMMA StutterInv ==
    ASSUME IInv, UNCHANGED vars
    PROVE  IInv'
  BY DEF IInv, vars, ledger, TypeOK, AppliedOnce, Known, SamePayment, PaidIsReceived,
         PaidBy, SessionsCovered, Covered, Fits, CycleCovered

-----------------------------------------------------------------------------
LEMMA Invariance == Spec => []IInv
<1>1. IInv /\ [Next]_vars => IInv'
  <2> SUFFICES ASSUME IInv, [Next]_vars PROVE IInv'
    OBVIOUS
  <2>1. ASSUME NEW s \in Sessions,
               \/ \E r \in Requests : CheckCreation(s, r)
               \/ \E m \in Messages : ReceiveMessage(s, m)
               \/ Proceed(s)
        PROVE  IInv'
    BY <2>1, CheckCreationInv, ReceiveMessageInv, CommitCreationInv, ReadInvoiceInv,
       CheckMessageInv, FlushPaymentInv, CommitPaymentInv, AnswerInv DEF Proceed
  <2>2. ASSUME Cycle PROVE IInv'
    BY <2>2, CycleInvariant, CommitCycleInv DEF Cycle
  <2> QED BY <2>1, <2>2, CycleInvariant, CrashInv, StutterInv DEF Next
<1> QED BY <1>1, InitInv, PTL DEF Spec

(* Payments are applied once: by however many requests at a time a message *)
(* is delivered, and whatever stops between its reads, its check and its   *)
(* commit, a payment has one row and the provider is told the truth.       *)
THEOREM PaymentsAppliedOnce == Spec => []AppliedOnce
<1>1. IInv => AppliedOnce
  BY DEF IInv
<1> QED BY <1>1, Invariance, PTL

(* The ledger never calls paid what was not received, although balances,   *)
(* paid amounts and statuses are written from rows that other transactions *)
(* have changed since: no balance is lower than the payments account for,  *)
(* and a request that counts as paid did receive what it asked for.        *)
THEOREM LedgerIsCovered == Spec => []PaidIsReceived
<1>1. IInv => PaidIsReceived
  BY DEF IInv
<1> QED BY <1>1, Invariance, PTL
=============================================================================
