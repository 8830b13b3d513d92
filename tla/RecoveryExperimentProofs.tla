----------------------- MODULE RecoveryExperimentProofs -----------------------
(***************************************************************************)
(* Proofs about RecoveryExperiment, for any horizon, any cadences and      *)
(* windows, any number of promises and any draws.                          *)
(***************************************************************************)
EXTENDS RecoveryExperiment, FiniteInduction

Associations == {"PROMISE_FULFILMENT", "NATURAL_SIMULATED_RECOVERY",
                 "INTERVENTION_ASSOCIATED", "STANDARD_COLLECTIONS_ASSOCIATED"}
Payments == [day : Nat, amount : Nat, association : Associations, action : Int]
Actions ==
    [day : Nat, action : RecommendedActions \cup {"STANDARD_SCHEDULED_REMINDER"},
     completed : BOOLEAN, increment : Nat]
ShadowPromises ==
    [status : PromiseStatuses \cup {"NONE"}, amount : Nat \ {0}, date : Int]
Arms ==
    [outstanding : Nat, status : InvoiceStatuses, promise : [Promises -> ShadowPromises],
     recovered : Nat, payments : Seq(Payments), paidDay : Int, actions : SUBSET Actions,
     response : [until : Int, increment : Nat, action : Int], deferred : BOOLEAN,
     disputeContacts : Nat, promiseContacts : Nat]

Total(payments) ==
    LET total[k \in 0 .. Len(payments)] ==
            IF k = 0 THEN 0 ELSE total[k - 1] + payments[k].amount
    IN total[Len(payments)]

\* A completed action with an effect, on the day a payment or a response names.
Effective(a, action) ==
    \E x \in a.actions : x.completed /\ x.increment > 0 /\ x.day = action

(* What holds of the shadow of an arm on day d: the promises are those of  *)
(* the case, the money adds up, the arm is paid off when nothing is left,  *)
(* and responses and payments refer to actions that were taken.            *)
PromisesOf(s, a) ==
    \A p \in Promises : /\ a.promise[p].amount = ShadowPromise(s, p).amount
                        /\ a.promise[p].date = ShadowPromise(s, p).date

MoneySound(s, a, d) ==
    /\ a.recovered = Total(a.payments)
    /\ a.outstanding + a.recovered = s.outstanding
    /\ a.paidDay >= 0 <=> a.outstanding = 0
    /\ a.paidDay <= d

ResponseSound(a, d) ==
    a.response.increment > 0 =>
        /\ Effective(a, a.response.action)
        /\ a.response.until = a.response.action + AssociationWindow - 1
        /\ a.response.action <= d

PaymentsEarned(a) ==
    \A k \in 1 .. Len(a.payments) :
        LET payment == a.payments[k] IN
        payment.association = "INTERVENTION_ASSOCIATED" =>
            /\ Effective(a, payment.action)
            /\ payment.day \in payment.action .. payment.action + AssociationWindow - 1

ArmSound(s, a, d) ==
    /\ a \in Arms
    /\ PromisesOf(s, a)
    /\ MoneySound(s, a, d)
    /\ ResponseSound(a, d)
    /\ PaymentsEarned(a)

ArmsSound == /\ day \in Nat /\ source \in SourceCases /\ Candidate(source)
             /\ DOMAIN arm = ArmNames
             /\ \A name \in ArmNames : ArmSound(source, arm[name], day)

-----------------------------------------------------------------------------
(* The total of the payments is a recursive function over their positions. *)

TotalTo(payments) ==
    CHOOSE f : f = [k \in 0 .. Len(payments) |->
                      IF k = 0 THEN 0 ELSE f[k - 1] + payments[k].amount]

LEMMA TotalValue ==
    ASSUME NEW payments \in Seq(Payments)
    PROVE  /\ Total(payments) = TotalTo(payments)[Len(payments)]
           /\ TotalTo(payments) \in [0 .. Len(payments) -> Nat]
           /\ TotalTo(payments)[0] = 0
           /\ \A k \in 1 .. Len(payments) :
                 TotalTo(payments)[k] = TotalTo(payments)[k - 1] + payments[k].amount
<1> DEFINE n == Len(payments)
           g == [x \in (1 .. n) \X Nat |-> x[2] + payments[x[1]].amount]
           T == TotalTo(payments)
<1>1. n \in Nat /\ \A k \in 1 .. n : payments[k].amount \in Nat
  <2>1. n \in Nat /\ \A k \in 1 .. n : payments[k] \in Payments
    OBVIOUS
  <2> QED BY <2>1 DEF Payments
<1>3. \A k \in 1 .. n, m \in Nat : g[<<k, m>>] = m + payments[k].amount
  OBVIOUS
<1> HIDE DEF n, g
<1>4. PICK f \in [0 .. n -> Nat] : f[0] = 0 /\ \A k \in 1 .. n : f[k] = g[<<k, f[k - 1]>>]
  <2>1. ASSUME NEW k \in 1 .. n, NEW m \in Nat PROVE g[<<k, m>>] \in Nat
    <3>1. payments[k].amount \in Nat
      BY <1>1
    <3> QED BY <1>3, <3>1
  <2>2. \E f \in [0 .. n -> Nat] : Iterates(f, n, 0, g)
    BY <1>1, <2>1, Recursion, Zenon
  <2> QED BY <2>2 DEF Iterates
<1>5. ASSUME NEW k \in 1 .. n PROVE f[k - 1] \in Nat /\ f[k] = f[k - 1] + payments[k].amount
  <2>1. k - 1 \in 0 .. n
    BY <1>1
  <2>2. f[k - 1] \in Nat /\ f[k] = g[<<k, f[k - 1]>>]
    BY <1>4, <2>1
  <2> QED BY <1>3, <2>2
<1>6. f = [k \in 0 .. n |-> IF k = 0 THEN 0 ELSE f[k - 1] + payments[k].amount]
  <2>1. \A k \in 0 .. n : f[k] = IF k = 0 THEN 0 ELSE f[k - 1] + payments[k].amount
    <3> TAKE k \in 0 .. n
    <3>1. CASE k = 0
      BY <1>4, <3>1
    <3>2. CASE k # 0
      BY <1>1, <1>5, <3>2
    <3> QED BY <3>1, <3>2
  <2> QED BY <1>4, <2>1
<1>7. T = [k \in 0 .. n |-> IF k = 0 THEN 0 ELSE T[k - 1] + payments[k].amount]
  BY <1>6 DEF TotalTo, n
<1>8. Total(payments) = T[n]
  BY DEF Total, TotalTo, n
<1> HIDE DEF T
<1>9. ASSUME NEW h, h = [k \in 0 .. n |-> IF k = 0 THEN 0 ELSE h[k - 1] + payments[k].amount]
      PROVE  /\ h[0] = 0 /\ DOMAIN h = 0 .. n
             /\ \A k \in 1 .. n : h[k] = h[k - 1] + payments[k].amount
  BY <1>1, <1>9
<1>10. /\ T[0] = 0 /\ DOMAIN T = 0 .. n
       /\ \A k \in 1 .. n : T[k] = T[k - 1] + payments[k].amount
  BY <1>7, <1>9
<1>11. \A k \in 0 .. n : T[k] \in Nat
  <2> DEFINE P == {k \in 0 .. n : T[k] \in Nat}
  <2>1. 0 \in P
    BY <1>1, <1>10
  <2>2. ASSUME NEW k \in 0 .. n - 1, k \in P PROVE k + 1 \in P
    <3>1. k + 1 \in 1 .. n /\ (k + 1) - 1 = k
      BY <1>1
    <3>2. T[k + 1] = T[k] + payments[k + 1].amount
      BY <1>10, <3>1
    <3> QED BY <1>1, <2>2, <3>1, <3>2
  <2> HIDE DEF P
  <2>3. \A k \in 0 .. n : k \in P
    BY <1>1, <2>1, <2>2, IntervalInduction
  <2> QED BY <2>3 DEF P
<1>12. T \in [0 .. n -> Nat]
  <2>1. T = [k \in 0 .. n |-> T[k]]
    BY <1>7
  <2> QED BY <1>11, <2>1
<1> QED BY <1>8, <1>10, <1>12 DEF T, n

LEMMA TotalType == ASSUME NEW payments \in Seq(Payments) PROVE Total(payments) \in Nat
  BY TotalValue

LEMMA TotalOfNone == Total(<<>>) = 0
<1>1. <<>> \in Seq(Payments) /\ Len(<<>>) = 0
  OBVIOUS
<1> QED BY <1>1, TotalValue

(* A further payment adds its amount.                                      *)
LEMMA TotalAppend ==
    ASSUME NEW payments \in Seq(Payments), NEW e \in Payments
    PROVE  Total(Append(payments, e)) = Total(payments) + e.amount
<1> DEFINE n == Len(payments)
           more == Append(payments, e)
           S == TotalTo(payments)
           T == TotalTo(more)
<1>1. /\ more \in Seq(Payments) /\ Len(more) = n + 1 /\ n \in Nat
      /\ more[n + 1] = e /\ \A k \in 1 .. n : more[k] = payments[k]
  OBVIOUS
<1>2. /\ Total(payments) = S[n] /\ S[0] = 0
      /\ \A k \in 1 .. n : S[k] = S[k - 1] + payments[k].amount
  BY TotalValue
<1> HIDE DEF more
<1>3. /\ Total(more) = T[n + 1] /\ T[0] = 0
      /\ \A k \in 1 .. n + 1 : T[k] = T[k - 1] + more[k].amount
  BY <1>1, TotalValue
<1> DEFINE P == {k \in 0 .. n : S[k] = T[k]}
<1> HIDE DEF n, S, T
<1>4. 0 \in P
  BY <1>1, <1>2, <1>3
<1>5. ASSUME NEW k \in 0 .. n - 1, k \in P PROVE k + 1 \in P
  <2>1. k + 1 \in 1 .. n /\ k + 1 \in 1 .. n + 1 /\ (k + 1) - 1 = k /\ k + 1 \in 0 .. n
    BY <1>1
  <2>2. S[k + 1] = S[k] + payments[k + 1].amount
    BY <1>2, <2>1
  <2>3. T[k + 1] = T[k] + more[k + 1].amount
    BY <1>3, <2>1
  <2>4. more[k + 1] = payments[k + 1]
    BY <1>1, <2>1
  <2> QED BY <1>5, <2>1, <2>2, <2>3, <2>4
<1> HIDE DEF P
<1>6. n \in P
  <2>1. n \in Nat /\ n \in 0 .. n
    BY <1>1
  <2>2. \A k \in 0 .. n : k \in P
    BY <1>4, <1>5, <2>1, IntervalInduction
  <2> QED BY <2>1, <2>2
<1>7. T[n + 1] = T[n] + e.amount
  <2>1. n + 1 \in 1 .. n + 1 /\ (n + 1) - 1 = n
    BY <1>1
  <2> QED BY <1>1, <1>3, <2>1
<1> QED BY <1>2, <1>3, <1>6, <1>7 DEF P, more

-----------------------------------------------------------------------------
(* The shadow of an arm stays sound.                                       *)

LEMMA SoundFrame ==
    ASSUME NEW s, NEW d, NEW a, ArmSound(s, a, d), NEW b \in Arms,
           b.outstanding = a.outstanding, b.recovered = a.recovered,
           b.payments = a.payments, b.paidDay = a.paidDay,
           a.actions \subseteq b.actions, PromisesOf(s, b), ResponseSound(b, d)
    PROVE  ArmSound(s, b, d)
<1>1. MoneySound(s, b, d)
  BY DEF ArmSound, MoneySound
<1>2. \A action : Effective(a, action) => Effective(b, action)
  BY DEF Effective
<1>3. PaymentsEarned(b)
  BY <1>2 DEF ArmSound, PaymentsEarned
<1> QED BY <1>1, <1>3 DEF ArmSound

LEMMA SoundLater ==
    ASSUME NEW s, NEW d \in Nat, NEW a, ArmSound(s, a, d)
    PROVE  ArmSound(s, a, d + 1)
<1>1. a.paidDay \in Int /\ a.response.action \in Int
  BY DEF ArmSound, Arms
<1>2. MoneySound(s, a, d + 1) /\ ResponseSound(a, d + 1)
  BY <1>1 DEF ArmSound, MoneySound, ResponseSound
<1> QED BY <1>2 DEF ArmSound

LEMMA StatusSound ==
    ASSUME NEW s, NEW d, NEW a, ArmSound(s, a, d), NEW status \in InvoiceStatuses
    PROVE  ArmSound(s, [a EXCEPT !.status = status], d)
<1> DEFINE b == [a EXCEPT !.status = status]
<1>1. a \in Arms
  BY DEF ArmSound
<1>2. b \in Arms /\ b.outstanding = a.outstanding /\ b.recovered = a.recovered
      /\ b.payments = a.payments /\ b.paidDay = a.paidDay /\ b.actions = a.actions
      /\ b.promise = a.promise /\ b.response = a.response
  BY <1>1 DEF Arms
<1> HIDE DEF b
<1>3. PromisesOf(s, b) /\ ResponseSound(b, d)
  BY <1>2 DEF ArmSound, PromisesOf, ResponseSound, Effective
<1>4. ArmSound(s, b, d)
  BY <1>2, <1>3, SoundFrame
<1> QED BY <1>4 DEF b

LEMMA PromiseSound ==
    ASSUME NEW s, NEW d, NEW a, ArmSound(s, a, d), NEW p \in Promises,
           NEW status \in PromiseStatuses
    PROVE  ArmSound(s, [a EXCEPT !.promise[p].status = status], d)
<1> DEFINE b == [a EXCEPT !.promise[p].status = status]
           rows == [a.promise EXCEPT ![p].status = status]
<1>1. a \in Arms /\ a.promise \in [Promises -> ShadowPromises]
  BY DEF ArmSound, Arms
<1>2. /\ rows \in [Promises -> ShadowPromises]
      /\ \A q \in Promises : /\ rows[q].amount = a.promise[q].amount
                             /\ rows[q].date = a.promise[q].date
  <2>1. \A q \in Promises : a.promise[q] \in ShadowPromises
    BY <1>1
  <2>2. [a.promise[p] EXCEPT !.status = status] \in ShadowPromises
    BY <2>1 DEF ShadowPromises
  <2> QED BY <1>1, <2>1, <2>2 DEF ShadowPromises
<1>3. b = [a EXCEPT !.promise = rows]
  BY <1>1 DEF Arms
<1> HIDE DEF b, rows
<1>4. b \in Arms /\ b.outstanding = a.outstanding /\ b.recovered = a.recovered
      /\ b.payments = a.payments /\ b.paidDay = a.paidDay /\ b.actions = a.actions
      /\ b.promise = rows /\ b.response = a.response
  BY <1>1, <1>2, <1>3 DEF Arms
<1>5. PromisesOf(s, b) /\ ResponseSound(b, d)
  BY <1>2, <1>4 DEF ArmSound, PromisesOf, ResponseSound, Effective
<1>6. ArmSound(s, b, d)
  BY <1>4, <1>5, SoundFrame
<1> QED BY <1>6 DEF b

LEMMA ApplyPaymentSound ==
    ASSUME NEW s, NEW d \in Nat, NEW a, ArmSound(s, a, d),
           NEW asked \in Int, NEW association \in Associations, NEW action \in Int,
           association = "INTERVENTION_ASSOCIATED" =>
               /\ Effective(a, action)
               /\ d \in action .. action + AssociationWindow - 1
    PROVE  ArmSound(s, ApplyPayment(a, d, asked, association, action), d)
<1> DEFINE amount == Least(asked, a.outstanding)
           entry == [day |-> d, amount |-> amount,
                     association |-> association, action |-> action]
           status == IF amount = a.outstanding THEN "PAID" ELSE "PARTIALLY_PAID"
           paid == IF amount = a.outstanding THEN d ELSE a.paidDay
           b == ApplyPayment(a, d, asked, association, action)
<1>1. a \in Arms /\ a.outstanding \in Nat /\ a.recovered \in Nat /\ a.paidDay \in Int
      /\ a.payments \in Seq(Payments)
  BY DEF ArmSound, Arms
<1>2. amount \in Int /\ amount <= a.outstanding
  BY <1>1 DEF Least
<1> HIDE DEF amount
<1>3. CASE amount <= 0
  BY <1>3 DEF ApplyPayment, amount
<1>4. CASE amount > 0
  <2>1. b = [a EXCEPT !.outstanding = a.outstanding - amount, !.status = status,
                      !.recovered = a.recovered + amount,
                      !.payments = Append(a.payments, entry), !.paidDay = paid]
    BY <1>1, <1>2, <1>4 DEF ApplyPayment, amount, Arms
  <2>2. entry \in Payments /\ entry.amount = amount /\ entry.day = d
        /\ entry.association = association /\ entry.action = action
    BY <1>2, <1>4 DEF Payments
  <2>3. status \in InvoiceStatuses /\ paid \in Int
    BY <1>1 DEF InvoiceStatuses
  <2> HIDE DEF b, entry, status, paid
  <2>4. Append(a.payments, entry) \in Seq(Payments)
    BY <1>1, <2>2
  <2>5. /\ b \in Arms
        /\ b.outstanding = a.outstanding - amount /\ b.recovered = a.recovered + amount
        /\ b.payments = Append(a.payments, entry) /\ b.paidDay = paid
        /\ b.actions = a.actions /\ b.promise = a.promise /\ b.response = a.response
    <3> DEFINE left == a.outstanding - amount
               more == a.recovered + amount
               payments == Append(a.payments, entry)
    <3>1. left \in Nat /\ more \in Nat /\ payments \in Seq(Payments)
      BY <1>1, <1>2, <1>4, <2>4
    <3>2. b = [a EXCEPT !.outstanding = left, !.status = status, !.recovered = more,
                        !.payments = payments, !.paidDay = paid]
      BY <2>1
    <3> HIDE DEF left, more, payments
    <3>3. b \in Arms
      BY <1>1, <2>3, <3>1, <3>2 DEF Arms
    <3>4. /\ b.outstanding = left /\ b.recovered = more
          /\ b.payments = payments /\ b.paidDay = paid
          /\ b.actions = a.actions /\ b.promise = a.promise /\ b.response = a.response
      BY <1>1, <3>2 DEF Arms
    <3> QED BY <3>3, <3>4 DEF left, more, payments
  <2>6. PromisesOf(s, b) /\ ResponseSound(b, d)
    BY <2>5 DEF ArmSound, PromisesOf, ResponseSound, Effective
  <2>7. MoneySound(s, b, d)
    <3>1. Total(b.payments) = Total(a.payments) + amount
      BY <1>1, <2>2, <2>5, TotalAppend
    <3>2. /\ a.recovered = Total(a.payments)
          /\ a.outstanding + a.recovered = s.outstanding
          /\ a.paidDay >= 0 <=> a.outstanding = 0
          /\ a.paidDay <= d
      BY DEF ArmSound, MoneySound
    <3>3. b.recovered = Total(b.payments)
      BY <2>5, <3>1, <3>2
    <3>4. b.outstanding + b.recovered = s.outstanding
      BY <1>1, <1>2, <2>5, <3>2
    <3>5. (b.paidDay >= 0 <=> b.outstanding = 0) /\ b.paidDay <= d
      BY <1>1, <1>2, <1>4, <2>5, <3>2 DEF paid
    <3> QED BY <3>3, <3>4, <3>5 DEF MoneySound
  <2>8. PaymentsEarned(b)
    <3> SUFFICES ASSUME NEW k \in 1 .. Len(b.payments),
                        b.payments[k].association = "INTERVENTION_ASSOCIATED"
                 PROVE  /\ Effective(b, b.payments[k].action)
                        /\ b.payments[k].day \in b.payments[k].action ..
                              b.payments[k].action + AssociationWindow - 1
      BY DEF PaymentsEarned
    <3>1. Len(b.payments) = Len(a.payments) + 1 /\ Len(a.payments) \in Nat
      BY <1>1, <2>5
    <3>2. CASE k \in 1 .. Len(a.payments)
      <4>1. b.payments[k] = a.payments[k]
        BY <1>1, <2>5, <3>2
      <4> QED BY <2>5, <3>2, <4>1 DEF ArmSound, PaymentsEarned, Effective
    <3>3. CASE k = Len(a.payments) + 1
      <4>1. b.payments[k] = entry
        BY <1>1, <2>5, <3>3
      <4>2. Effective(a, action) /\ d \in action .. action + AssociationWindow - 1
        BY <2>2, <4>1
      <4> QED BY <2>2, <2>5, <4>1, <4>2 DEF Effective
    <3> QED BY <3>1, <3>2, <3>3
  <2>9. ArmSound(s, b, d)
    BY <2>5, <2>6, <2>7, <2>8 DEF ArmSound
  <2> QED BY <2>9 DEF b
<1> QED BY <1>2, <1>3, <1>4

LEMMA PromiseEventSound ==
    ASSUME NEW s \in SourceCases, NEW d \in Nat, NEW a, ArmSound(s, a, d),
           NEW p \in Promises, NEW kept
    PROVE  ArmSound(s, PromiseEvent(a, p, d, kept), d)
<1> DEFINE settled == [a EXCEPT !.promise[p].status = "FULFILLED"]
           broken == [a EXCEPT !.promise[p].status = "BROKEN"]
<1>1. a.promise[p].amount \in Int
  BY DEF ArmSound, Arms, ShadowPromises
<1>2. ArmSound(s, settled, d)
  BY PromiseSound DEF PromiseStatuses
<1>3. ArmSound(s, broken, d)
  BY PromiseSound DEF PromiseStatuses
<1>4. ArmSound(s, ApplyPayment(settled, d, a.promise[p].amount, "PROMISE_FULFILMENT", -1), d)
  <2> HIDE DEF settled
  <2>1. "PROMISE_FULFILMENT" \in Associations /\ -1 \in Int
    BY DEF Associations
  <2> QED BY <1>1, <1>2, <2>1, ApplyPaymentSound
<1> QED BY <1>2, <1>3, <1>4 DEF PromiseEvent

-----------------------------------------------------------------------------
(* The external events of a day are the promise events, one after another. *)

DisputeEvent(a, draw) ==
    [a EXCEPT !.status = IF @ = "DISPUTED" /\ draw.resolved THEN "OVERDUE" ELSE @]

After(a, d, draw) ==
    CHOOSE f : f = [p \in 0 .. PromiseCount |->
                      IF p = 0 THEN DisputeEvent(a, draw)
                      ELSE PromiseEvent(f[p - 1], p, d, draw.kept)]

LEMMA AfterValue ==
    ASSUME NEW a, NEW d, NEW draw, NEW X, DisputeEvent(a, draw) \in X,
           \A p \in Promises, x \in X : PromiseEvent(x, p, d, draw.kept) \in X
    PROVE  /\ ExternalEvents(a, d, draw) = After(a, d, draw)[PromiseCount]
           /\ After(a, d, draw)[0] = DisputeEvent(a, draw)
           /\ \A p \in Promises :
                 After(a, d, draw)[p] = PromiseEvent(After(a, d, draw)[p - 1], p, d, draw.kept)
           /\ \A p \in 0 .. PromiseCount : After(a, d, draw)[p] \in X
<1> DEFINE g == [x \in Promises \X X |-> PromiseEvent(x[2], x[1], d, draw.kept)]
           T == After(a, d, draw)
           start == DisputeEvent(a, draw)
           step(x, p) == PromiseEvent(x, p, d, draw.kept)
<1>1. PromiseCount \in Nat /\ Promises = 1 .. PromiseCount
  BY ExperimentConstants DEF Promises
<1>2. ASSUME NEW p \in 1 .. PromiseCount, NEW x \in X
      PROVE  g[<<p, x>>] = step(x, p) /\ g[<<p, x>>] \in X
  BY <1>1
<1>3. start \in X
  OBVIOUS
<1>4. ExternalEvents(a, d, draw) = T[PromiseCount]
  BY DEF ExternalEvents, After, DisputeEvent
<1>5. T = CHOOSE f : f = [p \in 0 .. PromiseCount |-> IF p = 0 THEN start ELSE step(f[p - 1], p)]
  BY DEF After
<1> HIDE DEF g, start, step, T
<1>6. PICK f \in [0 .. PromiseCount -> X] : Iterates(f, PromiseCount, start, g)
  <2>1. \A k \in 1 .. PromiseCount, x \in X : g[<<k, x>>] \in X
    BY <1>2
  <2> QED BY <1>1, <1>3, <2>1, Recursion, Zenon
<1>7. f = [p \in 0 .. PromiseCount |-> IF p = 0 THEN start ELSE step(f[p - 1], p)]
  <2>1. ASSUME NEW p \in 0 .. PromiseCount
        PROVE  f[p] = IF p = 0 THEN start ELSE step(f[p - 1], p)
    <3>1. CASE p = 0
      BY <1>6, <3>1 DEF Iterates
    <3>2. CASE p # 0
      <4>1. p \in 1 .. PromiseCount /\ p - 1 \in 0 .. PromiseCount
        BY <1>1, <3>2
      <4>2. f[p] = g[<<p, f[p - 1]>>] /\ f[p - 1] \in X
        BY <1>6, <4>1 DEF Iterates
      <4> QED BY <1>2, <3>2, <4>1, <4>2
    <3> QED BY <3>1, <3>2
  <2> QED BY <2>1
<1>8. T = [p \in 0 .. PromiseCount |-> IF p = 0 THEN start ELSE step(T[p - 1], p)]
  BY <1>5, <1>7
<1>9. ASSUME NEW h, h = [p \in 0 .. PromiseCount |-> IF p = 0 THEN start ELSE step(h[p - 1], p)]
      PROVE  h[0] = start /\ \A p \in 1 .. PromiseCount : h[p] = step(h[p - 1], p)
  BY <1>1, <1>9
<1>10. T[0] = start /\ \A p \in 1 .. PromiseCount : T[p] = step(T[p - 1], p)
  BY <1>8, <1>9
<1> DEFINE P == {p \in 0 .. PromiseCount : T[p] \in X}
<1>11. 0 \in P
  BY <1>1, <1>3, <1>10
<1>12. ASSUME NEW p \in 0 .. PromiseCount - 1, p \in P PROVE p + 1 \in P
  <2>1. p + 1 \in 1 .. PromiseCount /\ (p + 1) - 1 = p /\ p + 1 \in 0 .. PromiseCount
    BY <1>1
  <2>2. T[p + 1] = step(T[p], p + 1)
    BY <1>10, <2>1
  <2> QED BY <1>2, <1>12, <2>1, <2>2
<1> HIDE DEF P
<1>13. \A p \in 0 .. PromiseCount : p \in P
  BY <1>1, <1>11, <1>12, IntervalInduction
<1> QED BY <1>1, <1>4, <1>10, <1>13 DEF P, T, start, step

LEMMA ExternalEventsSound ==
    ASSUME NEW s \in SourceCases, NEW d \in Nat, NEW a, ArmSound(s, a, d), NEW draw
    PROVE  ArmSound(s, ExternalEvents(a, d, draw), d)
<1> DEFINE X == {x \in Arms : ArmSound(s, x, d)}
           status == IF a.status = "DISPUTED" /\ draw.resolved THEN "OVERDUE" ELSE a.status
<1>1. PromiseCount \in Nat
  BY ExperimentConstants
<1>2. DisputeEvent(a, draw) \in X
  <2>1. status \in InvoiceStatuses /\ a \in Arms
    BY DEF ArmSound, Arms, InvoiceStatuses
  <2>2. DisputeEvent(a, draw) = [a EXCEPT !.status = status]
    BY <2>1 DEF DisputeEvent, Arms
  <2> HIDE DEF status
  <2>3. ArmSound(s, [a EXCEPT !.status = status], d)
    BY <2>1, StatusSound
  <2> QED BY <2>2, <2>3 DEF ArmSound
<1>3. ASSUME NEW p \in Promises, NEW x \in X PROVE PromiseEvent(x, p, d, draw.kept) \in X
  <2>1. ArmSound(s, PromiseEvent(x, p, d, draw.kept), d)
    BY <1>3, PromiseEventSound
  <2> QED BY <2>1 DEF ArmSound
<1> HIDE DEF X
<1>4. /\ ExternalEvents(a, d, draw) = After(a, d, draw)[PromiseCount]
      /\ \A p \in 0 .. PromiseCount : After(a, d, draw)[p] \in X
  BY <1>2, <1>3, AfterValue
<1>5. ExternalEvents(a, d, draw) \in X
  BY <1>1, <1>4
<1> QED BY <1>5 DEF X

-----------------------------------------------------------------------------
(* The policies and the payment of the day.                                *)

LEMMA RecordActionSound ==
    ASSUME NEW s, NEW d \in Nat, NEW a, ArmSound(s, a, d),
           NEW action \in RecommendedActions \cup {"STANDARD_SCHEDULED_REMINDER"},
           NEW completed \in BOOLEAN, NEW effect \in Nat
    PROVE  ArmSound(s, RecordAction(a, d, action, completed, effect), d)
<1> DEFINE entry == [day |-> d, action |-> action, completed |-> completed,
                     increment |-> IF completed THEN effect ELSE 0]
           actions == a.actions \cup {entry}
           opened == [until |-> d + AssociationWindow - 1, increment |-> effect, action |-> d]
           response == IF completed /\ effect > 0 THEN opened ELSE a.response
           b == RecordAction(a, d, action, completed, effect)
<1>1. a \in Arms /\ a.actions \in SUBSET Actions /\ AssociationWindow \in Int
      /\ a.response \in [until : Int, increment : Nat, action : Int]
  BY ExperimentConstants DEF ArmSound, Arms
<1>2. b = [a EXCEPT !.actions = actions, !.response = response]
  BY <1>1 DEF RecordAction, Arms
<1>3. entry \in Actions
  BY DEF Actions
<1>4. opened \in [until : Int, increment : Nat, action : Int]
  BY <1>1
<1>5. response \in [until : Int, increment : Nat, action : Int]
  BY <1>1, <1>4
<1>6. ResponseSound([a EXCEPT !.actions = actions, !.response = response], d)
  <2> SUFFICES ASSUME response.increment > 0
               PROVE  /\ \E x \in actions : /\ x.completed /\ x.increment > 0
                                            /\ x.day = response.action
                      /\ response.until = response.action + AssociationWindow - 1
                      /\ response.action <= d
    BY <1>1 DEF ResponseSound, Effective, Arms
  <2>1. CASE completed /\ effect > 0
    <3>1. response = opened /\ entry \in actions
      BY <2>1
    <3>2. /\ response.increment = effect /\ response.action = d
          /\ response.until = d + AssociationWindow - 1
      BY <3>1
    <3>3. entry.completed /\ entry.increment > 0 /\ entry.day = d
      BY <2>1
    <3> HIDE DEF entry, actions, response
    <3> QED BY <3>1, <3>2, <3>3
  <2>2. CASE ~(completed /\ effect > 0)
    BY <2>2 DEF ArmSound, ResponseSound, Effective
  <2> QED BY <2>1, <2>2
<1>7. actions \in SUBSET Actions
  BY <1>1, <1>3
<1> HIDE DEF b, actions, response
<1>8. b \in Arms /\ b.outstanding = a.outstanding /\ b.recovered = a.recovered
      /\ b.payments = a.payments /\ b.paidDay = a.paidDay /\ b.actions = actions
      /\ b.promise = a.promise
  BY <1>1, <1>2, <1>5, <1>7 DEF Arms
<1>9. PromisesOf(s, b) /\ a.actions \subseteq b.actions
  BY <1>8 DEF ArmSound, PromisesOf, actions
<1>10. ArmSound(s, b, d)
  BY <1>2, <1>6, <1>8, <1>9, SoundFrame
<1> QED BY <1>10 DEF b

LEMMA BaselinePolicySound ==
    ASSUME NEW s, NEW d \in Nat, NEW a, ArmSound(s, a, d)
    PROVE  ArmSound(s, BaselinePolicy(s, a, d), d)
<1> DEFINE disputes == a.disputeContacts + (IF View(s, a, d).disputed THEN 1 ELSE 0)
           promises == a.promiseContacts + (IF "ACTIVE" \in View(s, a, d).promises THEN 1 ELSE 0)
           counted == [a EXCEPT !.disputeContacts = disputes, !.promiseContacts = promises]
<1>1. a \in Arms /\ disputes \in Nat /\ promises \in Nat
  BY DEF ArmSound, Arms
<1>2. BaselinePolicy(s, a, d) =
        IF d % BaselineCadence # 0 THEN a
        ELSE RecordAction(counted, d, "STANDARD_SCHEDULED_REMINDER", TRUE, BaselineIncrement)
  BY <1>1 DEF BaselinePolicy, Arms
<1> HIDE DEF disputes, promises
<1>3. /\ counted \in Arms /\ counted.outstanding = a.outstanding
      /\ counted.recovered = a.recovered /\ counted.payments = a.payments
      /\ counted.paidDay = a.paidDay /\ counted.actions = a.actions
      /\ counted.promise = a.promise /\ counted.response = a.response
  BY <1>1 DEF Arms
<1> HIDE DEF counted
<1>4. PromisesOf(s, counted) /\ ResponseSound(counted, d)
  BY <1>3 DEF ArmSound, PromisesOf, ResponseSound, Effective
<1>5. ArmSound(s, counted, d)
  BY <1>3, <1>4, SoundFrame
<1>6. ArmSound(s, RecordAction(counted, d, "STANDARD_SCHEDULED_REMINDER", TRUE,
                               BaselineIncrement), d)
  BY <1>5, RecordActionSound DEF BaselineIncrement
<1> QED BY <1>2, <1>6

LEMMA RecommendedActionType == ASSUME NEW v PROVE RecommendedAction(v) \in RecommendedActions
  BY DEF RecommendedAction, RecommendedActions, OutreachActions, EscalationActions

LEMMA ReconmatePolicySound ==
    ASSUME NEW s, NEW d \in Nat, NEW a, ArmSound(s, a, d), NEW approved \in BOOLEAN
    PROVE  ArmSound(s, ReconmatePolicy(s, a, d, approved), d)
<1> DEFINE view == View(s, a, d)
           action == RecommendedAction(view)
           deferred == \/ a.deferred \/ RecommendationBlockers(view) # {}
                       \/ action \in {"HOLD_FOR_DISPUTE", "MONITOR_ACTIVE_PROMISE"}
           held == [a EXCEPT !.deferred = deferred]
           completed == ~ApprovalRequired(view) \/ approved
<1>1. a \in Arms /\ a.deferred \in BOOLEAN /\ deferred \in BOOLEAN /\ completed \in BOOLEAN
  BY DEF ArmSound, Arms
<1>2. action \in RecommendedActions
  BY RecommendedActionType
<1>3. ReconmatePolicy(s, a, d, approved) =
        IF Held(view) THEN held
        ELSE IF ActedWithin(a, d) THEN a
        ELSE RecordAction(a, d, action, completed, Increment(action))
  BY <1>1 DEF ReconmatePolicy, Arms
<1> HIDE DEF view, action, deferred, completed
<1>4. /\ held \in Arms /\ held.outstanding = a.outstanding
      /\ held.recovered = a.recovered /\ held.payments = a.payments
      /\ held.paidDay = a.paidDay /\ held.actions = a.actions
      /\ held.promise = a.promise /\ held.response = a.response
  BY <1>1 DEF Arms
<1> HIDE DEF held
<1>5. PromisesOf(s, held) /\ ResponseSound(held, d)
  BY <1>4 DEF ArmSound, PromisesOf, ResponseSound, Effective
<1>6. ArmSound(s, held, d)
  BY <1>4, <1>5, SoundFrame
<1>7. Increment(action) \in Nat
  BY DEF Increment
<1>8. ArmSound(s, RecordAction(a, d, action, completed, Increment(action)), d)
  BY <1>1, <1>2, <1>7, RecordActionSound
<1> QED BY <1>3, <1>6, <1>8

LEMMA PaymentAmountType ==
    ASSUME NEW balance \in Nat, NEW percent \in Nat
    PROVE  PaymentAmount(balance, percent) \in Nat \ {0}
<1>1. balance * percent \in Nat
  OBVIOUS
<1> DEFINE share == (balance * percent + 50) \div 100
<1>2. share \in Int
  BY <1>1
<1> HIDE DEF share
<1>3. Least(balance, share) \in Int
  BY <1>2 DEF Least
<1>4. Greatest(1, Least(balance, share)) \in Nat \ {0}
  BY <1>3 DEF Greatest
<1> QED BY <1>4 DEF PaymentAmount, share

LEMMA DrawType ==
    ASSUME NEW draw \in Draws
    PROVE  /\ draw.resolved \in BOOLEAN /\ draw.approved \in BOOLEAN
           /\ draw.occurrence \in 0 .. 4 /\ draw.percent \in Nat
<1>1. /\ draw.resolved \in BOOLEAN /\ draw.approved \in BOOLEAN
      /\ draw.occurrence \in 0 .. 4 /\ draw.percent \in Fractions \cup {100}
  BY DEF Draws
<1>2. Fractions \subseteq 1 .. 100
  BY ExperimentConstants
<1>3. draw.percent \in Nat
  <2>1. CASE draw.percent \in Fractions
    <3>1. draw.percent \in 1 .. 100
      BY <1>2, <2>1, Zenon
    <3> QED BY <3>1
  <2>2. CASE draw.percent = 100
    BY <2>2
  <2> QED BY <1>1, <2>1, <2>2
<1> QED BY <1>1, <1>3

LEMMA SimulatedPaymentSound ==
    ASSUME NEW s, NEW d \in Nat, NEW a, ArmSound(s, a, d), NEW draw \in Draws, NEW name
    PROVE  ArmSound(s, SimulatedPayment(name, a, d, draw), d)
<1> DEFINE effect == IF d <= a.response.until THEN a.response.increment ELSE 0
           amount == PaymentAmount(a.outstanding, draw.percent)
           kind == IF name = "RECONMATE" THEN "INTERVENTION_ASSOCIATED"
                   ELSE "STANDARD_COLLECTIONS_ASSOCIATED"
<1>1. /\ a.outstanding \in Nat /\ a.response.until \in Int
      /\ a.response.increment \in Nat /\ a.response.action \in Int
      /\ AssociationWindow \in Int
  <2>1. a.outstanding \in Nat /\ a.response \in [until : Int, increment : Nat, action : Int]
    BY DEF ArmSound, Arms
  <2> QED BY <2>1, ExperimentConstants
<1>2. amount \in Int /\ draw.occurrence \in 0 .. 4
  <2>1. draw.occurrence \in 0 .. 4 /\ draw.percent \in Nat
    BY DrawType
  <2>2. amount \in Nat \ {0}
    BY <1>1, <2>1, PaymentAmountType
  <2> QED BY <2>1, <2>2
<1>3. ArmSound(s, ApplyPayment(a, d, amount, "NATURAL_SIMULATED_RECOVERY", -1), d)
  <2>1. "NATURAL_SIMULATED_RECOVERY" \in Associations /\ -1 \in Int
    BY DEF Associations
  <2> HIDE DEF amount
  <2> QED BY <1>2, <2>1, ApplyPaymentSound
<1>4. ASSUME draw.occurrence # 0, ~(draw.occurrence > effect)
      PROVE  ArmSound(s, ApplyPayment(a, d, amount, kind, a.response.action), d)
  <2>1. effect > 0
    BY <1>1, <1>2, <1>4
  <2>2. d <= a.response.until /\ a.response.increment > 0
    BY <2>1
  <2>3. Effective(a, a.response.action)
        /\ d \in a.response.action .. a.response.action + AssociationWindow - 1
    BY <1>1, <2>2 DEF ArmSound, ResponseSound
  <2>4. kind \in Associations
    BY DEF Associations
  <2> HIDE DEF amount, kind
  <2> QED BY <1>1, <1>2, <2>3, <2>4, ApplyPaymentSound
<1> QED BY <1>3, <1>4 DEF SimulatedPayment

LEMMA SimulateDaySound ==
    ASSUME NEW s \in SourceCases, NEW d \in Nat, NEW a, ArmSound(s, a, d),
           NEW draw \in Draws, NEW name
    PROVE  ArmSound(s, SimulateDay(name, s, a, d, draw), d)
<1> DEFINE external == ExternalEvents(a, d, draw)
<1>1. ArmSound(s, external, d)
  BY ExternalEventsSound
<1> HIDE DEF external
<1>2. draw.approved \in BOOLEAN
  BY DrawType
<1>3. ArmSound(s, BaselinePolicy(s, external, d), d)
  BY <1>1, BaselinePolicySound
<1>4. ArmSound(s, ReconmatePolicy(s, external, d, draw.approved), d)
  BY <1>1, <1>2, ReconmatePolicySound
<1>5. ASSUME NEW acted, ArmSound(s, acted, d)
      PROVE  ArmSound(s, SimulatedPayment(name, acted, d, draw), d)
  BY <1>5, SimulatedPaymentSound
<1> QED BY <1>1, <1>3, <1>4, <1>5 DEF SimulateDay, external

LEMMA ShadowCaseSound ==
    ASSUME NEW s \in SourceCases, Candidate(s)
    PROVE  ArmSound(s, ShadowCase(s), 0)
<1> DEFINE a == ShadowCase(s)
           promise == [p \in Promises |-> ShadowPromise(s, p)]
<1>1. /\ s.outstanding \in Nat /\ s.outstanding > 0 /\ s.status \in InvoiceStatuses
      /\ \A p \in Promises : s.promise[p] \in SourcePromises
  BY DEF SourceCases, Candidate
<1>2. ASSUME NEW p \in Promises PROVE ShadowPromise(s, p) \in ShadowPromises
  <2>1. /\ s.promise[p].state \in PromiseStatuses /\ s.promise[p].amount \in Nat \ {0}
        /\ s.promise[p].date \in Int
    BY <1>1 DEF SourcePromises
  <2>2. Least(s.promise[p].amount, s.outstanding) \in Nat \ {0}
    BY <1>1, <2>1 DEF Least
  <2> QED BY <2>1, <2>2 DEF ShadowPromise, ShadowPromises
<1>3. promise \in [Promises -> ShadowPromises]
  BY <1>2
<1>4. NoResponse \in [until : Int, increment : Nat, action : Int] /\ NoResponse.increment = 0
  BY DEF NoResponse
<1>5. PromisesOf(s, a)
  BY DEF ShadowCase, PromisesOf
<1> HIDE DEF promise
<1>6. <<>> \in Seq(Payments) /\ Len(<<>>) = 0
  OBVIOUS
<1>7. a \in Arms
  BY <1>1, <1>3, <1>4, <1>6 DEF ShadowCase, Arms, promise
<1>8. /\ a.outstanding = s.outstanding /\ a.recovered = 0 /\ a.payments = <<>>
      /\ a.paidDay = -1 /\ a.response = NoResponse
  BY DEF ShadowCase
<1> HIDE DEF a
<1>9. MoneySound(s, a, 0)
  BY <1>1, <1>8, TotalOfNone DEF MoneySound
<1>10. ResponseSound(a, 0) /\ PaymentsEarned(a)
  BY <1>4, <1>6, <1>8 DEF ResponseSound, PaymentsEarned
<1>11. ArmSound(s, a, 0)
  BY <1>5, <1>7, <1>9, <1>10 DEF ArmSound
<1> QED BY <1>11 DEF a

-----------------------------------------------------------------------------
LEMMA SoundInit == Init => ArmsSound
<1> SUFFICES ASSUME Init PROVE ArmsSound
  OBVIOUS
<1>1. source \in SourceCases /\ Candidate(source) /\ day = 0
  BY ExperimentConstants DEF Init
<1>2. ArmSound(source, ShadowCase(source), 0)
  BY <1>1, ShadowCaseSound
<1>3. DOMAIN arm = ArmNames /\ \A name \in ArmNames : arm[name] = ShadowCase(source)
  BY DEF Init
<1> QED BY <1>1, <1>2, <1>3 DEF ArmsSound

LEMMA SoundNext == ArmsSound /\ [Next]_vars => ArmsSound'
<1> SUFFICES ASSUME ArmsSound, [Next]_vars PROVE ArmsSound'
  OBVIOUS
<1>1. CASE NextDay
  <2>1. PICK draw \in Draws :
          arm' = [name \in ArmNames |-> SimulateDay(name, source, arm[name], day, draw)]
    BY <1>1 DEF NextDay
  <2>2. day' = day + 1 /\ source' = source /\ day \in Nat /\ source \in SourceCases
    BY <1>1 DEF NextDay, ArmsSound
  <2>3. ASSUME NEW name \in ArmNames PROVE ArmSound(source, arm'[name], day + 1)
    <3>1. ArmSound(source, arm[name], day)
      BY <2>3 DEF ArmsSound
    <3>2. arm'[name] = SimulateDay(name, source, arm[name], day, draw)
      BY <2>1, <2>3
    <3>3. ArmSound(source, SimulateDay(name, source, arm[name], day, draw), day)
      BY <2>2, <3>1, SimulateDaySound
    <3> QED BY <2>2, <3>2, <3>3, SoundLater
  <2>4. DOMAIN arm' = ArmNames
    BY <2>1
  <2> QED BY <2>2, <2>3, <2>4 DEF ArmsSound
<1>2. CASE UNCHANGED vars
  BY <1>2 DEF vars, ArmsSound
<1> QED BY <1>1, <1>2 DEF Next

LEMMA SoundAlways == Spec => []ArmsSound
  BY SoundInit, SoundNext, PTL DEF Spec

(* What the report says an arm recovered is the total of its payment events *)
(* and what it says remains is the balance of the shadow, for any horizon   *)
(* and any draws: no payment is counted twice, none exceeds the balance.    *)
THEOREM ReportsReconcile == Spec => []ArmReconciles
<1>1. ArmsSound => ArmReconciles
  <2> SUFFICES ASSUME ArmsSound, NEW name \in ArmNames
               PROVE  /\ arm[name].recovered = PaidTotal(name)
                      /\ Remaining(name) = arm[name].outstanding
                      /\ (arm[name].paidDay >= 0) = (Remaining(name) = 0)
    BY DEF ArmReconciles
  <2>1. ArmSound(source, arm[name], day)
    BY DEF ArmsSound
  <2>2. /\ arm[name].recovered = Total(arm[name].payments)
        /\ arm[name].outstanding + arm[name].recovered = source.outstanding
        /\ arm[name].paidDay >= 0 <=> arm[name].outstanding = 0
    BY <2>1 DEF ArmSound, MoneySound
  <2>3. arm[name].outstanding \in Nat /\ arm[name].recovered \in Nat /\ source.outstanding \in Nat
    BY <2>1 DEF ArmSound, Arms, ArmsSound, SourceCases
  <2>4. PaidTotal(name) = Total(arm[name].payments)
    BY DEF PaidTotal, Total
  <2>5. Remaining(name) = arm[name].outstanding
    BY <2>2, <2>3 DEF Remaining
  <2> QED BY <2>2, <2>4, <2>5
<1> QED BY <1>1, SoundAlways, PTL

(* A payment is put down to an intervention only when a completed action    *)
(* that has an effect was taken at most a window before it: the response    *)
(* that is open always belongs to such an action.                           *)
THEOREM AssociationsAreEarned == Spec => []AssociationIsEarned
<1>1. ArmsSound => AssociationIsEarned
  <2> SUFFICES ASSUME ArmsSound, NEW k \in Associated("RECONMATE")
               PROVE  \E x \in arm["RECONMATE"].actions :
                        /\ x.completed /\ x.increment > 0
                        /\ x.day = arm["RECONMATE"].payments[k].action
                        /\ arm["RECONMATE"].payments[k].day \in
                              x.day .. x.day + AssociationWindow - 1
    BY DEF AssociationIsEarned
  <2>1. ArmSound(source, arm["RECONMATE"], day)
    BY DEF ArmsSound, ArmNames
  <2>2. /\ Effective(arm["RECONMATE"], arm["RECONMATE"].payments[k].action)
        /\ arm["RECONMATE"].payments[k].day \in arm["RECONMATE"].payments[k].action ..
              arm["RECONMATE"].payments[k].action + AssociationWindow - 1
    BY <2>1 DEF ArmSound, PaymentsEarned, Associated
  <2> QED BY <2>2 DEF Effective
<1> QED BY <1>1, SoundAlways, PTL

-----------------------------------------------------------------------------
(* What the events of a day do to the balance, the promises, the dispute    *)
(* and the natural payments of an arm, whatever the policy.                 *)

Natural(a) ==
    {a.payments[k].day : k \in {j \in 1 .. Len(a.payments) :
        a.payments[j].association = "NATURAL_SIMULATED_RECOVERY"}}

Paying == {"PAID", "PARTIALLY_PAID"}

LEMMA NaturalAppend ==
    ASSUME NEW a, NEW b, a.payments \in Seq(Payments), NEW e \in Payments,
           b.payments = Append(a.payments, e)
    PROVE  Natural(b) = Natural(a) \cup
             (IF e.association = "NATURAL_SIMULATED_RECOVERY" THEN {e.day} ELSE {})
<1> DEFINE n == Len(a.payments)
<1>1. /\ n \in Nat /\ Len(b.payments) = n + 1 /\ b.payments[n + 1] = e
      /\ \A k \in 1 .. n : b.payments[k] = a.payments[k]
  OBVIOUS
<1> DEFINE Old == {j \in 1 .. n : a.payments[j].association = "NATURAL_SIMULATED_RECOVERY"}
           New == {j \in 1 .. n + 1 : b.payments[j].association = "NATURAL_SIMULATED_RECOVERY"}
<1>2. Natural(a) = {a.payments[k].day : k \in Old} /\ Natural(b) = {b.payments[k].day : k \in New}
  BY <1>1 DEF Natural
<1> HIDE DEF n
<1>3. New = Old \cup (IF e.association = "NATURAL_SIMULATED_RECOVERY" THEN {n + 1} ELSE {})
  <2>1. \A j \in 1 .. n + 1 : j \in 1 .. n \/ j = n + 1
    BY <1>1
  <2>2. n + 1 \notin 1 .. n /\ 1 .. n \subseteq 1 .. n + 1 /\ n + 1 \in 1 .. n + 1
    BY <1>1
  <2> QED BY <1>1, <2>1, <2>2
<1>4. \A k \in Old : b.payments[k] = a.payments[k]
  BY <1>1
<1> HIDE DEF Old, New
<1>5. CASE e.association = "NATURAL_SIMULATED_RECOVERY"
  BY <1>1, <1>2, <1>3, <1>4, <1>5
<1>6. CASE e.association # "NATURAL_SIMULATED_RECOVERY"
  BY <1>2, <1>3, <1>4, <1>6
<1> QED BY <1>5, <1>6

LEMMA ApplyPaymentEffect ==
    ASSUME NEW a \in Arms, NEW d \in Nat, NEW asked \in Int,
           NEW association \in Associations, NEW action \in Int,
           NEW b, b = ApplyPayment(a, d, asked, association, action)
    PROVE  /\ b.outstanding <= a.outstanding /\ b.promise = a.promise
           /\ b.actions = a.actions
           /\ asked > 0 /\ a.outstanding > 0 =>
                 /\ b.status \in Paying
                 /\ association = "NATURAL_SIMULATED_RECOVERY" => Natural(b) = Natural(a) \cup {d}
                 /\ association # "NATURAL_SIMULATED_RECOVERY" => Natural(b) = Natural(a)
           /\ a.outstanding = 0 => b = a
<1> DEFINE amount == Least(asked, a.outstanding)
           entry == [day |-> d, amount |-> amount,
                     association |-> association, action |-> action]
           left == a.outstanding - amount
           status == IF amount = a.outstanding THEN "PAID" ELSE "PARTIALLY_PAID"
           more == a.recovered + amount
           paid == IF amount = a.outstanding THEN d ELSE a.paidDay
<1>1. a.outstanding \in Nat /\ a.payments \in Seq(Payments)
  BY DEF Arms
<1>2. amount \in Int /\ amount <= a.outstanding
      /\ (amount > 0 <=> asked > 0 /\ a.outstanding > 0)
  BY <1>1 DEF Least
<1> HIDE DEF amount
<1>3. CASE amount <= 0
  <2>1. b = a
    BY <1>3 DEF ApplyPayment, amount
  <2> QED BY <1>1, <1>2, <1>3, <2>1
<1>4. CASE amount > 0
  <2>1. b = [a EXCEPT !.outstanding = left, !.status = status, !.recovered = more,
                      !.payments = Append(a.payments, entry), !.paidDay = paid]
    BY <1>1, <1>2, <1>4 DEF ApplyPayment, amount, Arms
  <2>2. entry \in Payments /\ entry.day = d /\ entry.association = association
    BY <1>2, <1>4 DEF Payments
  <2>3. status \in Paying /\ left <= a.outstanding
    BY <1>1, <1>2, <1>4 DEF Paying
  <2> HIDE DEF entry, status, left, more, paid
  <2>4. /\ b.outstanding = left /\ b.status = status
        /\ b.payments = Append(a.payments, entry)
        /\ b.actions = a.actions /\ b.promise = a.promise
    BY <2>1 DEF Arms
  <2>5. Natural(b) = Natural(a) \cup
          (IF association = "NATURAL_SIMULATED_RECOVERY" THEN {d} ELSE {})
    BY <1>1, <2>2, <2>4, NaturalAppend
  <2> QED BY <1>1, <1>2, <1>4, <2>3, <2>4, <2>5
<1> QED BY <1>2, <1>3, <1>4

\* A promise that is due: it is kept and pays, or it breaks the day after.
Kept(x, p, d, kept) ==
    x.promise[p].status = "ACTIVE" /\ x.promise[p].date <= d /\ p \in kept
StatusAfter(x, p, d, kept) ==
    IF Kept(x, p, d, kept) THEN "FULFILLED"
    ELSE IF x.promise[p].status = "ACTIVE" /\ x.promise[p].date < d THEN "BROKEN"
    ELSE x.promise[p].status

LEMMA PromiseEventEffect ==
    ASSUME NEW s \in SourceCases, NEW d \in Nat, NEW a, ArmSound(s, a, d),
           NEW p \in Promises, NEW kept, NEW b, b = PromiseEvent(a, p, d, kept)
    PROVE  /\ b.outstanding <= a.outstanding
           /\ b.actions = a.actions
           /\ \A q \in Promises \ {p} : b.promise[q].status = a.promise[q].status
           /\ b.promise[p].status = StatusAfter(a, p, d, kept)
           /\ a.outstanding > 0 =>
                 IF Kept(a, p, d, kept) THEN b.status \in Paying ELSE b.status = a.status
           /\ Natural(b) = Natural(a)
<1> DEFINE settled == [a EXCEPT !.promise[p].status = "FULFILLED"]
           broken == [a EXCEPT !.promise[p].status = "BROKEN"]
           amount == a.promise[p].amount
           paid == ApplyPayment(settled, d, amount, "PROMISE_FULFILMENT", -1)
<1>1. /\ a \in Arms /\ a.promise[p] \in ShadowPromises /\ a.outstanding \in Nat
      /\ a.promise \in [Promises -> ShadowPromises]
  BY DEF ArmSound, Arms
<1>2. amount \in Nat /\ amount > 0 /\ a.promise[p].date \in Int
  BY <1>1 DEF ShadowPromises
<1>3. /\ settled.outstanding = a.outstanding /\ settled.actions = a.actions
      /\ settled.status = a.status /\ settled.payments = a.payments
      /\ settled.promise[p].status = "FULFILLED"
      /\ \A q \in Promises \ {p} : settled.promise[q].status = a.promise[q].status
  BY <1>1 DEF Arms, ShadowPromises
<1>4. /\ broken.outstanding = a.outstanding /\ broken.actions = a.actions
      /\ broken.status = a.status /\ broken.payments = a.payments
      /\ broken.promise[p].status = "BROKEN"
      /\ \A q \in Promises \ {p} : broken.promise[q].status = a.promise[q].status
  BY <1>1 DEF Arms, ShadowPromises
<1>5. settled \in Arms
  BY PromiseSound DEF PromiseStatuses, ArmSound
<1>6. b = IF a.promise[p].status # "ACTIVE" \/ a.promise[p].date > d THEN a
          ELSE IF p \in kept THEN paid
          ELSE IF a.promise[p].date < d THEN broken ELSE a
  BY DEF PromiseEvent
<1> HIDE DEF settled, broken, amount
<1>7. /\ paid.outstanding <= settled.outstanding /\ paid.promise = settled.promise
      /\ paid.actions = settled.actions
      /\ amount > 0 /\ settled.outstanding > 0 =>
            paid.status \in Paying /\ Natural(paid) = Natural(settled)
      /\ settled.outstanding = 0 => paid = settled
  <2>1. "PROMISE_FULFILMENT" \in Associations /\ -1 \in Int
        /\ "PROMISE_FULFILMENT" # "NATURAL_SIMULATED_RECOVERY"
    BY DEF Associations
  <2>2. paid = ApplyPayment(settled, d, amount, "PROMISE_FULFILMENT", -1) /\ amount \in Int
    BY <1>2
  <2> HIDE DEF paid
  <2>3. /\ paid.outstanding <= settled.outstanding /\ paid.promise = settled.promise
        /\ paid.actions = settled.actions
        /\ settled.outstanding = 0 => paid = settled
    BY <1>5, <2>1, <2>2, ApplyPaymentEffect
  <2>4. amount > 0 /\ settled.outstanding > 0 =>
          paid.status \in Paying /\ Natural(paid) = Natural(settled)
    BY <1>5, <2>1, <2>2, ApplyPaymentEffect
  <2> QED BY <2>1, <2>3, <2>4
<1> HIDE DEF paid
<1>8. Natural(settled) = Natural(a) /\ Natural(broken) = Natural(a)
  BY <1>3, <1>4 DEF Natural
<1>9. CASE Kept(a, p, d, kept)
  <2>1. b = paid
    BY <1>2, <1>6, <1>9 DEF Kept
  <2>2. Natural(b) = Natural(a)
    <3>1. CASE a.outstanding = 0
      BY <1>3, <1>7, <1>8, <2>1, <3>1
    <3>2. CASE a.outstanding > 0
      BY <1>2, <1>3, <1>7, <1>8, <2>1, <3>2
    <3> QED BY <1>1, <3>1, <3>2
  <2> QED BY <1>2, <1>3, <1>7, <1>9, <2>1, <2>2 DEF StatusAfter
<1>10. CASE ~Kept(a, p, d, kept) /\ a.promise[p].status = "ACTIVE" /\ a.promise[p].date < d
  <2>1. b = broken
    BY <1>2, <1>6, <1>10 DEF Kept
  <2> QED BY <1>1, <1>4, <1>8, <1>10, <2>1 DEF StatusAfter
<1>11. CASE ~Kept(a, p, d, kept) /\ ~(a.promise[p].status = "ACTIVE" /\ a.promise[p].date < d)
  <2>1. b = a
    BY <1>2, <1>6, <1>11 DEF Kept
  <2> QED BY <1>1, <1>11, <2>1 DEF StatusAfter
<1> QED BY <1>9, <1>10, <1>11

\* The due promises are settled or broken before anybody acts.
Due(s, x, p, d) == x.promise[p].status = "ACTIVE" /\ ShadowPromise(s, p).date < d

LEMMA ExternalEventsEffect ==
    ASSUME NEW s \in SourceCases, NEW d \in Nat, NEW a, ArmSound(s, a, d), NEW draw,
           NEW b, b = ExternalEvents(a, d, draw)
    PROVE  /\ b.outstanding <= a.outstanding
           /\ b.actions = a.actions
           /\ Natural(b) = Natural(a)
           /\ \A p \in Promises : ~Due(s, b, p, d)
<1> DEFINE X == {x \in Arms : /\ ArmSound(s, x, d) /\ x.outstanding <= a.outstanding
                              /\ x.actions = a.actions /\ Natural(x) = Natural(a)}
           T == After(a, d, draw)
           status == IF a.status = "DISPUTED" /\ draw.resolved THEN "OVERDUE" ELSE a.status
<1>1. PromiseCount \in Nat /\ Promises = 1 .. PromiseCount
  BY ExperimentConstants DEF Promises
<1>2. DisputeEvent(a, draw) \in X
  <2>1. status \in InvoiceStatuses /\ a \in Arms /\ a.outstanding \in Nat
    BY DEF ArmSound, Arms, InvoiceStatuses
  <2>2. DisputeEvent(a, draw) = [a EXCEPT !.status = status]
    BY <2>1 DEF DisputeEvent, Arms
  <2> DEFINE e == [a EXCEPT !.status = status]
  <2> HIDE DEF status
  <2>3. ArmSound(s, e, d)
    BY <2>1, StatusSound
  <2>4. e.outstanding = a.outstanding /\ e.actions = a.actions /\ e.payments = a.payments
    BY <2>1 DEF Arms
  <2> HIDE DEF e
  <2>5. Natural(e) = Natural(a) /\ e \in Arms
    BY <2>3, <2>4 DEF Natural, ArmSound
  <2>6. e \in X
    BY <2>1, <2>3, <2>4, <2>5
  <2> HIDE DEF X
  <2> QED BY <2>2, <2>6 DEF e
<1>3. ASSUME NEW p \in Promises, NEW x \in X PROVE PromiseEvent(x, p, d, draw.kept) \in X
  <2> DEFINE y == PromiseEvent(x, p, d, draw.kept)
  <2>1. ArmSound(s, y, d)
    BY <1>3, PromiseEventSound
  <2>2. y.outstanding <= x.outstanding /\ y.actions = x.actions /\ Natural(y) = Natural(x)
    <3>1. y = PromiseEvent(x, p, d, draw.kept) /\ ArmSound(s, x, d)
      OBVIOUS
    <3> HIDE DEF y, X
    <3> QED BY <1>3, <3>1, PromiseEventEffect
  <2>3. y \in Arms /\ y.outstanding \in Nat /\ x.outstanding \in Nat /\ a.outstanding \in Nat
    BY <2>1 DEF ArmSound, Arms
  <2> HIDE DEF y
  <2>4. y.outstanding <= a.outstanding /\ y.actions = a.actions /\ Natural(y) = Natural(a)
    BY <2>2, <2>3
  <2> QED BY <2>1, <2>3, <2>4 DEF y
<1>4. /\ b = T[PromiseCount] /\ T[0] = DisputeEvent(a, draw)
      /\ \A p \in Promises : T[p] = PromiseEvent(T[p - 1], p, d, draw.kept)
      /\ \A p \in 0 .. PromiseCount : T[p] \in X
  <2> HIDE DEF X
  <2> QED BY <1>2, <1>3, AfterValue
<1>5. PromiseCount \in 0 .. PromiseCount
  BY <1>1
<1>6. b \in X
  BY <1>4, <1>5
<1> HIDE DEF T
<1> DEFINE P == {p \in 0 .. PromiseCount : \A q \in Promises : q <= p => ~Due(s, T[p], q, d)}
<1>7. 0 \in P
  BY <1>1
<1>8. ASSUME NEW p \in 0 .. PromiseCount - 1, p \in P PROVE p + 1 \in P
  <2>1. p + 1 \in Promises /\ (p + 1) - 1 = p /\ p \in 0 .. PromiseCount /\ p + 1 \in 0 .. PromiseCount
    BY <1>1
  <2>2. T[p + 1] = PromiseEvent(T[p], p + 1, d, draw.kept) /\ ArmSound(s, T[p], d)
    BY <1>4, <2>1
  <2>3. T[p].promise[p + 1].date = ShadowPromise(s, p + 1).date
    BY <2>1, <2>2 DEF ArmSound, PromisesOf
  <2>4. /\ \A q \in Promises \ {p + 1} : T[p + 1].promise[q].status = T[p].promise[q].status
        /\ T[p + 1].promise[p + 1].status = StatusAfter(T[p], p + 1, d, draw.kept)
    BY <2>1, <2>2, PromiseEventEffect
  <2>5. ~Due(s, T[p + 1], p + 1, d)
    BY <2>3, <2>4 DEF Due, StatusAfter
  <2>6. ASSUME NEW q \in Promises, q <= p + 1 PROVE ~Due(s, T[p + 1], q, d)
    <3>1. CASE q = p + 1
      BY <2>5, <3>1
    <3>2. CASE q # p + 1
      <4>1. q <= p
        BY <1>1, <2>6, <3>2
      <4> QED BY <1>8, <2>4, <3>2, <4>1 DEF Due
    <3> QED BY <3>1, <3>2
  <2> QED BY <2>1, <2>6
<1> HIDE DEF P
<1>9. \A p \in 0 .. PromiseCount : p \in P
  BY <1>1, <1>7, <1>8, IntervalInduction
<1>10. \A p \in Promises : ~Due(s, b, p, d)
  BY <1>1, <1>4, <1>5, <1>9 DEF P
<1> QED BY <1>6, <1>10

-----------------------------------------------------------------------------
(* Two arms of the same case live in the same world while neither is paid.  *)

Twins(a, b) ==
    a.outstanding > 0 /\ b.outstanding > 0 =>
        /\ \A p \in Promises : a.promise[p].status = b.promise[p].status
        /\ a.status = "DISPUTED" <=> b.status = "DISPUTED"

LEMMA PromiseEventTwins ==
    ASSUME NEW s \in SourceCases, NEW d \in Nat, NEW a, ArmSound(s, a, d),
           NEW b, ArmSound(s, b, d), Twins(a, b), NEW p \in Promises, NEW kept
    PROVE  Twins(PromiseEvent(a, p, d, kept), PromiseEvent(b, p, d, kept))
<1> DEFINE x == PromiseEvent(a, p, d, kept)
           y == PromiseEvent(b, p, d, kept)
<1> SUFFICES ASSUME x.outstanding > 0, y.outstanding > 0
             PROVE  /\ \A q \in Promises : x.promise[q].status = y.promise[q].status
                    /\ x.status = "DISPUTED" <=> y.status = "DISPUTED"
  BY DEF Twins
<1>1. /\ a.outstanding \in Nat /\ b.outstanding \in Nat
      /\ x.outstanding \in Nat /\ y.outstanding \in Nat
  BY PromiseEventSound DEF ArmSound, Arms
<1>2. x = PromiseEvent(a, p, d, kept) /\ y = PromiseEvent(b, p, d, kept)
  OBVIOUS
<1> HIDE DEF x, y
<1>3. /\ x.outstanding <= a.outstanding
      /\ \A q \in Promises \ {p} : x.promise[q].status = a.promise[q].status
      /\ x.promise[p].status = StatusAfter(a, p, d, kept)
      /\ a.outstanding > 0 =>
            IF Kept(a, p, d, kept) THEN x.status \in Paying ELSE x.status = a.status
  BY <1>2, PromiseEventEffect
<1>4. /\ y.outstanding <= b.outstanding
      /\ \A q \in Promises \ {p} : y.promise[q].status = b.promise[q].status
      /\ y.promise[p].status = StatusAfter(b, p, d, kept)
      /\ b.outstanding > 0 =>
            IF Kept(b, p, d, kept) THEN y.status \in Paying ELSE y.status = b.status
  BY <1>2, PromiseEventEffect
<1>5. a.outstanding > 0 /\ b.outstanding > 0
  BY <1>1, <1>3, <1>4
<1>6. /\ \A q \in Promises : a.promise[q].status = b.promise[q].status
      /\ a.status = "DISPUTED" <=> b.status = "DISPUTED"
  BY <1>5 DEF Twins
<1>7. a.promise[p].date = b.promise[p].date
  BY DEF ArmSound, PromisesOf
<1>8. /\ Kept(a, p, d, kept) <=> Kept(b, p, d, kept)
      /\ StatusAfter(a, p, d, kept) = StatusAfter(b, p, d, kept)
  BY <1>6, <1>7 DEF Kept, StatusAfter
<1>9. \A q \in Promises : x.promise[q].status = y.promise[q].status
  BY <1>3, <1>4, <1>6, <1>8
<1>10. x.status = "DISPUTED" <=> y.status = "DISPUTED"
  BY <1>3, <1>4, <1>5, <1>6, <1>8 DEF Paying
<1> QED BY <1>9, <1>10

LEMMA ExternalEventsTwins ==
    ASSUME NEW s \in SourceCases, NEW d \in Nat, NEW a, ArmSound(s, a, d),
           NEW b, ArmSound(s, b, d), Twins(a, b), NEW draw
    PROVE  Twins(ExternalEvents(a, d, draw), ExternalEvents(b, d, draw))
<1> DEFINE X == {x \in Arms : ArmSound(s, x, d)}
<1>1. PromiseCount \in Nat /\ Promises = 1 .. PromiseCount
  BY ExperimentConstants DEF Promises
<1>2. ASSUME NEW c, ArmSound(s, c, d)
      PROVE  /\ DisputeEvent(c, draw) \in X
             /\ DisputeEvent(c, draw).outstanding = c.outstanding
             /\ DisputeEvent(c, draw).promise = c.promise
             /\ DisputeEvent(c, draw).status = "DISPUTED" <=>
                    c.status = "DISPUTED" /\ ~draw.resolved
  <2> DEFINE status == IF c.status = "DISPUTED" /\ draw.resolved THEN "OVERDUE" ELSE c.status
             e == [c EXCEPT !.status = status]
  <2>1. status \in InvoiceStatuses /\ c \in Arms
    BY <1>2 DEF ArmSound, Arms, InvoiceStatuses
  <2>2. DisputeEvent(c, draw) = e
    BY <2>1 DEF DisputeEvent, Arms
  <2>3. status = "DISPUTED" <=> c.status = "DISPUTED" /\ ~draw.resolved
    OBVIOUS
  <2> HIDE DEF status
  <2>4. ArmSound(s, e, d)
    BY <1>2, <2>1, StatusSound
  <2>5. e.outstanding = c.outstanding /\ e.promise = c.promise /\ e.status = status
    BY <2>1 DEF Arms
  <2> HIDE DEF e
  <2> QED BY <2>2, <2>3, <2>4, <2>5 DEF ArmSound
<1>3. ASSUME NEW p \in Promises, NEW x \in X PROVE PromiseEvent(x, p, d, draw.kept) \in X
  <2>1. ArmSound(s, PromiseEvent(x, p, d, draw.kept), d)
    BY <1>3, PromiseEventSound
  <2> QED BY <2>1 DEF ArmSound
<1>4. ASSUME NEW c, ArmSound(s, c, d)
      PROVE  /\ ExternalEvents(c, d, draw) = After(c, d, draw)[PromiseCount]
             /\ After(c, d, draw)[0] = DisputeEvent(c, draw)
             /\ \A p \in Promises : After(c, d, draw)[p] =
                     PromiseEvent(After(c, d, draw)[p - 1], p, d, draw.kept)
             /\ \A p \in 0 .. PromiseCount : After(c, d, draw)[p] \in X
  <2> HIDE DEF X
  <2>1. DisputeEvent(c, draw) \in X
    BY <1>2, <1>4
  <2> QED BY <1>3, <2>1, AfterValue
<1> DEFINE S == After(a, d, draw)
           T == After(b, d, draw)
           P == {p \in 0 .. PromiseCount : Twins(S[p], T[p])}
<1>5. 0 \in P
  <2>1. S[0] = DisputeEvent(a, draw) /\ T[0] = DisputeEvent(b, draw)
    BY <1>4
  <2>2. Twins(DisputeEvent(a, draw), DisputeEvent(b, draw))
    BY <1>2 DEF Twins
  <2> QED BY <1>1, <2>1, <2>2
<1>6. ASSUME NEW p \in 0 .. PromiseCount - 1, p \in P PROVE p + 1 \in P
  <2>1. p + 1 \in Promises /\ (p + 1) - 1 = p /\ p \in 0 .. PromiseCount /\ p + 1 \in 0 .. PromiseCount
    BY <1>1
  <2>2. /\ S[p + 1] = PromiseEvent(S[p], p + 1, d, draw.kept)
        /\ T[p + 1] = PromiseEvent(T[p], p + 1, d, draw.kept)
    BY <1>4, <2>1
  <2>3. ArmSound(s, S[p], d) /\ ArmSound(s, T[p], d) /\ Twins(S[p], T[p])
    BY <1>4, <1>6, <2>1
  <2> HIDE DEF S, T
  <2>4. Twins(S[p + 1], T[p + 1])
    BY <2>1, <2>2, <2>3, PromiseEventTwins
  <2> QED BY <2>1, <2>4
<1> HIDE DEF P
<1>7. \A p \in 0 .. PromiseCount : p \in P
  BY <1>1, <1>5, <1>6, IntervalInduction
<1>8. PromiseCount \in P
  BY <1>1, <1>7
<1> QED BY <1>4, <1>8 DEF P

-----------------------------------------------------------------------------
(* What a day does to an arm.                                              *)

LEMMA RecordActionEffect ==
    ASSUME NEW a \in Arms, NEW d, NEW action, NEW completed, NEW effect,
           NEW b, b = RecordAction(a, d, action, completed, effect)
    PROVE  /\ b.outstanding = a.outstanding /\ b.promise = a.promise
           /\ b.status = a.status /\ b.payments = a.payments
<1> DEFINE actions == a.actions \cup
               {[day |-> d, action |-> action, completed |-> completed,
                 increment |-> IF completed THEN effect ELSE 0]}
           response == IF completed /\ effect > 0
                       THEN [until |-> d + AssociationWindow - 1, increment |-> effect,
                             action |-> d]
                       ELSE a.response
<1>1. b = [a EXCEPT !.actions = actions, !.response = response]
  BY DEF RecordAction, Arms
<1> HIDE DEF actions, response
<1> QED BY <1>1 DEF Arms

LEMMA PolicyEffect ==
    ASSUME NEW s, NEW d \in Nat, NEW a, ArmSound(s, a, d), NEW approved, NEW name, NEW b,
           b = IF name = "BASELINE" THEN BaselinePolicy(s, a, d)
               ELSE ReconmatePolicy(s, a, d, approved)
    PROVE  /\ b.outstanding = a.outstanding /\ b.promise = a.promise
           /\ b.status = a.status /\ b.payments = a.payments
           /\ name # "BASELINE" /\ b.actions # a.actions => ~Held(View(s, a, d))
<1>0. a \in Arms
  BY DEF ArmSound
<1>1. CASE name = "BASELINE"
  <2> DEFINE disputes == a.disputeContacts + (IF View(s, a, d).disputed THEN 1 ELSE 0)
             promises == a.promiseContacts + (IF "ACTIVE" \in View(s, a, d).promises THEN 1 ELSE 0)
             counted == [a EXCEPT !.disputeContacts = disputes, !.promiseContacts = promises]
             recorded == RecordAction(counted, d, "STANDARD_SCHEDULED_REMINDER", TRUE,
                                      BaselineIncrement)
  <2>1. disputes \in Nat /\ promises \in Nat
    BY <1>0 DEF Arms
  <2>2. b = IF d % BaselineCadence # 0 THEN a ELSE recorded
    BY <1>0, <1>1 DEF BaselinePolicy, Arms
  <2> HIDE DEF disputes, promises
  <2>3. /\ counted \in Arms /\ counted.outstanding = a.outstanding
        /\ counted.promise = a.promise /\ counted.status = a.status
        /\ counted.payments = a.payments
    BY <1>0, <2>1 DEF Arms
  <2> HIDE DEF counted
  <2>4. /\ recorded.outstanding = counted.outstanding /\ recorded.promise = counted.promise
        /\ recorded.status = counted.status /\ recorded.payments = counted.payments
    <3>1. recorded = RecordAction(counted, d, "STANDARD_SCHEDULED_REMINDER", TRUE,
                                  BaselineIncrement)
      OBVIOUS
    <3>2. ASSUME NEW action, NEW completed, NEW effect, NEW y,
                 y = RecordAction(counted, d, action, completed, effect)
          PROVE  /\ y.outstanding = counted.outstanding /\ y.promise = counted.promise
                 /\ y.status = counted.status /\ y.payments = counted.payments
      BY <2>3, <3>2, RecordActionEffect
    <3> HIDE DEF recorded
    <3> QED BY <3>1, <3>2
  <2> HIDE DEF recorded
  <2> QED BY <1>1, <2>2, <2>3, <2>4
<1>2. CASE name # "BASELINE"
  <2> DEFINE view == View(s, a, d)
             action == RecommendedAction(view)
             deferred == \/ a.deferred \/ RecommendationBlockers(view) # {}
                         \/ action \in {"HOLD_FOR_DISPUTE", "MONITOR_ACTIVE_PROMISE"}
             held == [a EXCEPT !.deferred = deferred]
             recorded == RecordAction(a, d, action, ~ApprovalRequired(view) \/ approved,
                                      Increment(action))
  <2>1. b = IF Held(view) THEN held ELSE IF ActedWithin(a, d) THEN a ELSE recorded
    BY <1>0, <1>2 DEF ReconmatePolicy, Arms
  <2>2. /\ recorded.outstanding = a.outstanding /\ recorded.promise = a.promise
        /\ recorded.status = a.status /\ recorded.payments = a.payments
    BY <1>0, RecordActionEffect
  <2> HIDE DEF view, action, deferred, recorded
  <2>3. /\ held.outstanding = a.outstanding /\ held.promise = a.promise
        /\ held.status = a.status /\ held.payments = a.payments
        /\ held.actions = a.actions
    BY <1>0 DEF Arms
  <2> HIDE DEF held
  <2>4. CASE Held(view)
    BY <1>2, <2>1, <2>3, <2>4 DEF view
  <2>5. CASE ~Held(view)
    BY <1>2, <2>1, <2>2, <2>5 DEF view
  <2> QED BY <2>4, <2>5
<1> QED BY <1>1, <1>2

LEMMA SimulatedPaymentEffect ==
    ASSUME NEW s, NEW d \in Nat, NEW a, ArmSound(s, a, d), a.outstanding > 0,
           NEW draw \in Draws, NEW name, NEW b, b = SimulatedPayment(name, a, d, draw)
    PROVE  /\ b.outstanding <= a.outstanding /\ b.promise = a.promise
           /\ b.actions = a.actions
           /\ b.status = "DISPUTED" <=> a.status = "DISPUTED"
           /\ draw.occurrence = 0 /\ a.status # "DISPUTED" => Natural(b) = Natural(a) \cup {d}
           /\ draw.occurrence # 0 \/ a.status = "DISPUTED" => Natural(b) = Natural(a)
<1> DEFINE effect == IF d <= a.response.until THEN a.response.increment ELSE 0
           amount == PaymentAmount(a.outstanding, draw.percent)
           kind == IF name = "RECONMATE" THEN "INTERVENTION_ASSOCIATED"
                   ELSE "STANDARD_COLLECTIONS_ASSOCIATED"
           natural == ApplyPayment(a, d, amount, "NATURAL_SIMULATED_RECOVERY", -1)
           associated == ApplyPayment(a, d, amount, kind, a.response.action)
<1>1. /\ a \in Arms /\ a.outstanding \in Nat /\ a.response.until \in Int
      /\ a.response.increment \in Nat /\ a.response.action \in Int
  <2>1. a.outstanding \in Nat /\ a.response \in [until : Int, increment : Nat, action : Int]
    BY DEF ArmSound, Arms
  <2> QED BY <2>1 DEF ArmSound
<1>2. draw.occurrence \in 0 .. 4 /\ amount \in Int /\ amount > 0 /\ effect \in Nat
  <2>1. draw.occurrence \in 0 .. 4 /\ draw.percent \in Nat
    BY DrawType
  <2>2. amount \in Nat \ {0}
    BY <1>1, <2>1, PaymentAmountType
  <2> QED BY <1>1, <2>1, <2>2
<1>3. b = IF a.status = "DISPUTED" \/ draw.occurrence > effect THEN a
          ELSE IF draw.occurrence = 0 THEN natural ELSE associated
  BY <1>1 DEF SimulatedPayment
<1> HIDE DEF effect, amount
<1>4. /\ natural.outstanding <= a.outstanding /\ natural.promise = a.promise
      /\ natural.actions = a.actions /\ natural.status \in Paying
      /\ Natural(natural) = Natural(a) \cup {d}
  <2>1. "NATURAL_SIMULATED_RECOVERY" \in Associations /\ -1 \in Int
    BY DEF Associations
  <2> QED BY <1>1, <1>2, <2>1, ApplyPaymentEffect
<1>5. /\ associated.outstanding <= a.outstanding /\ associated.promise = a.promise
      /\ associated.actions = a.actions /\ associated.status \in Paying
      /\ Natural(associated) = Natural(a)
  <2>1. kind \in Associations /\ kind # "NATURAL_SIMULATED_RECOVERY"
    BY DEF Associations
  <2>2. ASSUME NEW k \in Associations, k # "NATURAL_SIMULATED_RECOVERY",
               NEW act \in Int, NEW y, y = ApplyPayment(a, d, amount, k, act)
        PROVE  /\ y.outstanding <= a.outstanding /\ y.promise = a.promise
               /\ y.actions = a.actions /\ y.status \in Paying
               /\ Natural(y) = Natural(a)
    <3>1. y.outstanding <= a.outstanding /\ y.promise = a.promise /\ y.actions = a.actions
      <4>1. a \in Arms /\ amount \in Int
        BY <1>1, <1>2
      <4> QED BY <2>2, <4>1, ApplyPaymentEffect
    <3>2. amount > 0 /\ a.outstanding > 0 => y.status \in Paying
      BY <1>1, <1>2, <2>2, ApplyPaymentEffect
    <3>3. amount > 0 /\ a.outstanding > 0 => Natural(y) = Natural(a)
      BY <1>1, <1>2, <2>2, ApplyPaymentEffect
    <3> QED BY <1>2, <3>1, <3>2, <3>3
  <2>3. associated = ApplyPayment(a, d, amount, kind, a.response.action)
    OBVIOUS
  <2> HIDE DEF kind, associated
  <2> QED BY <1>1, <2>1, <2>2, <2>3
<1> HIDE DEF natural, associated
<1>6. CASE a.status = "DISPUTED" \/ draw.occurrence > effect
  BY <1>1, <1>2, <1>3, <1>6
<1>7. CASE ~(a.status = "DISPUTED" \/ draw.occurrence > effect)
  <2>1. "DISPUTED" \notin Paying
    BY DEF Paying
  <2>2. CASE draw.occurrence = 0
    BY <1>3, <1>4, <1>7, <2>1, <2>2
  <2>3. CASE draw.occurrence # 0
    BY <1>3, <1>5, <1>7, <2>1, <2>3
  <2> QED BY <2>2, <2>3
<1> QED BY <1>6, <1>7

\* Both the arm and what the external events left of it have something to pay.
Unpaid(a, d, draw) == a.outstanding > 0 /\ ExternalEvents(a, d, draw).outstanding > 0
PaysNaturally(a, d, draw) ==
    /\ Unpaid(a, d, draw)
    /\ ExternalEvents(a, d, draw).status # "DISPUTED"
    /\ draw.occurrence = 0

LEMMA SimulateDayEffect ==
    ASSUME NEW s \in SourceCases, NEW d \in Nat, NEW a, ArmSound(s, a, d),
           NEW draw \in Draws, NEW name, NEW x, x = ExternalEvents(a, d, draw),
           NEW b, b = SimulateDay(name, s, a, d, draw)
    PROVE  /\ b.outstanding <= a.outstanding
           /\ b.outstanding > 0 => Unpaid(a, d, draw)
           /\ a.outstanding = 0 => b = a
           /\ Unpaid(a, d, draw) =>
                 /\ b.promise = x.promise
                 /\ b.status = "DISPUTED" <=> x.status = "DISPUTED"
           /\ PaysNaturally(a, d, draw) => Natural(b) = Natural(a) \cup {d}
           /\ ~PaysNaturally(a, d, draw) => Natural(b) = Natural(a)
           /\ name # "BASELINE" /\ b.actions # a.actions =>
                 Unpaid(a, d, draw) /\ ~Held(View(s, x, d))
<1> DEFINE acted == IF name = "BASELINE" THEN BaselinePolicy(s, x, d)
                    ELSE ReconmatePolicy(s, x, d, draw.approved)
<1>1. ArmSound(s, x, d) /\ x.outstanding <= a.outstanding /\ x.actions = a.actions
      /\ Natural(x) = Natural(a)
  BY ExternalEventsSound, ExternalEventsEffect
<1>2. a.outstanding \in Nat /\ x.outstanding \in Nat
  BY <1>1 DEF ArmSound, Arms
<1>3. b = IF a.outstanding <= 0 THEN a ELSE IF x.outstanding <= 0 THEN x
          ELSE SimulatedPayment(name, acted, d, draw)
  BY DEF SimulateDay
<1>4. Unpaid(a, d, draw) <=> a.outstanding > 0 /\ x.outstanding > 0
  BY DEF Unpaid
<1>5. PaysNaturally(a, d, draw) <=>
        /\ Unpaid(a, d, draw) /\ x.status # "DISPUTED" /\ draw.occurrence = 0
  BY DEF PaysNaturally
<1>6. draw.approved \in BOOLEAN
  BY DrawType
<1>7. ArmSound(s, acted, d)
  BY <1>1, <1>6, BaselinePolicySound, ReconmatePolicySound
<1>8. /\ acted.outstanding = x.outstanding /\ acted.promise = x.promise
      /\ acted.status = x.status /\ acted.payments = x.payments
      /\ name # "BASELINE" /\ acted.actions # x.actions => ~Held(View(s, x, d))
  BY <1>1, PolicyEffect
<1> HIDE DEF acted
<1>9. Natural(acted) = Natural(x)
  BY <1>8 DEF Natural
<1>10. CASE a.outstanding > 0 /\ x.outstanding > 0
  <2>1. b = SimulatedPayment(name, acted, d, draw) /\ acted.outstanding > 0
    BY <1>2, <1>3, <1>8, <1>10
  <2>2. /\ b.outstanding <= acted.outstanding /\ b.promise = acted.promise
        /\ b.actions = acted.actions
        /\ b.status = "DISPUTED" <=> acted.status = "DISPUTED"
        /\ draw.occurrence = 0 /\ acted.status # "DISPUTED"
              => Natural(b) = Natural(acted) \cup {d}
        /\ draw.occurrence # 0 \/ acted.status = "DISPUTED" => Natural(b) = Natural(acted)
    BY <1>7, <2>1, SimulatedPaymentEffect
  <2>3. b.outstanding <= a.outstanding
    <3>1. b.outstanding \in Nat
      <4>1. ArmSound(s, b, d)
        BY <1>7, <2>1, SimulatedPaymentSound
      <4> QED BY <4>1 DEF ArmSound, Arms
    <3> QED BY <1>1, <1>2, <1>8, <2>2, <3>1
  <2>4. /\ PaysNaturally(a, d, draw) => Natural(b) = Natural(a) \cup {d}
        /\ ~PaysNaturally(a, d, draw) => Natural(b) = Natural(a)
    BY <1>1, <1>4, <1>5, <1>8, <1>9, <1>10, <2>2
  <2> QED BY <1>1, <1>2, <1>4, <1>8, <1>10, <2>2, <2>3, <2>4
<1>11. CASE a.outstanding > 0 /\ x.outstanding <= 0
  BY <1>1, <1>2, <1>3, <1>4, <1>5, <1>11
<1>12. CASE a.outstanding <= 0
  BY <1>2, <1>3, <1>4, <1>5, <1>12
<1> QED BY <1>2, <1>10, <1>11, <1>12

-----------------------------------------------------------------------------
(* The two arms stay in step.                                              *)

AllTwins == \A name, other \in ArmNames : Twins(arm[name], arm[other])

Paired ==
    \A name, other \in ArmNames : \A e \in Natural(arm[name]) :
        \/ e \in Natural(arm[other])
        \/ arm[other].paidDay >= 0 /\ arm[other].paidDay <= e

InStep == ArmsSound /\ AllTwins /\ Paired

LEMMA InStepInit == Init => InStep
<1> SUFFICES ASSUME Init PROVE InStep
  OBVIOUS
<1>1. ArmsSound
  BY SoundInit
<1>2. \A name \in ArmNames : arm[name] = ShadowCase(source)
  BY DEF Init
<1>3. AllTwins
  BY <1>2 DEF AllTwins, Twins
<1>4. Natural(ShadowCase(source)) = {}
  <2>1. ShadowCase(source).payments = <<>> /\ Len(<<>>) = 0
    BY DEF ShadowCase
  <2> QED BY <2>1 DEF Natural
<1>5. Paired
  BY <1>2, <1>4 DEF Paired
<1> QED BY <1>1, <1>3, <1>5 DEF InStep

LEMMA InStepNext == InStep /\ [Next]_vars => InStep'
<1> SUFFICES ASSUME InStep, [Next]_vars PROVE InStep'
  OBVIOUS
<1>0. ArmsSound /\ AllTwins /\ Paired /\ ArmsSound'
  BY SoundNext DEF InStep
<1>1. CASE NextDay
  <2>1. PICK draw \in Draws :
          arm' = [name \in ArmNames |-> SimulateDay(name, source, arm[name], day, draw)]
    BY <1>1 DEF NextDay
  <2>2. day \in Nat /\ source \in SourceCases /\ \A name \in ArmNames : ArmSound(source, arm[name], day)
    BY <1>0 DEF ArmsSound
  <2>3. ASSUME NEW name \in ArmNames PROVE arm'[name] = SimulateDay(name, source, arm[name], day, draw)
    BY <2>1, <2>3
  <2> DEFINE x(name) == ExternalEvents(arm[name], day, draw)
  <2>4. ASSUME NEW name \in ArmNames
        PROVE  /\ arm'[name].outstanding > 0 => Unpaid(arm[name], day, draw)
               /\ arm[name].outstanding = 0 => arm'[name] = arm[name]
               /\ Unpaid(arm[name], day, draw) =>
                     /\ arm'[name].promise = x(name).promise
                     /\ arm'[name].status = "DISPUTED" <=> x(name).status = "DISPUTED"
               /\ PaysNaturally(arm[name], day, draw)
                     => Natural(arm'[name]) = Natural(arm[name]) \cup {day}
               /\ ~PaysNaturally(arm[name], day, draw)
                     => Natural(arm'[name]) = Natural(arm[name])
    BY <2>2, <2>3, <2>4, SimulateDayEffect
  <2>5. ASSUME NEW name \in ArmNames, NEW other \in ArmNames PROVE Twins(x(name), x(other))
    BY <1>0, <2>2, <2>5, ExternalEventsTwins DEF AllTwins
  <2>6. \A name \in ArmNames : Unpaid(arm[name], day, draw) <=>
            arm[name].outstanding > 0 /\ x(name).outstanding > 0
    BY DEF Unpaid
  <2>7. \A name \in ArmNames : PaysNaturally(arm[name], day, draw) <=>
            Unpaid(arm[name], day, draw) /\ x(name).status # "DISPUTED" /\ draw.occurrence = 0
    BY DEF PaysNaturally
  <2> HIDE DEF x
  <2>8. ASSUME NEW name \in ArmNames, NEW other \in ArmNames PROVE Twins(arm'[name], arm'[other])
    BY <2>4, <2>5, <2>6, <2>8 DEF Twins
  <2>9. ASSUME NEW name \in ArmNames, NEW other \in ArmNames, NEW e \in Natural(arm'[name])
        PROVE  \/ e \in Natural(arm'[other])
               \/ arm'[other].paidDay >= 0 /\ arm'[other].paidDay <= e
    <3>1. /\ arm[other].outstanding \in Nat
          /\ arm[other].paidDay >= 0 <=> arm[other].outstanding = 0
          /\ arm[other].paidDay <= day
      BY <2>2 DEF ArmSound, Arms, MoneySound
    <3>2. CASE e \in Natural(arm[name])
      <4>1. CASE e \in Natural(arm[other])
        BY <2>4, <4>1
      <4>2. CASE arm[other].paidDay >= 0 /\ arm[other].paidDay <= e
        <5>1. arm'[other] = arm[other]
          BY <2>4, <3>1, <4>2
        <5> QED BY <4>2, <5>1
      <4>3. e \in Natural(arm[other]) \/ (arm[other].paidDay >= 0 /\ arm[other].paidDay <= e)
        BY <1>0, <3>2 DEF Paired
      <4> QED BY <4>1, <4>2, <4>3
    <3>3. CASE e \notin Natural(arm[name])
      <4>1. PaysNaturally(arm[name], day, draw) /\ e = day
        BY <2>4, <2>9, <3>3
      <4>2. CASE arm[other].outstanding = 0
        BY <2>4, <3>1, <4>1, <4>2
      <4>3. CASE arm[other].outstanding > 0 /\ ~(x(other).outstanding > 0)
        <5>1. ~(arm'[other].outstanding > 0)
          BY <2>4, <2>6, <4>3
        <5>2. ArmSound(source, arm'[other], day)
          BY <2>2, <2>3, SimulateDaySound
        <5>3. arm'[other].outstanding = 0
          BY <5>1, <5>2 DEF ArmSound, Arms
        <5>4. arm'[other].paidDay >= 0 /\ arm'[other].paidDay <= day
          BY <5>2, <5>3 DEF ArmSound, MoneySound
        <5> QED BY <4>1, <5>4
      <4>4. CASE arm[other].outstanding > 0 /\ x(other).outstanding > 0
        <5>1. Unpaid(arm[other], day, draw) /\ x(name).outstanding > 0
              /\ x(name).status # "DISPUTED" /\ draw.occurrence = 0
          BY <2>6, <2>7, <4>1, <4>4
        <5>2. x(other).status # "DISPUTED"
          BY <2>5, <4>4, <5>1 DEF Twins
        <5>3. PaysNaturally(arm[other], day, draw)
          BY <2>7, <5>1, <5>2
        <5> QED BY <2>4, <4>1, <5>3
      <4> QED BY <3>1, <4>2, <4>3, <4>4
    <3> QED BY <3>2, <3>3
  <2> QED BY <1>0, <2>8, <2>9 DEF InStep, AllTwins, Paired
<1>2. CASE UNCHANGED vars
  BY <1>0, <1>2 DEF vars, InStep, AllTwins, Paired
<1> QED BY <1>1, <1>2 DEF Next

LEMMA InStepAlways == Spec => []InStep
  BY InStepInit, InStepNext, PTL DEF Spec

(* Until one of the arms is paid off, the same promises and disputes are    *)
(* open in both: the comparison of the report is between two policies in    *)
(* one world, although each arm keeps a copy of the world of its own.       *)
THEOREM OneWorld == Spec => []SameWorld
<1>1. InStep => SameWorld
  <2> SUFFICES ASSUME InStep, \A name \in ArmNames : arm[name].outstanding > 0
               PROVE  /\ [p \in Promises |-> arm["BASELINE"].promise[p].status] =
                         [p \in Promises |-> arm["RECONMATE"].promise[p].status]
                      /\ (arm["BASELINE"].status = "DISPUTED") =
                         (arm["RECONMATE"].status = "DISPUTED")
    BY DEF SameWorld
  <2>1. "BASELINE" \in ArmNames /\ "RECONMATE" \in ArmNames
    BY DEF ArmNames
  <2>2. /\ \A p \in Promises :
              arm["BASELINE"].promise[p].status = arm["RECONMATE"].promise[p].status
        /\ arm["BASELINE"].status = "DISPUTED" <=> arm["RECONMATE"].status = "DISPUTED"
    BY <2>1 DEF InStep, AllTwins, Twins
  <2> QED BY <2>2
<1> QED BY <1>1, InStepAlways, PTL

(* A payment that needs no response happens in both arms on the same day,   *)
(* unless the other one had nothing left to pay: neither policy gets credit *)
(* or blame for what the customer would have paid anyway.                   *)
THEOREM NaturalPaymentsPair == Spec => []NaturalPaymentsArePaired
<1>1. InStep => NaturalPaymentsArePaired
  BY DEF InStep, Paired, Natural, NaturalPaymentsArePaired
<1> QED BY <1>1, InStepAlways, PTL

(* The recovery policy leaves an invoice alone that is disputed or has an   *)
(* open promise: by the time it looks, no open promise is overdue, so that  *)
(* what it takes for an active promise is one.                              *)
LEMMA HeldWhileOpen ==
    ASSUME NEW s \in SourceCases, NEW d \in Nat, NEW a, ArmSound(s, a, d),
           \A p \in Promises : ~Due(s, a, p, d), ~Held(View(s, a, d))
    PROVE  /\ a.status # "DISPUTED"
           /\ \A p \in Promises : a.promise[p].status # "ACTIVE"
<1> DEFINE view == View(s, a, d)
<1>1. EligibilityBlockers(view) = {}
  BY DEF Held, RecommendationBlockers
<1>2. view.disputed <=> a.status = "DISPUTED"
  BY DEF View
<1>3. view.promises = {PromiseState(a.promise[p].status, 0, a.promise[p].amount,
                                    a.promise[p].date, d) :
                          p \in {q \in Promises : a.promise[q].status # "NONE"}}
  BY DEF View
<1> HIDE DEF view
<1>4. ~view.disputed /\ "ACTIVE" \notin view.promises
  <2>1. "ACTIVE_DISPUTE" \notin EligibilityBlockers(view)
        /\ "ACTIVE_PAYMENT_PROMISE" \notin EligibilityBlockers(view)
    BY <1>1
  <2> QED BY <2>1 DEF EligibilityBlockers
<1>5. ASSUME NEW p \in Promises, a.promise[p].status = "ACTIVE" PROVE FALSE
  <2>1. a.promise[p].amount \in Nat /\ a.promise[p].amount > 0 /\ a.promise[p].date \in Int
    BY DEF ArmSound, Arms, ShadowPromises
  <2>2. ~(a.promise[p].date < d)
    BY <1>5 DEF Due, ArmSound, PromisesOf
  <2>3. PromiseState(a.promise[p].status, 0, a.promise[p].amount, a.promise[p].date, d) = "ACTIVE"
    BY <1>5, <2>1, <2>2 DEF PromiseState
  <2> QED BY <1>3, <1>4, <1>5, <2>3
<1> QED BY <1>2, <1>4, <1>5

(* The ReconMate arm takes no action on a case while its shadow is          *)
(* disputed or has a promise that can still be kept.                        *)
THEOREM HoldsHold == Spec => HoldsAreKept
<1> DEFINE Hold == arm["RECONMATE"].actions # arm'["RECONMATE"].actions =>
               /\ arm'["RECONMATE"].status # "DISPUTED"
               /\ \A p \in Promises : arm'["RECONMATE"].promise[p].status # "ACTIVE"
           a == arm["RECONMATE"]
           b == arm'["RECONMATE"]
<1>1. ArmsSound /\ [Next]_vars => [Hold]_vars
  <2> SUFFICES ASSUME ArmsSound, NextDay, b.actions # a.actions
               PROVE  /\ b.status # "DISPUTED"
                      /\ \A p \in Promises : b.promise[p].status # "ACTIVE"
    BY DEF Next
  <2>1. PICK draw \in Draws :
          arm' = [name \in ArmNames |-> SimulateDay(name, source, arm[name], day, draw)]
    BY DEF NextDay
  <2>2. day \in Nat /\ source \in SourceCases /\ ArmSound(source, a, day)
    BY DEF ArmsSound, ArmNames
  <2>3. b = SimulateDay("RECONMATE", source, a, day, draw)
    BY <2>1 DEF ArmNames
  <2> DEFINE x == ExternalEvents(a, day, draw)
  <2>4. x = ExternalEvents(a, day, draw)
    OBVIOUS
  <2> HIDE DEF a, b, x
  <2>5. Unpaid(a, day, draw) /\ ~Held(View(source, x, day))
    BY <2>2, <2>3, <2>4, SimulateDayEffect
  <2>6. b.promise = x.promise /\ (b.status = "DISPUTED" <=> x.status = "DISPUTED")
    BY <2>2, <2>3, <2>4, <2>5, SimulateDayEffect
  <2>7. ArmSound(source, x, day) /\ \A p \in Promises : ~Due(source, x, p, day)
    BY <2>2, <2>4, ExternalEventsSound, ExternalEventsEffect
  <2> QED BY <2>2, <2>5, <2>6, <2>7, HeldWhileOpen
<1>2. Spec => [][Hold]_vars
  BY <1>1, SoundAlways, PTL DEF Spec
<1> QED BY <1>2 DEF HoldsAreKept
=============================================================================
