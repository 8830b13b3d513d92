-------------------------- MODULE CycleReportProofs --------------------------
(***************************************************************************)
(* Proofs about CycleReport: what the reports, the operational             *)
(* intelligence, the plans and the reminders say of the committed facts,   *)
(* for any portfolio of one customer, any thresholds and any cycles.       *)
(* CycleReport does nothing to the facts that RecoverySystem does not, so  *)
(* that the invariants proved there hold here; what is added is what they  *)
(* do not say of promises, of the days of payments and of closed cases.    *)
(***************************************************************************)
EXTENDS CycleReport, RecoverySystemProofs, SequenceTheorems

-----------------------------------------------------------------------------
(* The system of the reports is the recovery system, read between cycles.  *)

LEMMA ReportSteps == [ReportNext]_reportVars => [Next]_vars
  BY DEF ReportNext, WorkOnCycle, CommitCycle, ResetReport, SynchronizeCases, Next,
         RunTick, reportVars

(* With the reports and the advice read between them, and the transitions  *)
(* recorded at their end, cycles do nothing else to the facts: every       *)
(* property proved of the recovery system holds of this one as well.       *)
THEOREM ReportsOnlyRead == ReportSpec => Spec
<1>1. ReportInit => Init
  BY DEF ReportInit
<1> QED BY <1>1, ReportSteps, PTL DEF ReportSpec, Spec

-----------------------------------------------------------------------------
(* Plans.                                                                  *)

LEMMA PreparingAsksActionable ==
    ASSUME NEW query \in PreparingQueries
    PROVE  "actionable" \in DOMAIN query /\ query["actionable"] = {TRUE}
<1> DEFINE q == [risk_level |-> {"MEDIUM", "HIGH", "CRITICAL"}]
           a == [actionable |-> {TRUE}]
           b == [broken_promise |-> {TRUE}, actionable |-> {TRUE}]
           c == [risk_level |-> {"CRITICAL"}]
<1>1. query = Over(b, <<>>) \/ query = Over(Over(a, q), c)
  BY DEF PreparingQueries, FollowUpQuery, RecoveryQuery
<1>2. /\ "actionable" \in DOMAIN a /\ a["actionable"] = {TRUE}
      /\ "actionable" \in DOMAIN b /\ b["actionable"] = {TRUE}
  OBVIOUS
<1> DEFINE r == Over(b, <<>>)
           s == Over(a, q)
           t == Over(s, c)
<1> HIDE DEF a, b, c, q
<1>3. "actionable" \in DOMAIN r /\ r["actionable"] = {TRUE}
  BY <1>2 DEF Over
<1>4. "actionable" \in DOMAIN s /\ s["actionable"] = {TRUE}
  BY <1>2 DEF Over
<1> HIDE DEF r, s
<1>5. "actionable" \in DOMAIN t /\ t["actionable"] = {TRUE}
  BY <1>4 DEF Over
<1> QED BY <1>1, <1>3, <1>5 DEF r, s

LEMMA MatchedPass ==
    ASSUME NEW context, NEW query, NEW e \in Matched(context, query),
           "actionable" \in DOMAIN query
    PROVE  e \in DOMAIN context /\ context[e]["actionable"] \in query["actionable"]
<1>1. Len(FilterOrder) = 16 /\ FilterOrder[9] = "actionable"
  BY DEF FilterOrder
<1>2. 9 \in 1 .. 16
  OBVIOUS
<1> QED BY <1>1, <1>2 DEF Matched, Kept

LEMMA ContextActionable ==
    ASSUME NEW f, NEW intelligence, NEW l, NEW view, NEW i \in Cases(f)
    PROVE  CaseContexts(f, intelligence, l, view)[i]["actionable"] = Actionable(view[i])
<1> DEFINE a == IntelligenceContext(f, intelligence)
           b == [latest_cycle |-> l.touched,
                 blocked |-> RecommendationBlockers(view[i]) # {},
                 monitoring |-> RecommendedAction(view[i]) = "MONITOR_ACTIVE_PROMISE",
                 actionable |-> Actionable(view[i]),
                 decision_changed |-> i \in l.changed,
                 decision_held |-> i \in l.held]
<1>1. CaseContexts(f, intelligence, l, view)[i] = Over(a, b)
  BY DEF CaseContexts
<1>2. "actionable" \notin DOMAIN a
  BY DEF IntelligenceContext
<1>3. "actionable" \in DOMAIN b /\ b["actionable"] = Actionable(view[i])
  OBVIOUS
<1> HIDE DEF a, b
<1> QED BY <1>1, <1>2, <1>3 DEF Over

(* A case that a preparing command matches is one whose action the         *)
(* workflow takes: nothing blocks it, and something is to be done.         *)
LEMMA MatchedIsActionable ==
    ASSUME NEW f, NEW intelligence, NEW l, NEW view, NEW query \in PreparingQueries,
           NEW i \in Matched(CaseContexts(f, intelligence, l, view), query)
    PROVE  i \in Cases(f) /\ Actionable(view[i])
<1> DEFINE context == CaseContexts(f, intelligence, l, view)
<1>1. DOMAIN context = Cases(f)
  BY DEF CaseContexts
<1> HIDE DEF context
<1>2. i \in Cases(f) /\ context[i]["actionable"] \in {TRUE}
  BY <1>1, PreparingAsksActionable, MatchedPass DEF context
<1>3. context[i]["actionable"] = Actionable(view[i])
  BY <1>2, ContextActionable DEF context
<1>4. Actionable(view[i]) = TRUE
  BY <1>2, <1>3
<1> QED BY <1>2, <1>4

LEMMA ActionableMeans ==
    ASSUME NEW v, Actionable(v)
    PROVE  /\ Proposal(v, TRUE).confirm
           /\ ~v.disputed /\ v.invoice \notin {"SCHEDULED", "PAID"}
           /\ "ACTIVE" \notin v.promises
           /\ RecommendedAction(v) \in OutreachActions => CommunicationPermitted(v)
<1>1. EligibilityBlockers(v) = {} /\ RecommendedAction(v) \notin NotActionable
  BY DEF Actionable, RecommendationBlockers
<1>2. Proposal(v, TRUE).confirm
  BY <1>1 DEF Proposal, NotActionable
<1>3. /\ "ACTIVE_DISPUTE" \notin EligibilityBlockers(v)
      /\ "INVOICE_SCHEDULED" \notin EligibilityBlockers(v)
      /\ "INVOICE_PAID" \notin EligibilityBlockers(v)
      /\ "ACTIVE_PAYMENT_PROMISE" \notin EligibilityBlockers(v)
  BY <1>1
<1>4. ~v.disputed
  BY <1>3 DEF EligibilityBlockers
<1>5. v.invoice \notin {"SCHEDULED", "PAID"}
  BY <1>3 DEF EligibilityBlockers
<1>6. "ACTIVE" \notin v.promises
  BY <1>3 DEF EligibilityBlockers
<1>7. RecommendedAction(v) \in OutreachActions => CommunicationPermitted(v)
  BY DEF Actionable, RecommendationBlockers, CommunicationPermitted
<1> QED BY <1>2, <1>4, <1>5, <1>6, <1>7

LEMMA ViewOf ==
    ASSUME NEW view \in ViewChoices, NEW i \in Cases(db)
    PROVE  /\ view[i].disputed <=> db.status[i] = "DISPUTED"
           /\ view[i].invoice = InvoiceStateOf(db, i)
           /\ view[i].state = db.case[i]
           /\ view[i].promises = {PromiseStateOf(db, p) : p \in PromisesOn(db, i)}
<1>1. PICK claim \in BOOLEAN, delay \in BOOLEAN, consent \in ConsentStatuses :
        view = [j \in Cases(db) |-> [CaseView(db, j, claim, delay) EXCEPT !.consent = consent]]
  BY DEF ViewChoices
<1>2. view[i] = [CaseView(db, i, claim, delay) EXCEPT !.consent = consent]
  BY <1>1
<1> QED BY <1>2 DEF CaseView

(* Whatever the accepted signals and the consent, a preparing command      *)
(* proposes nothing for a settled or disputed invoice or one with a        *)
(* running promise, no outreach that may not be sent, and nothing that the *)
(* workflow would refuse.                                                  *)
THEOREM PlansAreCreatable == ReportSpec => []ProposalsAreCreatable
<1>1. TypeOK => ProposalsAreCreatable
  <2> SUFFICES ASSUME TypeOK, BetweenCycles, NEW intelligence \in {Current},
                      NEW view \in ViewChoices, NEW query \in PreparingQueries,
                      NEW i \in Matched(CaseContexts(db, intelligence, latest, view), query)
               PROVE  /\ ExecutionMode({Proposal(view[i], TRUE)}, TRUE) = "CONFIRMATION_REQUIRED"
                      /\ db.outstanding[i] > 0
                      /\ db.status[i] # "DISPUTED"
                      /\ \A p \in PromisesOn(db, i) : PromiseStateOf(db, p) # "ACTIVE"
                      /\ RecommendedAction(view[i]) \in OutreachActions
                            => CommunicationPermitted(view[i])
    BY DEF ProposalsAreCreatable
  <2> DEFINE v == view[i]
  <2>1. i \in Cases(db) /\ Actionable(v)
    BY MatchedIsActionable
  <2>2. /\ Proposal(v, TRUE).confirm
        /\ ~v.disputed /\ v.invoice \notin {"SCHEDULED", "PAID"}
        /\ "ACTIVE" \notin v.promises
        /\ RecommendedAction(v) \in OutreachActions => CommunicationPermitted(v)
    <3> HIDE DEF v
    <3> QED BY <2>1, ActionableMeans
  <2>3. ExecutionMode({Proposal(v, TRUE)}, TRUE) = "CONFIRMATION_REQUIRED"
    BY <2>2 DEF ExecutionMode
  <2>4. db.status[i] # "DISPUTED" /\ InvoiceStateOf(db, i) \notin {"SCHEDULED", "PAID"}
    BY <2>1, <2>2, ViewOf
  <2>5. \A p \in PromisesOn(db, i) : PromiseStateOf(db, p) # "ACTIVE"
    BY <2>1, <2>2, ViewOf
  <2>6. db.outstanding[i] \in Nat /\ db.outstanding[i] # 0
    BY <2>1, <2>4 DEF TypeOK, Facts, Cases, InvoiceStateOf, InvoiceState
  <2>7. db.outstanding[i] > 0
    BY <2>6
  <2>8. RecommendedAction(v) \in OutreachActions => CommunicationPermitted(v)
    BY <2>2
  <2> QED BY <2>3, <2>4, <2>5, <2>7, <2>8
<1> QED BY <1>1, ReportsOnlyRead, TypeCorrect, PTL
(* Counting what the filters remove.                                       *)

LEMMA NextInterval ==
    ASSUME NEW m \in Nat
    PROVE  /\ 1 .. m + 1 = (1 .. m) \cup {m + 1} /\ m + 1 \notin 1 .. m
           /\ IsFiniteSet(1 .. m)
<1>1. /\ 1 .. m + 1 = (1 .. m) \cup {m + 1} /\ m + 1 \notin 1 .. m
  OBVIOUS
<1>2. 1 \in Int /\ m \in Int
  OBVIOUS
<1>3. IsFiniteSet(1 .. m)
  BY <1>2, FS_Interval
<1> QED BY <1>1, <1>3

LEMMA Telescope ==
    ASSUME NEW n \in Nat, NEW kept, NEW removed, IsFiniteSet(kept[0]),
           \A k \in 1 .. n : /\ kept[k] \subseteq kept[k - 1]
                             /\ removed[k] = Cardinality(kept[k - 1] \ kept[k])
    PROVE  /\ IsFiniteSet(kept[n])
           /\ SumFunctionOnSet(removed, 1 .. n) = Cardinality(kept[0]) - Cardinality(kept[n])
<1> DEFINE P == {m \in 0 .. n :
                  /\ IsFiniteSet(kept[m])
                  /\ \A k \in 1 .. m : removed[k] \in Int
                  /\ SumFunctionOnSet(removed, 1 .. m)
                        = Cardinality(kept[0]) - Cardinality(kept[m])}
<1>1. 0 \in P
  <2>1. 1 .. 0 = {} /\ Cardinality(kept[0]) \in Nat
    BY FS_CardinalityType
  <2> QED BY <2>1, SumEmpty
<1>2. ASSUME NEW m \in 0 .. n - 1, m \in P PROVE m + 1 \in P
  <2> DEFINE A == kept[m]
             B == kept[m + 1]
  <2>1. m + 1 \in 1 .. n /\ (m + 1) - 1 = m /\ m \in Nat
    OBVIOUS
  <2>2. B \subseteq A /\ removed[m + 1] = Cardinality(A \ B) /\ IsFiniteSet(A)
    BY <1>2, <2>1
  <2>3. /\ IsFiniteSet(B) /\ Cardinality(A \ B) = Cardinality(A) - Cardinality(B)
        /\ Cardinality(A) \in Nat /\ Cardinality(B) \in Nat
    <3> HIDE DEF A, B
    <3>1. IsFiniteSet(B) /\ IsFiniteSet(A \ B)
      BY <2>2, FS_Subset
    <3>2. Cardinality(A) \in Nat /\ Cardinality(B) \in Nat
      BY <2>2, <3>1, FS_CardinalityType
    <3>3. Cardinality(A \ B) = Cardinality(A) - Cardinality(A \cap B)
      BY <2>2, FS_Difference
    <3>4. A \cap B = B
      BY <2>2
    <3> QED BY <3>1, <3>2, <3>3, <3>4
  <2>4. removed[m + 1] \in Int /\ \A k \in 1 .. m : removed[k] \in Int
    BY <1>2, <2>2, <2>3
  <2>5. /\ 1 .. m + 1 = (1 .. m) \cup {m + 1} /\ m + 1 \notin 1 .. m
        /\ IsFiniteSet(1 .. m)
    BY <2>1, NextInterval
  <2>6. SumFunctionOnSet(removed, 1 .. m + 1)
          = removed[m + 1] + SumFunctionOnSet(removed, 1 .. m)
    <3>1. \A x \in (1 .. m) \cup {m + 1} : removed[x] \in Int
      BY <2>4
    <3> QED BY <2>5, <3>1, SumAdd
  <2>7. SumFunctionOnSet(removed, 1 .. m) = Cardinality(kept[0]) - Cardinality(A)
    BY <1>2
  <2>8. Cardinality(kept[0]) \in Nat
    BY FS_CardinalityType
  <2>9. SumFunctionOnSet(removed, 1 .. m + 1) = Cardinality(kept[0]) - Cardinality(B)
    BY <2>2, <2>3, <2>6, <2>7, <2>8
  <2>10. \A k \in 1 .. m + 1 : removed[k] \in Int
    BY <2>4, <2>5
  <2> QED BY <2>1, <2>3, <2>9, <2>10
<1> HIDE DEF P
<1>3. n \in P
  BY <1>1, <1>2, IntervalInduction
<1> QED BY <1>3 DEF P

LEMMA FiltersRemove ==
    ASSUME NEW context, IsFiniteSet(DOMAIN context), NEW query
    PROVE  LET ex == Exclusions(context, query)
               M == Matched(context, query)
           IN /\ M \subseteq DOMAIN context /\ IsFiniteSet(M)
              /\ ex \in Seq(Nat) /\ Len(ex) = 16
              /\ SumFunctionOnSet(ex, 1 .. 16)
                    = Cardinality(DOMAIN context) - Cardinality(M)
<1> DEFINE kept == [n \in 0 .. 16 |-> Kept(context, query, n)]
           ex == Exclusions(context, query)
<1>1. Len(FilterOrder) = 16
  BY DEF FilterOrder
<1>2. ex = [k \in 1 .. 16 |->
             Cardinality(Kept(context, query, k - 1) \ Kept(context, query, k))]
  BY <1>1 DEF Exclusions
<1>3. kept[0] = DOMAIN context /\ kept[16] = Matched(context, query)
  <2>1. 1 .. 0 = {}
    OBVIOUS
  <2>2. Kept(context, query, 0) = DOMAIN context
    BY <2>1 DEF Kept
  <2> QED BY <1>1, <2>2 DEF Matched
<1>4. \A k \in 1 .. 16 : kept[k] = Kept(context, query, k)
                        /\ kept[k - 1] = Kept(context, query, k - 1)
  OBVIOUS
<1>5. ASSUME NEW k \in 1 .. 16 PROVE Kept(context, query, k) \subseteq Kept(context, query, k - 1)
  <2>1. 1 .. k - 1 \subseteq 1 .. k
    OBVIOUS
  <2> QED BY <2>1 DEF Kept
<1> HIDE DEF kept, ex
<1>6. \A k \in 1 .. 16 : /\ kept[k] \subseteq kept[k - 1]
                         /\ ex[k] = Cardinality(kept[k - 1] \ kept[k])
  BY <1>2, <1>4, <1>5
<1>7. /\ IsFiniteSet(kept[16])
      /\ SumFunctionOnSet(ex, 1 .. 16) = Cardinality(kept[0]) - Cardinality(kept[16])
  <2>1. IsFiniteSet(kept[0])
    BY <1>3
  <2>2. ASSUME NEW n \in Nat, n = 16
        PROVE  /\ IsFiniteSet(kept[n])
               /\ SumFunctionOnSet(ex, 1 .. n) = Cardinality(kept[0]) - Cardinality(kept[n])
    <3>1. \A k \in 1 .. n : /\ kept[k] \subseteq kept[k - 1]
                            /\ ex[k] = Cardinality(kept[k - 1] \ kept[k])
      BY <1>6, <2>2
    <3> QED BY <2>1, <3>1, Telescope
  <2> QED BY <2>2
<1>8. ASSUME NEW k \in 1 .. 16 PROVE ex[k] \in Nat
  <2>1. /\ Kept(context, query, k - 1) \ Kept(context, query, k) \subseteq DOMAIN context
    BY DEF Kept
  <2>2. IsFiniteSet(Kept(context, query, k - 1) \ Kept(context, query, k))
    BY <2>1, FS_Subset
  <2> QED BY <1>2, <2>2, FS_CardinalityType
<1>9. ex \in [1 .. 16 -> Nat]
  BY <1>2, <1>8
<1>10. ex \in Seq(Nat) /\ Len(ex) = 16
  <2>1. ASSUME NEW n \in Nat, n = 16 PROVE ex \in Seq(Nat) /\ Len(ex) = n
    <3>1. ex \in [1 .. n -> Nat]
      BY <1>9, <2>1
    <3> QED BY <3>1
  <2> QED BY <2>1
<1>11. Matched(context, query) \subseteq DOMAIN context
  BY DEF Matched, Kept
<1> QED BY <1>3, <1>7, <1>10, <1>11 DEF ex

LEMMA SumAppend ==
    ASSUME NEW s \in Seq(Nat), NEW x \in Nat
    PROVE  SumFunction(Append(s, x)) = SumFunctionOnSet(s, 1 .. Len(s)) + x
<1> DEFINE t == Append(s, x)
           n == Len(s)
<1>1. /\ n \in Nat /\ t \in Seq(Nat) /\ DOMAIN t = 1 .. n + 1 /\ t[n + 1] = x
      /\ \A k \in 1 .. n : t[k] = s[k] /\ s[k] \in Nat
  OBVIOUS
<1> HIDE DEF t, n
<1>2. /\ 1 .. n + 1 = (1 .. n) \cup {n + 1} /\ n + 1 \notin 1 .. n
      /\ IsFiniteSet(1 .. n)
  BY <1>1, NextInterval
<1>3. SumFunctionOnSet(t, 1 .. n) = SumFunctionOnSet(s, 1 .. n)
  BY <1>1, <1>2, SumSame
<1>4. SumFunctionOnSet(t, (1 .. n) \cup {n + 1}) = t[n + 1] + SumFunctionOnSet(t, 1 .. n)
  <2>1. \A k \in (1 .. n) \cup {n + 1} : t[k] \in Int
    BY <1>1
  <2> QED BY <1>2, <2>1, SumAdd
<1>5. SumFunctionOnSet(s, 1 .. n) \in Int
  <2>1. \A k \in 1 .. n : s[k] \in Int
    BY <1>1
  <2> QED BY <1>2, <2>1, SumInt
<1>6. SumFunction(t) = SumFunctionOnSet(t, 1 .. n + 1)
  BY <1>1 DEF SumFunction
<1>7. SumFunction(t) = SumFunctionOnSet(t, (1 .. n) \cup {n + 1})
  BY <1>2, <1>6
<1>8. SumFunction(t) = x + SumFunctionOnSet(s, 1 .. n)
  BY <1>1, <1>3, <1>4, <1>7
<1>9. SumFunction(t) = SumFunctionOnSet(s, 1 .. n) + x
  BY <1>5, <1>8
<1> QED BY <1>9 DEF t, n

LEMMA CasesFinite == ASSUME NEW f PROVE IsFiniteSet(Cases(f))
  BY FS_Subset, PortfolioConstants DEF PortfolioConstants, Cases

LEMMA ContextDomain ==
    ASSUME NEW f, NEW intelligence, NEW l, NEW view
    PROVE  DOMAIN CaseContexts(f, intelligence, l, view) = Cases(f)
  BY DEF CaseContexts

LEMMA EvidenceAdds ==
    ASSUME NEW context, IsFiniteSet(DOMAIN context), NEW query, NEW limit \in Nat,
           NEW view, NEW rows, NEW chosen \in Chosen(context, query, limit, view, rows)
    PROVE  LET evidence == Evidence(context, query, chosen, view, rows) IN
           /\ evidence.returned = Smallest(limit, evidence.matched)
           /\ evidence.excluded = SumFunction(evidence.exclusions)
           /\ \A i \in chosen : ~HasWorkInProgress(i, view, rows)
<1> DEFINE M == Matched(context, query)
           ex == Exclusions(context, query)
           D == {i \in M : HasWorkInProgress(i, view, rows)}
           A == {i \in M : ~HasWorkInProgress(i, view, rows)}
           evidence == Evidence(context, query, chosen, view, rows)
           all == Cardinality(DOMAIN context)
<1>1. /\ M \subseteq DOMAIN context /\ IsFiniteSet(M)
      /\ ex \in Seq(Nat) /\ Len(ex) = 16
      /\ SumFunctionOnSet(ex, 1 .. 16) = all - Cardinality(M)
  BY FiltersRemove
<1>2. chosen \subseteq A /\ Cardinality(chosen) = Smallest(limit, Cardinality(A))
  BY DEF Chosen
<1>3. /\ evidence.matched = Cardinality(M) - Cardinality(D)
      /\ evidence.excluded = all - (Cardinality(M) - Cardinality(D))
      /\ evidence.returned = Cardinality(chosen)
      /\ evidence.exclusions = Append(ex, Cardinality(D))
  BY DEF Evidence
<1>4. A = M \ D /\ D \subseteq M /\ M \cap D = D
  OBVIOUS
<1>5. \A i \in A : ~HasWorkInProgress(i, view, rows)
  OBVIOUS
<1> HIDE DEF M, ex, D, A, evidence, all
<1>6. /\ Cardinality(A) = Cardinality(M) - Cardinality(D)
      /\ Cardinality(D) \in Nat /\ Cardinality(M) \in Nat
  <2>1. IsFiniteSet(D)
    BY <1>1, <1>4, FS_Subset
  <2>2. Cardinality(M \ D) = Cardinality(M) - Cardinality(M \cap D)
    BY <1>1, FS_Difference
  <2> QED BY <1>1, <1>4, <2>1, <2>2, FS_CardinalityType
<1>7. evidence.returned = Smallest(limit, evidence.matched)
  BY <1>2, <1>3, <1>6
<1>8. SumFunction(Append(ex, Cardinality(D))) = SumFunctionOnSet(ex, 1 .. 16) + Cardinality(D)
  BY <1>1, <1>6, SumAppend
<1>9. all \in Nat
  BY FS_CardinalityType DEF all
<1>10. evidence.excluded = SumFunction(evidence.exclusions)
  BY <1>1, <1>3, <1>6, <1>8, <1>9
<1>11. \A i \in chosen : ~HasWorkInProgress(i, view, rows)
  BY <1>2, <1>5
<1> QED BY <1>7, <1>10, <1>11 DEF evidence

(* A plan that prepares work returns as many of the cases it matched as    *)
(* its limit allows, none with work in progress, and accounts for every    *)
(* other case it inspected: what the filters and the duplicates removed    *)
(* adds up to the number it says it excluded.                              *)
THEOREM PlansAddUp == ReportSpec => []PlansAccountForEveryCase
<1>1. PlansAccountForEveryCase
  <2> SUFFICES ASSUME NEW context \in {CaseContexts(db, Current, latest, FactViews)},
                      NEW query \in PreparingQueries, NEW limit \in ResultLimits,
                      NEW rows \in RowChoices,
                      NEW chosen \in Chosen(context, query, limit, FactViews, rows),
                      NEW evidence \in {Evidence(context, query, chosen, FactViews, rows)}
               PROVE  /\ evidence.returned = Smallest(limit, evidence.matched)
                      /\ evidence.excluded = SumFunction(evidence.exclusions)
                      /\ \A i \in chosen : ~HasWorkInProgress(i, FactViews, rows)
    BY DEF PlansAccountForEveryCase
  <2>1. IsFiniteSet(DOMAIN context) /\ limit \in Nat
    BY CasesFinite, ContextDomain, ReportConstants DEF ReportConstants
  <2> QED BY <2>1, EvidenceAdds
<1> QED BY <1>1, PTL

-----------------------------------------------------------------------------
(* What a cycle does to its copy of the facts: it dates payments today, it *)
(* cancels and writes off nothing, and what it takes from a balance it     *)
(* records as paid, so that a promise stays covered.                       *)

Withdrawn == {"CANCELLED", "WRITTEN_OFF"}

\* Every promise was made by today and is covered.
Backed(f) ==
    /\ PromisesCovered(f)
    /\ \A p \in Promises : f.promise[p].status # "NONE" => f.promise[p].source <= f.date

PaidToday(f, g) ==
    \A i \in Invoices : \A d \in Dates : d # g.date => g.paidOn[i][d] = f.paidOn[i][d]

NothingWithdrawn(f, g) ==
    \A i \in Invoices : g.status[i] \in Withdrawn => f.status[i] \in Withdrawn

Advances(f, g) ==
    /\ g.date = f.date
    /\ PaidToday(f, g)
    /\ NothingWithdrawn(f, g)
    /\ Backed(f) => Backed(g)

LEMMA AdvancesTransitive ==
    ASSUME NEW f, NEW g, NEW h, Advances(f, g), Advances(g, h)
    PROVE  Advances(f, h)
<1>1. h.date = f.date /\ (Backed(f) => Backed(h))
  BY DEF Advances
<1>2. PaidToday(f, h)
  BY DEF Advances, PaidToday
<1>3. NothingWithdrawn(f, h)
  BY DEF Advances, NothingWithdrawn
<1> QED BY <1>1, <1>2, <1>3 DEF Advances

(* Promises stay covered when an operation lets no balance together with   *)
(* what came in since any past day shrink, and keeps what they promise.    *)
LEMMA StaysBacked ==
    ASSUME NEW f \in Facts, NEW g \in Facts, Backed(f), f.date <= g.date,
           \A i \in Invoices, from \in Nat : from <= f.date =>
               f.outstanding[i] + PaidBetween(f, i, from, f.date)
                 <= g.outstanding[i] + PaidBetween(g, i, from, g.date),
           \A p \in Promises : g.promise[p].status # "NONE" =>
               /\ f.promise[p].status # "NONE"
               /\ f.promise[p].status = "CANCELLED" => g.promise[p].status = "CANCELLED"
               /\ g.promise[p].invoice = f.promise[p].invoice
               /\ g.promise[p].amount = f.promise[p].amount
               /\ g.promise[p].source = f.promise[p].source
    PROVE  Backed(g)
<1> SUFFICES ASSUME NEW p \in Promises, g.promise[p].status # "NONE"
             PROVE  /\ g.promise[p].source <= g.date
                    /\ g.promise[p].status # "CANCELLED" =>
                         LET row == g.promise[p] IN
                         row.amount <= g.outstanding[row.invoice]
                                  + PaidBetween(g, row.invoice, row.source, g.date)
  BY DEF Backed, PromisesCovered
<1> DEFINE i == f.promise[p].invoice
           a == f.promise[p].amount
           c == f.promise[p].source
<1>1. /\ f.promise[p] \in PromiseRows /\ f.date \in Int /\ g.date \in Int
  BY DEF Facts, Dates
<1>2. i \in Invoices /\ a \in Nat /\ c \in Nat
  BY <1>1 DEF PromiseRows
<1>3. /\ f.promise[p].status # "NONE" /\ c <= f.date
      /\ g.promise[p].invoice = i /\ g.promise[p].amount = a /\ g.promise[p].source = c
  BY DEF Backed
<1>4. ASSUME g.promise[p].status # "CANCELLED"
      PROVE  a <= f.outstanding[i] + PaidBetween(f, i, c, f.date)
  <2>1. f.promise[p].status \notin {"NONE", "CANCELLED"}
    BY <1>3, <1>4
  <2> QED BY <2>1 DEF Backed, PromisesCovered
<1>5. f.outstanding[i] + PaidBetween(f, i, c, f.date)
        <= g.outstanding[i] + PaidBetween(g, i, c, g.date)
  BY <1>2, <1>3
<1>6. /\ f.outstanding[i] \in Nat /\ g.outstanding[i] \in Nat
      /\ PaidBetween(f, i, c, f.date) \in Nat /\ PaidBetween(g, i, c, g.date) \in Nat
  BY <1>2, PaidBetweenType DEF Facts
<1>7. c <= g.date
  BY <1>1, <1>2, <1>3
<1> HIDE DEF i, a, c
<1>8. g.promise[p].status # "CANCELLED" => a <= g.outstanding[i] + PaidBetween(g, i, c, g.date)
  BY <1>2, <1>4, <1>5, <1>6
<1> QED BY <1>3, <1>7, <1>8

(* Operations on cases and on disputes leave the money and promises alone. *)
LEMMA SameLedgerAdvances ==
    ASSUME NEW f \in Facts, NEW g, NothingWithdrawn(f, g), g.date = f.date,
           g.outstanding = f.outstanding, g.paidOn = f.paidOn, g.promise = f.promise
    PROVE  Advances(f, g)
<1>1. PaidToday(f, g)
  BY DEF PaidToday
<1>2. Backed(f) => Backed(g)
  BY DEF Backed, PromisesCovered, PaidBetween
<1> QED BY <1>1, <1>2 DEF Advances

LEMMA SmallAdvances ==
    ASSUME NEW f \in Facts, NEW i \in Invoices
    PROVE  /\ Advances(f, OpenCase(f, i))
           /\ Advances(f, OpenDispute(f, i))
           /\ Advances(f, ResolveDispute(f, i))
           /\ Advances(f, ApplyOverdueRules(f))
           /\ Advances(f, Synchronize(f))
<1>1. /\ NothingWithdrawn(f, OpenCase(f, i)) /\ NothingWithdrawn(f, Synchronize(f))
  BY DEF NothingWithdrawn, OpenCase, Synchronize
<1>2. NothingWithdrawn(f, OpenDispute(f, i)) /\ NothingWithdrawn(f, ResolveDispute(f, i))
  BY DEF NothingWithdrawn, OpenDispute, ResolveDispute, Withdrawn, Facts
<1>3. NothingWithdrawn(f, ApplyOverdueRules(f))
  BY DEF NothingWithdrawn, ApplyOverdueRules, Withdrawn
<1>4. Advances(f, OpenCase(f, i))
  <2> DEFINE g == OpenCase(f, i)
  <2>1. /\ g.date = f.date /\ g.outstanding = f.outstanding /\ g.paidOn = f.paidOn
        /\ g.promise = f.promise /\ NothingWithdrawn(f, g)
    BY <1>1 DEF OpenCase, Facts
  <2> HIDE DEF g
  <2>2. Advances(f, g)
    BY <2>1, SameLedgerAdvances
  <2> QED BY <2>2 DEF g
<1>5. Advances(f, OpenDispute(f, i))
  <2> DEFINE g == OpenDispute(f, i)
  <2>1. /\ g.date = f.date /\ g.outstanding = f.outstanding /\ g.paidOn = f.paidOn
        /\ g.promise = f.promise /\ NothingWithdrawn(f, g)
    BY <1>2 DEF OpenDispute, Facts
  <2> HIDE DEF g
  <2>2. Advances(f, g)
    BY <2>1, SameLedgerAdvances
  <2> QED BY <2>2 DEF g
<1>6. Advances(f, ResolveDispute(f, i))
  <2> DEFINE g == ResolveDispute(f, i)
  <2>1. /\ g.date = f.date /\ g.outstanding = f.outstanding /\ g.paidOn = f.paidOn
        /\ g.promise = f.promise /\ NothingWithdrawn(f, g)
    BY <1>2 DEF ResolveDispute, Facts
  <2> HIDE DEF g
  <2>2. Advances(f, g)
    BY <2>1, SameLedgerAdvances
  <2> QED BY <2>2 DEF g
<1>7. Advances(f, ApplyOverdueRules(f))
  <2> DEFINE g == ApplyOverdueRules(f)
  <2>1. /\ g.date = f.date /\ g.outstanding = f.outstanding /\ g.paidOn = f.paidOn
        /\ g.promise = f.promise /\ NothingWithdrawn(f, g)
    BY <1>3 DEF ApplyOverdueRules, Facts
  <2> HIDE DEF g
  <2>2. Advances(f, g)
    BY <2>1, SameLedgerAdvances
  <2> QED BY <2>2 DEF g
<1>8. Advances(f, Synchronize(f))
  <2> DEFINE g == Synchronize(f)
  <2>1. /\ g.date = f.date /\ g.outstanding = f.outstanding /\ g.paidOn = f.paidOn
        /\ g.promise = f.promise /\ NothingWithdrawn(f, g)
    BY <1>1 DEF Synchronize, Facts
  <2> HIDE DEF g
  <2>2. Advances(f, g)
    BY <2>1, SameLedgerAdvances
  <2> QED BY <2>2 DEF g
<1> QED BY <1>4, <1>5, <1>6, <1>7, <1>8

(* A payment of today adds to what came in since any past day what it      *)
(* takes from the balance.                                                 *)
LEMMA ReceiveAdvances ==
    ASSUME NEW f \in Facts, NEW i \in Invoices, NEW amount \in Nat, amount <= f.outstanding[i]
    PROVE  Advances(f, ReceivePayment(f, i, amount, f.date))
<1> DEFINE g == ReceivePayment(f, i, amount, f.date)
           due(k) == IF k = i THEN amount ELSE 0
<1>1. f.date \in Dates /\ f.date \in Int /\ g.date = f.date /\ g.promise = f.promise
  BY DEF ReceivePayment, Facts, Dates
<1>2. g \in Facts
  BY <1>1, ReceivePaymentType
<1>3. \A k \in Invoices : g.outstanding[k] = f.outstanding[k] - due(k)
  BY DEF ReceivePayment, Facts
<1>4. ASSUME NEW k \in Invoices, NEW d \in Dates
      PROVE  g.paidOn[k][d] = f.paidOn[k][d] + (IF d = f.date THEN due(k) ELSE 0)
  BY DEF ReceivePayment, Facts
<1>5. NothingWithdrawn(f, g)
  BY DEF NothingWithdrawn, ReceivePayment, Withdrawn, Facts
<1>6. \A k \in Invoices : \A d \in Dates : f.paidOn[k][d] \in Nat /\ f.outstanding[k] \in Nat
  BY DEF Facts
<1> HIDE DEF g
<1>7. PaidToday(f, g)
  BY <1>1, <1>4, <1>6 DEF PaidToday
<1>8. ASSUME NEW k \in Invoices, NEW from \in Nat, from <= f.date
      PROVE  PaidBetween(g, k, from, f.date) = PaidBetween(f, k, from, f.date) + due(k)
  <2> DEFINE S == Days(from, f.date)
             old == f.paidOn[k]
             new == g.paidOn[k]
  <2>1. /\ PaidBetween(g, k, from, f.date) = SumFunctionOnSet(new, S)
        /\ PaidBetween(f, k, from, f.date) = SumFunctionOnSet(old, S)
    BY DEF PaidBetween, Days
  <2>2. f.date \in S /\ S \subseteq Dates /\ IsFiniteSet(S)
    <3>1. S \subseteq Dates /\ IsFiniteSet(S)
      BY DaysFinite
    <3>2. f.date \in S
      BY <1>1, <1>8 DEF Days
    <3> QED BY <3>1, <3>2
  <2>3. due(k) \in Nat
    OBVIOUS
  <2> HIDE DEF S, due
  <2>4. \A d \in S : old[d] \in Int /\ new[d] \in Int
    BY <1>4, <1>6, <2>2, <2>3
  <2>5. (\A d \in S \ {f.date} : old[d] = new[d]) /\ new[f.date] = old[f.date] + due(k)
    BY <1>4, <1>6, <2>2, <2>3
  <2> HIDE DEF old, new
  <2>6. SumFunctionOnSet(new, S) = SumFunctionOnSet(old, S) + (new[f.date] - old[f.date])
    BY <2>2, <2>4, <2>5, SumChange
  <2>7. new[f.date] - old[f.date] = due(k)
    BY <2>2, <2>3, <2>4, <2>5
  <2> QED BY <2>1, <2>6, <2>7
<1>9. \A k \in Invoices, from \in Nat : from <= f.date =>
        f.outstanding[k] + PaidBetween(f, k, from, f.date)
          <= g.outstanding[k] + PaidBetween(g, k, from, g.date)
  <2> SUFFICES ASSUME NEW k \in Invoices, NEW from \in Nat, from <= f.date
               PROVE  f.outstanding[k] + PaidBetween(f, k, from, f.date)
                        <= g.outstanding[k] + PaidBetween(g, k, from, f.date)
    BY <1>1
  <2>1. PaidBetween(f, k, from, f.date) \in Nat /\ f.outstanding[k] \in Nat /\ due(k) \in Nat
    BY PaidBetweenType DEF Facts
  <2>2. g.outstanding[k] = f.outstanding[k] - due(k)
    BY <1>3
  <2>3. PaidBetween(g, k, from, f.date) = PaidBetween(f, k, from, f.date) + due(k)
    BY <1>8
  <2> HIDE DEF due
  <2> QED BY <2>1, <2>2, <2>3
<1> HIDE DEF due
<1>10. Backed(f) => Backed(g)
  BY <1>1, <1>2, <1>9, StaysBacked
<1>11. Advances(f, g)
  BY <1>1, <1>5, <1>7, <1>10 DEF Advances
<1> QED BY <1>11 DEF g

(* Changing the status of a promise, but for cancelling it, takes nothing. *)
LEMMA SamePromisesAdvance ==
    ASSUME NEW f \in Facts, NEW g \in Facts, g.date = f.date, g.status = f.status,
           g.outstanding = f.outstanding, g.paidOn = f.paidOn,
           \A p \in Promises :
               \/ g.promise[p] = f.promise[p]
               \/ /\ f.promise[p].status \notin {"NONE", "CANCELLED"}
                  /\ g.promise[p].invoice = f.promise[p].invoice
                  /\ g.promise[p].amount = f.promise[p].amount
                  /\ g.promise[p].source = f.promise[p].source
    PROVE  Advances(f, g)
<1>1. PaidToday(f, g) /\ NothingWithdrawn(f, g)
  BY DEF PaidToday, NothingWithdrawn
<1>2. f.date \in Int
  BY DEF Facts, Dates
<1>3. \A i \in Invoices, from \in Nat : from <= f.date =>
        f.outstanding[i] + PaidBetween(f, i, from, f.date)
          <= g.outstanding[i] + PaidBetween(g, i, from, g.date)
  <2> SUFFICES ASSUME NEW i \in Invoices, NEW from \in Nat
               PROVE  f.outstanding[i] + PaidBetween(f, i, from, f.date)
                        <= g.outstanding[i] + PaidBetween(g, i, from, g.date)
    OBVIOUS
  <2>1. PaidBetween(g, i, from, g.date) = PaidBetween(f, i, from, f.date)
    BY DEF PaidBetween
  <2>2. PaidBetween(f, i, from, f.date) \in Nat /\ f.outstanding[i] \in Nat
    BY PaidBetweenType DEF Facts
  <2> QED BY <2>1, <2>2
<1>4. Backed(f) => Backed(g)
  BY <1>2, <1>3, StaysBacked
<1> QED BY <1>1, <1>4 DEF Advances

LEMMA FulfilAdvances ==
    ASSUME NEW f \in Facts, NEW i \in Invoices, NEW amount \in Nat
    PROVE  Advances(f, FulfilPromises(f, i, amount))
<1> DEFINE g == FulfilPromises(f, i, amount)
<1>1. /\ g.outstanding = f.outstanding /\ g.paidOn = f.paidOn /\ g.date = f.date
      /\ g.status = f.status
  BY DEF FulfilPromises, Facts
<1>2. g \in Facts
  BY FulfilPromisesType
<1>3. ASSUME NEW p \in Promises
      PROVE  \/ g.promise[p] = f.promise[p]
             \/ /\ f.promise[p].status = "ACTIVE"
                /\ g.promise[p] = [f.promise[p] EXCEPT !.status = "FULFILLED"]
  BY DEF FulfilPromises
<1> HIDE DEF g
<1>4. \A p \in Promises :
        \/ g.promise[p] = f.promise[p]
        \/ /\ f.promise[p].status \notin {"NONE", "CANCELLED"}
           /\ g.promise[p].invoice = f.promise[p].invoice
           /\ g.promise[p].amount = f.promise[p].amount
           /\ g.promise[p].source = f.promise[p].source
  <2>1. \A p \in Promises : f.promise[p] \in PromiseRows
    BY DEF Facts
  <2> QED BY <1>3, <2>1 DEF PromiseRows
<1>5. Advances(f, g)
  BY <1>1, <1>2, <1>4, SamePromisesAdvance
<1> QED BY <1>5 DEF g

LEMMA BreakAdvances ==
    ASSUME NEW f \in Facts, f.date >= 1, NEW x \in Promises, f.promise[x].status = "ACTIVE"
    PROVE  Advances(f, BreakPromise(f, x))
<1> DEFINE g == BreakPromise(f, x)
<1>1. /\ g.outstanding = f.outstanding /\ g.paidOn = f.paidOn /\ g.date = f.date
      /\ g.status = f.status
  BY DEF BreakPromise, Facts
<1>2. g \in Facts
  BY BreakPromiseType
<1>3. ASSUME NEW p \in Promises
      PROVE  \/ g.promise[p] = f.promise[p]
             \/ /\ f.promise[p].status \notin {"NONE", "CANCELLED"}
                /\ g.promise[p].invoice = f.promise[p].invoice
                /\ g.promise[p].amount = f.promise[p].amount
                /\ g.promise[p].source = f.promise[p].source
  BY DEF BreakPromise, Facts, PromiseRows
<1> HIDE DEF g
<1>4. Advances(f, g)
  BY <1>1, <1>2, <1>3, SamePromisesAdvance
<1> QED BY <1>4 DEF g

(* A promise of today is for no more than the balance.                     *)
LEMMA AddPromiseAdvances ==
    ASSUME NEW f \in Facts, NEW p \in Promises, NEW i \in Invoices,
           NEW amount \in Nat, amount <= f.outstanding[i], NEW due \in Nat
    PROVE  Advances(f, AddPromise(f, p, i, amount, due, f.date))
<1> DEFINE g == AddPromise(f, p, i, amount, due, f.date)
<1>1. /\ g.outstanding = f.outstanding /\ g.paidOn = f.paidOn /\ g.date = f.date
      /\ g.status = f.status /\ f.date \in Int
  BY DEF AddPromise, Facts, Dates
<1>2. \A q \in Promises :
        IF q = p
        THEN g.promise[q] = [status |-> "ACTIVE", invoice |-> i, amount |-> amount,
                             due |-> due, source |-> f.date]
        ELSE g.promise[q] = f.promise[q]
  BY DEF AddPromise, Facts
<1> HIDE DEF g
<1>3. PaidToday(f, g) /\ NothingWithdrawn(f, g)
  BY <1>1 DEF PaidToday, NothingWithdrawn
<1>4. ASSUME Backed(f), NEW q \in Promises, g.promise[q].status # "NONE"
      PROVE  /\ g.promise[q].source <= g.date
             /\ g.promise[q].status # "CANCELLED" =>
                  LET row == g.promise[q] IN
                  row.amount <= g.outstanding[row.invoice]
                                  + PaidBetween(g, row.invoice, row.source, g.date)
  <2>1. CASE q = p
    <3>1. /\ g.promise[q].source = f.date /\ g.promise[q].invoice = i
          /\ g.promise[q].amount = amount
      BY <1>2, <2>1
    <3>2. PaidBetween(g, i, f.date, g.date) = PaidBetween(f, i, f.date, f.date)
      BY <1>1 DEF PaidBetween
    <3>3. PaidBetween(f, i, f.date, f.date) \in Nat /\ f.outstanding[i] \in Nat
      BY PaidBetweenType DEF Facts
    <3>4. amount <= g.outstanding[i] + PaidBetween(g, i, f.date, g.date)
      BY <1>1, <3>2, <3>3
    <3> QED BY <1>1, <3>1, <3>4
  <2>2. CASE q # p
    <3>1. g.promise[q] = f.promise[q]
      BY <1>2, <2>2
    <3> QED BY <1>1, <1>4, <3>1 DEF Backed, PromisesCovered, PaidBetween
  <2> QED BY <2>1, <2>2
<1>5. Backed(f) => Backed(g)
  BY <1>4 DEF Backed, PromisesCovered
<1>6. Advances(f, g)
  BY <1>1, <1>3, <1>5 DEF Advances
<1> QED BY <1>6 DEF g

LEMMA SimulatedPaymentAdvances ==
    ASSUME NEW f \in Facts, NEW i \in Invoices, NEW a \in 1 .. f.outstanding[i]
    PROVE  Advances(f, SimulatedPayment(f, i, a))
<1> DEFINE g == ReceivePayment(f, i, a, f.date)
           h == FulfilPromises(g, i, a)
<1>1. f.date \in Dates /\ a \in Nat /\ a <= f.outstanding[i]
  BY DEF Facts
<1>2. g \in Facts /\ Advances(f, g)
  BY <1>1, ReceivePaymentType, ReceiveAdvances
<1> HIDE DEF g
<1>3. h \in Facts /\ Advances(g, h)
  BY <1>1, <1>2, FulfilPromisesType, FulfilAdvances
<1> HIDE DEF h
<1>4. Advances(h, OpenCase(h, i))
  BY <1>3, SmallAdvances
<1>5. Advances(f, OpenCase(h, i))
  BY <1>2, <1>3, <1>4, AdvancesTransitive
<1> QED BY <1>5 DEF SimulatedPayment, g, h

LEMMA AmountsCovered ==
    ASSUME NEW b \in Nat, NEW low, NEW high, NEW a \in FractionalAmounts(b, low, high)
    PROVE  a \in Int /\ a <= b
  BY DEF FractionalAmounts, Smallest, Largest

LEMMA OutcomeAdvances ==
    ASSUME NEW f \in Facts, f.date >= 1, NEW used, NEW kind \in EventKinds,
           NEW x \in Targets(f, used, kind), NEW g \in EventOutcomes(f, kind, x)
    PROVE  Advances(f, g)
<1>0. f.date \in Nat
  BY PortfolioConstants DEF Facts, Dates
<1>1. kind \notin {"PROMISE_BROKEN", "DISPUTE_RESOLVED"} =>
        /\ x \in Invoices /\ f.outstanding[x] \in Nat \ {0}
        /\ f.outstanding[x] \in 1 .. f.outstanding[x]
  BY TargetsType DEF Payable, Facts
<1>2. CASE kind = "PARTIAL_PAYMENT"
  <2>1. PICK a \in PartialAmounts(f.outstanding[x]) : g = SimulatedPayment(f, x, a)
    BY <1>2 DEF EventOutcomes
  <2> QED BY <1>1, <1>2, <2>1, PartialAmountsType, SimulatedPaymentAdvances
<1>3. CASE kind = "FULL_PAYMENT"
  <2>1. g = SimulatedPayment(f, x, f.outstanding[x])
    BY <1>3 DEF EventOutcomes
  <2> QED BY <1>1, <1>3, <2>1, SimulatedPaymentAdvances
<1>4. ASSUME NEW h \in Facts, Advances(f, h), NEW i \in Invoices, g = OpenCase(h, i)
      PROVE  Advances(f, g)
  BY <1>4, SmallAdvances, AdvancesTransitive
<1>5. CASE kind = "PROMISE_CREATED"
  <2> DEFINE p == CHOOSE q \in FreePromiseRows(f) : TRUE
  <2>1. p \in Promises
    BY <1>5, TargetsType DEF FreePromiseRows
  <2>2. PICK a \in FractionalAmounts(f.outstanding[x], 20, 75),
             days \in PromiseDaysMin .. PromiseDaysMax :
                g = OpenCase(AddPromise(f, p, x, a, f.date + days, f.date), x)
    BY <1>5 DEF EventOutcomes
  <2>3. a \in Nat /\ days \in Nat /\ f.date + days \in Nat
    BY <1>0, <1>1, <1>5, FractionalAmountsType, PortfolioConstants
  <2>4. a <= f.outstanding[x]
    BY <1>1, <1>5, AmountsCovered
  <2> HIDE DEF p
  <2>5. /\ AddPromise(f, p, x, a, f.date + days, f.date) \in Facts
        /\ Advances(f, AddPromise(f, p, x, a, f.date + days, f.date))
    BY <1>0, <1>1, <1>5, <2>1, <2>3, <2>4, AddPromiseType, AddPromiseAdvances
  <2> QED BY <1>1, <1>4, <1>5, <2>2, <2>5
<1>6. CASE kind = "PROMISE_BROKEN"
  <2>1. /\ x \in Promises /\ f.promise[x].invoice \in Invoices
        /\ f.promise[x].status = "ACTIVE"
    BY <1>6, TargetsType DEF BreakablePromises, Facts, PromiseRows
  <2>2. g = OpenCase(BreakPromise(f, x), f.promise[x].invoice)
    BY <1>6 DEF EventOutcomes
  <2> QED BY <1>4, <2>1, <2>2, BreakPromiseType, BreakAdvances
<1>7. CASE kind = "DISPUTE_OPENED"
  <2>1. g = OpenCase(OpenDispute(f, x), x)
    BY <1>7 DEF EventOutcomes
  <2> QED BY <1>1, <1>4, <1>7, <2>1, OpenDisputeType, SmallAdvances
<1>8. CASE kind = "DISPUTE_RESOLVED"
  <2>1. x \in Invoices
    BY <1>8, TargetsType DEF DisputedUnpaid
  <2>2. g = OpenCase(ResolveDispute(f, x), x)
    BY <1>8 DEF EventOutcomes
  <2> QED BY <1>4, <2>1, <2>2, ResolveDisputeType, SmallAdvances
<1>9. CASE kind = "CUSTOMER_DELAY_RESPONSE"
  <2>1. g = OpenCase(f, x)
    BY <1>9 DEF EventOutcomes
  <2> QED BY <1>1, <1>9, <2>1, SmallAdvances
<1> QED BY <1>2, <1>3, <1>5, <1>6, <1>7, <1>8, <1>9 DEF EventKinds

-----------------------------------------------------------------------------
(* What holds between the cycles, and of the copy a cycle works on.        *)

CycleMade ==
    tick # Idle => /\ PaidToday(db, tick.work)
                   /\ NothingWithdrawn(db, tick.work)
                   /\ Backed(tick.work)

ReportInv ==
    /\ CycleInv
    /\ LedgerInv
    /\ ResolvedSettled
    /\ Backed(db)
    /\ NothingAhead(db)
    /\ ClosedSettled(db)
    /\ CycleMade

LEMMA BaselineSound == Backed(Baseline) /\ NothingAhead(Baseline) /\ ClosedSettled(Baseline)
  BY SystemConstants, ReportConstants DEF SystemConstants, ReportConstants, PromisesKept, Backed

LEMMA ReportInitial == ReportInit => ReportInv
<1> SUFFICES ASSUME ReportInit PROVE ReportInv
  OBVIOUS
<1>1. Init /\ db = Baseline /\ tick = Idle
  BY DEF ReportInit, Init
<1>2. CycleMade
  BY <1>1 DEF CycleMade
<1> QED BY <1>1, <1>2, BaselineSound, CycleInit, LedgerInit, ResolvedInit DEF ReportInv

\* What a cycle or a synchronization makes of the facts it started from.
Made(f, g) ==
    /\ Follows(f, g)
    /\ Reconciled(g) /\ Grows(f, g)
    /\ PaidToday(f, g)
    /\ NothingWithdrawn(f, g)
    /\ Backed(g)
    /\ g.date = f.date \/ g.date = f.date + 1

LEMMA ReportCommits ==
    ASSUME ReportInv, [ReportNext]_reportVars
    PROVE  \/ db' = db
           \/ ResetReport /\ tick = Idle /\ db' = Baseline
           \/ CommitCycle /\ tick # Idle /\ tick.work \in Facts
                /\ Made(db, tick.work) /\ db' = Synchronize(tick.work)
           \/ SynchronizeCases /\ tick = Idle /\ Made(db, db) /\ db' = Synchronize(db)
<1>1. db \in Facts /\ TypeInv
  BY DEF ReportInv, LedgerInv, TypeInv, TypeOK
<1>2. WorkOnCycle \/ UNCHANGED reportVars => db' = db
  BY DEF WorkOnCycle, BeginTick, GeneratePrimary, GenerateSecondary, GenerateEvent,
         TickConflict, AbortTick, reportVars, vars
<1>3. ResetReport => tick = Idle /\ db' = Baseline
  BY DEF ResetReport, ResetSimulation
<1>4. ASSUME CommitCycle
      PROVE  /\ tick # Idle /\ tick.work \in Facts
             /\ Made(db, tick.work) /\ db' = Synchronize(tick.work)
  <2>1. tick # Idle /\ db' = Synchronize(tick.work)
    BY <1>4 DEF CommitCycle, CommitTick, Idle
  <2>2. tick.work \in Facts /\ tick.work.date = db.date + 1
    BY <1>1, <2>1, CycleTyped DEF TypeInv, CycleDate
  <2> QED BY <2>1, <2>2 DEF ReportInv, CycleInv, CycleFollows, LedgerInv, CycleMade, Made
<1>5. ASSUME SynchronizeCases PROVE tick = Idle /\ Made(db, db) /\ db' = Synchronize(db)
  <2>1. PaidToday(db, db) /\ NothingWithdrawn(db, db) /\ Grows(db, db)
    BY <1>1 DEF PaidToday, NothingWithdrawn, Grows, Facts
  <2> QED BY <1>1, <1>5, <2>1, SmallSteps
          DEF SynchronizeCases, SynchronizeCommand, Made, ReportInv, LedgerInv
<1> QED BY <1>2, <1>3, <1>4, <1>5 DEF ReportNext

(* Synchronization closes no case and opens no closed one.                 *)
LEMMA MadeSound ==
    ASSUME NEW f \in Facts, NEW g \in Facts, Made(f, g), NothingAhead(f), ClosedSettled(f)
    PROVE  Backed(Synchronize(g)) /\ NothingAhead(Synchronize(g)) /\ ClosedSettled(Synchronize(g))
<1> DEFINE s == Synchronize(g)
<1>1. /\ s.date = g.date /\ s.outstanding = g.outstanding /\ s.paidOn = g.paidOn
      /\ \A i \in Invoices : s.case[i] = IF i \in Cases(g) THEN DerivedCaseState(g, i) ELSE "NONE"
  BY DEF Synchronize
<1>2. Backed(s)
  <2>1. Invoices # {}
    BY PortfolioConstants DEF PortfolioConstants
  <2> QED BY <2>1, SmallAdvances DEF Advances, Made
<1> HIDE DEF s
<1>3. NothingAhead(s)
  <2>1. f.date \in Int /\ g.date \in Int /\ f.date <= g.date
    BY DEF Facts, Dates, Made, Follows
  <2> SUFFICES ASSUME NEW i \in Invoices, NEW d \in Dates, d > g.date
               PROVE  g.paidOn[i][d] = 0
    BY <1>1 DEF NothingAhead
  <2>2. d \in Int /\ d # g.date /\ d > f.date
    BY <2>1 DEF Dates
  <2> QED BY <2>2 DEF Made, PaidToday, NothingAhead
<1>4. ClosedSettled(s)
  <2> SUFFICES ASSUME NEW i \in Invoices, s.case[i] = "CLOSED" PROVE s.outstanding[i] = 0
    BY DEF ClosedSettled
  <2>1. DerivedCaseState(g, i) = "CLOSED"
    BY <1>1
  <2>2. \A v : DesiredCaseState(v) = "CLOSED" => v.state = "CLOSED"
    BY DEF DesiredCaseState
  <2>3. CaseView(g, i, FALSE, FALSE).state = "CLOSED"
    BY <2>1, <2>2 DEF DerivedCaseState
  <2>4. g.case[i] = "CLOSED"
    BY <2>3 DEF CaseView
  <2>5. f.case[i] = "CLOSED"
    BY <2>4 DEF Made, Follows
  <2> QED BY <1>1, <2>5 DEF ClosedSettled, Made, Follows
<1> QED BY <1>2, <1>3, <1>4 DEF s

LEMMA CycleMadeNext ==
    ASSUME ReportInv, ReportNext
    PROVE  CycleMade'
<1>1. db \in Facts /\ TypeInv
  BY DEF ReportInv, LedgerInv, TypeInv, TypeOK
<1>2. ASSUME BeginTick PROVE CycleMade'
  <2> DEFINE next == [db EXCEPT !.date = @ + 1]
             g == ApplyOverdueRules(next)
  <2>1. db.date + 1 \in Dates /\ db.date \in Int
    BY <1>1, <1>2, PortfolioConstants DEF BeginTick, Facts, Dates
  <2>2. /\ next \in Facts /\ next.date = db.date + 1 /\ next.status = db.status
        /\ next.outstanding = db.outstanding /\ next.paidOn = db.paidOn
        /\ next.promise = db.promise
    BY <1>1, <2>1 DEF Facts
  <2>3. tick'.work = g /\ db' = db
    BY <1>2 DEF BeginTick
  <2> HIDE DEF next
  <2>4. PaidToday(db, next) /\ NothingWithdrawn(db, next)
    BY <2>2 DEF PaidToday, NothingWithdrawn
  <2>5. Backed(next)
    <3>1. \A i \in Invoices, from \in Nat : from <= db.date =>
            db.outstanding[i] + PaidBetween(db, i, from, db.date)
              <= next.outstanding[i] + PaidBetween(next, i, from, next.date)
      <4> SUFFICES ASSUME NEW i \in Invoices, NEW from \in Nat
                   PROVE  db.outstanding[i] + PaidBetween(db, i, from, db.date)
                            <= next.outstanding[i] + PaidBetween(next, i, from, next.date)
        OBVIOUS
      <4>1. Days(from, db.date) \subseteq Days(from, next.date)
        BY <2>1, <2>2 DEF Days, Dates
      <4>2. Grows(db, next)
        BY <1>1, <2>2 DEF Grows, Facts
      <4>3. PaidBetween(db, i, from, db.date) <= PaidBetween(next, i, from, next.date)
        BY <1>1, <2>2, <4>1, <4>2, PaidGrows
      <4>4. /\ PaidBetween(db, i, from, db.date) \in Nat /\ db.outstanding[i] \in Nat
            /\ PaidBetween(next, i, from, next.date) \in Nat
        BY <1>1, <2>2, PaidBetweenType DEF Facts
      <4> QED BY <2>2, <4>3, <4>4
    <3>2. db.date <= next.date /\ Backed(db)
      BY <2>1, <2>2 DEF ReportInv
    <3> QED BY <1>1, <2>2, <3>1, <3>2, StaysBacked
  <2>6. Advances(next, g)
    <3>1. Invoices # {}
      BY PortfolioConstants DEF PortfolioConstants
    <3> QED BY <2>2, <3>1, SmallAdvances
  <2> HIDE DEF g
  <2>7. PaidToday(db, g) /\ NothingWithdrawn(db, g) /\ Backed(g)
    BY <2>2, <2>4, <2>5, <2>6 DEF Advances, PaidToday, NothingWithdrawn
  <2> QED BY <2>3, <2>7 DEF CycleMade
<1>3. ASSUME tick # Idle, NEW left, GenerateEvent(left) PROVE CycleMade'
  <2>1. PICK kind \in AvailableKinds(tick.work, tick.used) :
          \E x \in Targets(tick.work, tick.used, kind) :
            \E g \in EventOutcomes(tick.work, kind, x) : tick'.work = g /\ db' = db
    BY <1>3 DEF GenerateEvent
  <2>2. PICK x \in Targets(tick.work, tick.used, kind) :
            \E g \in EventOutcomes(tick.work, kind, x) : tick'.work = g /\ db' = db
    BY <2>1
  <2>3. tick'.work \in EventOutcomes(tick.work, kind, x) /\ db' = db
    BY <2>2
  <2>4. kind \in EventKinds
    BY DEF AvailableKinds
  <2>5. tick.work \in Facts /\ tick.work.date >= 1
    BY <1>1, <1>3, CycleTyped
  <2>6. Advances(tick.work, tick'.work)
    BY <2>3, <2>4, <2>5, OutcomeAdvances
  <2>7. PaidToday(db, tick.work) /\ NothingWithdrawn(db, tick.work) /\ Backed(tick.work)
    BY <1>3 DEF ReportInv, CycleMade
  <2>8. /\ PaidToday(db, tick'.work) /\ NothingWithdrawn(db, tick'.work)
        /\ Backed(tick'.work)
    BY <2>6, <2>7 DEF Advances, PaidToday, NothingWithdrawn
  <2> QED BY <2>3, <2>8 DEF CycleMade
<1>4. GeneratePrimary \/ GenerateSecondary => CycleMade'
  BY <1>3 DEF GeneratePrimary, GenerateSecondary, Idle
<1>5. TickConflict \/ AbortTick \/ CommitCycle => CycleMade'
  BY DEF TickConflict, AbortTick, CommitCycle, CommitTick, CycleMade
<1>6. ResetReport \/ SynchronizeCases => CycleMade'
  BY DEF ResetReport, ResetSimulation, SynchronizeCases, SynchronizeCommand, CycleMade
<1> QED BY <1>2, <1>4, <1>5, <1>6 DEF ReportNext, WorkOnCycle

LEMMA ReportStep == ReportInv /\ [ReportNext]_reportVars => ReportInv'
<1> SUFFICES ASSUME ReportInv, [ReportNext]_reportVars PROVE ReportInv'
  OBVIOUS
<1>1. [Next]_vars
  BY ReportSteps
<1>2. CycleInv' /\ LedgerInv' /\ ResolvedSettled'
  BY <1>1, CycleNext, LedgerNext, ResolvedNext DEF ReportInv
<1>3. db \in Facts
  BY DEF ReportInv, LedgerInv, TypeInv, TypeOK
<1>4. Backed(db') /\ NothingAhead(db') /\ ClosedSettled(db')
  <2>1. CASE db' = db
    BY <2>1 DEF ReportInv
  <2>2. CASE db' = Baseline
    BY <2>2, BaselineSound
  <2>3. ASSUME NEW g \in Facts, Made(db, g), db' = Synchronize(g)
        PROVE  Backed(db') /\ NothingAhead(db') /\ ClosedSettled(db')
    BY <1>3, <2>3, MadeSound DEF ReportInv
  <2> QED BY <1>3, <2>1, <2>2, <2>3, ReportCommits
<1>5. CycleMade'
  <2>1. CASE ReportNext
    BY <2>1, CycleMadeNext
  <2>2. CASE UNCHANGED reportVars
    BY <2>2 DEF reportVars, vars, ReportInv, CycleMade
  <2> QED BY <2>1, <2>2
<1> QED BY <1>2, <1>4, <1>5 DEF ReportInv

-----------------------------------------------------------------------------
(* The cohort of the report.                                               *)

LEMMA NextDays ==
    ASSUME NEW from \in Int, NEW t \in Dates, NEW u \in Dates, t <= u, u <= t + 1
    PROVE  Days(from, u) = Days(from, t) \cup (IF t < u /\ from <= u THEN {u} ELSE {})
  BY PortfolioConstants DEF Days, Dates

(* What an invoice receives between two commits is dated today: it counts  *)
(* towards what it was paid since any earlier day, and towards the total.  *)
LEMMA ReceivedToday ==
    ASSUME NEW f \in Facts, NEW g \in Facts, Made(f, g), NothingAhead(f), NEW i \in Invoices,
           NEW from \in Int, from <= f.date
    PROVE  \E n \in Int : /\ TotalPaid(g, i) = TotalPaid(f, i) + n
                          /\ PaidBetween(g, i, from, g.date) = PaidBetween(f, i, from, f.date) + n
<1> DEFINE old == f.paidOn[i]
           new == g.paidOn[i]
           e == g.date
           n == new[e] - old[e]
           S == Days(from, f.date)
           T == Days(from, g.date)
<1>1. /\ f.date \in Dates /\ e \in Dates /\ f.date \in Int /\ e \in Int
      /\ e = f.date \/ e = f.date + 1
  BY DEF Facts, Dates, Made
<1>2. \A d \in Dates : old[d] \in Int /\ new[d] \in Int
  BY DEF Facts
<1>3. \A d \in Dates : d # e => new[d] = old[d]
  BY DEF Made, PaidToday
<1>4. /\ TotalPaid(g, i) = SumFunctionOnSet(new, Dates)
      /\ TotalPaid(f, i) = SumFunctionOnSet(old, Dates)
  BY AllDays DEF TotalPaid, PaidBetween, Days
<1>5. /\ PaidBetween(g, i, from, e) = SumFunctionOnSet(new, T)
      /\ PaidBetween(f, i, from, f.date) = SumFunctionOnSet(old, S)
  BY DEF PaidBetween, Days
<1>6. e \in T
  BY <1>1 DEF Days
<1>7. e = f.date \/ (T = S \cup {e} /\ e \notin S /\ old[e] = 0)
  <2> SUFFICES ASSUME e = f.date + 1 PROVE T = S \cup {e} /\ e \notin S /\ old[e] = 0
    BY <1>1
  <2>1. T = S \cup {e}
    <3>1. ASSUME NEW t \in Dates, NEW u \in Dates, t \in Int, u = t + 1, from <= t
          PROVE  Days(from, u) = Days(from, t) \cup {u}
      BY <3>1, NextDays
    <3> QED BY <1>1, <3>1
  <2>2. e \notin S
    BY <1>1 DEF Days
  <2>3. old[e] = 0
    BY <1>1 DEF NothingAhead
  <2> QED BY <2>1, <2>2, <2>3
<1>8. IsFiniteSet(Dates) /\ IsFiniteSet(T) /\ T \subseteq Dates
  BY DaysFinite
<1>9. IsFiniteSet(S) /\ S \subseteq Dates
  BY DaysFinite
<1>10. e = f.date => T = S
  OBVIOUS
<1> HIDE DEF old, new, e, S, T
<1>11. n \in Int
  BY <1>1, <1>2
<1>12. SumFunctionOnSet(new, Dates) = SumFunctionOnSet(old, Dates) + n
  <2>1. \A d \in Dates \ {e} : old[d] = new[d]
    BY <1>3
  <2>2. e \in Dates /\ IsFiniteSet(Dates)
    BY <1>1, <1>8
  <2>3. SumFunctionOnSet(new, Dates) = SumFunctionOnSet(old, Dates) + (new[e] - old[e])
    BY <1>2, <2>1, <2>2, SumChange
  <2> QED BY <2>3
<1>13. SumFunctionOnSet(new, T) = SumFunctionOnSet(old, T) + n
  <2>1. \A d \in T \ {e} : old[d] = new[d]
    BY <1>3, <1>8
  <2>2. \A d \in T : old[d] \in Int /\ new[d] \in Int
    BY <1>2, <1>8
  <2> QED BY <1>6, <1>8, <2>1, <2>2, SumChange
<1>14. SumFunctionOnSet(old, T) = SumFunctionOnSet(old, S)
  <2>1. CASE e = f.date
    BY <1>10, <2>1
  <2>2. CASE T = S \cup {e} /\ e \notin S /\ old[e] = 0
    <3>1. \A d \in S \cup {e} : old[d] \in Int
      BY <1>2, <1>1, <1>9
    <3>2. SumFunctionOnSet(old, S \cup {e}) = old[e] + SumFunctionOnSet(old, S)
      BY <1>9, <2>2, <3>1, SumAdd
    <3>3. SumFunctionOnSet(old, S) \in Int
      BY <1>9, <3>1, SumInt
    <3> QED BY <2>2, <3>2, <3>3
  <2> QED BY <1>7, <2>1, <2>2
<1>15. /\ TotalPaid(g, i) = TotalPaid(f, i) + n
       /\ PaidBetween(g, i, from, g.date) = PaidBetween(f, i, from, f.date) + n
  BY <1>4, <1>5, <1>12, <1>13, <1>14 DEF e
<1> HIDE DEF n
<1> QED BY <1>11, <1>15

LEMMA CohortMade ==
    ASSUME NEW f \in Facts, NEW g \in Facts, Made(f, g), NothingAhead(f), Reconciled(f),
           NEW i \in InScope(f), NEW s, s.date = g.date, s.status = g.status,
           s.outstanding = g.outstanding, s.paidOn = g.paidOn
    PROVE  /\ i \in InScope(s)
           /\ s.outstanding[i] + RecoveredOn(s, i) = f.outstanding[i] + RecoveredOn(f, i)
           /\ RecoveredOn(s, i) >= RecoveredOn(f, i)
<1>1. /\ i \in Invoices /\ IssueDate[i] <= f.date /\ DueDate[i] < f.date
      /\ f.status[i] \notin Withdrawn
      /\ f.outstanding[i] > 0 \/ RecoveredOn(f, i) > 0
  BY DEF InScope, Withdrawn
<1>2. /\ IssueDate[i] \in Int /\ DueDate[i] \in Int /\ f.date \in Int /\ g.date \in Int
      /\ f.date <= g.date
  BY <1>1, PortfolioConstants DEF PortfolioConstants, Facts, Dates, Made, Follows
<1>3. RecoveredOn(s, i) = PaidBetween(g, i, DueDate[i] + 1, g.date)
  BY DEF RecoveredOn, PaidBetween
<1>4. RecoveredOn(f, i) = PaidBetween(f, i, DueDate[i] + 1, f.date)
  BY DEF RecoveredOn
<1>5. PICK n \in Int : /\ TotalPaid(g, i) = TotalPaid(f, i) + n
                       /\ RecoveredOn(s, i) = RecoveredOn(f, i) + n
  <2>1. DueDate[i] + 1 \in Int /\ DueDate[i] + 1 <= f.date
    BY <1>1, <1>2
  <2> QED BY <1>1, <1>3, <1>4, <2>1, ReceivedToday
<1>6. /\ f.outstanding[i] + TotalPaid(f, i) = Original[i]
      /\ g.outstanding[i] + TotalPaid(g, i) = Original[i]
  BY <1>1 DEF Made, Reconciled, Balanced
<1>7. /\ f.outstanding[i] \in Nat /\ g.outstanding[i] \in Nat
      /\ TotalPaid(f, i) \in Nat /\ TotalPaid(g, i) \in Nat
      /\ RecoveredOn(s, i) \in Nat /\ RecoveredOn(f, i) \in Nat
  <2>1. f.outstanding[i] \in Nat /\ g.outstanding[i] \in Nat
    BY <1>1 DEF Facts
  <2>2. TotalPaid(f, i) \in Nat /\ TotalPaid(g, i) \in Nat
    BY <1>1, TotalPaidType
  <2>3. RecoveredOn(s, i) \in Nat /\ RecoveredOn(f, i) \in Nat
    BY <1>1, <1>3, <1>4, PaidBetweenType
  <2> QED BY <2>1, <2>2, <2>3
<1>8. s.outstanding[i] + RecoveredOn(s, i) = f.outstanding[i] + RecoveredOn(f, i)
  BY <1>5, <1>6, <1>7
<1>9. RecoveredOn(s, i) >= RecoveredOn(f, i)
  <2>1. Days(DueDate[i] + 1, f.date) \subseteq Days(DueDate[i] + 1, g.date)
    BY <1>2 DEF Days, Dates
  <2>2. RecoveredOn(f, i) <= RecoveredOn(s, i)
    BY <1>1, <1>3, <1>4, <2>1, PaidGrows DEF Made
  <2> QED BY <1>7, <2>2
<1>10. i \in InScope(s)
  <2>1. s.outstanding[i] > 0 \/ RecoveredOn(s, i) > 0
    BY <1>1, <1>7, <1>8
  <2>2. s.status[i] \notin {"CANCELLED", "WRITTEN_OFF"}
    BY <1>1 DEF Made, NothingWithdrawn, Withdrawn
  <2>3. IssueDate[i] <= s.date /\ DueDate[i] < s.date
    BY <1>1, <1>2
  <2> QED BY <1>1, <2>1, <2>2, <2>3 DEF InScope
<1> QED BY <1>5, <1>7, <1>8, <1>9, <1>10

(* An overdue invoice that is in the report stays in it with the exposure  *)
(* it started with, and never less recovered, whatever the cycles do.      *)
THEOREM ReportedCohort == ReportSpec => CohortIsStable
<1> DEFINE A == db' \notin {db, Baseline} => \A i \in InScope(db) :
        /\ i \in InScope(db')
        /\ db'.outstanding[i] + RecoveredOn(db', i) = db.outstanding[i] + RecoveredOn(db, i)
        /\ RecoveredOn(db', i) >= RecoveredOn(db, i)
<1>1. ReportInv /\ [ReportNext]_reportVars => A
  <2> SUFFICES ASSUME ReportInv, [ReportNext]_reportVars, db' \notin {db, Baseline},
                      NEW i \in InScope(db)
               PROVE  /\ i \in InScope(db')
                      /\ db'.outstanding[i] + RecoveredOn(db', i)
                           = db.outstanding[i] + RecoveredOn(db, i)
                      /\ RecoveredOn(db', i) >= RecoveredOn(db, i)
    OBVIOUS
  <2>1. db \in Facts /\ NothingAhead(db) /\ Reconciled(db)
    BY DEF ReportInv, LedgerInv, TypeInv, TypeOK
  <2>2. PICK g \in Facts : Made(db, g) /\ db' = Synchronize(g)
    BY <2>1, ReportCommits
  <2>3. /\ db'.date = g.date /\ db'.status = g.status
        /\ db'.outstanding = g.outstanding /\ db'.paidOn = g.paidOn
    BY <2>2 DEF Synchronize
  <2> QED BY <2>1, <2>2, <2>3, CohortMade
<1>2. ReportInv /\ [ReportNext]_reportVars => [A]_reportVars
  BY <1>1
<1> QED BY <1>2, ReportInitial, ReportStep, PTL DEF ReportSpec, CohortIsStable

-----------------------------------------------------------------------------
(* What the counts of the intelligence say of the facts.                   *)

LEMMA Counted ==
    ASSUME NEW S, IsFiniteSet(S)
    PROVE  /\ Cardinality(S) \in Nat
           /\ Cardinality(S) > 0 <=> S # {}
           /\ Cardinality(S) = 0 <=> S = {}
<1>1. Cardinality(S) \in Nat
  BY FS_CardinalityType
<1>2. Cardinality(S) = 0 <=> S = {}
  BY FS_EmptySet
<1> QED BY <1>1, <1>2

LEMMA DisputesCounted ==
    ASSUME NEW f, NEW act, NEW S \in SUBSET Invoices
    PROVE  /\ Metrics(f, act, S).disputes \in Nat
           /\ Metrics(f, act, S).disputes > 0 <=>
                \E i \in S : /\ IssueDate[i] <= f.date
                             /\ f.status[i] = "DISPUTED" /\ f.outstanding[i] > 0
<1> DEFINE D == {i \in {j \in S : IssueDate[j] <= f.date} :
                    f.status[i] = "DISPUTED" /\ f.outstanding[i] > 0}
<1>1. Metrics(f, act, S).disputes = Cardinality(D)
  BY DEF Metrics
<1>2. D \subseteq Invoices
  OBVIOUS
<1>3. D # {} <=> \E i \in S : /\ IssueDate[i] <= f.date
                              /\ f.status[i] = "DISPUTED" /\ f.outstanding[i] > 0
  OBVIOUS
<1> HIDE DEF D
<1>4. IsFiniteSet(D)
  BY <1>2, PortfolioConstants, FS_Subset DEF PortfolioConstants
<1>5. Cardinality(D) \in Nat /\ (Cardinality(D) > 0 <=> D # {})
  BY <1>4, Counted
<1> QED BY <1>1, <1>3, <1>5

LEMMA PromisesCounted ==
    ASSUME NEW f, NEW act, NEW S \in SUBSET Invoices
    PROVE  /\ Metrics(f, act, S).activePromises \in Nat
           /\ Metrics(f, act, S).brokenPromises \in Nat
           /\ Metrics(f, act, S).activePromises > 0 <=>
                \E i \in S : \E p \in PromisesOn(f, i) : PromiseStateOf(f, p) = "ACTIVE"
           /\ Metrics(f, act, S).brokenPromises > 0 <=>
                \E i \in S : \E p \in PromisesOn(f, i) : PromiseStateOf(f, p) = "BROKEN"
<1> DEFINE all == UNION {PromisesOn(f, i) : i \in S}
           A == {p \in all : PromiseStateOf(f, p) = "ACTIVE"}
           B == {p \in all : PromiseStateOf(f, p) = "BROKEN"}
<1>1. /\ Metrics(f, act, S).activePromises = Cardinality(A)
      /\ Metrics(f, act, S).brokenPromises = Cardinality(B)
  BY DEF Metrics
<1>2. all \subseteq Promises
  BY DEF PromisesOn
<1>3. A # {} <=> \E i \in S : \E p \in PromisesOn(f, i) : PromiseStateOf(f, p) = "ACTIVE"
  OBVIOUS
<1>4. B # {} <=> \E i \in S : \E p \in PromisesOn(f, i) : PromiseStateOf(f, p) = "BROKEN"
  OBVIOUS
<1>5. A \subseteq Promises /\ B \subseteq Promises
  BY <1>2
<1> HIDE DEF all, A, B
<1>6. IsFiniteSet(A) /\ IsFiniteSet(B)
  BY <1>5, PortfolioConstants, FS_Subset DEF PortfolioConstants
<1>7. /\ Cardinality(A) \in Nat /\ (Cardinality(A) > 0 <=> A # {})
      /\ Cardinality(B) \in Nat /\ (Cardinality(B) > 0 <=> B # {})
  BY <1>6, Counted
<1> QED BY <1>1, <1>3, <1>4, <1>7

LEMMA CustomerActionable ==
    ASSUME NEW f, NEW intelligence, NEW l
    PROVE  LET m == intelligence.metrics IN
           CustomerContext(f, intelligence, l).actionable =
              (/\ m.overdueExposure > 0
               /\ ~(m.disputes > 0 \/ m.activePromises > 0)
               /\ intelligence.advice # "MONITOR")
<1> DEFINE m == intelligence.metrics
           blocked == m.disputes > 0 \/ m.activePromises > 0
           a == IntelligenceContext(f, intelligence)
           b == [latest_cycle |-> l.touched,
                 blocked |-> blocked,
                 monitoring |-> intelligence.advice \in {"MONITOR", "WAIT_FOR_PROMISE"},
                 actionable |-> m.overdueExposure > 0 /\ ~blocked /\ intelligence.advice # "MONITOR",
                 decision_changed |-> "CUSTOMER" \in l.changed,
                 decision_held |-> "CUSTOMER" \in l.held]
<1>1. CustomerContext(f, intelligence, l) = Over(a, b)
  BY DEF CustomerContext
<1>2. "actionable" \notin DOMAIN a
  BY DEF IntelligenceContext
<1>3. "actionable" \in DOMAIN b
      /\ b["actionable"] = (m.overdueExposure > 0 /\ ~blocked /\ intelligence.advice # "MONITOR")
  OBVIOUS
<1> HIDE DEF a, b
<1>4. CustomerContext(f, intelligence, l)["actionable"] = b["actionable"]
  BY <1>1, <1>2, <1>3 DEF Over
<1> QED BY <1>3, <1>4

LEMMA ReminderMeans ==
    ASSUME NEW f, NEW view, NEW i,
           RecommendedAction(view[i]) = "SEND_PAYMENT_REMINDER"
    PROVE  ~view[i].claim
  BY DEF RecommendedAction

(* A reminder is offered for sending only to a customer with an overdue    *)
(* balance, no dispute over what was issued, no promise open and no claim  *)
(* to have paid, and it names only overdue invoices.                       *)
THEOREM RemindersJustified == ReportSpec => []RemindersAreGrounded
<1>1. TypeOK => RemindersAreGrounded
  <2> SUFFICES ASSUME TypeOK, NEW view \in ViewChoices,
                      Current.metrics.overdueExposure > 0,
                      Reminder(db, Current, view).status = "PREPARED_FOR_REVIEW"
               PROVE  /\ Reminder(db, Current, view).invoices # {}
                      /\ CustomerContext(db, Current, latest).actionable
                      /\ \A i \in Reminder(db, Current, view).invoices :
                           InvoiceStateOf(db, i) = "OVERDUE" /\ ~view[i].claim
                      /\ \A i \in Invoices :
                           db.status[i] = "DISPUTED" /\ IssueDate[i] <= db.date
                             => db.outstanding[i] = 0
                      /\ \A p \in Promises :
                           db.promise[p].status # "NONE" => PromiseStateOf(db, p) # "ACTIVE"
    BY DEF RemindersAreGrounded
  <2> DEFINE m == Current.metrics
             R == ReminderInvoices(db, view)
  <2>1. ReminderStatus(db, Current, view) = "PREPARED_FOR_REVIEW"
        /\ Reminder(db, Current, view).invoices = R
    BY DEF Reminder
  <2>2. ~(m.disputes > 0) /\ ~(m.activePromises > 0) /\ R # {}
    BY <2>1 DEF ReminderStatus
  <2>3. m = Metrics(db, activity, Invoices)
        /\ Current.advice = Advice(Current.level, m)
    BY DEF Current, CustomerIntelligence, Evaluate
  <2>4. Advice(Current.level, m) # "MONITOR"
    BY DEF Advice
  <2>5. CustomerContext(db, Current, latest).actionable = TRUE
    BY <2>2, <2>3, <2>4, CustomerActionable
  <2>6. ASSUME NEW i \in R PROVE InvoiceStateOf(db, i) = "OVERDUE" /\ ~view[i].claim
    <3>1. /\ i \in Invoices /\ RecommendedAction(view[i]) = "SEND_PAYMENT_REMINDER"
          /\ IssueDate[i] <= db.date /\ db.outstanding[i] > 0 /\ DueDate[i] < db.date
      BY <2>6 DEF ReminderInvoices, Cases
    <3>2. db.date \in Int /\ IssueDate[i] \in Int /\ db.outstanding[i] \in Nat
      BY <3>1, PortfolioConstants DEF PortfolioConstants, TypeOK, Facts, Dates
    <3>3. InvoiceStateOf(db, i) = "OVERDUE"
      BY <3>1, <3>2 DEF InvoiceStateOf, InvoiceState
    <3> QED BY <3>1, <3>3, ReminderMeans
  <2>7. ASSUME NEW i \in Invoices, db.status[i] = "DISPUTED", IssueDate[i] <= db.date
        PROVE  db.outstanding[i] = 0
    <3>1. db.outstanding[i] \in Nat
      BY DEF TypeOK, Facts
    <3>2. ~(db.outstanding[i] > 0)
      BY <2>2, <2>3, <2>7, DisputesCounted
    <3> QED BY <3>1, <3>2
  <2>8. ASSUME NEW p \in Promises, db.promise[p].status # "NONE"
        PROVE  PromiseStateOf(db, p) # "ACTIVE"
    <3>1. db.promise[p].invoice \in Invoices
      BY DEF TypeOK, Facts, PromiseRows
    <3>2. p \in PromisesOn(db, db.promise[p].invoice)
      BY <2>8 DEF PromisesOn
    <3> QED BY <2>2, <2>3, <3>1, <3>2, PromisesCounted
  <2> QED BY <2>1, <2>2, <2>5, <2>6, <2>7, <2>8
<1> QED BY <1>1, ReportsOnlyRead, TypeCorrect, PTL

-----------------------------------------------------------------------------
(* The two recommendations of a case.                                      *)

\* An open promise leaves something to pay.
LEMMA OpenPromiseOwed ==
    ASSUME NEW f \in Facts, Backed(f), NEW i \in Invoices, NEW p \in PromisesOn(f, i),
           PromiseStateOf(f, p) \in {"ACTIVE", "BROKEN"}
    PROVE  f.outstanding[i] > 0
<1> DEFINE row == f.promise[p]
           paid == PaidBetween(f, row.invoice, row.source, f.date)
<1>1. p \in Promises /\ row.status # "NONE" /\ row.invoice = i /\ row \in PromiseRows
  BY DEF PromisesOn, Facts
<1>2. paid \in Nat /\ row.amount \in Nat /\ f.outstanding[i] \in Nat
  BY <1>1, PaidBetweenType DEF Facts, PromiseRows
<1>3. row.status # "CANCELLED" /\ ~(paid >= row.amount)
  BY DEF PromiseStateOf, PromiseState
<1>4. row.amount <= f.outstanding[i] + paid
  BY <1>1, <1>3 DEF Backed, PromisesCovered
<1> HIDE DEF row, paid
<1> QED BY <1>2, <1>3, <1>4

LEMMA StopsRecovery ==
    ASSUME NEW v, v.invoice # "PAID" => v.state # "CLOSED",
           "ACTIVE" \in v.promises => v.invoice # "PAID",
           v.state = "RESOLVED" => v.invoice = "PAID"
    PROVE  LET held == v.disputed /\ v.invoice # "PAID"
               running == ~held /\ "ACTIVE" \in v.promises IN
           /\ RecommendedAction(v) = "HOLD_FOR_DISPUTE" <=> held
           /\ RecommendedAction(v) = "MONITOR_ACTIVE_PROMISE" <=> running /\ ~v.claim
           /\ running /\ v.claim => RecommendedAction(v) = "REVIEW_PAYMENT_CLAIM"
<1>1. CASE v.invoice = "PAID"
  BY <1>1 DEF RecommendedAction, Settled
<1>2. CASE v.invoice # "PAID"
  <2>1. v.disputed \/ "ACTIVE" \in v.promises => ~Settled(v)
    BY <1>2 DEF Settled, DesiredCaseState
  <2> QED BY <1>2, <2>1 DEF RecommendedAction
<1> QED BY <1>1, <1>2

(* Whatever the accepted claims and delays and the consent, the advice     *)
(* shown for a case and the action recommended to the workflow hold it for *)
(* the same disputes, and the advice waits for every promise that is       *)
(* monitored and for no other, but for one whose payment is claimed.       *)
THEOREM AdviceIsOne == ReportSpec => []AdviceAgrees
<1>1. ReportInv => AdviceAgrees
  <2> SUFFICES ASSUME ReportInv, NEW view \in ViewChoices,
                      NEW i \in Cases(db), IssueDate[i] <= db.date
               PROVE  LET advice == CaseIntelligence(db, activity, i).advice
                          action == RecommendedAction(view[i]) IN
                      /\ advice = "REVIEW_DISPUTE" <=> action = "HOLD_FOR_DISPUTE"
                      /\ action = "MONITOR_ACTIVE_PROMISE" => advice = "WAIT_FOR_PROMISE"
                      /\ advice = "WAIT_FOR_PROMISE" =>
                             action = IF view[i].claim THEN "REVIEW_PAYMENT_CLAIM"
                                      ELSE "MONITOR_ACTIVE_PROMISE"
    BY DEF AdviceAgrees
  <2> DEFINE v == view[i]
             m == Metrics(db, activity, {i})
             advice == CaseIntelligence(db, activity, i).advice
             owed == db.outstanding[i] > 0
             held == v.disputed /\ v.invoice # "PAID"
             running == ~held /\ "ACTIVE" \in v.promises
  <2>1. /\ db \in Facts /\ Backed(db) /\ ClosedSettled(db) /\ ResolvedSettled
        /\ i \in Invoices
    BY DEF ReportInv, LedgerInv, TypeInv, TypeOK, Cases
  <2>2. db.outstanding[i] \in Nat
    BY <2>1 DEF Facts
  <2>3. /\ v.invoice = InvoiceStateOf(db, i) /\ v.state = db.case[i]
        /\ v.disputed <=> db.status[i] = "DISPUTED"
        /\ "ACTIVE" \in v.promises <=>
             \E p \in PromisesOn(db, i) : PromiseStateOf(db, p) = "ACTIVE"
    BY ViewOf
  <2>4. \E level : advice = Advice(level, m)
    BY DEF CaseIntelligence, Evaluate
  <2> HIDE DEF v, m, advice
  <2>5. v.invoice = "PAID" <=> ~owed
    BY <2>1, <2>2, <2>3, PaidMeansSettled
  <2>6. v.invoice # "PAID" => v.state # "CLOSED"
    BY <2>1, <2>2, <2>3, <2>5 DEF ClosedSettled
  <2>7. v.state = "RESOLVED" => v.invoice = "PAID"
    <3> SUFFICES ASSUME db.case[i] = "RESOLVED" PROVE ~owed
      BY <2>3, <2>5
    <3>1. db.outstanding[i] = 0
      BY <2>1 DEF ResolvedSettled
    <3> QED BY <3>1
  <2>8. "ACTIVE" \in v.promises => v.invoice # "PAID"
    BY <2>1, <2>3, <2>5, OpenPromiseOwed
  <2>9. /\ RecommendedAction(v) = "HOLD_FOR_DISPUTE" <=> held
        /\ RecommendedAction(v) = "MONITOR_ACTIVE_PROMISE" <=> running /\ ~v.claim
        /\ running /\ v.claim => RecommendedAction(v) = "REVIEW_PAYMENT_CLAIM"
    BY <2>3, <2>6, <2>7, <2>8, StopsRecovery
  <2>10. /\ m.disputes \in Nat
         /\ m.disputes > 0 <=> db.status[i] = "DISPUTED" /\ owed
    <3>1. {i} \in SUBSET Invoices
      BY <2>1
    <3>2. \E j \in {i} : /\ IssueDate[j] <= db.date
                         /\ db.status[j] = "DISPUTED" /\ db.outstanding[j] > 0
          <=> db.status[i] = "DISPUTED" /\ owed
      OBVIOUS
    <3> QED BY <3>1, <3>2, DisputesCounted DEF m
  <2>11. m.activePromises > 0 <=> "ACTIVE" \in v.promises
    <3>1. {i} \in SUBSET Invoices
      BY <2>1
    <3> QED BY <2>3, <3>1, PromisesCounted DEF m
  <2>12. /\ advice = "REVIEW_DISPUTE" <=> m.disputes > 0
         /\ advice = "WAIT_FOR_PROMISE" <=> ~(m.disputes > 0) /\ m.activePromises > 0
    BY <2>4 DEF Advice
  <2>13. /\ advice = "REVIEW_DISPUTE" <=> held
         /\ advice = "WAIT_FOR_PROMISE" <=> running
    BY <2>3, <2>5, <2>10, <2>11, <2>12
  <2>14. /\ advice = "REVIEW_DISPUTE" <=> RecommendedAction(v) = "HOLD_FOR_DISPUTE"
         /\ RecommendedAction(v) = "MONITOR_ACTIVE_PROMISE" => advice = "WAIT_FOR_PROMISE"
         /\ advice = "WAIT_FOR_PROMISE" =>
                RecommendedAction(v) = IF v.claim THEN "REVIEW_PAYMENT_CLAIM"
                                       ELSE "MONITOR_ACTIVE_PROMISE"
    BY <2>9, <2>13
  <2> QED BY <2>14 DEF v, advice
<1> QED BY <1>1, ReportInitial, ReportStep, PTL DEF ReportSpec

-----------------------------------------------------------------------------
(* A customer that owes nothing.                                           *)

LEMMA SignalsFinite == IsFiniteSet(SignalTypes)
<1>1. ASSUME NEW a, NEW b, NEW c PROVE IsFiniteSet({a, b, c})
  <2>1. {a, b, c} = ({a} \cup {b}) \cup {c}
    OBVIOUS
  <2>2. IsFiniteSet({a}) /\ IsFiniteSet({b}) /\ IsFiniteSet({c})
    BY FS_Singleton
  <2> QED BY <2>1, <2>2, FS_Union
<1> DEFINE A == {"HIGH_VALUE_OVERDUE", "LONG_OVERDUE", "MULTIPLE_OVERDUE_INVOICES"}
           B == {"BROKEN_PROMISE", "MULTIPLE_BROKEN_PROMISES", "PAYMENT_ACTIVITY_STALLED"}
           C == {"ACTIVE_DISPUTE", "RECOVERY_STALLED", "HIGH_RECOVERY_EXPOSURE"}
<1>2. SignalTypes = (A \cup B) \cup C
  BY DEF SignalTypes
<1>3. IsFiniteSet(A) /\ IsFiniteSet(B) /\ IsFiniteSet(C)
  BY <1>1
<1> HIDE DEF A, B, C
<1> QED BY <1>2, <1>3, FS_Union

SettledFacts(f) ==
    /\ \A i \in Invoices : f.outstanding[i] = 0
    /\ \A i \in Cases(f) : IssueDate[i] <= f.date => f.case[i] \in {"RESOLVED", "CLOSED"}

LEMMA SettledMetrics ==
    ASSUME NEW f \in Facts, Backed(f), SettledFacts(f), NEW act
    PROVE  LET m == Metrics(f, act, Invoices) IN
           /\ m.exposure = 0 /\ m.overdueExposure = 0 /\ m.overdueInvoices = 0
           /\ m.daysOverdue = 0 /\ m.brokenPromises = 0 /\ m.activePromises = 0
           /\ m.disputes = 0 /\ m.stalledCases = 0
<1> DEFINE m == Metrics(f, act, Invoices)
           issued == {i \in Invoices : IssueDate[i] <= f.date}
           overdue == {i \in issued : InvoiceStateOf(f, i) = "OVERDUE"}
           ages == {DaysOverdue(IssueDate[i], DueDate[i], f.outstanding[i], f.date) :
                       i \in overdue}
           stalled == {i \in ActiveCases(f, Invoices) \cap issued :
                          f.date - act[i] >= IntelligencePolicy.stalledRecovery}
<1>1. /\ m.exposure = SumFunctionOnSet(f.outstanding, issued)
      /\ m.overdueExposure = SumFunctionOnSet(f.outstanding, overdue)
      /\ m.overdueInvoices = Cardinality(overdue)
      /\ m.stalledCases = Cardinality(stalled)
  BY DEF Metrics, Total
<1>2. m.daysOverdue = CHOOSE n \in ages \cup {0} : \A k \in ages : k <= n
  BY DEF Metrics
<1>3. overdue = {}
  BY DEF SettledFacts, InvoiceStateOf, InvoiceState
<1>4. ages = {}
  BY <1>3
<1>5. stalled = {}
  BY DEF SettledFacts, ActiveCases
<1>6. IsFiniteSet(issued) /\ \A i \in issued : f.outstanding[i] = 0
  BY PortfolioConstants, FS_Subset DEF PortfolioConstants, SettledFacts
<1> HIDE DEF issued, overdue, ages, stalled, m
<1>7. m.exposure = 0 /\ m.overdueExposure = 0
  BY <1>1, <1>3, <1>6, SumZero, SumEmpty
<1>8. m.overdueInvoices = 0 /\ m.stalledCases = 0
  BY <1>1, <1>3, <1>5, FS_EmptySet
<1>9. m.daysOverdue = 0
  BY <1>2, <1>4
<1>10. m.brokenPromises = 0 /\ m.activePromises = 0
  <2>1. ASSUME NEW i \in Invoices, NEW p \in PromisesOn(f, i)
        PROVE  PromiseStateOf(f, p) \notin {"ACTIVE", "BROKEN"}
    <3>1. f.outstanding[i] = 0
      BY DEF SettledFacts
    <3> QED BY <3>1, OpenPromiseOwed
  <2>2. Invoices \in SUBSET Invoices
    OBVIOUS
  <2>3. /\ m.activePromises \in Nat /\ m.brokenPromises \in Nat
        /\ ~(m.activePromises > 0) /\ ~(m.brokenPromises > 0)
    BY <2>1, <2>2, PromisesCounted DEF m
  <2> QED BY <2>3
<1>11. m.disputes = 0
  <2>1. Invoices \in SUBSET Invoices /\ \A i \in Invoices : ~(f.outstanding[i] > 0)
    BY DEF SettledFacts
  <2>2. m.disputes \in Nat /\ ~(m.disputes > 0)
    BY <2>1, DisputesCounted DEF m
  <2> QED BY <2>2
<1> QED BY <1>7, <1>8, <1>9, <1>10, <1>11 DEF m

LEMMA SettledPoints ==
    ASSUME NEW m, m.exposure = 0, m.overdueExposure = 0, m.overdueInvoices = 0,
           m.daysOverdue = 0, m.brokenPromises = 0, m.disputes = 0, m.stalledCases = 0
    PROVE  Points(m) = [s \in SignalTypes |-> 0]
<1>1. /\ IntelligencePolicy.highValueOverdue > 0 /\ IntelligencePolicy.highExposure > 0
      /\ IntelligencePolicy.longOverdue > 0
      /\ IntelligencePolicy.highValueOverdue \in Nat /\ IntelligencePolicy.highExposure \in Nat
      /\ IntelligencePolicy.longOverdue \in Nat
  BY IntelligenceConstants
<1>2. \A n : ~PaymentStalled(m, n)
  BY DEF PaymentStalled
<1>3. DOMAIN Points(m) = SignalTypes
  BY DEF Points
<1>4. ASSUME NEW s \in SignalTypes PROVE Points(m)[s] = 0
  BY <1>1, <1>2 DEF Points, SignalTypes
<1> QED BY <1>3, <1>4 DEF Points

LEMMA SettledIsCalm ==
    ASSUME NEW f \in Facts, Backed(f), SettledFacts(f), NEW act
    PROVE  LET after == CustomerIntelligence(f, act) IN
           after.signals = {} /\ after.advice = "MONITOR" /\ after.level = "LOW" /\ after.score = 0
<1> DEFINE m == Metrics(f, act, Invoices)
           after == CustomerIntelligence(f, act)
           zero == [s \in SignalTypes |-> 0]
<1>1. /\ m.exposure = 0 /\ m.overdueExposure = 0 /\ m.overdueInvoices = 0
      /\ m.daysOverdue = 0 /\ m.brokenPromises = 0 /\ m.activePromises = 0
      /\ m.disputes = 0 /\ m.stalledCases = 0
  BY SettledMetrics
<1> HIDE DEF m
<1>2. Points(m) = zero
  BY <1>1, SettledPoints
<1>3. SumFunction(zero) = 0
  <2>1. DOMAIN zero = SignalTypes /\ \A s \in SignalTypes : zero[s] = 0
    OBVIOUS
  <2> HIDE DEF zero
  <2>2. SumFunctionOnSet(zero, SignalTypes) = 0
    BY <2>1, SignalsFinite, SumZero
  <2> QED BY <2>1, <2>2 DEF SumFunction
<1>4. /\ after.score = Smallest(100, SumFunction(Points(m)))
      /\ after.level = PriorityLevel(after.score)
      /\ after.signals = {s \in SignalTypes : Points(m)[s] > 0}
      /\ after.advice = Advice(after.level, m)
  BY DEF CustomerIntelligence, Evaluate, m
<1>5. \A s \in SignalTypes : ~(zero[s] > 0)
  OBVIOUS
<1> HIDE DEF after, zero
<1>6. after.score = 0
  BY <1>2, <1>3, <1>4 DEF Smallest
<1>7. after.level = "LOW"
  BY <1>4, <1>6 DEF PriorityLevel
<1>8. after.signals = {}
  BY <1>2, <1>4, <1>5
<1>9. after.advice = "MONITOR"
  BY <1>1, <1>4, <1>7 DEF Advice
<1> QED BY <1>6, <1>7, <1>8, <1>9 DEF after

LEMMA LevelsRanked ==
    /\ Rank("LOW") = 1
    /\ \A score : Rank(PriorityLevel(score)) \in 1 .. 4
<1>1. /\ DOMAIN Levels = 1 .. 4 /\ Levels[1] = "LOW" /\ Levels[2] = "MEDIUM"
      /\ Levels[3] = "HIGH" /\ Levels[4] = "CRITICAL"
  BY DEF Levels
<1> HIDE DEF Levels
<1>2. \A k \in 1 .. 4 : k = 1 \/ k = 2 \/ k = 3 \/ k = 4
  OBVIOUS
<1>3. ASSUME NEW k \in 1 .. 4 PROVE Rank(Levels[k]) = k
  <2>1. \A n \in DOMAIN Levels : Levels[n] = Levels[k] => n = k
    BY <1>1, <1>2
  <2>2. k \in DOMAIN Levels
    BY <1>1
  <2> QED BY <2>1, <2>2 DEF Rank
<1>4. \A score : \E k \in 1 .. 4 : PriorityLevel(score) = Levels[k]
  BY <1>1 DEF PriorityLevel
<1> QED BY <1>1, <1>3, <1>4

(* A cycle that leaves the customer owing nothing leaves no signal, nothing *)
(* to do, and is not shown as a change for the worse, whatever came before. *)
THEOREM SettledIsNoNews == ReportSpec => SettledCustomerIsCalm
<1> DEFINE A == tick # Idle /\ db' # db /\ (\A i \in Invoices : db'.outstanding[i] = 0) =>
        \A before \in {CustomerBefore}, after \in {CustomerAfter} :
            /\ after.signals = {}
            /\ after.advice = "MONITOR"
            /\ ChangeDirection(Snapshot(before, before.advice),
                               Snapshot(after, after.advice)) # "WORSENED"
<1>1. ReportInv /\ ReportInv' /\ [ReportNext]_reportVars => A
  <2> SUFFICES ASSUME ReportInv, ReportInv', [ReportNext]_reportVars, tick # Idle, db' # db,
                      \A i \in Invoices : db'.outstanding[i] = 0
               PROVE  /\ CustomerAfter.signals = {}
                      /\ CustomerAfter.advice = "MONITOR"
                      /\ ChangeDirection(Snapshot(CustomerBefore, CustomerBefore.advice),
                                         Snapshot(CustomerAfter, CustomerAfter.advice))
                            # "WORSENED"
    OBVIOUS
  <2>1. tick.work \in Facts /\ db' = Synchronize(tick.work)
    BY ReportCommits
  <2>2. db' \in Facts /\ Backed(db')
    BY DEF ReportInv, LedgerInv, TypeInv, TypeOK
  <2>3. SettledFacts(db')
    <3> SUFFICES ASSUME NEW i \in Cases(db'), IssueDate[i] <= db'.date
                 PROVE  db'.case[i] \in {"RESOLVED", "CLOSED"}
      BY DEF SettledFacts
    <3> DEFINE v == CaseView(db', i, FALSE, FALSE)
    <3>1. i \in Invoices /\ db'.case[i] = DesiredCaseState(v)
      BY <2>1, SynchronizedIsCurrent DEF Cases, DerivedCaseState
    <3>2. v.invoice = "PAID"
      BY <2>2, <3>1, PaidMeansSettled DEF CaseView
    <3> HIDE DEF v
    <3> QED BY <3>1, <3>2 DEF DesiredCaseState
  <2>4. CustomerAfter.signals = {} /\ CustomerAfter.advice = "MONITOR"
        /\ CustomerAfter.level = "LOW"
    BY <2>2, <2>3, SettledIsCalm DEF CustomerAfter
  <2>5. \E score : CustomerBefore.level = PriorityLevel(score)
    BY DEF CustomerBefore, CustomerIntelligence, Evaluate
  <2>6. ~(Rank(CustomerAfter.level) > Rank(CustomerBefore.level))
    BY <2>4, <2>5, LevelsRanked
  <2> DEFINE before == Snapshot(CustomerBefore, CustomerBefore.advice)
             after == Snapshot(CustomerAfter, CustomerAfter.advice)
             classes == Classifications(before, after)
  <2>7. before.is = CustomerBefore /\ after.is = CustomerAfter
    BY DEF Snapshot
  <2> HIDE DEF before, after
  <2>8. {"RISK_INCREASED", "NEW_BLOCKER", "NEW_SIGNAL"} \cap classes = {}
    <3> DEFINE added == after.is.signals \ before.is.signals
               removed == before.is.signals \ after.is.signals
               holds ==
                 [RISK_INCREASED |-> Rank(after.is.level) > Rank(before.is.level),
                  RISK_DECREASED |-> Rank(after.is.level) < Rank(before.is.level),
                  RECOMMENDATION_CHANGED |-> after.action # before.action,
                  NEW_BLOCKER |-> "ACTIVE_DISPUTE" \in added,
                  BLOCKER_RESOLVED |-> "ACTIVE_DISPUTE" \in removed,
                  NEW_SIGNAL |-> added # {},
                  SIGNAL_RESOLVED |-> removed # {}]
    <3>1. classes = {c \in DOMAIN holds : holds[c]}
      BY DEF Classifications
    <3>2. added = {}
      BY <2>4, <2>7
    <3>3. /\ holds["RISK_INCREASED"] = (Rank(after.is.level) > Rank(before.is.level))
          /\ holds["NEW_BLOCKER"] = ("ACTIVE_DISPUTE" \in added)
          /\ holds["NEW_SIGNAL"] = (added # {})
      OBVIOUS
    <3> HIDE DEF holds, classes
    <3>4. ~holds["RISK_INCREASED"] /\ ~holds["NEW_BLOCKER"] /\ ~holds["NEW_SIGNAL"]
      BY <2>6, <2>7, <3>2, <3>3
    <3> QED BY <3>1, <3>4
  <2>9. ChangeDirection(before, after) # "WORSENED"
    <3> HIDE DEF classes
    <3> QED BY <2>8 DEF ChangeDirection, classes
  <2> QED BY <2>4, <2>9 DEF before, after
<1>2. ReportInv /\ ReportInv' /\ [ReportNext]_reportVars => [A]_reportVars
  BY <1>1
<1> QED BY <1>2, ReportInitial, ReportStep, PTL DEF ReportSpec, SettledCustomerIsCalm

-----------------------------------------------------------------------------
(* The reports.                                                            *)

\* The issued invoices that are past their due date with a balance.
OverdueOf(f) == {i \in Invoices : /\ IssueDate[i] <= f.date /\ DueDate[i] < f.date
                                  /\ f.outstanding[i] > 0}

LEMMA OverdueMeans ==
    ASSUME NEW f \in Facts, NEW i \in Invoices
    PROVE  InvoiceStateOf(f, i) = "OVERDUE" <=> i \in OverdueOf(f)
<1>1. /\ f.date \in Int /\ IssueDate[i] \in Int /\ DueDate[i] \in Int
      /\ f.outstanding[i] \in Nat
  BY PortfolioConstants DEF Facts, Dates
<1> QED BY <1>1 DEF InvoiceStateOf, InvoiceState, OverdueOf

LEMMA SubsetsSummed ==
    ASSUME NEW f \in Facts, NEW S \in SUBSET Invoices
    PROVE  /\ IsFiniteSet(S)
           /\ \A i \in S : f.outstanding[i] \in Int
           /\ Balance(f, S) \in Int
<1>1. IsFiniteSet(S) /\ \A i \in S : f.outstanding[i] \in Int
  BY PortfolioConstants, FS_Subset DEF PortfolioConstants, Facts
<1> QED BY <1>1, SumInt DEF Balance

(* Four readers of the facts find the same overdue balance; the report     *)
(* leaves out what was cancelled or written off with a balance.            *)
LEMMA OverdueAgreed ==
    ASSUME NEW f \in Facts, NEW act, NEW view
    PROVE  LET batch == Reconciliation(f)
               cancelled == {i \in PortfolioSummary(f).overdueInvoices :
                               f.status[i] \in {"CANCELLED", "WRITTEN_OFF"}}
               overdue == batch.remaining + Balance(f, cancelled)
           IN /\ overdue = CustomerIntelligence(f, act).metrics.overdueExposure
              /\ overdue = PortfolioSummary(f).overdue
              /\ overdue = RecoverySummary(f, view).overdue
              /\ InvoicesMatching(f, [overdue |-> {TRUE}]) = batch.open \cup cancelled
<1> DEFINE O == OverdueOf(f)
           batch == Reconciliation(f)
           cancelled == {i \in PortfolioSummary(f).overdueInvoices :
                           f.status[i] \in {"CANCELLED", "WRITTEN_OFF"}}
           scope == InScope(f)
           settled == scope \ O
           open == {i \in scope : f.outstanding[i] > 0}
<1>1. O \subseteq Invoices /\ scope \subseteq Invoices
  BY DEF OverdueOf, InScope
<1>2. PortfolioSummary(f).overdueInvoices = O /\ PortfolioSummary(f).overdue = Balance(f, O)
  <2>1. {i \in {j \in Invoices : IssueDate[j] <= f.date} : InvoiceStateOf(f, i) = "OVERDUE"} = O
    BY OverdueMeans DEF OverdueOf
  <2> QED BY <2>1 DEF PortfolioSummary
<1>3. RecoverySummary(f, view).overdue = Balance(f, O)
  <2>1. {i \in Invoices : InvoiceStateOf(f, i) = "OVERDUE"} = O
    BY <1>1, OverdueMeans
  <2> QED BY <2>1 DEF RecoverySummary
<1>4. CustomerIntelligence(f, act).metrics.overdueExposure = Balance(f, O)
  <2>1. {i \in {j \in Invoices : IssueDate[j] <= f.date} : InvoiceStateOf(f, i) = "OVERDUE"} = O
    BY OverdueMeans DEF OverdueOf
  <2> QED BY <2>1 DEF CustomerIntelligence, Evaluate, Metrics, Total, Balance
<1>5. batch.remaining = Balance(f, scope) /\ batch.open = open
  BY DEF Reconciliation
<1>6. cancelled = {i \in O : f.status[i] \in {"CANCELLED", "WRITTEN_OFF"}}
  BY <1>2
<1>7. /\ open \cup cancelled = O /\ open \cap cancelled = {}
      /\ open \cup settled = scope /\ open \cap settled = {}
  BY <1>6 DEF OverdueOf, InScope
<1>8. \A i \in settled : f.outstanding[i] = 0
  <2>1. \A i \in Invoices : f.outstanding[i] \in Nat
    BY DEF Facts
  <2> QED BY <1>1, <2>1 DEF OverdueOf, InScope
<1>9. InvoicesMatching(f, [overdue |-> {TRUE}]) = O
  <2> DEFINE query == [overdue |-> {TRUE}]
             row(i) == [overdue |-> /\ IssueDate[i] <= f.date
                                    /\ DueDate[i] < f.date
                                    /\ f.outstanding[i] > 0,
                        days_overdue |-> f.date - DueDate[i],
                        exposure |-> f.outstanding[i],
                        partial_payment |-> /\ 0 < f.outstanding[i]
                                            /\ f.outstanding[i] < Original[i]]
  <2>1. InvoicesMatching(f, query)
          = {i \in Invoices : \A filter \in DOMAIN query : row(i)[filter] \in query[filter]}
    BY DEF InvoicesMatching
  <2>2. DOMAIN query = {"overdue"} /\ query["overdue"] = {TRUE}
    OBVIOUS
  <2>3. ASSUME NEW i \in Invoices PROVE row(i)["overdue"] = TRUE <=> i \in O
    <3>1. row(i)["overdue"] = (/\ IssueDate[i] <= f.date
                               /\ DueDate[i] < f.date
                               /\ f.outstanding[i] > 0)
      OBVIOUS
    <3>2. i \in O <=> (/\ IssueDate[i] <= f.date
                      /\ DueDate[i] < f.date
                      /\ f.outstanding[i] > 0)
      BY DEF OverdueOf
    <3> HIDE DEF row, O
    <3> QED BY <3>1, <3>2
  <2> HIDE DEF query, row, O
  <2>4. \A i \in Invoices :
          (\A filter \in DOMAIN query : row(i)[filter] \in query[filter]) <=> i \in O
    BY <2>2, <2>3
  <2>5. InvoicesMatching(f, query) = O
    BY <1>1, <2>1, <2>4
  <2> QED BY <2>5 DEF query
<1>10. open \subseteq Invoices /\ settled \subseteq Invoices /\ cancelled \subseteq Invoices
  BY <1>1, <1>6
<1> HIDE DEF O, batch, cancelled, scope, settled, open
<1>11. Balance(f, scope) = Balance(f, open) + Balance(f, settled)
  BY <1>7, <1>10, SubsetsSummed, SumUnion DEF Balance
<1>12. Balance(f, settled) = 0
  BY <1>8, <1>10, SubsetsSummed, SumZero DEF Balance
<1>13. Balance(f, O) = Balance(f, open) + Balance(f, cancelled)
  BY <1>7, <1>10, SubsetsSummed, SumUnion DEF Balance
<1>14. Balance(f, open) \in Int /\ Balance(f, cancelled) \in Int
  BY <1>10, SubsetsSummed
<1>15. batch.remaining + Balance(f, cancelled) = Balance(f, O)
  BY <1>5, <1>11, <1>12, <1>13, <1>14
<1> QED BY <1>2, <1>3, <1>4, <1>5, <1>7, <1>9, <1>15 DEF batch, cancelled

(* The report measures a part of what the dashboard says was recovered.    *)
LEMMA RecoveredBounded ==
    ASSUME NEW f \in Facts, Balanced(f)
    PROVE  Reconciliation(f).recovered <= PortfolioSummary(f).recovered
<1> DEFINE issued == {i \in Invoices : IssueDate[i] <= f.date}
           late == [i \in Invoices |-> RecoveredOn(f, i)]
           total == [i \in Invoices |-> TotalPaid(f, i)]
<1>1. /\ Reconciliation(f).recovered = SumFunctionOnSet(late, InScope(f))
      /\ PortfolioSummary(f).recovered
           = SumFunctionOnSet(Original, issued) - SumFunctionOnSet(f.outstanding, issued)
  BY DEF Reconciliation, Recovered, PortfolioSummary, Balance
<1>2. InScope(f) \in SUBSET issued /\ issued \in SUBSET Invoices
  BY DEF InScope
<1>3. IsFiniteSet(issued)
  BY <1>2, SubsetsSummed
<1>4. ASSUME NEW i \in issued
      PROVE  /\ late[i] \in Nat /\ total[i] \in Nat /\ late[i] <= total[i]
             /\ f.outstanding[i] \in Nat /\ Original[i] = f.outstanding[i] + total[i]
  <2>1. i \in Invoices
    BY <1>2
  <2>2. late[i] = PaidBetween(f, i, DueDate[i] + 1, f.date)
        /\ total[i] = PaidBetween(f, i, 0, LastDate)
    BY <2>1 DEF RecoveredOn, TotalPaid
  <2>3. late[i] \in Nat /\ total[i] \in Nat
    BY <2>1, <2>2, PaidBetweenType
  <2>4. late[i] <= total[i]
    <3> DEFINE S == Days(DueDate[i] + 1, f.date)
    <3>1. /\ late[i] = SumFunctionOnSet(f.paidOn[i], S)
          /\ total[i] = SumFunctionOnSet(f.paidOn[i], Dates)
      BY <2>2, AllDays DEF PaidBetween, Days
    <3>2. \A d \in Dates : f.paidOn[i][d] \in Nat /\ f.paidOn[i][d] <= f.paidOn[i][d]
      BY <2>1 DEF Facts
    <3>3. IsFiniteSet(Dates) /\ S \in SUBSET Dates
      BY DaysFinite
    <3> HIDE DEF S
    <3> QED BY <3>1, <3>2, <3>3, SumMonotone
  <2>5. f.outstanding[i] \in Nat /\ Original[i] = f.outstanding[i] + total[i]
    BY <2>1 DEF Facts, Balanced
  <2> QED BY <2>3, <2>4, <2>5
<1> HIDE DEF issued, late, total
<1>5. SumFunctionOnSet(late, InScope(f)) <= SumFunctionOnSet(total, issued)
  BY <1>2, <1>3, <1>4, SumMonotone
<1>6. SumFunctionOnSet(Original, issued)
        = SumFunctionOnSet(f.outstanding, issued) + SumFunctionOnSet(total, issued)
  <2>1. \A i \in issued : /\ f.outstanding[i] \in Int /\ total[i] \in Int
                          /\ Original[i] = f.outstanding[i] + total[i]
    BY <1>4
  <2> QED BY <1>3, <2>1, SumPlus
<1>7. /\ SumFunctionOnSet(f.outstanding, issued) \in Int
      /\ SumFunctionOnSet(total, issued) \in Int
      /\ SumFunctionOnSet(late, InScope(f)) \in Int
  <2>1. \A i \in issued : /\ f.outstanding[i] \in Int /\ total[i] \in Int /\ late[i] \in Int
    BY <1>4
  <2>2. IsFiniteSet(InScope(f)) /\ \A i \in InScope(f) : late[i] \in Int
    BY <1>2, <1>3, <2>1, FS_Subset
  <2> QED BY <1>3, <2>1, <2>2, SumInt
<1> QED BY <1>1, <1>5, <1>6, <1>7

LEMMA OverdueIsWorked ==
    ASSUME NEW v, v.invoice = "OVERDUE", ~Terminal(v)
    PROVE  RecommendedAction(v) # "NO_ACTION_REQUIRED"
<1>1. ~Settled(v)
  BY DEF Settled, Terminal
<1> QED BY <1>1 DEF RecommendedAction

LEMMA ProtectedMeans ==
    ASSUME NEW v
    PROVE  {"ACTIVE_DISPUTE", "ACTIVE_PAYMENT_PROMISE"} \cap EligibilityBlockers(v) # {}
             <=> v.disputed \/ "ACTIVE" \in v.promises
  BY DEF EligibilityBlockers

LEMMA TargetsPartition ==
    ASSUME NEW f, NEW view, NEW rows
    PROVE  LET rules == StoppingRules(f, view, rows) IN
           /\ rules.targets \subseteq rules.held \cup rules.immediate
           /\ rules.held \cap rules.immediate = {}
           /\ rules.violationsAvoided = rules.targets \cap (rules.disputed \cup rules.promised)
<1> DEFINE rules == StoppingRules(f, view, rows)
           open == {i \in Cases(f) \cap InScope(f) : ~Terminal(view[i])}
<1>1. /\ rules.held = {i \in open : EligibilityBlockers(view[i]) # {}}
      /\ rules.disputed = {i \in open : view[i].disputed}
      /\ rules.promised = {i \in open : "ACTIVE" \in view[i].promises}
      /\ rules.targets = {i \in open : view[i].invoice = "OVERDUE"}
      /\ rules.immediate = {i \in open : /\ EligibilityBlockers(view[i]) = {}
                                         /\ RecommendedAction(view[i]) # "NO_ACTION_REQUIRED"}
  BY DEF StoppingRules
<1>2. rules.violationsAvoided =
        {i \in rules.targets :
            {"ACTIVE_DISPUTE", "ACTIVE_PAYMENT_PROMISE"}
                \cap EligibilityBlockers(view[i]) # {}}
  BY <1>1 DEF StoppingRules
<1>3. \A i \in open : ~Terminal(view[i])
  OBVIOUS
<1> HIDE DEF rules, open
<1>4. rules.targets \subseteq rules.held \cup rules.immediate
  BY <1>1, <1>3, OverdueIsWorked
<1>5. rules.held \cap rules.immediate = {}
  BY <1>1
<1>6. rules.violationsAvoided = rules.targets \cap (rules.disputed \cup rules.promised)
  BY <1>1, <1>2, ProtectedMeans
<1> QED BY <1>4, <1>5, <1>6 DEF rules

(* The report, the dashboard, the intelligence and the invoice query agree *)
(* on the overdue balance, and the report accounts for every overdue case. *)
THEOREM ReadersAgree == ReportSpec => []ReportsAgree
<1>1. ReportInv => ReportsAgree
  <2> SUFFICES ASSUME ReportInv PROVE ReportsAgree
    OBVIOUS
  <2>1. db \in Facts /\ Balanced(db)
    BY DEF ReportInv, LedgerInv, TypeInv, TypeOK, Reconciled
  <2> DEFINE batch == Reconciliation(db)
             rules == StoppingRules(db, FactViews, [i \in Cases(db) |-> {}])
             cancelled == {i \in PortfolioSummary(db).overdueInvoices :
                             db.status[i] \in {"CANCELLED", "WRITTEN_OFF"}}
             overdue == batch.remaining + Balance(db, cancelled)
  <2>2. /\ overdue = Current.metrics.overdueExposure
        /\ overdue = PortfolioSummary(db).overdue
        /\ overdue = RecoverySummary(db, FactViews).overdue
        /\ InvoicesMatching(db, [overdue |-> {TRUE}]) = batch.open \cup cancelled
    BY <2>1, OverdueAgreed DEF Current
  <2>3. batch.recovered <= PortfolioSummary(db).recovered
    BY <2>1, RecoveredBounded
  <2>4. /\ rules.targets \subseteq rules.held \cup rules.immediate
        /\ rules.held \cap rules.immediate = {}
        /\ rules.violationsAvoided = rules.targets \cap (rules.disputed \cup rules.promised)
    BY TargetsPartition
  <2> QED BY <2>2, <2>3, <2>4 DEF ReportsAgree
<1> QED BY <1>1, ReportInitial, ReportStep, PTL DEF ReportSpec

=============================================================================
