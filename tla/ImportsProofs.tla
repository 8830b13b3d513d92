---------------------------- MODULE ImportsProofs ----------------------------
(***************************************************************************)
(* The invariants of the import, for any files, spellings and dates and    *)
(* any number of overlapping imports.  The verdicts of a file are a        *)
(* function that recursion down its rows defines; what is proved about it  *)
(* is that rule (VerdictRule), and the rest follows from the rule.         *)
(***************************************************************************)
EXTENDS Imports, FiniteInduction

Rows == [ref : DOMAIN Folded, name : DOMAIN Folded, number : DOMAIN Folded,
         readable : BOOLEAN, original : Int, outstanding : Int, issue : Int,
         due : Int, status : InvoiceStatuses \cup {"DERIVED"}]
CustomerRows == [ref : DOMAIN Folded, name : DOMAIN Folded]
InvoiceRows == [owner : DOMAIN Folded, number : DOMAIN Folded, outstanding : Int,
                issue : Int, due : Int, status : InvoiceStatuses,
                case : RecoveryStates \cup {"NONE"}]
Portfolios == [customers : SUBSET CustomerRows, invoices : SUBSET InvoiceRows, today : Nat]

Types ==
    /\ customers \subseteq CustomerRows
    /\ invoices \subseteq InvoiceRows
    /\ today \in Nat
    /\ session \in [Sessions -> {Idle, Done} \cup
            [step : {"READ"}, file : Files, portfolio : Portfolios]]
    /\ imported \subseteq Files
    /\ overlapped \in BOOLEAN

\* The unique constraints and the foreign key, of customers C and invoices I.
Distinct(C, I) ==
    /\ \A x \in C, y \in C : x.ref = y.ref => x = y
    /\ \A i \in I, j \in I : SameInvoice(i, j) => i = j
    /\ \A i \in I : \E x \in C : x.ref = i.owner

\* The same for identifiers that differ in case only.
FoldedDistinct(C, I) ==
    /\ \A x \in C, y \in C : Folded[x.ref] = Folded[y.ref] => x = y
    /\ \A i \in I, j \in I :
          Folded[i.owner] = Folded[j.owner] /\ Folded[i.number] = Folded[j.number] => i = j

\* What _validate_row asks of a row by itself.
Sound(row, date) ==
    /\ row.readable
    /\ row.original > 0 /\ row.outstanding \in 0 .. row.original
    /\ row.issue <= row.due
    /\ StatusAccepted(row, date)

\* A file whose rows are all on the ledger.
OnLedger(f, c) ==
    \A k \in 1 .. Len(f) :
        /\ Sound(f[k], c.today)
        /\ ~KnownUnderOtherName(f[k], c)
        /\ Exists(f[k], c)
        /\ \A j \in 1 .. Len(f) :
              Folded[f[j].ref] = Folded[f[k].ref] => Folded[f[j].name] = Folded[f[k].name]

Ledger(C, I, date) == [customers |-> C, invoices |-> I, today |-> date]

\* What holds of the ledger and the imported files F as long as no import
\* committed over facts that had changed.
Undisturbed(C, I, date, F) ==
    /\ FoldedDistinct(C, I)
    /\ \A f \in F : OnLedger(f, Ledger(C, I, date))
    /\ \A i \in I : i.case = Derived(i, date)

\* Customers are never removed, so what a session read of them still exists.
ReadingsKept ==
    \A s \in Sessions : session[s].step = "READ" =>
        session[s].portfolio.customers \subseteq customers

IInv ==
    /\ Types
    /\ Distinct(customers, invoices)
    /\ ReadingsKept
    /\ overlapped \/ Undisturbed(customers, invoices, today, imported)

-----------------------------------------------------------------------------
(* The verdicts. *)

\* The body of the recursion: the verdict on row k, given those of v above it.
Judge(f, c, v, k) ==
    LET above == {j \in 1 .. k - 1 :
            /\ v[j] = "VALID"
            /\ Key(f[j].ref, f[j].number) = Key(f[k].ref, f[k].number)} IN
    IF ~RowAccepted(f[k], c) \/ NameConflict(f, k, c) THEN "INVALID"
    ELSE IF Exists(f[k], c) THEN "DUPLICATE"
    ELSE IF above = {} THEN "VALID"
    ELSE IF \A j \in above :
              [f[j] EXCEPT !.status = StatusOf(f[j], c.today)] =
              [f[k] EXCEPT !.status = StatusOf(f[k], c.today)]
         THEN "DUPLICATE" ELSE "INVALID"

LEMMA VerdictsIs ==
    ASSUME NEW f, NEW c
    PROVE  Verdicts(f, c) = CHOOSE v : v = [k \in 1 .. Len(f) |-> Judge(f, c, v, k)]
  BY DEF Verdicts, Judge

\* A verdict depends on those above it only.
LEMMA JudgeAgree ==
    ASSUME NEW f, NEW c, NEW k \in Nat, NEW v, NEW w, \A j \in 1 .. k - 1 : v[j] = w[j]
    PROVE  Judge(f, c, v, k) = Judge(f, c, w, k)
<1>1. {j \in 1 .. k - 1 : /\ v[j] = "VALID"
                          /\ Key(f[j].ref, f[j].number) = Key(f[k].ref, f[k].number)} =
      {j \in 1 .. k - 1 : /\ w[j] = "VALID"
                          /\ Key(f[j].ref, f[j].number) = Key(f[k].ref, f[k].number)}
  OBVIOUS
<1> QED BY <1>1 DEF Judge

(* The recursion down the rows of a file has a solution, so that every     *)
(* verdict is the one the rule gives for the verdicts above it.            *)
LEMMA VerdictRule ==
    ASSUME NEW f, Len(f) \in Nat, NEW c
    PROVE  \A k \in 1 .. Len(f) : Verdicts(f, c)[k] = Judge(f, c, Verdicts(f, c), k)
<1> DEFINE n == Len(f)
           P == {m \in 0 .. n : \E v : v = [k \in 1 .. m |-> Judge(f, c, v, k)]}
<1>1. 0 \in P
  <2> DEFINE v == [k \in 1 .. 0 |-> 0]
  <2>1. v = [k \in 1 .. 0 |-> Judge(f, c, v, k)]
    OBVIOUS
  <2> HIDE DEF v
  <2>2. 0 \in 0 .. n
    OBVIOUS
  <2> QED BY <2>1, <2>2
<1>2. ASSUME NEW m \in 0 .. n - 1, m \in P PROVE m + 1 \in P
  <2>1. PICK v : v = [k \in 1 .. m |-> Judge(f, c, v, k)]
    BY <1>2
  <2> DEFINE new == [k \in 1 .. m + 1 |-> Judge(f, c, v, k)]
  <2>2. m \in Nat /\ m + 1 \in 0 .. n
    OBVIOUS
  <2>3. ASSUME NEW k \in 1 .. m PROVE v[k] = new[k]
    <3>1. k \in 1 .. m + 1
      BY <2>2
    <3>2. new[k] = Judge(f, c, v, k)
      BY <3>1
    <3> HIDE DEF new
    <3>3. v[k] = Judge(f, c, v, k)
      BY <2>1
    <3> QED BY <3>2, <3>3
  <2>4. ASSUME NEW k \in 1 .. m + 1 PROVE Judge(f, c, v, k) = Judge(f, c, new, k)
    <3> HIDE DEF new
    <3>1. k \in Nat /\ \A j \in 1 .. k - 1 : v[j] = new[j]
      BY <2>2, <2>3
    <3> QED BY <3>1, JudgeAgree
  <2>5. new = [k \in 1 .. m + 1 |-> Judge(f, c, new, k)]
    BY <2>4
  <2> HIDE DEF new
  <2> QED BY <2>2, <2>5
<1> HIDE DEF P
<1>3. \A m \in 0 .. n : m \in P
  BY <1>1, <1>2, IntervalInduction
<1>4. n \in P
  BY <1>3
<1>5. \E v : v = [k \in 1 .. n |-> Judge(f, c, v, k)]
  BY <1>4 DEF P
<1>6. Verdicts(f, c) = [k \in 1 .. n |-> Judge(f, c, Verdicts(f, c), k)]
  BY <1>5, VerdictsIs
<1>7. ASSUME NEW v, v = [k \in 1 .. n |-> Judge(f, c, v, k)]
      PROVE  \A k \in 1 .. n : v[k] = Judge(f, c, v, k)
  BY <1>7
<1> QED BY <1>6, <1>7

-----------------------------------------------------------------------------
(* What a valid row is. *)

\* Of some rows of a file, one comes first.
LEMMA FirstRow ==
    ASSUME NEW n \in Nat, NEW S \in SUBSET (1 .. n), S # {}
    PROVE  \E m \in S : \A x \in S : m <= x
<1> DEFINE P == {k \in 0 .. n : S \cap (1 .. k) = {} \/ \E m \in S : \A x \in S : m <= x}
<1>1. 0 \in P
  <2>1. 0 \in 0 .. n /\ S \cap (1 .. 0) = {}
    OBVIOUS
  <2> QED BY <2>1
<1>2. ASSUME NEW k \in 0 .. n - 1, k \in P PROVE k + 1 \in P
  <2>1. k + 1 \in 0 .. n /\ k \in Nat
    OBVIOUS
  <2>2. CASE S \cap (1 .. k) = {} /\ k + 1 \in S
    <3>1. ASSUME NEW x \in S PROVE k + 1 <= x
      <4>1. x \in 1 .. n /\ x \notin 1 .. k
        BY <2>2
      <4> QED BY <2>1, <4>1
    <3> QED BY <2>1, <2>2, <3>1
  <2>3. CASE S \cap (1 .. k) = {} /\ k + 1 \notin S
    <3>1. S \cap (1 .. k + 1) = {}
      BY <2>1, <2>3
    <3> QED BY <2>1, <3>1
  <2>4. CASE \E m \in S : \A x \in S : m <= x
    BY <2>1, <2>4
  <2>5. S \cap (1 .. k) = {} \/ \E m \in S : \A x \in S : m <= x
    BY <1>2
  <2> QED BY <2>2, <2>3, <2>4, <2>5
<1> HIDE DEF P
<1>3. \A k \in 0 .. n : k \in P
  BY <1>1, <1>2, IntervalInduction
<1>4. n \in P
  BY <1>3
<1>5. S \cap (1 .. n) # {}
  OBVIOUS
<1> QED BY <1>4, <1>5 DEF P

LEMMA FileRows ==
    ASSUME NEW f \in Files
    PROVE  Len(f) \in Nat /\ \A k \in 1 .. Len(f) : f[k] \in Rows
<1>1. f \in Seq(Rows)
  BY ImportConstants DEF Rows
<1> QED BY <1>1

LEMMA Acceptance ==
    ASSUME NEW row, NEW c
    PROVE  RowAccepted(row, c) <=> Sound(row, c.today) /\ ~KnownUnderOtherName(row, c)
  BY DEF RowAccepted, Sound

LEMMA ValidRow ==
    ASSUME NEW f \in Files, NEW c, NEW k \in ValidRows(f, c)
    PROVE  /\ k \in 1 .. Len(f)
           /\ RowAccepted(f[k], c)
           /\ ~NameConflict(f, k, c)
           /\ ~Exists(f[k], c)
           /\ \A j \in ValidRows(f, c) :
                 j < k => Key(f[j].ref, f[j].number) # Key(f[k].ref, f[k].number)
<1> DEFINE v == Verdicts(f, c)
<1>1. k \in 1 .. Len(f) /\ v[k] = "VALID"
  BY DEF ValidRows
<1>2. v[k] = Judge(f, c, v, k)
  BY <1>1, FileRows, VerdictRule
<1> HIDE DEF v
<1>3. RowAccepted(f[k], c) /\ ~NameConflict(f, k, c) /\ ~Exists(f[k], c)
  BY <1>1, <1>2 DEF Judge
<1>4. {j \in 1 .. k - 1 : /\ v[j] = "VALID"
                          /\ Key(f[j].ref, f[j].number) = Key(f[k].ref, f[k].number)} = {}
  BY <1>1, <1>2 DEF Judge
<1>5. ASSUME NEW j \in ValidRows(f, c), j < k
      PROVE  Key(f[j].ref, f[j].number) # Key(f[k].ref, f[k].number)
  <2>1. j \in 1 .. Len(f) /\ v[j] = "VALID"
    BY DEF ValidRows, v
  <2>2. j \in 1 .. k - 1
    BY <1>1, <1>5, <2>1, FileRows
  <2> QED BY <1>4, <2>1, <2>2
<1> QED BY <1>1, <1>3, <1>5

\* No two valid rows are one receivable, however they are spelled.
LEMMA ValidRowsDiffer ==
    ASSUME NEW f \in Files, NEW c, NEW j \in ValidRows(f, c), NEW k \in ValidRows(f, c),
           Key(f[j].ref, f[j].number) = Key(f[k].ref, f[k].number)
    PROVE  j = k
<1>1. j \in Nat /\ k \in Nat
  BY ValidRow, FileRows
<1>2. ~(j < k) /\ ~(k < j)
  BY ValidRow
<1> QED BY <1>1, <1>2

\* What a row of a file that may be imported is: accepted, and once the valid
\* rows are added, on the ledger.
LEMMA ImportableRow ==
    ASSUME NEW f \in Files, NEW c, Importable(f, c), NEW k \in 1 .. Len(f)
    PROVE  /\ RowAccepted(f[k], c)
           /\ ~NameConflict(f, k, c)
           /\ \/ Exists(f[k], c)
              \/ \E j \in ValidRows(f, c) : Key(f[j].ref, f[j].number) = Key(f[k].ref, f[k].number)
<1> DEFINE v == Verdicts(f, c)
           above == {j \in 1 .. k - 1 : /\ v[j] = "VALID"
                          /\ Key(f[j].ref, f[j].number) = Key(f[k].ref, f[k].number)}
<1>1. v[k] # "INVALID"
  BY DEF Importable
<1>2. v[k] = Judge(f, c, v, k)
  BY FileRows, VerdictRule
<1>3. k \in ValidRows(f, c) <=> v[k] = "VALID"
  BY DEF ValidRows
<1>4. ASSUME NEW j \in above
      PROVE  j \in ValidRows(f, c) /\ Key(f[j].ref, f[j].number) = Key(f[k].ref, f[k].number)
  <2>1. j \in 1 .. Len(f)
    BY FileRows
  <2> QED BY <2>1 DEF ValidRows
<1> HIDE DEF v
<1>5. RowAccepted(f[k], c) /\ ~NameConflict(f, k, c)
  BY <1>1, <1>2 DEF Judge
<1>6. Exists(f[k], c) \/ above # {} \/ v[k] = "VALID"
  BY <1>1, <1>2 DEF Judge
<1> HIDE DEF above
<1> QED BY <1>3, <1>4, <1>5, <1>6

-----------------------------------------------------------------------------
(* What persist_receivables adds. *)

\* The first valid row of a customer.
First(f, c, j) ==
    /\ j \in ValidRows(f, c)
    /\ \A i \in ValidRows(f, c) : Folded[f[i].ref] = Folded[f[j].ref] => j <= i

LEMMA FirstExists ==
    ASSUME NEW f \in Files, NEW c, NEW k \in ValidRows(f, c)
    PROVE  \E j : First(f, c, j) /\ Folded[f[j].ref] = Folded[f[k].ref]
<1> DEFINE S == {j \in ValidRows(f, c) : Folded[f[j].ref] = Folded[f[k].ref]}
<1>1. S \in SUBSET (1 .. Len(f)) /\ k \in S /\ Len(f) \in Nat
  BY ValidRow, FileRows
<1> HIDE DEF S
<1>2. PICK m \in S : \A x \in S : m <= x
  BY <1>1, FirstRow
<1> QED BY <1>2 DEF S, First

\* A new customer is what the first valid row of its reference says.
LEMMA NewCustomer ==
    ASSUME NEW f \in Files, NEW c
    PROVE  \A x : x \in NewCustomers(f, c) <=>
             /\ \A y \in c.customers : Folded[y.ref] # Folded[x.ref]
             /\ \E j : First(f, c, j) /\ x = [ref |-> f[j].ref, name |-> f[j].name]
<1> SUFFICES ASSUME NEW x
             PROVE  x \in NewCustomers(f, c) <=>
                      /\ \A y \in c.customers : Folded[y.ref] # Folded[x.ref]
                      /\ \E j : First(f, c, j) /\ x = [ref |-> f[j].ref, name |-> f[j].name]
  OBVIOUS
<1>1. ASSUME x \in NewCustomers(f, c)
      PROVE  /\ \A y \in c.customers : Folded[y.ref] # Folded[x.ref]
             /\ \E j : First(f, c, j) /\ x = [ref |-> f[j].ref, name |-> f[j].name]
  <2>1. PICK k \in ValidRows(f, c) :
            /\ x = [ref |-> f[k].ref, name |-> f[k].name]
            /\ \A j \in ValidRows(f, c) : j < k => Folded[f[j].ref] # Folded[x.ref]
    BY <1>1 DEF NewCustomers
  <2>2. x.ref = f[k].ref
    BY <2>1
  <2>3. ASSUME NEW i \in ValidRows(f, c), Folded[f[i].ref] = Folded[f[k].ref] PROVE k <= i
    <3>1. i \in Nat /\ k \in Nat
      BY ValidRow, FileRows
    <3>2. ~(i < k)
      BY <2>1, <2>2, <2>3
    <3> QED BY <3>1, <3>2
  <2>4. First(f, c, k)
    BY <2>3 DEF First
  <2>5. \A y \in c.customers : Folded[y.ref] # Folded[x.ref]
    BY <1>1 DEF NewCustomers
  <2> QED BY <2>1, <2>4, <2>5
<1>2. ASSUME NEW k, First(f, c, k), x = [ref |-> f[k].ref, name |-> f[k].name],
             \A y \in c.customers : Folded[y.ref] # Folded[x.ref]
      PROVE  x \in NewCustomers(f, c)
  <2>1. k \in ValidRows(f, c) /\ x.ref = f[k].ref
    BY <1>2 DEF First
  <2>2. ASSUME NEW j \in ValidRows(f, c), j < k PROVE Folded[f[j].ref] # Folded[x.ref]
    <3>1. j \in Nat /\ k \in Nat
      BY <2>1, ValidRow, FileRows
    <3>2. ~(k <= j)
      BY <2>2, <3>1
    <3> QED BY <1>2, <2>1, <3>2 DEF First
  <2> QED BY <1>2, <2>1, <2>2 DEF NewCustomers
<1> QED BY <1>1, <1>2

\* First rows of one reference are one row.
LEMMA FirstUnique ==
    ASSUME NEW f \in Files, NEW c, NEW j, NEW k, First(f, c, j), First(f, c, k),
           Folded[f[j].ref] = Folded[f[k].ref]
    PROVE  j = k
<1>1. j \in Nat /\ k \in Nat
  BY ValidRow, FileRows DEF First
<1>2. j <= k /\ k <= j
  BY DEF First
<1> QED BY <1>1, <1>2

LEMMA NewCustomersDiffer ==
    ASSUME NEW f \in Files, NEW c,
           NEW x \in NewCustomers(f, c), NEW y \in NewCustomers(f, c),
           Folded[x.ref] = Folded[y.ref]
    PROVE  x = y
<1>1. PICK j : First(f, c, j) /\ x = [ref |-> f[j].ref, name |-> f[j].name]
  BY NewCustomer
<1>2. PICK k : First(f, c, k) /\ y = [ref |-> f[k].ref, name |-> f[k].name]
  BY NewCustomer
<1>3. x.ref = f[j].ref /\ y.ref = f[k].ref
  BY <1>1, <1>2
<1>4. j = k
  BY <1>1, <1>2, <1>3, FirstUnique
<1> QED BY <1>1, <1>2, <1>4

LEMMA NewCustomersTyped ==
    ASSUME NEW f \in Files, NEW c
    PROVE  NewCustomers(f, c) \subseteq CustomerRows
<1> SUFFICES ASSUME NEW x \in NewCustomers(f, c) PROVE x \in CustomerRows
  OBVIOUS
<1>1. PICK j : First(f, c, j) /\ x = [ref |-> f[j].ref, name |-> f[j].name]
  BY NewCustomer
<1>2. f[j] \in Rows
  BY <1>1, ValidRow, FileRows DEF First
<1> QED BY <1>1, <1>2 DEF Rows, CustomerRows

(* A row is filed under a customer that was read or is added, and under a  *)
(* spelling of the reference it gives.                                     *)
LEMMA OwnerIs ==
    ASSUME NEW f \in Files, NEW c \in Portfolios, NEW k \in ValidRows(f, c)
    PROVE  /\ Owner(f, k, c) \in DOMAIN Folded
           /\ Folded[Owner(f, k, c)] = Folded[f[k].ref]
           /\ \E x \in c.customers \cup NewCustomers(f, c) : x.ref = Owner(f, k, c)
<1> DEFINE same == {y \in c.customers : Folded[y.ref] = Folded[f[k].ref]}
           known == {x.ref : x \in same}
           first == {j \in ValidRows(f, c) :
                    /\ Folded[f[j].ref] = Folded[f[k].ref]
                    /\ \A i \in ValidRows(f, c) :
                          Folded[f[i].ref] = Folded[f[k].ref] => j <= i}
           Names(ref) == IF known # {} THEN ref \in known ELSE \E j \in first : ref = f[j].ref
<1>1. Owner(f, k, c) = CHOOSE ref \in DOMAIN Folded : Names(ref)
  BY DEF Owner
<1>2. \E ref \in DOMAIN Folded : Names(ref)
  <2>1. CASE known # {}
    <3>1. PICK x \in same : TRUE
      BY <2>1
    <3>2. x \in CustomerRows
      BY DEF Portfolios
    <3>3. x.ref \in DOMAIN Folded /\ x.ref \in known
      BY <3>1, <3>2 DEF CustomerRows
    <3> QED BY <2>1, <3>3
  <2>2. CASE known = {}
    <3>1. PICK j : First(f, c, j) /\ Folded[f[j].ref] = Folded[f[k].ref]
      BY FirstExists
    <3>2. j \in first
      BY <3>1 DEF First
    <3>3. f[j].ref \in DOMAIN Folded
      BY <3>1, ValidRow, FileRows DEF First, Rows
    <3> HIDE DEF first, known
    <3> QED BY <2>2, <3>2, <3>3
  <2> QED BY <2>1, <2>2
<1> DEFINE o == Owner(f, k, c)
<1>3. o \in DOMAIN Folded /\ Names(o)
  <2> HIDE DEF Names
  <2> QED BY <1>1, <1>2
<1> HIDE DEF o
<1>4. CASE known # {}
  <2>1. o \in known
    BY <1>3, <1>4
  <2>2. PICK x \in same : x.ref = o
    BY <2>1
  <2> QED BY <1>3, <2>2 DEF o
<1>5. CASE known = {}
  <2>1. PICK j \in first : o = f[j].ref
    <3> HIDE DEF first
    <3> QED BY <1>3, <1>5
  <2>2. First(f, c, j) /\ Folded[o] = Folded[f[k].ref]
    BY <2>1 DEF First
  <2> DEFINE x == [ref |-> f[j].ref, name |-> f[j].name]
  <2>3. x.ref = o
    BY <2>1
  <2>4. \A y \in c.customers : Folded[y.ref] # Folded[x.ref]
    BY <1>5, <2>2, <2>3
  <2>5. x \in NewCustomers(f, c)
    <3>1. \E i : First(f, c, i) /\ x = [ref |-> f[i].ref, name |-> f[i].name]
      BY <2>2
    <3> HIDE DEF x
    <3> QED BY <2>4, <3>1, NewCustomer
  <2> HIDE DEF x
  <2> QED BY <1>3, <2>2, <2>3, <2>5 DEF o
<1> QED BY <1>4, <1>5

LEMMA StatusTyped ==
    ASSUME NEW row \in Rows, NEW date PROVE StatusOf(row, date) \in InvoiceStatuses
<1>1. row.status \in InvoiceStatuses \cup {"DERIVED"}
  BY DEF Rows
<1>2. DerivedStatus(row, date) \in InvoiceStatuses
  BY DEF DerivedStatus, InvoiceStatuses
<1> QED BY <1>1, <1>2 DEF StatusOf

LEMMA NewInvoiceIs ==
    ASSUME NEW f \in Files, NEW c \in Portfolios, NEW k \in ValidRows(f, c)
    PROVE  /\ NewInvoice(f, k, c) \in InvoiceRows
           /\ NewInvoice(f, k, c).owner = Owner(f, k, c)
           /\ NewInvoice(f, k, c).number = f[k].number
<1>1. f[k] \in Rows
  BY ValidRow, FileRows
<1>2. StatusOf(f[k], c.today) \in InvoiceStatuses
  BY <1>1, StatusTyped
<1>3. Owner(f, k, c) \in DOMAIN Folded
  BY OwnerIs
<1>4. {"NEW", "NONE"} \subseteq RecoveryStates \cup {"NONE"}
  BY DEF RecoveryStates
<1>5. NewInvoice(f, k, c).owner = Owner(f, k, c) /\ NewInvoice(f, k, c).number = f[k].number
  BY DEF NewInvoice
<1>6. /\ f[k].number \in DOMAIN Folded /\ f[k].outstanding \in Int
      /\ f[k].issue \in Int /\ f[k].due \in Int
  BY <1>1 DEF Rows
<1>7. NewInvoice(f, k, c) \in InvoiceRows
  BY <1>2, <1>3, <1>4, <1>6 DEF NewInvoice, InvoiceRows
<1> QED BY <1>5, <1>7

\* Two added invoices of one customer and number are one.
LEMMA NewInvoicesDiffer ==
    ASSUME NEW f \in Files, NEW c \in Portfolios,
           NEW j \in ValidRows(f, c), NEW k \in ValidRows(f, c),
           Folded[NewInvoice(f, j, c).owner] = Folded[NewInvoice(f, k, c).owner],
           Folded[NewInvoice(f, j, c).number] = Folded[NewInvoice(f, k, c).number]
    PROVE  j = k
<1>1. /\ Folded[NewInvoice(f, j, c).owner] = Folded[f[j].ref]
      /\ Folded[NewInvoice(f, k, c).owner] = Folded[f[k].ref]
  BY NewInvoiceIs, OwnerIs
<1>2. Key(f[j].ref, f[j].number) = Key(f[k].ref, f[k].number)
  BY <1>1, NewInvoiceIs DEF Key
<1> QED BY <1>2, ValidRowsDiffer

-----------------------------------------------------------------------------
(* The states of cases. *)

\* An invoice in its case state.
WithCase(i, state) == [i EXCEPT !.case = state]

LEMMA WithCaseIs ==
    ASSUME NEW i \in InvoiceRows, NEW state \in RecoveryStates \cup {"NONE"}
    PROVE  /\ WithCase(i, state) \in InvoiceRows
           /\ WithCase(i, state).owner = i.owner /\ WithCase(i, state).number = i.number
           /\ WithCase(i, state).outstanding = i.outstanding
           /\ WithCase(i, state).issue = i.issue /\ WithCase(i, state).due = i.due
           /\ WithCase(i, state).status = i.status /\ WithCase(i, state).case = state
  BY DEF WithCase, InvoiceRows

LEMMA DerivedTyped ==
    ASSUME NEW i \in InvoiceRows, NEW d
    PROVE  Derived(i, d) \in RecoveryStates \cup {"NONE"}
<1>1. i.case \in RecoveryStates \cup {"NONE"}
  BY DEF InvoiceRows
<1> QED BY <1>1 DEF Derived, DesiredCaseState, RecoveryStates

(* Deriving the state of a case again changes nothing: the rules look at   *)
(* the stored state only to keep it or to leave a closed case alone.       *)
LEMMA DerivedTwice ==
    ASSUME NEW i \in InvoiceRows, NEW d
    PROVE  Derived(WithCase(i, Derived(i, d)), d) = Derived(i, d)
<1> DEFINE s == Derived(i, d)
           w == WithCase(i, s)
           View(x, state) == [invoice |-> InvoiceState(x.issue, x.due, x.outstanding, d),
                       disputed |-> x.status = "DISPUTED", promises |-> {},
                       state |-> state, priority |-> "NORMAL"]
<1>1. s \in RecoveryStates \cup {"NONE"}
  BY DerivedTyped
<1>2. i.case \in RecoveryStates \cup {"NONE"}
  BY DEF InvoiceRows
<1>3. /\ w.case = s /\ w.status = i.status
      /\ w.issue = i.issue /\ w.due = i.due /\ w.outstanding = i.outstanding
  <2> HIDE DEF s
  <2> QED BY <1>1, WithCaseIs
<1>4. s = IF i.case = "NONE" THEN "NONE" ELSE DesiredCaseState(View(i, i.case))
  BY DEF Derived
<1>5. Derived(w, d) = IF s = "NONE" THEN "NONE" ELSE DesiredCaseState(View(i, s))
  <2> HIDE DEF w, s
  <2> QED BY <1>3 DEF Derived
<1> HIDE DEF s, w
<1>6. ASSUME NEW state \in RecoveryStates
      PROVE  /\ DesiredCaseState(View(i, state)) \in RecoveryStates
             /\ DesiredCaseState(View(i, DesiredCaseState(View(i, state)))) =
                DesiredCaseState(View(i, state))
  BY DEF DesiredCaseState, RecoveryStates
<1>7. "NONE" \notin RecoveryStates
  BY DEF RecoveryStates
<1>8. s = Derived(i, d) /\ w = WithCase(i, s)
  BY DEF s, w
<1> HIDE DEF View
<1>9. Derived(w, d) = s
  <2>1. CASE i.case = "NONE"
    BY <1>4, <1>5, <2>1
  <2>2. CASE i.case # "NONE"
    <3>1. i.case \in RecoveryStates
      BY <1>2, <2>2
    <3>2. s = DesiredCaseState(View(i, i.case)) /\ s # "NONE"
      BY <1>4, <1>6, <1>7, <2>2, <3>1
    <3> QED BY <1>5, <1>6, <3>1, <3>2
  <2> QED BY <2>1, <2>2
<1> QED BY <1>8, <1>9

LEMMA SynchronizedIs ==
    ASSUME NEW i \in InvoiceRows, NEW c \in Portfolios
    PROVE  /\ \E state \in RecoveryStates \cup {"NONE"} : Synchronized(i, c) = WithCase(i, state)
           /\ (\A j \in c.invoices : SameInvoice(i, j) => j = i) =>
                Synchronized(i, c) = WithCase(i, Derived(i, c.today))
<1> DEFINE read == {j \in c.invoices : SameInvoice(i, j)}
           facts == IF read = {} THEN i ELSE CHOOSE j \in read : TRUE
<1>1. facts \in InvoiceRows /\ (read = {} => facts = i) /\ (read # {} => facts \in read)
  <2>1. read \subseteq InvoiceRows
    BY DEF Portfolios
  <2> HIDE DEF read
  <2> QED BY <2>1
<1>2. Synchronized(i, c) = WithCase(i, Derived([facts EXCEPT !.case = i.case], c.today))
  BY DEF Synchronized, WithCase
<1>3. i.case \in RecoveryStates \cup {"NONE"}
  BY DEF InvoiceRows
<1>4. [facts EXCEPT !.case = i.case] \in InvoiceRows
  <2> HIDE DEF facts
  <2> QED BY <1>1, <1>3 DEF InvoiceRows
<1>5. Derived([facts EXCEPT !.case = i.case], c.today) \in RecoveryStates \cup {"NONE"}
  <2> HIDE DEF facts
  <2> QED BY <1>4, DerivedTyped
<1>6. ASSUME \A j \in c.invoices : SameInvoice(i, j) => j = i
      PROVE  Synchronized(i, c) = WithCase(i, Derived(i, c.today))
  <2>1. facts = i
    <3>1. \A j \in read : j = i
      BY <1>6
    <3> HIDE DEF read, facts
    <3> QED BY <1>1, <3>1
  <2>2. [i EXCEPT !.case = i.case] = i
    BY DEF InvoiceRows
  <2> HIDE DEF facts
  <2> QED BY <1>2, <2>1, <2>2
<1> HIDE DEF facts
<1> QED BY <1>2, <1>5, <1>6

-----------------------------------------------------------------------------
(* Every commit rewrites invoices one by one and keeps their identifiers.  *)

LEMMA Rewritten ==
    ASSUME NEW I, NEW J, NEW g, J = {g[i] : i \in I},
           \A i \in I : g[i].owner = i.owner /\ g[i].number = i.number, NEW C
    PROVE  /\ Distinct(C, I) => Distinct(C, J)
           /\ FoldedDistinct(C, I) => FoldedDistinct(C, J)
<1>1. ASSUME Distinct(C, I) PROVE Distinct(C, J)
  <2>1. ASSUME NEW x \in J, NEW y \in J, SameInvoice(x, y) PROVE x = y
    <3>1. PICK i \in I : x = g[i]
      OBVIOUS
    <3>2. PICK j \in I : y = g[j]
      OBVIOUS
    <3>3. SameInvoice(i, j)
      BY <2>1, <3>1, <3>2 DEF SameInvoice
    <3> QED BY <1>1, <3>1, <3>2, <3>3 DEF Distinct
  <2>2. ASSUME NEW x \in J PROVE \E y \in C : y.ref = x.owner
    BY <1>1 DEF Distinct
  <2> QED BY <1>1, <2>1, <2>2 DEF Distinct
<1>2. ASSUME FoldedDistinct(C, I) PROVE FoldedDistinct(C, J)
  <2>1. ASSUME NEW x \in J, NEW y \in J,
               Folded[x.owner] = Folded[y.owner], Folded[x.number] = Folded[y.number]
        PROVE  x = y
    <3>1. PICK i \in I : x = g[i]
      OBVIOUS
    <3>2. PICK j \in I : y = g[j]
      OBVIOUS
    <3>3. Folded[i.owner] = Folded[j.owner] /\ Folded[i.number] = Folded[j.number]
      BY <2>1, <3>1, <3>2
    <3> QED BY <1>2, <3>1, <3>2, <3>3 DEF FoldedDistinct
  <2> QED BY <1>2, <2>1 DEF FoldedDistinct
<1> QED BY <1>1, <1>2

\* A row that is accepted on one day is accepted on a later one.
LEMMA SoundLater ==
    ASSUME NEW row \in Rows, NEW d \in Nat, NEW e \in Nat, d <= e, Sound(row, d)
    PROVE  Sound(row, e)
<1>1. /\ row.original \in Int /\ row.outstanding \in Int /\ row.due \in Int
      /\ row.original > 0 /\ row.outstanding >= 0 /\ row.outstanding <= row.original
      /\ StatusAccepted(row, d)
  BY DEF Rows, Sound
<1>2. StatusAccepted(row, e)
  <2>1. CASE row.status = "DERIVED"
    BY <1>1, <2>1 DEF StatusAccepted, StatusOf, DerivedStatus
  <2>2. CASE row.status # "DERIVED"
    <3>1. StatusOf(row, d) = row.status /\ StatusOf(row, e) = row.status
      BY <2>2 DEF StatusOf
    <3> QED BY <1>1, <3>1 DEF StatusAccepted
  <2> QED BY <2>1, <2>2
<1> QED BY <1>2 DEF Sound

\* A file stays on the ledger while invoices are rewritten, others are added
\* and customers of other references appear.
LEMMA OnLedgerKept ==
    ASSUME NEW f \in Files, NEW C, NEW I, NEW d \in Nat, NEW B, NEW J, NEW e \in Nat,
           OnLedger(f, Ledger(C, I, d)), d <= e,
           \A i \in I : \E j \in J : j.owner = i.owner /\ j.number = i.number,
           \A i \in I : \E x \in C : x.ref = i.owner,
           \A x \in B : x \in C \/ \A y \in C : Folded[y.ref] # Folded[x.ref]
    PROVE  OnLedger(f, Ledger(B, J, e))
<1> DEFINE c == Ledger(C, I, d)
           b == Ledger(B, J, e)
<1>1. /\ c.customers = C /\ c.invoices = I /\ c.today = d
      /\ b.customers = B /\ b.invoices = J /\ b.today = e
  BY DEF Ledger
<1> HIDE DEF c, b
<1>2. SUFFICES ASSUME OnLedger(f, c) PROVE OnLedger(f, b)
  BY DEF c, b
<1>3. ASSUME NEW k \in 1 .. Len(f)
      PROVE  /\ Sound(f[k], b.today)
             /\ ~KnownUnderOtherName(f[k], b)
             /\ Exists(f[k], b)
             /\ \A j \in 1 .. Len(f) :
                   Folded[f[j].ref] = Folded[f[k].ref] => Folded[f[j].name] = Folded[f[k].name]
  <2>1. /\ Sound(f[k], d) /\ ~KnownUnderOtherName(f[k], c) /\ Exists(f[k], c)
        /\ \A j \in 1 .. Len(f) :
              Folded[f[j].ref] = Folded[f[k].ref] => Folded[f[j].name] = Folded[f[k].name]
    BY <1>1, <1>2 DEF OnLedger
  <2>2. Sound(f[k], b.today)
    BY <1>1, <2>1, FileRows, SoundLater
  <2>3. PICK i \in I : Folded[i.owner] = Folded[f[k].ref] /\ Folded[i.number] = Folded[f[k].number]
    BY <1>1, <2>1 DEF Exists, Key
  <2>4. PICK j \in J : j.owner = i.owner /\ j.number = i.number
    OBVIOUS
  <2>5. Exists(f[k], b)
    BY <1>1, <2>3, <2>4 DEF Exists, Key
  <2>6. PICK y \in C : Folded[y.ref] = Folded[f[k].ref]
    BY <2>3
  <2>7. \A x \in B : Folded[x.ref] = Folded[f[k].ref] => x \in C
    BY <2>6
  <2>8. ~KnownUnderOtherName(f[k], b)
    BY <1>1, <2>1, <2>7 DEF KnownUnderOtherName
  <2> QED BY <2>1, <2>2, <2>5, <2>8
<1> QED BY <1>3 DEF OnLedger

\* The rows of a file that may be imported agree on every customer's name.
LEMMA OneNameForEach ==
    ASSUME NEW f \in Files, NEW c, Importable(f, c),
           NEW j \in 1 .. Len(f), NEW k \in 1 .. Len(f), Folded[f[j].ref] = Folded[f[k].ref]
    PROVE  Folded[f[j].name] = Folded[f[k].name]
<1> DEFINE S == {i \in 1 .. Len(f) : Folded[f[i].ref] = Folded[f[k].ref]}
<1>1. Len(f) \in Nat /\ S \in SUBSET (1 .. Len(f)) /\ k \in S /\ j \in S
  BY FileRows
<1> HIDE DEF S
<1>2. PICK m \in S : \A x \in S : m <= x
  BY <1>1, FirstRow
<1>3. ASSUME NEW i \in S PROVE Folded[f[m].name] = Folded[f[i].name]
  <2>1. /\ m \in 1 .. Len(f) /\ i \in 1 .. Len(f) /\ m <= i
        /\ Folded[f[m].ref] = Folded[f[i].ref]
    BY <1>2 DEF S
  <2>2. CASE m = i
    BY <2>2
  <2>3. CASE m # i
    <3>1. m \in 1 .. i - 1
      BY <1>1, <2>1, <2>3
    <3>2. RowAccepted(f[m], c) /\ ~NameConflict(f, i, c)
      BY <2>1, ImportableRow
    <3>3. ASSUME NEW x \in 1 .. m - 1 PROVE Folded[f[x].ref] # Folded[f[m].ref]
      <4>1. x \in 1 .. Len(f) /\ ~(m <= x)
        BY <1>1, <2>1
      <4>2. x \notin S
        BY <1>2, <4>1
      <4> QED BY <1>2, <4>1, <4>2 DEF S
    <3> QED BY <2>1, <3>1, <3>2, <3>3 DEF NameConflict
  <2> QED BY <2>2, <2>3
<1> QED BY <1>1, <1>3

-----------------------------------------------------------------------------
(* A commit of rows judged against c, when the ledger is C and I. *)

Added(f, c) == {NewInvoice(f, k, c) : k \in ValidRows(f, c)}

\* The unique constraints hold, and the references exist.
LEMMA CommitDistinct ==
    ASSUME NEW f \in Files, NEW c \in Portfolios,
           NEW C, NEW I \in SUBSET InvoiceRows, Distinct(C, I), c.customers \subseteq C,
           \A x \in NewCustomers(f, c), y \in C : x.ref # y.ref,
           \A i \in Added(f, c), j \in I : ~SameInvoice(i, j)
    PROVE  Distinct(C \cup NewCustomers(f, c), I \cup Added(f, c))
<1> DEFINE new == NewCustomers(f, c)
           added == Added(f, c)
<1>1. ASSUME NEW x \in C \cup new, NEW y \in C \cup new, x.ref = y.ref PROVE x = y
  <2>1. CASE x \in C /\ y \in C
    BY <1>1, <2>1 DEF Distinct
  <2>2. CASE x \in new /\ y \in new
    BY <1>1, <2>2, NewCustomersDiffer
  <2> QED BY <1>1, <2>1, <2>2
<1>2. ASSUME NEW x \in I \cup added, NEW y \in I \cup added, SameInvoice(x, y) PROVE x = y
  <2>1. CASE x \in I /\ y \in I
    BY <1>2, <2>1 DEF Distinct
  <2>2. CASE x \in added /\ y \in added
    <3>1. PICK j \in ValidRows(f, c) : x = NewInvoice(f, j, c)
      BY <2>2 DEF Added
    <3>2. PICK k \in ValidRows(f, c) : y = NewInvoice(f, k, c)
      BY <2>2 DEF Added
    <3>3. j = k
      BY <1>2, <3>1, <3>2, NewInvoicesDiffer DEF SameInvoice
    <3> QED BY <3>1, <3>2, <3>3
  <2>3. SameInvoice(y, x)
    BY <1>2 DEF SameInvoice
  <2> QED BY <1>2, <2>1, <2>2, <2>3
<1>3. ASSUME NEW i \in I \cup added PROVE \E x \in C \cup new : x.ref = i.owner
  <2>1. CASE i \in I
    BY <2>1 DEF Distinct
  <2>2. CASE i \in added
    <3>1. PICK k \in ValidRows(f, c) : i = NewInvoice(f, k, c)
      BY <2>2 DEF Added
    <3>2. i.owner = Owner(f, k, c)
      BY <3>1, NewInvoiceIs
    <3>3. \E x \in c.customers \cup new : x.ref = Owner(f, k, c)
      BY OwnerIs
    <3> QED BY <3>2, <3>3
  <2> QED BY <2>1, <2>2
<1> HIDE DEF new, added
<1>4. Distinct(C \cup new, I \cup added)
  BY <1>1, <1>2, <1>3 DEF Distinct
<1> QED BY <1>4 DEF new, added

\* When nothing has changed since the file was read, spellings do not matter.
LEMMA CommitFolded ==
    ASSUME NEW f \in Files, NEW c \in Portfolios, FoldedDistinct(c.customers, c.invoices)
    PROVE  FoldedDistinct(c.customers \cup NewCustomers(f, c), c.invoices \cup Added(f, c))
<1> DEFINE C == c.customers
           I == c.invoices
           new == NewCustomers(f, c)
           added == Added(f, c)
<1>1. ASSUME NEW x \in C \cup new, NEW y \in C \cup new, Folded[x.ref] = Folded[y.ref]
      PROVE  x = y
  <2>1. CASE x \in C /\ y \in C
    BY <1>1, <2>1 DEF FoldedDistinct
  <2>2. CASE x \in new /\ y \in new
    BY <1>1, <2>2, NewCustomersDiffer
  <2>3. \A a \in new, b \in C : Folded[b.ref] # Folded[a.ref]
    BY NewCustomer
  <2> QED BY <1>1, <2>1, <2>2, <2>3
<1>2. ASSUME NEW x \in I, NEW y \in added,
             Folded[x.owner] = Folded[y.owner], Folded[x.number] = Folded[y.number]
      PROVE  FALSE
  <2>1. PICK k \in ValidRows(f, c) : y = NewInvoice(f, k, c)
    BY DEF Added
  <2>2. Folded[y.owner] = Folded[f[k].ref] /\ Folded[y.number] = Folded[f[k].number]
    BY <2>1, NewInvoiceIs, OwnerIs
  <2>3. Exists(f[k], c)
    BY <1>2, <2>2 DEF Exists, Key
  <2> QED BY <2>3, ValidRow
<1>3. ASSUME NEW x \in I \cup added, NEW y \in I \cup added,
             Folded[x.owner] = Folded[y.owner], Folded[x.number] = Folded[y.number]
      PROVE  x = y
  <2>1. CASE x \in I /\ y \in I
    BY <1>3, <2>1 DEF FoldedDistinct
  <2>2. CASE x \in added /\ y \in added
    <3>1. PICK j \in ValidRows(f, c) : x = NewInvoice(f, j, c)
      BY <2>2 DEF Added
    <3>2. PICK k \in ValidRows(f, c) : y = NewInvoice(f, k, c)
      BY <2>2 DEF Added
    <3>3. j = k
      BY <1>3, <3>1, <3>2, NewInvoicesDiffer
    <3> QED BY <3>1, <3>2, <3>3
  <2> QED BY <1>2, <1>3, <2>1, <2>2
<1> HIDE DEF C, I, new, added
<1>4. FoldedDistinct(C \cup new, I \cup added)
  BY <1>1, <1>3 DEF FoldedDistinct
<1> QED BY <1>4 DEF C, I, new, added

\* All rows of the file are then on the ledger.
LEMMA CommitOnLedger ==
    ASSUME NEW f \in Files, NEW c \in Portfolios, Importable(f, c),
           NEW J, \A i \in c.invoices \cup Added(f, c) :
                    \E j \in J : j.owner = i.owner /\ j.number = i.number
    PROVE  OnLedger(f, Ledger(c.customers \cup NewCustomers(f, c), J, c.today))
<1> DEFINE b == Ledger(c.customers \cup NewCustomers(f, c), J, c.today)
<1>1. /\ b.customers = c.customers \cup NewCustomers(f, c)
      /\ b.invoices = J /\ b.today = c.today
  BY DEF Ledger
<1> HIDE DEF b
<1>2. ASSUME NEW k \in 1 .. Len(f)
      PROVE  /\ Sound(f[k], b.today)
             /\ ~KnownUnderOtherName(f[k], b)
             /\ Exists(f[k], b)
             /\ \A j \in 1 .. Len(f) :
                   Folded[f[j].ref] = Folded[f[k].ref] => Folded[f[j].name] = Folded[f[k].name]
  <2>1. Sound(f[k], b.today) /\ ~KnownUnderOtherName(f[k], c)
    BY <1>1, ImportableRow, Acceptance
  <2>2. ASSUME NEW x \in NewCustomers(f, c), Folded[x.ref] = Folded[f[k].ref]
        PROVE  Folded[x.name] = Folded[f[k].name]
    <3>1. PICK j : First(f, c, j) /\ x = [ref |-> f[j].ref, name |-> f[j].name]
      BY NewCustomer
    <3>2. j \in 1 .. Len(f)
      BY <3>1, ValidRow DEF First
    <3>3. x.ref = f[j].ref /\ x.name = f[j].name
      BY <3>1
    <3> QED BY <2>2, <3>2, <3>3, OneNameForEach
  <2>3. ~KnownUnderOtherName(f[k], b)
    BY <1>1, <2>1, <2>2 DEF KnownUnderOtherName
  <2>4. \E i \in c.invoices \cup Added(f, c) : Key(i.owner, i.number) = Key(f[k].ref, f[k].number)
    <3>1. CASE Exists(f[k], c)
      BY <3>1 DEF Exists
    <3>2. ASSUME NEW j \in ValidRows(f, c),
                 Key(f[j].ref, f[j].number) = Key(f[k].ref, f[k].number)
          PROVE  \E i \in Added(f, c) : Key(i.owner, i.number) = Key(f[k].ref, f[k].number)
      <4> DEFINE i == NewInvoice(f, j, c)
      <4>1. i \in Added(f, c)
        BY DEF Added
      <4>2. Folded[i.owner] = Folded[f[j].ref] /\ i.number = f[j].number
        BY NewInvoiceIs, OwnerIs
      <4> HIDE DEF i
      <4>3. Key(i.owner, i.number) = Key(f[k].ref, f[k].number)
        BY <3>2, <4>2 DEF Key
      <4> QED BY <4>1, <4>3
    <3> QED BY <3>1, <3>2, ImportableRow
  <2>5. Exists(f[k], b)
    BY <1>1, <2>4 DEF Exists, Key
  <2> QED BY <2>1, <2>3, <2>5, OneNameForEach
<1>3. OnLedger(f, b)
  BY <1>2 DEF OnLedger
<1> QED BY <1>3 DEF b

LEMMA AddedTyped ==
    ASSUME NEW f \in Files, NEW c \in Portfolios PROVE Added(f, c) \subseteq InvoiceRows
  BY NewInvoiceIs DEF Added

\* All of it, with the synchronization that ends the commit.
LEMMA CommitKeeps ==
    ASSUME NEW f \in Files, NEW c \in Portfolios, Importable(f, c),
           NEW C \in SUBSET CustomerRows, NEW I \in SUBSET InvoiceRows, NEW d \in Nat,
           NEW F \in SUBSET Files,
           Distinct(C, I), c.customers \subseteq C,
           \A x \in NewCustomers(f, c), y \in C : x.ref # y.ref,
           \A i \in Added(f, c), j \in I : ~SameInvoice(i, j),
           NEW J, \A j : j \in J <=> \E i \in I \cup Added(f, c) : j = Synchronized(i, c)
    PROVE  /\ J \subseteq InvoiceRows
           /\ Distinct(C \cup NewCustomers(f, c), J)
           /\ c = Ledger(C, I, d) /\ Undisturbed(C, I, d, F) =>
                Undisturbed(C \cup NewCustomers(f, c), J, d, F \cup {f})
<1> DEFINE B == C \cup NewCustomers(f, c)
           K == I \cup Added(f, c)
           g == [i \in K |-> Synchronized(i, c)]
<1>1. K \subseteq InvoiceRows
  BY AddedTyped
<1>2. Distinct(B, K)
  BY CommitDistinct
<1>3. ASSUME NEW i \in K
      PROVE  /\ g[i] \in InvoiceRows
             /\ g[i].owner = i.owner /\ g[i].number = i.number
  <2>1. PICK state \in RecoveryStates \cup {"NONE"} : Synchronized(i, c) = WithCase(i, state)
    BY <1>1, SynchronizedIs
  <2>2. g[i] = WithCase(i, state)
    BY <2>1
  <2> HIDE DEF g, K
  <2> QED BY <1>1, <2>2, WithCaseIs
<1>4. J = {g[i] : i \in K}
  OBVIOUS
<1>5. \A i \in K : g[i] = Synchronized(i, c)
  OBVIOUS
<1> HIDE DEF g
<1>6. J \subseteq InvoiceRows
  BY <1>3, <1>4
<1>7. Distinct(B, J) /\ (FoldedDistinct(B, K) => FoldedDistinct(B, J))
  <2> HIDE DEF B, K
  <2> QED BY <1>2, <1>3, <1>4, Rewritten
<1>8. ASSUME c = Ledger(C, I, d), Undisturbed(C, I, d, F)
      PROVE  Undisturbed(B, J, d, F \cup {f})
  <2>1. c.customers = C /\ c.invoices = I /\ c.today = d
    BY <1>8 DEF Ledger
  <2>2. FoldedDistinct(B, J)
    BY <1>7, <1>8, <2>1, CommitFolded DEF Undisturbed
  <2>3. \A i \in K : \E j \in J : j.owner = i.owner /\ j.number = i.number
    BY <1>3, <1>4
  <2>4. OnLedger(f, Ledger(B, J, d))
    BY <2>1, <2>3, CommitOnLedger
  <2>5. \A x \in B : x \in C \/ \A y \in C : Folded[y.ref] # Folded[x.ref]
    BY <2>1, NewCustomer
  <2>6. ASSUME NEW h \in F PROVE OnLedger(h, Ledger(B, J, d))
    <3>1. OnLedger(h, Ledger(C, I, d)) /\ h \in Files /\ d <= d
      BY <1>8 DEF Undisturbed
    <3>2. \A i \in I : \E x \in C : x.ref = i.owner
      BY DEF Distinct
    <3>3. \A i \in I : \E j \in J : j.owner = i.owner /\ j.number = i.number
      BY <2>3
    <3> HIDE DEF B
    <3> QED BY <2>5, <3>1, <3>2, <3>3, OnLedgerKept
  <2>7. ASSUME NEW j \in J PROVE j.case = Derived(j, d)
    <3>1. PICK i \in K : j = Synchronized(i, c)
      BY <1>4, <1>5
    <3>2. \A x \in c.invoices : SameInvoice(i, x) => x = i
      BY <1>2, <2>1 DEF Distinct
    <3>3. j = WithCase(i, Derived(i, d))
      BY <1>1, <2>1, <3>1, <3>2, SynchronizedIs
    <3>4. i \in InvoiceRows /\ Derived(i, d) \in RecoveryStates \cup {"NONE"}
      BY <1>1, DerivedTyped
    <3> HIDE DEF K
    <3>5. ASSUME NEW state \in RecoveryStates \cup {"NONE"} PROVE WithCase(i, state).case = state
      BY <3>4, WithCaseIs
    <3> QED BY <3>3, <3>4, <3>5, DerivedTwice
  <2> HIDE DEF B
  <2> QED BY <2>2, <2>4, <2>6, <2>7 DEF Undisturbed
<1> QED BY <1>6, <1>7, <1>8

\* Invoices rewritten on the same or a later day, each in its current state.
LEMMA RewriteKeeps ==
    ASSUME NEW C, NEW I, NEW d \in Nat, NEW F \in SUBSET Files, NEW e \in Nat, d <= e,
           Distinct(C, I), NEW g, NEW J, J = {g[i] : i \in I},
           \A i \in I : g[i].owner = i.owner /\ g[i].number = i.number,
           \A i \in I : Undisturbed(C, I, d, F) => g[i].case = Derived(g[i], e)
    PROVE  /\ Distinct(C, J)
           /\ Undisturbed(C, I, d, F) => Undisturbed(C, J, e, F)
<1>1. Distinct(C, J) /\ (FoldedDistinct(C, I) => FoldedDistinct(C, J))
  BY Rewritten
<1>2. ASSUME Undisturbed(C, I, d, F), NEW f \in F PROVE OnLedger(f, Ledger(C, J, e))
  <2>1. OnLedger(f, Ledger(C, I, d)) /\ f \in Files
    BY <1>2 DEF Undisturbed
  <2>2. \A i \in I : \E x \in C : x.ref = i.owner
    BY DEF Distinct
  <2>3. \A i \in I : \E j \in J : j.owner = i.owner /\ j.number = i.number
    OBVIOUS
  <2>4. \A x \in C : x \in C \/ \A y \in C : Folded[y.ref] # Folded[x.ref]
    OBVIOUS
  <2> QED BY <2>1, <2>2, <2>3, <2>4, OnLedgerKept
<1>3. ASSUME Undisturbed(C, I, d, F), NEW j \in J PROVE j.case = Derived(j, e)
  BY <1>3
<1> QED BY <1>1, <1>2, <1>3 DEF Undisturbed

LEMMA CycleKeeps == ASSUME IInv, Cycle PROVE IInv'
<1> USE DEF IInv
<1> DEFINE aged(j) == [j EXCEPT !.status =
                 IF /\ j.outstanding > 0 /\ j.due < today + 1
                    /\ j.status \in {"OPEN", "PARTIALLY_PAID"}
                 THEN "OVERDUE" ELSE j.status]
           g == [j \in invoices |-> WithCase(aged(j), Derived(aged(j), today + 1))]
<1>1. /\ invoices \subseteq InvoiceRows /\ today \in Nat /\ today + 1 \in Nat
      /\ imported \in SUBSET Files /\ Distinct(customers, invoices)
  BY DEF Types
<1>2. /\ today' = today + 1
      /\ invoices' = {[i EXCEPT !.case = Derived(i, today + 1)] : i \in {aged(j) : j \in invoices}}
      /\ UNCHANGED <<customers, session, imported, overlapped>>
  BY DEF Cycle
<1>3. invoices' = {g[j] : j \in invoices}
  BY <1>2 DEF WithCase
<1>4. ASSUME NEW j \in invoices
      PROVE  /\ g[j] \in InvoiceRows
             /\ g[j].owner = j.owner /\ g[j].number = j.number
             /\ g[j].case = Derived(g[j], today + 1)
  <2> DEFINE a == aged(j)
  <2>1. a \in InvoiceRows /\ a.owner = j.owner /\ a.number = j.number
    BY <1>1 DEF InvoiceRows, InvoiceStatuses
  <2>2. g[j] = WithCase(a, Derived(a, today + 1))
    OBVIOUS
  <2> HIDE DEF a, g
  <2>3. Derived(a, today + 1) \in RecoveryStates \cup {"NONE"}
    BY <2>1, DerivedTyped
  <2>4. /\ g[j] \in InvoiceRows /\ g[j].owner = a.owner /\ g[j].number = a.number
        /\ g[j].case = Derived(a, today + 1)
    BY <2>1, <2>2, <2>3, WithCaseIs
  <2>5. Derived(g[j], today + 1) = Derived(a, today + 1)
    BY <2>1, <2>2, DerivedTwice
  <2> QED BY <2>1, <2>4, <2>5
<1> HIDE DEF g
<1>5. /\ Distinct(customers, invoices')
      /\ Undisturbed(customers, invoices, today, imported) =>
           Undisturbed(customers, invoices', today + 1, imported)
  <2>1. today <= today + 1
    BY <1>1
  <2> QED BY <1>1, <1>3, <1>4, <2>1, RewriteKeeps
<1>6. invoices' \subseteq InvoiceRows
  BY <1>3, <1>4
<1>7. Types'
  BY <1>1, <1>2, <1>6 DEF Types
<1>8. ReadingsKept'
  BY <1>2 DEF ReadingsKept
<1>9. Distinct(customers, invoices)'
  BY <1>2, <1>5
<1>10. (overlapped \/ Undisturbed(customers, invoices, today, imported))'
  BY <1>2, <1>5
<1> QED BY <1>7, <1>8, <1>9, <1>10

LEMMA SettleKeeps == ASSUME IInv, NEW i \in invoices, SettleInvoice(i) PROVE IInv'
<1> USE DEF IInv
<1> DEFINE paid == [i EXCEPT !.outstanding = 0, !.status = "PAID"]
           new == WithCase(paid, Derived(paid, today))
           g == [j \in invoices |-> IF j = i THEN new ELSE j]
<1>1. /\ invoices \subseteq InvoiceRows /\ today \in Nat
      /\ imported \in SUBSET Files /\ Distinct(customers, invoices)
  BY DEF Types
<1>2. /\ invoices' = (invoices \ {i}) \cup {new}
      /\ UNCHANGED <<customers, today, session, imported, overlapped>>
  BY DEF SettleInvoice, WithCase
<1>3. paid \in InvoiceRows /\ paid.owner = i.owner /\ paid.number = i.number
  <2>1. i \in InvoiceRows /\ 0 \in Int /\ "PAID" \in InvoiceStatuses
    BY <1>1 DEF InvoiceStatuses
  <2> QED BY <2>1 DEF InvoiceRows
<1>4. /\ new \in InvoiceRows /\ new.owner = i.owner /\ new.number = i.number
      /\ new.case = Derived(new, today)
  <2> HIDE DEF paid
  <2>1. Derived(paid, today) \in RecoveryStates \cup {"NONE"}
    BY <1>3, DerivedTyped
  <2>2. /\ new \in InvoiceRows /\ new.owner = paid.owner /\ new.number = paid.number
        /\ new.case = Derived(paid, today)
    BY <1>3, <2>1, WithCaseIs
  <2>3. Derived(new, today) = Derived(paid, today)
    BY <1>3, DerivedTwice
  <2> QED BY <1>3, <2>2, <2>3
<1> HIDE DEF new
<1>5. invoices' = {g[j] : j \in invoices}
  BY <1>2
<1>6. ASSUME NEW j \in invoices
      PROVE  /\ g[j].owner = j.owner /\ g[j].number = j.number
             /\ Undisturbed(customers, invoices, today, imported) =>
                  g[j].case = Derived(g[j], today)
  BY <1>4 DEF Undisturbed
<1> HIDE DEF g
<1>7. /\ Distinct(customers, invoices')
      /\ Undisturbed(customers, invoices, today, imported) =>
           Undisturbed(customers, invoices', today, imported)
  <2>1. today <= today
    BY <1>1
  <2> QED BY <1>1, <1>5, <1>6, <2>1, RewriteKeeps
<1>8. Types'
  BY <1>1, <1>2, <1>4 DEF Types
<1>9. ReadingsKept'
  BY <1>2 DEF ReadingsKept
<1>10. Distinct(customers, invoices)'
  BY <1>2, <1>7
<1>11. (overlapped \/ Undisturbed(customers, invoices, today, imported))'
  BY <1>2, <1>7
<1> QED BY <1>8, <1>9, <1>10, <1>11

LEMMA ReadKeeps ==
    ASSUME IInv, NEW s \in Sessions, NEW f \in Files, ReadPortfolio(s, f) PROVE IInv'
<1> USE DEF IInv
<1> DEFINE row == [step |-> "READ", file |-> f, portfolio |-> Portfolio]
<1>1. Portfolio \in Portfolios /\ Portfolio.customers = customers
  BY DEF Types, Portfolios, Portfolio
<1>2. /\ row \in [step : {"READ"}, file : Files, portfolio : Portfolios]
      /\ row.portfolio = Portfolio
  <2> HIDE DEF Portfolios
  <2>1. Portfolio \in Portfolios
    BY <1>1
  <2> QED BY <2>1
<1> HIDE DEF row
<1>3. /\ session' = [session EXCEPT ![s] = row]
      /\ UNCHANGED <<customers, invoices, today, imported, overlapped>>
  BY DEF ReadPortfolio, row
<1>4. Types'
  BY <1>2, <1>3 DEF Types
<1>5. ASSUME NEW t \in Sessions, session'[t].step = "READ"
      PROVE  session'[t].portfolio.customers \subseteq customers
  <2>1. CASE t = s
    BY <1>1, <1>2, <1>3, <2>1 DEF Types
  <2>2. CASE t # s
    BY <1>3, <1>5, <2>2 DEF Types, ReadingsKept
  <2> QED BY <2>1, <2>2
<1>6. ReadingsKept'
  BY <1>3, <1>5 DEF ReadingsKept
<1> QED BY <1>3, <1>4, <1>6

LEMMA ConfirmKeeps == ASSUME IInv, NEW s \in Sessions, ConfirmImport(s) PROVE IInv'
<1> USE DEF IInv
<1> DEFINE f == session[s].file
           c == Reading(s)
           new == NewCustomers(f, c)
           added == Added(f, c)
<1>1. /\ customers \in SUBSET CustomerRows /\ invoices \in SUBSET InvoiceRows
      /\ today \in Nat /\ imported \in SUBSET Files /\ Distinct(customers, invoices)
  BY DEF Types
<1>2. /\ session[s].step = "READ" /\ session' = [session EXCEPT ![s] = Done]
      /\ UNCHANGED today
      /\ IF Importable(f, c) /\ ~Conflicts(new, added)
         THEN /\ customers' = customers \cup new
              /\ invoices' = {Synchronized(i, c) : i \in invoices \cup added}
              /\ imported' = imported \cup {f}
              /\ overlapped' = (overlapped \/ c # Portfolio)
         ELSE UNCHANGED <<customers, invoices, imported, overlapped>>
  BY DEF ConfirmImport, Added
<1>3. f \in Files /\ c \in Portfolios /\ c.customers \subseteq customers
  <2>1. session[s] \in [step : {"READ"}, file : Files, portfolio : Portfolios]
    BY <1>2 DEF Types, Idle, Done
  <2>2. session[s].file \in Files /\ session[s].portfolio \in Portfolios
    <3> HIDE DEF Portfolios
    <3> QED BY <2>1
  <2> QED BY <1>2, <2>2 DEF Reading, ReadingsKept
<1> HIDE DEF f, c
<1>4. new \subseteq CustomerRows
  BY <1>3, NewCustomersTyped
<1>5. /\ customers \subseteq customers'
      /\ customers' \subseteq CustomerRows /\ invoices' \subseteq InvoiceRows
      /\ imported' \subseteq Files /\ overlapped' \in BOOLEAN
      /\ Distinct(customers', invoices')
      /\ overlapped' \/ Undisturbed(customers', invoices', today, imported')
  <2>1. CASE Importable(f, c) /\ ~Conflicts(new, added)
    <3>1. /\ customers' = customers \cup new /\ imported' = imported \cup {f}
          /\ invoices' = {Synchronized(i, c) : i \in invoices \cup added}
          /\ overlapped' = (overlapped \/ c # Portfolio)
      BY <1>2, <2>1
    <3>2. /\ \A x \in new, y \in customers : x.ref # y.ref
          /\ \A i \in added, j \in invoices : ~SameInvoice(i, j)
      BY <2>1 DEF Conflicts
    <3>3. /\ invoices' \subseteq InvoiceRows
          /\ Distinct(customers \cup new, invoices')
          /\ c = Ledger(customers, invoices, today)
                /\ Undisturbed(customers, invoices, today, imported) =>
             Undisturbed(customers \cup new, invoices', today, imported \cup {f})
      <4>1. ASSUME NEW J, J = {Synchronized(i, c) : i \in invoices \cup added}
            PROVE  /\ J \subseteq InvoiceRows
                   /\ Distinct(customers \cup new, J)
                   /\ c = Ledger(customers, invoices, today)
                         /\ Undisturbed(customers, invoices, today, imported) =>
                      Undisturbed(customers \cup new, J, today, imported \cup {f})
        <5>1. Importable(f, c)
          BY <2>1
        <5>2. /\ \A x \in NewCustomers(f, c), y \in customers : x.ref # y.ref
              /\ \A i \in Added(f, c), j \in invoices : ~SameInvoice(i, j)
              /\ \A j : j \in J <=> \E i \in invoices \cup Added(f, c) : j = Synchronized(i, c)
          BY <3>2, <4>1
        <5> QED BY ONLY <1>1, <1>3, <5>1, <5>2, CommitKeeps
      <4> HIDE DEF new, added
      <4> QED BY <3>1, <4>1
    <3>4. Portfolio = Ledger(customers, invoices, today)
      BY DEF Portfolio, Ledger
    <3>5. overlapped \in BOOLEAN
      BY DEF Types
    <3>6. overlapped' \/ Undisturbed(customers', invoices', today, imported')
      BY <3>1, <3>3, <3>4
    <3> HIDE DEF new
    <3> QED BY <1>1, <1>3, <1>4, <3>1, <3>3, <3>5, <3>6
  <2>2. CASE ~(Importable(f, c) /\ ~Conflicts(new, added))
    <3>1. UNCHANGED <<customers, invoices, imported, overlapped>>
      BY <1>2, <2>2
    <3> HIDE DEF new, added
    <3> QED BY <1>1, <3>1 DEF Types
  <2> QED BY <2>1, <2>2
<1> HIDE DEF new, added
<1>6. Types'
  BY <1>1, <1>2, <1>5 DEF Types
<1>7. ASSUME NEW t \in Sessions, session'[t].step = "READ"
      PROVE  session'[t].portfolio.customers \subseteq customers'
  <2>1. t # s
    BY <1>2, <1>7 DEF Types, Done
  <2>2. session'[t] = session[t]
    BY <1>2, <2>1 DEF Types
  <2> QED BY <1>5, <1>7, <2>2 DEF ReadingsKept
<1>8. ReadingsKept'
  BY <1>7 DEF ReadingsKept
<1>9. Distinct(customers, invoices)' /\ (overlapped \/ Undisturbed(customers, invoices, today, imported))'
  BY <1>2, <1>5
<1> QED BY <1>6, <1>8, <1>9

LEMMA Invariance == Spec => []IInv
<1>1. Init => IInv
  <2> SUFFICES ASSUME Init PROVE IInv
    OBVIOUS
  <2>1. Types
    BY DEF Init, Types
  <2>2. Distinct(customers, invoices) /\ Undisturbed(customers, invoices, today, imported)
    BY DEF Init, Distinct, Undisturbed, FoldedDistinct
  <2>3. ReadingsKept
    BY DEF Init, ReadingsKept, Idle
  <2> QED BY <2>1, <2>2, <2>3 DEF IInv
<1>2. IInv /\ [Next]_vars => IInv'
  <2> SUFFICES ASSUME IInv, [Next]_vars PROVE IInv'
    OBVIOUS
  <2>1. CASE UNCHANGED vars
    BY <2>1 DEF vars, IInv, Types, ReadingsKept
  <2> QED BY <2>1, CycleKeeps, SettleKeeps, ReadKeeps, ConfirmKeeps DEF Next
<1> QED BY <1>1, <1>2, PTL DEF Spec

-----------------------------------------------------------------------------
(* However imports overlap, a customer and an invoice exist once and every  *)
(* invoice has its customer; under spellings that differ in case only as    *)
(* well, as long as no import commits over facts that changed.              *)
THEOREM ReceivablesImportedOnce == Spec => []ImportedOnce
<1>1. IInv => ImportedOnce
  <2> SUFFICES ASSUME IInv PROVE ImportedOnce
    OBVIOUS
  <2>1. Distinct(customers, invoices) /\ (overlapped \/ FoldedDistinct(customers, invoices))
    BY DEF IInv, Undisturbed
  <2> QED BY <2>1 DEF ImportedOnce, Distinct, FoldedDistinct
<1> QED BY <1>1, Invariance, PTL

(* A file that was imported is on the ledger for good, whatever is imported,*)
(* paid or ages after it: every row of it is a duplicate, none an error.    *)
THEOREM ImportsRepeat == Spec => []ReimportIsHarmless
<1>1. IInv => ReimportIsHarmless
  <2> SUFFICES ASSUME IInv, ~overlapped, NEW f \in imported, NEW k \in 1 .. Len(f)
               PROVE  Verdicts(f, Portfolio)[k] = "DUPLICATE"
    BY DEF ReimportIsHarmless
  <2> DEFINE c == Portfolio
             v == Verdicts(f, c)
  <2>1. f \in Files /\ OnLedger(f, c)
    <3>1. Portfolio = Ledger(customers, invoices, today)
      BY DEF Portfolio, Ledger
    <3> QED BY <3>1 DEF IInv, Types, Undisturbed
  <2>2. v[k] = Judge(f, c, v, k)
    BY <2>1, FileRows, VerdictRule
  <2> HIDE DEF c, v
  <2>3. RowAccepted(f[k], c) /\ Exists(f[k], c)
    BY <2>1, Acceptance DEF OnLedger
  <2>4. ~NameConflict(f, k, c)
    <3>1. \A j \in 1 .. k - 1 : j \in 1 .. Len(f)
      BY <2>1, FileRows
    <3> QED BY <2>1, <3>1 DEF NameConflict, OnLedger
  <2>5. v[k] = "DUPLICATE"
    BY <2>2, <2>3, <2>4 DEF Judge
  <2> QED BY <2>5 DEF c, v
<1> QED BY <1>1, Invariance, PTL

(* The stored case states are the derived ones, through every import, cycle *)
(* and payment that does not overlap another commit.                        *)
THEOREM ImportedCasesCurrent == Spec => []CasesFollowImports
<1>1. IInv => CasesFollowImports
  BY DEF IInv, Undisturbed, CasesFollowImports
<1> QED BY <1>1, Invariance, PTL
=============================================================================
