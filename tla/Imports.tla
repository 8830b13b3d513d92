------------------------------- MODULE Imports -------------------------------
(***************************************************************************)
(* The import of receivables from a CSV file (imports/receivables.py,      *)
(* api/routes/imports.py).  A request reads the portfolio, judges every    *)
(* row of the file against it, and later commits all rows or none; other   *)
(* imports, cycles and payments may commit in between.  The database       *)
(* compares identifiers as they are spelled, the import folds their case.  *)
(***************************************************************************)
EXTENDS RecoveryPolicy, Sequences

CONSTANTS
    Sessions,  \* the requests to import a file, each sent once (bound)
    Files,     \* the files operators may import: sequences of rows
    Folded,    \* the case-folded form of every spelling
    LastDate   \* last operating date explored (bound)

ASSUME ImportConstants ==
    /\ LastDate \in Nat
    /\ \A f \in Files : f \in Seq([ref : DOMAIN Folded, name : DOMAIN Folded,
            number : DOMAIN Folded, readable : BOOLEAN, original : Int,
            outstanding : Int, issue : Int, due : Int,
            status : InvoiceStatuses \cup {"DERIVED"}])

VARIABLES
    customers,   \* account_reference and name of each customer
    invoices,    \* the invoices, each with the state of its case
    today,       \* the simulation date
    session,     \* what each import has read so far
    imported,    \* the files that were committed
    overlapped   \* whether an import committed over facts that had changed

vars == <<customers, invoices, today, session, imported, overlapped>>

Idle == [step |-> "IDLE"]
Done == [step |-> "DONE"]
Reading(s) == session[s].portfolio

Init ==
    /\ customers = {} /\ invoices = {}
    /\ today = 0
    /\ session = [s \in Sessions |-> Idle]
    /\ imported = {}
    /\ overlapped = FALSE

-----------------------------------------------------------------------------
(* parse_receivables_csv: c is the portfolio that was read. *)

\* Mutant: the names of known customers are compared as they are spelled.
KnownUnderSpelledOtherName(row, c) ==
    \E k \in c.customers :
        Folded[k.ref] = Folded[row.ref] /\ k.name # row.name
KnownUnderOtherName(row, c) ==
    \E k \in c.customers :
        Folded[k.ref] = Folded[row.ref] /\ Folded[k.name] # Folded[row.name]

DerivedStatus(row, date) ==
    IF row.outstanding = 0 THEN "PAID"
    ELSE IF row.outstanding < row.original THEN "PARTIALLY_PAID"
    ELSE IF row.due < date THEN "OVERDUE"
    ELSE "OPEN"

StatusOf(row, date) ==
    IF row.status = "DERIVED" THEN DerivedStatus(row, date) ELSE row.status

StatusAccepted(row, date) ==
    LET status == StatusOf(row, date) IN
    /\ status = "PAID" => row.outstanding = 0
    /\ status \in {"OPEN", "OVERDUE", "DISPUTED", "PARTIALLY_PAID"} => row.outstanding > 0
    /\ status = "PARTIALLY_PAID" => row.outstanding < row.original
    /\ status = "OVERDUE" => row.due < date

\* _validate_row; readable stands for fields that are present and parse.
RowAccepted(row, c) ==
    /\ row.readable
    /\ ~KnownUnderOtherName(row, c)
    /\ row.original > 0 /\ row.outstanding \in 0 .. row.original
    /\ row.issue <= row.due
    /\ StatusAccepted(row, c.today)

\* Mutant: identifiers are compared as the database does.
SpelledKey(ref, number) == <<ref, number>>
Key(ref, number) == <<Folded[ref], Folded[number]>>

Exists(row, c) ==
    \E i \in c.invoices : Key(i.owner, i.number) = Key(row.ref, row.number)

\* The first accepted row of a customer decides its name in the file.
NameConflict(f, k, c) ==
    \E j \in 1 .. k - 1 :
        /\ RowAccepted(f[j], c)
        /\ Folded[f[j].ref] = Folded[f[k].ref]
        /\ \A i \in 1 .. j - 1 :
              RowAccepted(f[i], c) => Folded[f[i].ref] # Folded[f[j].ref]
        /\ Folded[f[j].name] # Folded[f[k].name]

\* The verdict on each row depends on those above it.
Verdicts(f, c) ==
    LET verdict[k \in 1 .. Len(f)] ==
        LET above == {j \in 1 .. k - 1 :
                /\ verdict[j] = "VALID"
                /\ Key(f[j].ref, f[j].number) = Key(f[k].ref, f[k].number)} IN
        IF ~RowAccepted(f[k], c) \/ NameConflict(f, k, c) THEN "INVALID"
        ELSE IF Exists(f[k], c) THEN "DUPLICATE"
        ELSE IF above = {} THEN "VALID"
        ELSE IF \A j \in above :
                  [f[j] EXCEPT !.status = StatusOf(f[j], c.today)] =
                  [f[k] EXCEPT !.status = StatusOf(f[k], c.today)]
             THEN "DUPLICATE" ELSE "INVALID"
    IN verdict

Importable(f, c) == \A k \in 1 .. Len(f) : Verdicts(f, c)[k] # "INVALID"
ValidRows(f, c) == {k \in 1 .. Len(f) : Verdicts(f, c)[k] = "VALID"}

-----------------------------------------------------------------------------
(* persist_receivables *)

\* The reference of the customer a row is filed under: the known one, or the
\* spelling of the first row that names it.
Owner(f, k, c) ==
    LET known == {x.ref : x \in {y \in c.customers : Folded[y.ref] = Folded[f[k].ref]}}
        first == {j \in ValidRows(f, c) :
                    /\ Folded[f[j].ref] = Folded[f[k].ref]
                    /\ \A i \in ValidRows(f, c) :
                          Folded[f[i].ref] = Folded[f[k].ref] => j <= i} IN
    CHOOSE ref \in DOMAIN Folded :
        IF known # {} THEN ref \in known ELSE \E j \in first : ref = f[j].ref

NewCustomers(f, c) ==
    {x \in {[ref |-> f[k].ref, name |-> f[k].name] : k \in ValidRows(f, c)} :
        /\ \A y \in c.customers : Folded[y.ref] # Folded[x.ref]
        /\ \E k \in ValidRows(f, c) :
            /\ x = [ref |-> f[k].ref, name |-> f[k].name]
            /\ \A j \in ValidRows(f, c) :
                  j < k => Folded[f[j].ref] # Folded[x.ref]}

\* A case is opened for what is issued and can still be recovered.
NewInvoice(f, k, c) ==
    [owner |-> Owner(f, k, c), number |-> f[k].number,
     outstanding |-> f[k].outstanding, issue |-> f[k].issue, due |-> f[k].due,
     status |-> StatusOf(f[k], c.today),
     case |-> IF /\ f[k].issue <= c.today
                 /\ f[k].outstanding > 0
                 /\ f[k].status \notin {"CANCELLED", "WRITTEN_OFF"}
              THEN "NEW" ELSE "NONE"]

\* evaluate_case over the facts of invoice i, for a case in state i.case.
Derived(i, date) ==
    IF i.case = "NONE" THEN "NONE"
    ELSE DesiredCaseState(
            [invoice |-> InvoiceState(i.issue, i.due, i.outstanding, date),
             disputed |-> i.status = "DISPUTED", promises |-> {},
             state |-> i.case, priority |-> "NORMAL"])

SameInvoice(i, j) == i.owner = j.owner /\ i.number = j.number

\* Mutant: the cases are left as they were opened.
LeftAlone(i, c) == i
\* What the session has read before, it does not read again; the cases it
\* reads now.
Synchronized(i, c) ==
    LET read == {j \in c.invoices : SameInvoice(i, j)}
        facts == IF read = {} THEN i ELSE CHOOSE j \in read : TRUE IN
    [i EXCEPT !.case = Derived([facts EXCEPT !.case = i.case], c.today)]

\* The unique constraints on account_reference, and on customer and number.
Conflicts(new, added) ==
    \/ \E x \in new, y \in customers : x.ref = y.ref
    \/ \E i \in added, j \in invoices : SameInvoice(i, j)

-----------------------------------------------------------------------------
Portfolio == [customers |-> customers, invoices |-> invoices, today |-> today]

ReadPortfolio(s, f) ==
    /\ session[s] = Idle
    /\ session' = [session EXCEPT ![s] =
            [step |-> "READ", file |-> f, portfolio |-> Portfolio]]
    /\ UNCHANGED <<customers, invoices, today, imported, overlapped>>

\* One invalid row refuses the file (422), one conflict rolls it back (409).
ConfirmImport(s) ==
    LET f == session[s].file
        c == Reading(s)
        new == NewCustomers(f, c)
        added == {NewInvoice(f, k, c) : k \in ValidRows(f, c)} IN
    /\ session[s].step = "READ"
    /\ session' = [session EXCEPT ![s] = Done]
    /\ IF Importable(f, c) /\ ~Conflicts(new, added)
       THEN /\ customers' = customers \cup new
            /\ invoices' = {Synchronized(i, c) : i \in invoices \cup added}
            /\ imported' = imported \cup {f}
            /\ overlapped' = (overlapped \/ c # Portfolio)
       ELSE UNCHANGED <<customers, invoices, imported, overlapped>>
    /\ UNCHANGED today

\* What the rest of the system does to imported invoices: a cycle moves the
\* date, a payment settles an invoice; both synchronize the cases.
Cycle ==
    /\ today < LastDate
    /\ today' = today + 1
    /\ invoices' =
        {[i EXCEPT !.case = Derived(i, today + 1)] :
            i \in {[j EXCEPT !.status =
                     IF /\ j.outstanding > 0 /\ j.due < today + 1
                        /\ j.status \in {"OPEN", "PARTIALLY_PAID"}
                     THEN "OVERDUE" ELSE j.status] : j \in invoices}}
    /\ UNCHANGED <<customers, session, imported, overlapped>>

SettleInvoice(i) ==
    LET paid == [i EXCEPT !.outstanding = 0, !.status = "PAID"] IN
    /\ i.outstanding > 0 /\ i.status # "DISPUTED"
    /\ invoices' = (invoices \ {i}) \cup {[paid EXCEPT !.case = Derived(paid, today)]}
    /\ UNCHANGED <<customers, today, session, imported, overlapped>>

Next ==
    \/ \E s \in Sessions : ConfirmImport(s) \/ \E f \in Files : ReadPortfolio(s, f)
    \/ Cycle
    \/ \E i \in invoices : SettleInvoice(i)

Spec == Init /\ [][Next]_vars

-----------------------------------------------------------------------------
(* A receivable is imported once.  However imports overlap, a reference    *)
(* and a number of a customer exist once as they are spelled; and as long  *)
(* as no import committed over facts that had changed since it read them,  *)
(* none exists under spellings that differ in case only.                   *)
ImportedOnce ==
    /\ \A x, y \in customers : x.ref = y.ref => x = y
    /\ \A i, j \in invoices : SameInvoice(i, j) => i = j
    /\ \A i \in invoices : \E x \in customers : x.ref = i.owner
    /\ \/ overlapped
       \/ /\ \A x, y \in customers : Folded[x.ref] = Folded[y.ref] => x = y
          /\ \A i, j \in invoices :
                Folded[i.owner] = Folded[j.owner] /\ Folded[i.number] = Folded[j.number] => i = j

(* A file that was imported can be sent again at any later time: every row *)
(* of it is a duplicate that is skipped, none is refused or added again.   *)
ReimportIsHarmless ==
    overlapped \/
    \A f \in imported : \A k \in 1 .. Len(f) : Verdicts(f, Portfolio)[k] = "DUPLICATE"

(* Unless imports overlapped other commits, every case state is the one    *)
(* the evaluator derives from the facts at the current date.               *)
CasesFollowImports ==
    overlapped \/ \A i \in invoices : i.case = Derived(i, today)
=============================================================================
