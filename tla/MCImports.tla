------------------------------ MODULE MCImports ------------------------------
(***************************************************************************)
(* One customer reference and one invoice number in two spellings, and     *)
(* rows for the cases the parser tells apart.                              *)
(***************************************************************************)
EXTENDS Imports, TLC

CONSTANTS s1, s2, s3

Spellings ==
    "acme" :> "acme" @@ "ACME" :> "acme" @@ "Inv1" :> "inv1" @@ "inv1" :> "inv1"
    @@ "inv2" :> "inv2" @@ "Acme Ltd" :> "acme ltd" @@ "ACME LTD" :> "acme ltd"
    @@ "Other" :> "other"

Row(ref, name, number, original, outstanding, issue, due, status) ==
    [ref |-> ref, name |-> name, number |-> number, readable |-> TRUE,
     original |-> original, outstanding |-> outstanding, issue |-> issue,
     due |-> due, status |-> status]

Overdue == Row("acme", "Acme Ltd", "inv1", 2, 2, -1, 0, "DERIVED")
Respelled == Row("ACME", "ACME LTD", "Inv1", 2, 2, -1, 0, "DERIVED")
Partial == Row("acme", "ACME LTD", "inv2", 2, 1, 0, 1, "PARTIALLY_PAID")
Scheduled == Row("ACME", "Acme Ltd", "inv2", 2, 2, 1, 1, "OPEN")
OtherName == Row("acme", "Other", "inv2", 2, 2, 0, 1, "DERIVED")
Disputed == Row("Other", "Other", "inv1", 2, 2, -1, 0, "DISPUTED")
WrittenOff == Row("Other", "Other", "inv2", 2, 1, -1, 0, "WRITTEN_OFF")
PaidWithBalance == Row("Other", "Other", "Inv1", 2, 1, 0, 1, "PAID")

\* A file for each way rows and files interact; the last is always refused.
FileChoices ==
    {<<Overdue>>, <<Overdue, Overdue>>, <<Overdue, Partial>>, <<Respelled, Scheduled>>,
     <<Overdue, Respelled>>, <<Partial, OtherName>>, <<Disputed, WrittenOff>>, <<PaidWithBalance>>}

Interchangeable == Permutations(Sessions)
=============================================================================
