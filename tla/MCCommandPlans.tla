--------------------------- MODULE MCCommandPlans ---------------------------
EXTENDS CommandPlans, TLC

CONSTANTS q1, q2

TwoPlans == q1 :> {1, 2} @@ q2 :> {2}
OnePlan == q1 :> {1, 2}
=============================================================================
