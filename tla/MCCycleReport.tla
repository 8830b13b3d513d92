---------------------------- MODULE MCCycleReport ----------------------------
(***************************************************************************)
(* The portfolios of MCRecoverySystem, with intelligence thresholds so     *)
(* small that each signal appears and disappears within a few cycles.      *)
(***************************************************************************)
EXTENDS CycleReport, MCRecoverySystem

SmallThresholds ==
    [highValueOverdue |-> 3, highExposure |-> 4, longOverdue |-> 2,
     severeOverdue |-> 3, criticalOverdue |-> 4, stalledPayment |-> 1,
     severelyStalledPayment |-> 2, stalledRecovery |-> 2]

SeededActivity == [i \in Invoices |-> 0]

\* No work, work in progress on a reminder, an escalation that is over.
SomeRows ==
    {{}, {[status |-> "HELD", action |-> "SEND_PAYMENT_REMINDER"]},
     {[status |-> "EXECUTED", action |-> "PREPARE_ESCALATION"]}}
=============================================================================
