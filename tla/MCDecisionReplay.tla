-------------------------- MODULE MCDecisionReplay --------------------------
(* The audit record of one order, beside other threads and processes.       *)
EXTENDS DecisionAudit

MCHeld == {1}
MCQuantity == {-1, 1}
MCPnl == {-2, 0}
=============================================================================
