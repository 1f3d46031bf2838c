------------------------------ MODULE MCOrders ------------------------------
(* What stands before an order: the admission of requests, and the limits  *)
(* that the processes check, in one run; "focus" is the part that moves.   *)
EXTENDS MCOrderAdmission, MCRiskRuntime

VARIABLE focus

MCOrderSymmetry == MCSymmetry \cup MCRiskSymmetry

\* The part that rests has one initial state.
OrdersInit ==
    /\ focus \in {"admission", "risk"}
    /\ Init /\ RiskInit
    /\ focus = "admission" => riskMode = "paper"
    /\ focus = "risk" => mode = "paper"

OrdersNext ==
    /\ UNCHANGED focus
    /\ \/ focus = "admission" /\ Next /\ UNCHANGED riskVars
       \/ focus = "risk" /\ RiskNext /\ UNCHANGED vars
=============================================================================
