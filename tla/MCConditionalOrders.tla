----------------------- MODULE MCConditionalOrders -----------------------
(* Small instances of ConditionalOrders.                                 *)
EXTENDS ConditionalOrders, TLC

\* The standalone orders are trailing stops, one of them of a buy.
Buyer == CHOOSE o \in Single : TRUE

MCKindOf == [s \in Single |-> "trailing_stop"]
MCSideOf == [o \in Order |-> IF o \in Single /\ o = Buyer THEN "buy" ELSE "sell"]

\* A stop is hit at 1, a target at 3, a trailing stop one off its extreme.
MCTriggerOf == [o \in Order |-> IF Kind(o) = "take_profit" THEN 3 ELSE 1]

\* Workers differ in their names only.
MCSymmetry == Permutations(Worker)
==========================================================================
