--------------------------- MODULE MCRiskRuntime ---------------------------
(* Two processes and two request threads, served by the same process or by *)
(* different ones.                                                         *)
EXTENDS RiskRuntime, TLC

CONSTANTS p1, p2, t1, t2
MCRiskSymmetry == Permutations(Process) \cup Permutations(Thread)

MCRealized == {-1}
=============================================================================
