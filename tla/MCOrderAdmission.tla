-------------------------- MODULE MCOrderAdmission --------------------------
(* Two requests with one key, as a client that retries sends them, and one *)
(* with a key of its own; all sell one unit.                               *)
EXTENDS OrderAdmission, TLC

CONSTANTS r1, r2, r3, k1, k2

MCKeyOf == [r \in Request |-> IF r = r3 THEN k2 ELSE k1]
MCSizeOf == [r \in Request |-> -1]
MCSymmetry == Permutations({r1, r2})
=============================================================================
