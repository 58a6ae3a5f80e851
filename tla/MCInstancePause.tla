--------------------------- MODULE MCInstancePause ---------------------------
(* One desktop instance that submits two tasks.                             *)
EXTENDS InstancePause

CONSTANTS r1, r2, d1

OneOwner == [r \in Request |-> d1]
=============================================================================
