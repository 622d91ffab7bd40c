------------------------ MODULE MCPriorityTaskQueue ------------------------
(***************************************************************************)
(* Instances of PriorityTaskQueue for TLC.  Threads w1 and w2 belong to    *)
(* one process or to two; t1 and t2 share a fingerprint, t3 jumps the      *)
(* queue and has none.                                                     *)
(***************************************************************************)
EXTENDS PriorityTaskQueue

CONSTANTS p1, p2, w1, w2, t1, t2, t3, fp

OneHome  == [w \in Worker |-> p1]
TwoHomes == [w \in Worker |-> IF w = w1 THEN p1 ELSE p2]

Priorities   == [t \in Task |-> IF t = t2 THEN 1 ELSE 0]
SameFp       == [t \in Task |-> IF t = t3 THEN None ELSE fp]
NoFp         == [t \in Task |-> None]
=============================================================================
