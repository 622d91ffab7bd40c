---------------------------- MODULE MCToolExecutor ----------------------------
(* Instances of ToolExecutor for TLC: two executor threads and a loop. *)
EXTENDS ToolExecutor

CONSTANTS e1, e2, loop

TwoExecutors == {e1, e2}
OneLoop == {loop}
FewCalls == [t \in {e1, e2, loop} |-> IF t = e2 THEN {"delete"} ELSE {"read"}]
TwoHomes == [t \in {e1, e2, loop} |-> IF t = e2 THEN "v" ELSE "w"]
=============================================================================
