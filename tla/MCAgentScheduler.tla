-------------------------- MODULE MCAgentScheduler --------------------------
(***************************************************************************)
(* Instances of AgentScheduler for TLC: pa is BACKGROUND (0), pb NORMAL    *)
(* (2), pc REALTIME (4).                                                   *)
(***************************************************************************)
EXTENDS AgentScheduler

CONSTANTS pa, pb, pc

Priorities == [p \in Pid |-> IF p = pa THEN 0 ELSE IF p = pb THEN 2 ELSE 4]
=============================================================================
