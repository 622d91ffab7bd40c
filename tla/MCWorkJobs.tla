----------------------------- MODULE MCWorkJobs -----------------------------
(***************************************************************************)
(* Instances of WorkJobs for TLC: j1 and j2 are two jobs of session s1,    *)
(* j3 is one of session s2 with a higher priority.                         *)
(***************************************************************************)
EXTENDS WorkJobsQueue

CONSTANTS j1, j2, j3, s1, s2

Sessions   == [i \in Item |-> IF i = j3 THEN s2 ELSE s1]
Priorities == [i \in Item |-> IF i = j3 THEN 1 ELSE 0]
=============================================================================
