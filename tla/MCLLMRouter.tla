----------------------------- MODULE MCLLMRouter -----------------------------
(* Instances of LLMRouter for TLC: the providers m1, m2, m3 in this order. *)
EXTENDS LLMRouter

CONSTANTS m1, m2, m3, c1, c2

Ranks == [p \in Provider |-> IF p = m1 THEN 0 ELSE IF p = m2 THEN 1 ELSE 2]
=============================================================================
