----------------------------- MODULE MCChangeSets -----------------------------
(* An instance of ChangeSets for TLC. *)
EXTENDS ChangeSets

CONSTANTS f, g, a, b

OneIsThere == [x \in {f, g} |-> IF x = f THEN a ELSE Missing]
=============================================================================
