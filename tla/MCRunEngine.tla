------------------------------ MODULE MCRunEngine ------------------------------
(* An instance of RunEngine for TLC. *)
EXTENDS RunEngine
=============================================================================
