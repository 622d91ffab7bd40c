---------------------------- MODULE MCAgentContext ----------------------------
(* An instance of AgentContext for TLC. *)
EXTENDS AgentContext

SmallOrLarge == {1, 4}
TwoTokens == {2}
=============================================================================
