---------------------------- MODULE A2ARequests ----------------------------
(***************************************************************************)
(* What request_response of core/agent/messaging.py promises its caller:   *)
(* every request returns once, with the first reply that was made to it    *)
(* while it was waiting, or with nothing.                                  *)
(***************************************************************************)

CONSTANTS Requests, Types

VARIABLES caller, first

Idle(r) == caller[r] = "idle"
Waiting(r) == caller[r] = "waiting"

Init ==
    /\ caller = [r \in Requests |-> "idle"]
    /\ first = [r \in Requests |-> "nothing"]

Ask(r) ==
    /\ Idle(r)
    /\ \E c \in {"waiting", "refused"} : caller' = [caller EXCEPT ![r] = c]
    /\ UNCHANGED first

Answer(r) ==
    /\ Waiting(r) /\ first[r] = "nothing"
    /\ \E t \in Types : first' = [first EXCEPT ![r] = t]
    /\ UNCHANGED caller

Return(r) ==
    /\ Waiting(r)
    /\ \E c \in {first[r], "nothing"} : caller' = [caller EXCEPT ![r] = c]
    /\ UNCHANGED first

Next == \E r \in Requests : Ask(r) \/ Answer(r) \/ Return(r)

Spec == Init /\ [][Next]_<<caller, first>>
=============================================================================
