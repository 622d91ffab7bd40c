--------------------------- MODULE CircuitBreaker ---------------------------
(***************************************************************************)
(* core/llm/circuit.py: the circuit breaker of one provider, as operators  *)
(* on its record _BreakerState and the time.  Every method of the class    *)
(* holds the breaker's lock, so it is one step of the module that uses it. *)
(* A breaker is told of successes and failures, and not of which call they *)
(* are the result: that call may have been let through in another state.   *)
(***************************************************************************)
EXTENDS Integers

CONSTANTS
    FailureThreshold,  \* _failure_threshold
    SuccessThreshold,  \* _success_threshold
    RecoveryTimeout    \* _recovery_timeout

ASSUME BreakerAssumption ==
    /\ FailureThreshold \in Nat \ {0}
    /\ SuccessThreshold \in Nat \ {0}
    /\ RecoveryTimeout \in Nat \ {0}

\* last_failure_time is written and never read.
Breaker == [state     : {"CLOSED", "OPEN", "HALF_OPEN"},
            failures  : Nat,    \* consecutive_failures
            successes : Nat,    \* consecutive_successes
            openedAt  : Nat]    \* opened_at

NewBreaker == [state |-> "CLOSED", failures |-> 0, successes |-> 0, openedAt |-> 0]

\* _transition, which does nothing if b is in state s already.
Opened(b, t)   == IF b.state = "OPEN" THEN b
                  ELSE [b EXCEPT !.state = "OPEN", !.openedAt = t, !.successes = 0]
HalfOpened(b)  == [b EXCEPT !.state = "HALF_OPEN", !.successes = 0]

\* Mutant: the successes are not reset.
ClosedAgainCounting(b) == [b EXCEPT !.state = "CLOSED", !.failures = 0]

ClosedAgain(b) == [b EXCEPT !.state = "CLOSED", !.failures = 0, !.successes = 0]

\* Mutant: half open a moment early.
MaybeHalfOpenEarly(b, t) ==
    IF b.state = "OPEN" /\ t - b.openedAt >= RecoveryTimeout - 1 THEN HalfOpened(b) ELSE b

\* _maybe_half_open, which every method begins with.
MaybeHalfOpen(b, t) ==
    IF b.state = "OPEN" /\ t - b.openedAt >= RecoveryTimeout THEN HalfOpened(b) ELSE b

\* allow_request, after _maybe_half_open.
AllowRequest(b) == b.state # "OPEN"

\* record_success
RecordSuccess(b, t) ==
    LET c == [MaybeHalfOpen(b, t) EXCEPT !.failures = 0] IN
    IF c.state # "HALF_OPEN" THEN c
    ELSE IF c.successes + 1 >= SuccessThreshold THEN ClosedAgain(c)
    ELSE [c EXCEPT !.successes = @ + 1]

\* record_failure
RecordFailure(b, t) ==
    LET c == [MaybeHalfOpen(b, t) EXCEPT !.failures = @ + 1, !.successes = 0] IN
    IF c.state = "HALF_OPEN" \/ c.failures >= FailureThreshold THEN Opened(c, t) ELSE c
=============================================================================
