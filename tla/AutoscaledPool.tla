---------------------------- MODULE AutoscaledPool ----------------------------
(***************************************************************************)
(* core/scheduler/autoscale.py: permits for tool calls, whose number       *)
(* follows the load.  A change of the number puts a new semaphore in the   *)
(* place of the old one, while some users hold a permit of the old one and *)
(* others wait for it.                                                     *)
(*                                                                         *)
(* The state of the pool and what each of its methods does to it, for a    *)
(* module that composes the pool with its users.  A method that takes the  *)
(* lock once is one step; acquire() is three: maybe_adjust, reading the    *)
(* semaphore, and waiting for it without the lock.                         *)
(*                                                                         *)
(* Left out: clocks (a cooldown or a check interval may have passed or     *)
(* not), what CPU, memory and latency are (each outcome is possible), the  *)
(* statistics.                                                             *)
(***************************************************************************)
EXTENDS Integers, FiniteSets

CONSTANTS
    User,             \* the threads that acquire
    InitialLow,       \* min_concurrency
    InitialHigh,      \* max_concurrency
    Initial,          \* initial_concurrency
    OtherHigh,        \* the other max_concurrency that update_config may set
    MinSamples,       \* latency samples an adjustment needs; 4 in the code
    MaxSemaphores     \* bound of the semaphores that are made

ASSUME PoolAssumption ==
    /\ {InitialLow, InitialHigh, Initial, OtherHigh} \subseteq Nat \ {0}
    /\ InitialLow <= Initial /\ Initial <= InitialHigh /\ Initial <= OtherHigh
    /\ MinSamples \in Nat /\ MaxSemaphores \in Nat \ {0}
    /\ IsFiniteSet(User)

Semaphore == 1..MaxSemaphores

VARIABLES
    high,         \* _config.max_concurrency
    concurrency,  \* _current_concurrency
    current,      \* _semaphore: the number of the semaphore made last
    permits,      \* the free permits of every semaphore
    samples,      \* the length of _latency_window, up to MinSamples
    shut,         \* _shutdown
    sem,          \* the semaphore a user waits for or has acquired, or 0
    holding,      \* the users between acquire() and release()
    bound         \* the max_concurrency a user has read in maybe_adjust, or 0

pool == <<high, concurrency, current, permits, samples, shut, sem, holding, bound>>

High == {InitialHigh, OtherHigh}

PoolTypeOK ==
    /\ high \in High
    /\ concurrency \in Nat \ {0}
    /\ current \in Semaphore
    /\ permits \in [Semaphore -> Nat]
    /\ samples \in 0..MinSamples
    /\ shut \in BOOLEAN
    /\ sem \in [User -> 0..current]
    /\ holding \subseteq {u \in User : sem[u] # 0}
    /\ bound \in [User -> High \cup {0}]

PoolInit ==
    /\ high = InitialHigh /\ concurrency = Initial
    /\ current = 1 /\ permits = [s \in Semaphore |-> IF s = 1 THEN Initial ELSE 0]
    /\ samples = 0 /\ shut = FALSE
    /\ sem = [u \in User |-> 0] /\ holding = {} /\ bound = [u \in User |-> 0]

HeldOf(s) == {u \in holding : sem[u] = s}

Least(a, b) == IF a < b THEN a ELSE b
Greatest(a, b) == IF a < b THEN b ELSE a

-----------------------------------------------------------------------------
(* Changes of the concurrency. *)

\* Mutant: the concurrency changes, the semaphore stays.
RenewKeeps(n) ==
    /\ concurrency' = n
    /\ UNCHANGED <<current, permits>>

\* A new semaphore with all its permits; who waits for the old one still does.
Renew(n) ==
    /\ current < MaxSemaphores
    /\ current' = current + 1
    /\ permits' = [permits EXCEPT ![current + 1] = n]
    /\ concurrency' = n

\* Half, rounded down; a quarter more, rounded up.
Down == Greatest(concurrency \div 2, InitialLow)
Up(most) == Least((5 * concurrency + 3) \div 4, most)

\* maybe_adjust starts by reading the configuration, without the lock.
Look(u) == bound' = [bound EXCEPT ![u] = high]

\* The rest of maybe_adjust, where the two intervals have passed or not.
Adjust(u) ==
    /\ \/ UNCHANGED <<concurrency, current, permits>>
       \/ /\ samples >= MinSamples
          /\ \E n \in {Down, Up(bound[u])} \ {concurrency} : Renew(n)
    /\ bound' = [bound EXCEPT ![u] = 0]
    /\ UNCHANGED <<high, samples, shut, sem, holding>>

\* update_config with another upper bound: the concurrency is clamped.
Configure ==
    /\ high' \in High \ {high}
    /\ IF concurrency > high' THEN Renew(high') ELSE UNCHANGED <<concurrency, current, permits>>
    /\ UNCHANGED <<samples, shut, sem, holding, bound>>

\* reset(): a semaphore is made even if the concurrency stays as it is.
Reset ==
    /\ Renew(Initial)
    /\ samples' = 0 /\ shut' = FALSE
    /\ UNCHANGED <<high, sem, holding, bound>>

\* shutdown(): who waits goes on waiting.
ShutDown ==
    /\ shut' = TRUE
    /\ UNCHANGED <<high, concurrency, current, permits, samples, sem, holding, bound>>

-----------------------------------------------------------------------------
(* acquire(), release() and record_latency() *)

\* acquire reads the semaphore under the lock ...
Choose(u) ==
    /\ sem' = [sem EXCEPT ![u] = current]
    /\ UNCHANGED <<high, concurrency, current, permits, samples, shut, holding, bound>>

\* ... and waits for it without.
Obtain(u) ==
    /\ permits[sem[u]] > 0
    /\ permits' = [permits EXCEPT ![sem[u]] = @ - 1]
    /\ holding' = holding \cup {u}
    /\ UNCHANGED <<high, concurrency, current, samples, shut, sem, bound>>

\* release(): the permit goes to the semaphore that is current now.  Between
\* the lock and the semaphore's own release nothing depends on the permit.
Release(u) ==
    /\ permits' = [permits EXCEPT ![current] = @ + 1]
    /\ holding' = holding \ {u}
    /\ sem' = [sem EXCEPT ![u] = 0]
    /\ UNCHANGED <<high, concurrency, current, samples, shut>>

\* record_latency, in the window's length.
Sampled == Least(samples + 1, MinSamples)

-----------------------------------------------------------------------------

\* Every permit of the semaphore in use is free or held: a replacement, a
\* change of the bounds or a reset never leaves fewer permits than the
\* concurrency says (more are possible, as release() gives the permit of an
\* old semaphore to the current one).
CurrentServes == permits[current] + Cardinality(HeldOf(current)) >= concurrency

\* A user that waits for a semaphore which is no longer handed out.
Stranded(u) == sem[u] \notin {0, current} /\ u \notin holding
=============================================================================
