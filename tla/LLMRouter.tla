------------------------------ MODULE LLMRouter ------------------------------
(***************************************************************************)
(* core/llm/router.py: chat() chooses a provider whose circuit breaker     *)
(* lets requests through, calls it, reports the result to the breaker, and *)
(* falls back to other providers after an LLMError.  Threads call chat()   *)
(* at the same time.                                                       *)
(*                                                                         *)
(* The router's lock is held while a list of available providers is made,  *)
(* one call of allow_request after the other; results are reported without *)
(* it, so breakers change while the list is made, and between the choice   *)
(* of a provider and the end of its call.                                  *)
(*                                                                         *)
(* Left out: the rate limiter, the cache and the guardrails, which may end *)
(* chat() before or after what is modelled here; statistics and billing;   *)
(* registration, so the entries are fixed; the weights and scores, which   *)
(* leave the first choice open.                                            *)
(***************************************************************************)
EXTENDS CircuitBreaker, FiniteSets

CONSTANTS
    Caller,        \* threads
    Provider,      \* the entries
    Rank,          \* Rank[p]: the place of p in _entries
    Strategy,      \* _strategy
    Matching,      \* the sets of providers that the requirement of a request may
                   \* match; Provider, for a request that has none
    MaxFailovers,  \* max_failovers
    None,          \* no provider, no time
    MaxTime,       \* bound of the clock
    MaxChats,      \* bound of the calls of chat()
    MaxResets      \* bound of the calls of reset()

ASSUME RouterAssumption ==
    /\ None \notin Provider /\ None \notin Nat
    /\ Rank \in [Provider -> Nat]
    /\ \A p, q \in Provider : Rank[p] = Rank[q] => p = q
    /\ Strategy \in {"failover", "weighted", "round_robin", "least_load"}
    /\ Matching \subseteq SUBSET Provider /\ Matching # {}
    /\ MaxFailovers \in Nat
    /\ MaxTime \in Nat /\ MaxChats \in Nat /\ MaxResets \in Nat

VARIABLES
    breaker,       \* breaker[p]: the entry's circuit
    now,           \* time.monotonic()
    pc,            \* where a caller is in chat()
    at,            \* the provider it is calling, or None
    tried,         \* tried_names
    attempts,      \* attempts
    checked,       \* the entries its list comprehension has been through
    available,     \* the list it has made of them
    trip,          \* history: when a breaker was last opened, or None
    probes,        \* history: the calls let through in this half-open period
    chats, resets  \* how many calls of chat() and reset()

callVars == <<pc, at, tried, attempts, checked, available>>
history  == <<trip, probes>>
vars     == <<breaker, now, callVars, history, chats, resets>>

Places == {"idle", "selecting", "calling", "retry", "falling"}

TypeOK ==
    /\ breaker \in [Provider -> Breaker]
    /\ now \in Nat
    /\ pc \in [Caller -> Places]
    /\ at \in [Caller -> Provider \cup {None}]
    /\ \A c \in Caller : pc[c] = "calling" => at[c] \in Provider
    /\ tried \in [Caller -> SUBSET Provider]
    /\ attempts \in [Caller -> 0..MaxFailovers]
    /\ checked \in [Caller -> SUBSET Provider]
    /\ available \in [Caller -> SUBSET Provider]
    /\ trip \in [Provider -> Nat \cup {None}]
    /\ probes \subseteq Caller \X Provider
    /\ chats \in Nat /\ resets \in Nat

Init ==
    /\ breaker = [p \in Provider |-> NewBreaker]
    /\ now = 0
    /\ pc = [c \in Caller |-> "idle"]
    /\ at = [c \in Caller |-> None]
    /\ tried = [c \in Caller |-> {}]
    /\ attempts = [c \in Caller |-> 0]
    /\ checked = [c \in Caller |-> {}]
    /\ available = [c \in Caller |-> {}]
    /\ trip = [p \in Provider |-> None]
    /\ probes = {}
    /\ chats = 0 /\ resets = 0

-----------------------------------------------------------------------------
(* Breakers. *)

\* The breaker of p becomes b.  History: a breaker that opens is tripped, also
\* if the same call has made it half open first; and what was let through
\* before any change of its state is a probe no more.
SetBreaker(p, b) ==
    /\ breaker' = [breaker EXCEPT ![p] = b]
    /\ trip' = IF MaybeHalfOpen(breaker[p], now).state # "OPEN" /\ b.state = "OPEN"
               THEN [trip EXCEPT ![p] = now] ELSE trip

StillProbes(p, b) == IF b.state = breaker[p].state THEN probes ELSE {x \in probes : x[2] # p}

\* get_state, by get_stats and by whoever asks.
GetState(p) ==
    LET b == MaybeHalfOpen(breaker[p], now) IN
    /\ b # breaker[p]
    /\ SetBreaker(p, b)
    /\ probes' = StillProbes(p, b)
    /\ UNCHANGED <<now, callVars, chats, resets>>

\* reset()
Reset(p) ==
    /\ resets < MaxResets
    /\ resets' = resets + 1
    /\ breaker' = [breaker EXCEPT ![p] = NewBreaker]
    /\ trip' = [trip EXCEPT ![p] = None]
    /\ probes' = {x \in probes : x[2] # p}
    /\ UNCHANGED <<now, callVars, chats>>

-----------------------------------------------------------------------------
(* _select_for, _select_fallback_excluding *)

Locked == \E c \in Caller : pc[c] \in {"selecting", "falling"}

\* chat(), at the first choice of a provider.
Chat(c) ==
    /\ pc[c] = "idle" /\ ~Locked
    /\ chats < MaxChats
    /\ chats' = chats + 1
    /\ pc' = [pc EXCEPT ![c] = "selecting"]
    /\ UNCHANGED <<breaker, now, at, tried, attempts, checked, available, history, resets>>

FallBack(c) ==
    /\ pc[c] = "retry" /\ ~Locked
    /\ pc' = [pc EXCEPT ![c] = "falling"]
    /\ UNCHANGED <<breaker, now, at, tried, attempts, checked, available, history, chats, resets>>

\* The entries a comprehension has still to look at; no name is tried twice.
ToCheck(c) == Provider \ (tried[c] \cup checked[c])

\* The first of S in the order of _entries.
First(S) == {p \in S : \A q \in S : Rank[p] <= Rank[q]}

Check(c) == \E p \in First(ToCheck(c)) :
    LET b == MaybeHalfOpen(breaker[p], now) IN
    /\ pc[c] \in {"selecting", "falling"}
    /\ SetBreaker(p, b)
    /\ checked' = [checked EXCEPT ![c] = @ \cup {p}]
    /\ available' = [available EXCEPT ![c] = IF AllowRequest(b) THEN @ \cup {p} ELSE @]
    /\ probes' = StillProbes(p, b) \cup (IF b.state = "HALF_OPEN" THEN {<<c, p>>} ELSE {})
    /\ UNCHANGED <<now, pc, at, tried, attempts, chats, resets>>

\* The lists are left behind.
Chosen(c) ==
    /\ checked' = [checked EXCEPT ![c] = {}]
    /\ available' = [available EXCEPT ![c] = {}]

\* chat() returns or raises, and its locals with it.
Leave(c) ==
    /\ pc' = [pc EXCEPT ![c] = "idle"]
    /\ at' = [at EXCEPT ![c] = None]
    /\ tried' = [tried EXCEPT ![c] = {}]
    /\ attempts' = [attempts EXCEPT ![c] = 0]

Call(c, p) ==
    /\ pc' = [pc EXCEPT ![c] = "calling"]
    /\ at' = [at EXCEPT ![c] = p]
    /\ tried' = [tried EXCEPT ![c] = @ \cup {p}]
    /\ probes' = {x \in probes : x[1] # c \/ x[2] = p}

\* Mutant: after a failure, look again until a provider is available.
NoneAvailableWaits(c) ==
    /\ pc[c] \in {"selecting", "falling"}
    /\ ToCheck(c) = {} /\ available[c] = {}
    /\ pc' = [pc EXCEPT ![c] = IF @ = "falling" THEN "retry" ELSE "idle"]
    /\ Chosen(c)
    /\ UNCHANGED <<breaker, now, at, tried, attempts, history, chats, resets>>

\* No provider is available: LLMCircuitOpenError at first, the last exception
\* after a failure.
NoneAvailable(c) ==
    /\ pc[c] \in {"selecting", "falling"}
    /\ ToCheck(c) = {} /\ available[c] = {}
    /\ Leave(c) /\ Chosen(c)
    /\ UNCHANGED <<breaker, now, history, chats, resets>>

\* _pick_by_strategy, FAILOVER and the others.
ByStrategy(S) == IF Strategy = "failover" THEN First(S) ELSE S

\* Of the available providers those that match the request, or all if none does.
Picks(S) == UNION {ByStrategy(IF S \cap M = {} THEN S ELSE S \cap M) : M \in Matching}

Select(c) ==
    /\ pc[c] = "selecting"
    /\ ToCheck(c) = {}
    /\ \E p \in Picks(available[c]) : Call(c, p)
    /\ Chosen(c)
    /\ UNCHANGED <<breaker, now, attempts, trip, chats, resets>>

\* Mutant: the failovers are not counted.
SelectFallbackUncounted(c) ==
    /\ pc[c] = "falling"
    /\ ToCheck(c) = {}
    /\ \E p \in First(available[c]) : Call(c, p)
    /\ Chosen(c)
    /\ UNCHANGED <<breaker, now, attempts, trip, chats, resets>>

SelectFallback(c) ==
    /\ pc[c] = "falling"
    /\ ToCheck(c) = {}
    /\ attempts[c] < MaxFailovers
    /\ attempts' = [attempts EXCEPT ![c] = @ + 1]
    /\ \E p \in First(available[c]) : Call(c, p)
    /\ Chosen(c)
    /\ UNCHANGED <<breaker, now, trip, chats, resets>>

\* The loop of failovers is over, though a provider is available.
FailoversUsed(c) ==
    /\ pc[c] = "falling"
    /\ ToCheck(c) = {}
    /\ available[c] # {}
    /\ attempts[c] >= MaxFailovers
    /\ Leave(c) /\ Chosen(c)
    /\ probes' = {x \in probes : x[1] # c}
    /\ UNCHANGED <<breaker, now, trip, chats, resets>>

-----------------------------------------------------------------------------
(* _call_provider *)

Succeeds(c) ==
    LET p == at[c]
        b == RecordSuccess(breaker[p], now)
    IN
    /\ pc[c] = "calling"
    /\ SetBreaker(p, b)
    /\ probes' = StillProbes(p, b) \ {<<c, p>>}
    /\ Leave(c)
    /\ UNCHANGED <<now, checked, available, chats, resets>>

\* An LLMError is reported; then another provider is looked for.
Fails(c) ==
    LET p == at[c]
        b == RecordFailure(breaker[p], now)
    IN
    /\ pc[c] = "calling"
    /\ SetBreaker(p, b)
    /\ probes' = StillProbes(p, b) \ {<<c, p>>}
    /\ pc' = [pc EXCEPT ![c] = "retry"]
    /\ at' = [at EXCEPT ![c] = None]
    /\ UNCHANGED <<now, tried, attempts, checked, available, chats, resets>>

\* Any other exception leaves chat() and is reported to nobody.
Raises(c) ==
    /\ pc[c] = "calling"
    /\ Leave(c)
    /\ probes' = {x \in probes : x[1] # c}
    /\ UNCHANGED <<breaker, now, checked, available, trip, chats, resets>>

Tick ==
    /\ now < MaxTime
    /\ now' = now + 1
    /\ UNCHANGED <<breaker, callVars, history, chats, resets>>

-----------------------------------------------------------------------------

Choice(c) == Check(c) \/ NoneAvailable(c) \/ Select(c) \/ SelectFallback(c) \/ FailoversUsed(c)
Result(c) == Succeeds(c) \/ Fails(c) \/ Raises(c)

Next ==
    \/ \E c \in Caller : Chat(c) \/ FallBack(c) \/ Choice(c) \/ Result(c)
    \/ \E p \in Provider : GetState(p) \/ Reset(p)
    \/ Tick

Spec == Init /\ [][Next]_vars

\* A thread that can go on does, and a call of a provider has a timeout.  The
\* lock is not fair, but it is held only while a list is made, and MaxChats
\* bounds how often others take it.
FairSpec ==
    /\ Spec
    /\ \A c \in Caller : WF_vars(FallBack(c)) /\ WF_vars(Choice(c)) /\ WF_vars(Result(c))

-----------------------------------------------------------------------------
(* Properties. *)

\* "OPEN → False(除非已过恢复期自动转 HALF_OPEN)" (circuit.py:110): once a
\* breaker has been opened it lets nothing through for RecoveryTimeout,
\* whatever late successes and failures of earlier calls are reported to it
\* in that time (lines 124-153), unless it is reset.
OpenHolds ==
    [][\A c \in Caller, p \in Provider :
         (p \notin available[c] /\ p \in available'[c] /\ trip[p] # None)
            => now - trip[p] >= RecoveryTimeout]_vars

\* "连续失败达 failure_threshold 次 → 切换到 OPEN" (circuit.py:6): a breaker is
\* closed only while it counts fewer failures than that, and half open only
\* while it counts fewer successes than close it, in whatever state the calls
\* were let through that are reported.
Counted ==
    \A p \in Provider :
        /\ breaker[p].state = "CLOSED" => breaker[p].failures < FailureThreshold /\ breaker[p].successes = 0
        /\ breaker[p].state = "HALF_OPEN" => breaker[p].successes < SuccessThreshold
        /\ breaker[p].state = "OPEN" => breaker[p].successes = 0

\* "避免同一 provider 被重复尝试" (router.py:473) and max_failovers: one chat()
\* calls as many providers as it makes attempts, no more than are allowed.
OnceEach ==
    \A c \in Caller : pc[c] = "calling" =>
        /\ Cardinality(tried[c]) = attempts[c] + 1
        /\ attempts[c] <= MaxFailovers

\* chat() returns or raises, whatever the breakers do meanwhile: the loop of
\* failovers ends, and the lock is free again after each choice.
ChatEnds == \A c \in Caller : pc[c] # "idle" ~> pc[c] = "idle"

\* "由 success_threshold 计数器确保恢复前必须有足够数量的成功探测" (circuit.py:114):
\* the success that closes a breaker is that of a probe, a call let through
\* in the half-open period it ends.
RecoveryProbed ==
    [][\A p \in Provider :
         (breaker[p].state # "CLOSED" /\ breaker'[p].state = "CLOSED" /\ resets' = resets)
            => \E c \in Caller : <<c, p>> \in probes /\ at[c] = p /\ pc'[c] = "idle"]_vars
=============================================================================
