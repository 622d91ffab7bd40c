--------------------------- MODULE LLMRouterProofs ---------------------------
(***************************************************************************)
(* Theorems about LLMRouter, for any callers, providers, thresholds and    *)
(* strategy: an open breaker holds for its recovery time (OpenHolds), the  *)
(* counters stay below the thresholds (Counted), and chat() calls each     *)
(* provider at most once (OnceEach).                                       *)
(***************************************************************************)
EXTENDS LLMRouter, FiniteSetTheorems, TLAPS

USE BreakerAssumption DEF BreakerAssumption

-----------------------------------------------------------------------------
(* The methods of one breaker *)

\* What the counters of a breaker may be.
Kept(b) ==
    /\ b.state = "CLOSED" => b.failures < FailureThreshold /\ b.successes = 0
    /\ b.state = "HALF_OPEN" => b.successes < SuccessThreshold
    /\ b.state = "OPEN" => b.successes = 0

\* A breaker is one after its fields are set.
LEMMA Update ==
    ASSUME NEW b \in Breaker, NEW s \in {"CLOSED", "OPEN", "HALF_OPEN"},
           NEW n \in Nat, NEW k \in Nat, NEW t \in Nat
    PROVE  /\ [b EXCEPT !.failures = n] \in Breaker
           /\ [b EXCEPT !.successes = k] \in Breaker
           /\ [b EXCEPT !.failures = n, !.successes = k] \in Breaker
           /\ [b EXCEPT !.state = s, !.successes = k] \in Breaker
           /\ [b EXCEPT !.state = s, !.failures = n, !.successes = k] \in Breaker
           /\ [b EXCEPT !.state = s, !.openedAt = t, !.successes = k] \in Breaker
BY DEF Breaker

\* The methods return a breaker.
LEMMA BreakerTypes ==
    ASSUME NEW b \in Breaker, NEW t \in Nat
    PROVE  /\ MaybeHalfOpen(b, t) \in Breaker
           /\ RecordSuccess(b, t) \in Breaker
           /\ RecordFailure(b, t) \in Breaker
<1> DEFINE m == MaybeHalfOpen(b, t)
           c == [m EXCEPT !.failures = 0]
           d == [m EXCEPT !.failures = @ + 1, !.successes = 0]
<1>1. m \in Breaker
  BY Update DEF MaybeHalfOpen, HalfOpened
<1>2. m.failures + 1 \in Nat
  BY <1>1 DEF Breaker
<1>3. c \in Breaker /\ d \in Breaker
  <2> HIDE DEF m
  <2> QED BY <1>1, <1>2, Update
<1>4. c.successes + 1 \in Nat
  BY <1>3 DEF Breaker
<1>5. RecordSuccess(b, t) = IF c.state # "HALF_OPEN" THEN c
                            ELSE IF c.successes + 1 >= SuccessThreshold THEN ClosedAgain(c)
                            ELSE [c EXCEPT !.successes = @ + 1]
  BY DEF RecordSuccess
<1>6. RecordFailure(b, t) = IF d.state = "HALF_OPEN" \/ d.failures >= FailureThreshold
                            THEN Opened(d, t) ELSE d
  BY DEF RecordFailure
<1> HIDE DEF m, c, d
<1>7. RecordSuccess(b, t) \in Breaker
  <2>1. ClosedAgain(c) \in Breaker
    BY <1>3, Update DEF ClosedAgain
  <2>2. [c EXCEPT !.successes = @ + 1] \in Breaker
    BY <1>3, <1>4, Update
  <2> QED BY <1>3, <1>5, <2>1, <2>2
<1>8. RecordFailure(b, t) \in Breaker
  <2>1. Opened(d, t) \in Breaker
    BY <1>3, Update DEF Opened
  <2> QED BY <1>3, <1>6, <2>1
<1> QED BY <1>1, <1>7, <1>8 DEF m

\* _maybe_half_open leaves the counters as they may be.
LEMMA MaybeKeeps ==
    ASSUME NEW b \in Breaker, NEW t \in Nat, Kept(b) PROVE Kept(MaybeHalfOpen(b, t))
BY DEF MaybeHalfOpen, HalfOpened, Breaker, Kept

\* A success is counted while half open only, and closes at the threshold.
LEMMA SuccessKeeps ==
    ASSUME NEW b \in Breaker, NEW t \in Nat, Kept(b) PROVE Kept(RecordSuccess(b, t))
<1> DEFINE m == MaybeHalfOpen(b, t)
           c == [m EXCEPT !.failures = 0]
<1>1. m \in Breaker /\ Kept(m)
  BY BreakerTypes, MaybeKeeps
<1> HIDE DEF m
<1>2. c \in Breaker /\ Kept(c)
  BY <1>1 DEF Kept, Breaker
<1>3. RecordSuccess(b, t) = IF c.state # "HALF_OPEN" THEN c
                            ELSE IF c.successes + 1 >= SuccessThreshold THEN ClosedAgain(c)
                            ELSE [c EXCEPT !.successes = @ + 1]
  BY DEF RecordSuccess, m
<1> HIDE DEF c
<1>4. Kept(ClosedAgain(c))
  BY <1>2 DEF Kept, Breaker, ClosedAgain
<1>5. c.state = "HALF_OPEN" /\ ~(c.successes + 1 >= SuccessThreshold)
         => Kept([c EXCEPT !.successes = @ + 1])
  BY <1>2 DEF Kept, Breaker
<1> QED BY <1>2, <1>3, <1>4, <1>5

\* A failure opens at the threshold.
LEMMA FailureKeeps ==
    ASSUME NEW b \in Breaker, NEW t \in Nat PROVE Kept(RecordFailure(b, t))
<1> DEFINE m == MaybeHalfOpen(b, t)
           c == [m EXCEPT !.failures = @ + 1, !.successes = 0]
<1>1. m \in Breaker
  BY BreakerTypes
<1> HIDE DEF m
<1>2. m.failures + 1 \in Nat
  BY <1>1 DEF Breaker
<1>3. c \in Breaker
  BY <1>1, <1>2, Update
<1>4. c.successes = 0
  BY <1>1 DEF Breaker
<1>5. RecordFailure(b, t) = IF c.state = "HALF_OPEN" \/ c.failures >= FailureThreshold
                            THEN Opened(c, t) ELSE c
  BY DEF RecordFailure, m
<1> HIDE DEF c
<1>6. Kept(Opened(c, t))
  BY <1>3, <1>4 DEF Kept, Breaker, Opened
<1>7. c.state # "HALF_OPEN" /\ ~(c.failures >= FailureThreshold) => Kept(c)
  BY <1>3, <1>4 DEF Kept, Breaker
<1> QED BY <1>5, <1>6, <1>7

\* A breaker that is still open after _maybe_half_open stays open, whatever is
\* reported to it, and keeps the time at which it was opened.
LEMMA StaysOpen ==
    ASSUME NEW b \in Breaker, NEW t \in Nat,
           NEW d \in {MaybeHalfOpen(b, t), RecordSuccess(b, t), RecordFailure(b, t)},
           MaybeHalfOpen(b, t).state = "OPEN"
    PROVE  b.state = "OPEN" /\ d.state = "OPEN" /\ d.openedAt = b.openedAt
<1>1. MaybeHalfOpen(b, t) = b /\ b.state = "OPEN"
  BY DEF MaybeHalfOpen, HalfOpened, Breaker
<1>2. RecordSuccess(b, t) = [b EXCEPT !.failures = 0]
  BY <1>1 DEF RecordSuccess, Breaker
<1>3. [b EXCEPT !.failures = @ + 1, !.successes = 0].state = "OPEN"
  BY <1>1 DEF Breaker
<1>4. RecordFailure(b, t) = [b EXCEPT !.failures = @ + 1, !.successes = 0]
  BY <1>1, <1>3 DEF RecordFailure, Opened
<1>5. CASE d = MaybeHalfOpen(b, t)
  BY <1>1, <1>5
<1>6. CASE d = RecordSuccess(b, t)
  BY <1>1, <1>2, <1>6 DEF Breaker
<1>7. CASE d = RecordFailure(b, t)
  BY <1>1, <1>4, <1>7 DEF Breaker
<1> QED BY <1>5, <1>6, <1>7

\* One that is not, and is open in the end, was opened now.
LEMMA OpensNow ==
    ASSUME NEW b \in Breaker, NEW t \in Nat,
           NEW d \in {MaybeHalfOpen(b, t), RecordSuccess(b, t), RecordFailure(b, t)},
           MaybeHalfOpen(b, t).state # "OPEN", d.state = "OPEN"
    PROVE  d.openedAt = t
<1> DEFINE m == MaybeHalfOpen(b, t)
           c == [m EXCEPT !.failures = @ + 1, !.successes = 0]
<1>1. m \in Breaker /\ m.state # "OPEN"
  BY BreakerTypes
<1>2. RecordSuccess(b, t).state # "OPEN"
  <2> HIDE DEF m
  <2> QED BY <1>1 DEF RecordSuccess, ClosedAgain, Breaker, m
<1>3. c.state = m.state
  <2> HIDE DEF m
  <2> QED BY <1>1 DEF Breaker
<1>4. m.failures + 1 \in Nat
  BY <1>1 DEF Breaker
<1>5. c \in Breaker
  <2> HIDE DEF m
  <2> QED BY <1>1, <1>4, Update
<1>6. RecordFailure(b, t) = IF c.state = "HALF_OPEN" \/ c.failures >= FailureThreshold
                            THEN Opened(c, t) ELSE c
  BY DEF RecordFailure
<1> HIDE DEF m, c
<1>7. Opened(c, t).openedAt = t
  BY <1>1, <1>3, <1>5 DEF Opened, Breaker
<1> QED BY <1>1, <1>2, <1>3, <1>6, <1>7 DEF m

-----------------------------------------------------------------------------
(* Type correctness *)

\* What a method makes of the breaker of p.
Reported(p) == {MaybeHalfOpen(breaker[p], now), RecordSuccess(breaker[p], now),
                RecordFailure(breaker[p], now)}

\* The router starts with closed breakers and no caller.
LEMMA TypeInit == Init => TypeOK
BY RouterAssumption DEF RouterAssumption, Init, TypeOK, Places, NewBreaker, Breaker

\* A method keeps the types of breaker and trip.
LEMMA SetType ==
    ASSUME TypeOK, NEW p \in Provider, NEW b \in Reported(p), SetBreaker(p, b)
    PROVE  breaker' \in [Provider -> Breaker] /\ trip' \in [Provider -> Nat \cup {None}]
<1>1. b \in Breaker
  BY BreakerTypes DEF TypeOK, Reported
<1> QED BY <1>1 DEF TypeOK, SetBreaker

\* Leaving chat() keeps the types of its locals.
LEMMA LeaveType ==
    ASSUME TypeOK, NEW c \in Caller, Leave(c)
    PROVE  /\ pc' \in [Caller -> Places] /\ at' \in [Caller -> Provider \cup {None}]
           /\ \A d \in Caller : pc'[d] = "calling" => at'[d] \in Provider
           /\ tried' \in [Caller -> SUBSET Provider] /\ attempts' \in [Caller -> 0..MaxFailovers]
<1>1. 0 \in 0..MaxFailovers
  BY RouterAssumption DEF RouterAssumption
<1> QED BY <1>1 DEF TypeOK, Leave, Places

\* So does the call of a provider.
LEMMA CallType ==
    ASSUME TypeOK, NEW c \in Caller, NEW p \in Provider, Call(c, p)
    PROVE  /\ pc' \in [Caller -> Places] /\ at' \in [Caller -> Provider \cup {None}]
           /\ \A d \in Caller : pc'[d] = "calling" => at'[d] \in Provider
           /\ tried' \in [Caller -> SUBSET Provider] /\ probes' \subseteq Caller \X Provider
BY DEF TypeOK, Call, Places

\* And the end of a choice.
LEMMA ChosenType ==
    ASSUME TypeOK, NEW c \in Caller, Chosen(c)
    PROVE  checked' \in [Caller -> SUBSET Provider] /\ available' \in [Caller -> SUBSET Provider]
BY DEF TypeOK, Chosen

\* What a comprehension looks at next, and what is chosen, is an entry.
LEMMA Entries ==
    ASSUME TypeOK, NEW c \in Caller
    PROVE  First(ToCheck(c)) \subseteq Provider /\ Picks(available[c]) \subseteq available[c]
           /\ First(available[c]) \subseteq available[c] /\ available[c] \subseteq Provider
BY DEF TypeOK, First, ToCheck, Picks, ByStrategy

\* Every step keeps the types.
LEMMA TypeStep == TypeOK /\ [Next]_vars => TypeOK'
<1> SUFFICES ASSUME TypeOK, [Next]_vars PROVE TypeOK'
  OBVIOUS
<1>1. ASSUME NEW c \in Caller, Chat(c) PROVE TypeOK'
  BY <1>1 DEF TypeOK, Chat, Places, history
<1>2. ASSUME NEW c \in Caller, FallBack(c) PROVE TypeOK'
  BY <1>2 DEF TypeOK, FallBack, Places, history
<1>3. ASSUME NEW c \in Caller, Check(c) PROVE TypeOK'
  <2>1. PICK p \in First(ToCheck(c)) :
          /\ SetBreaker(p, MaybeHalfOpen(breaker[p], now))
          /\ checked' = [checked EXCEPT ![c] = @ \cup {p}]
          /\ \/ available' = [available EXCEPT ![c] = @ \cup {p}]
             \/ available' = [available EXCEPT ![c] = @]
          /\ probes' \subseteq probes \cup {<<c, p>>}
          /\ UNCHANGED <<now, pc, at, tried, attempts, chats, resets>>
    BY <1>3 DEF Check, StillProbes
  <2>2. p \in Provider
    BY <2>1, Entries
  <2>3. breaker' \in [Provider -> Breaker] /\ trip' \in [Provider -> Nat \cup {None}]
    BY <2>1, <2>2, SetType DEF Reported
  <2>4. checked' \in [Caller -> SUBSET Provider] /\ available' \in [Caller -> SUBSET Provider]
    BY <2>1, <2>2 DEF TypeOK
  <2>5. probes' \subseteq Caller \X Provider
    BY <2>1, <2>2 DEF TypeOK
  <2> QED BY <2>1, <2>3, <2>4, <2>5 DEF TypeOK
<1>4. ASSUME NEW c \in Caller, NoneAvailable(c) PROVE TypeOK'
  BY <1>4, LeaveType, ChosenType DEF TypeOK, NoneAvailable, history
<1>5. ASSUME NEW c \in Caller, Select(c) PROVE TypeOK'
  <2>1. PICK p \in Provider : Call(c, p)
    BY <1>5, Entries DEF Select
  <2> QED BY <1>5, <2>1, CallType, ChosenType DEF TypeOK, Select
<1>6. ASSUME NEW c \in Caller, SelectFallback(c) PROVE TypeOK'
  <2>1. PICK p \in Provider : Call(c, p)
    BY <1>6, Entries DEF SelectFallback
  <2>2. attempts' \in [Caller -> 0..MaxFailovers]
    BY <1>6, RouterAssumption DEF RouterAssumption, TypeOK, SelectFallback
  <2> QED BY <1>6, <2>1, <2>2, CallType, ChosenType DEF TypeOK, SelectFallback
<1>7. ASSUME NEW c \in Caller, FailoversUsed(c) PROVE TypeOK'
  BY <1>7, LeaveType, ChosenType DEF TypeOK, FailoversUsed
<1>8. ASSUME NEW c \in Caller, Succeeds(c) PROVE TypeOK'
  <2>1. at[c] \in Provider
    BY <1>8 DEF TypeOK, Succeeds
  <2>2. breaker' \in [Provider -> Breaker] /\ trip' \in [Provider -> Nat \cup {None}]
    BY <1>8, <2>1, SetType DEF Succeeds, Reported
  <2>3. probes' \subseteq probes
    BY <1>8 DEF Succeeds, StillProbes
  <2> QED BY <1>8, <2>2, <2>3, LeaveType DEF TypeOK, Succeeds
<1>9. ASSUME NEW c \in Caller, Fails(c) PROVE TypeOK'
  <2>1. at[c] \in Provider
    BY <1>9 DEF TypeOK, Fails
  <2>2. breaker' \in [Provider -> Breaker] /\ trip' \in [Provider -> Nat \cup {None}]
    BY <1>9, <2>1, SetType DEF Fails, Reported
  <2>3. probes' \subseteq probes
    BY <1>9 DEF Fails, StillProbes
  <2>4. /\ pc' \in [Caller -> Places] /\ at' \in [Caller -> Provider \cup {None}]
        /\ \A d \in Caller : pc'[d] = "calling" => at'[d] \in Provider
    BY <1>9 DEF TypeOK, Fails, Places
  <2> QED BY <1>9, <2>2, <2>3, <2>4 DEF TypeOK, Fails
<1>10. ASSUME NEW c \in Caller, Raises(c) PROVE TypeOK'
  BY <1>10, LeaveType DEF TypeOK, Raises
<1>11. ASSUME NEW p \in Provider, GetState(p) PROVE TypeOK'
  <2>1. breaker' \in [Provider -> Breaker] /\ trip' \in [Provider -> Nat \cup {None}]
    BY <1>11, SetType DEF GetState, Reported
  <2>2. probes' \subseteq probes
    BY <1>11 DEF GetState, StillProbes
  <2> QED BY <1>11, <2>1, <2>2 DEF TypeOK, GetState, callVars
<1>12. ASSUME NEW p \in Provider, Reset(p) PROVE TypeOK'
  <2>1. NewBreaker \in Breaker
    BY DEF NewBreaker, Breaker
  <2> QED BY <1>12, <2>1 DEF TypeOK, Reset, callVars
<1>13. CASE Tick
  BY <1>13 DEF TypeOK, Tick, callVars, history
<1>14. CASE UNCHANGED vars
  BY <1>14 DEF TypeOK, vars, callVars, history
<1> QED
  BY <1>1, <1>2, <1>3, <1>4, <1>5, <1>6, <1>7, <1>8, <1>9, <1>10, <1>11, <1>12, <1>13, <1>14
  DEF Next, Choice, Result

\* The state has the types that TypeOK says, in every behaviour.
THEOREM TypeCorrect == Spec => []TypeOK
BY TypeInit, TypeStep, PTL DEF Spec

-----------------------------------------------------------------------------
(* Counters and recovery time *)

\* A breaker that is open was tripped when it was opened; another one was never
\* tripped, was reset, or was tripped at least a recovery time ago.
TripKnown ==
    \A p \in Provider :
        IF breaker[p].state = "OPEN" THEN trip[p] = breaker[p].openedAt
        ELSE trip[p] = None \/ now - trip[p] >= RecoveryTimeout

\* A breaker is new at first.
LEMMA TripInit == Init => Counted /\ TripKnown
BY DEF Init, Counted, TripKnown, NewBreaker

\* A method of one breaker, as far as TripKnown is about it.
LEMMA SetTrip ==
    ASSUME TypeOK, Counted, TripKnown, NEW p \in Provider, NEW b \in Reported(p),
           SetBreaker(p, b), now' = now
    PROVE  Counted' /\ TripKnown'
<1> DEFINE m == MaybeHalfOpen(breaker[p], now)
<1>1. breaker[p] \in Breaker /\ now \in Nat /\ trip[p] \in Nat \cup {None}
  BY DEF TypeOK
<1>2. Kept(breaker[p])
  BY DEF Counted, Kept
<1>3. Kept(b)
  BY <1>1, <1>2, MaybeKeeps, SuccessKeeps, FailureKeeps DEF Reported
<1>4. breaker'[p] = b /\ \A q \in Provider \ {p} : breaker'[q] = breaker[q] /\ trip'[q] = trip[q]
  BY DEF TypeOK, SetBreaker
<1>5. Counted'
  BY <1>3, <1>4 DEF Counted, Kept
<1>6. m.state = "OPEN" => breaker[p].state = "OPEN" /\ b.state = "OPEN" /\ b.openedAt = breaker[p].openedAt
  BY <1>1, StaysOpen DEF Reported
<1>7. m.state # "OPEN" /\ b.state = "OPEN" => b.openedAt = now
  BY <1>1, OpensNow DEF Reported
<1>8. m.state # "OPEN" /\ breaker[p].state = "OPEN" => now - breaker[p].openedAt >= RecoveryTimeout
  BY <1>1 DEF MaybeHalfOpen
<1>9. trip'[p] = IF m.state # "OPEN" /\ b.state = "OPEN" THEN now ELSE trip[p]
  BY DEF TypeOK, SetBreaker
<1> HIDE DEF m
<1>10. IF b.state = "OPEN" THEN trip'[p] = b.openedAt
       ELSE trip'[p] = None \/ now - trip'[p] >= RecoveryTimeout
  BY <1>6, <1>7, <1>8, <1>9 DEF TripKnown
<1>11. TripKnown'
  BY <1>4, <1>10 DEF TripKnown
<1> QED BY <1>5, <1>11

\* Every step keeps both.
LEMMA TripStep == TypeOK /\ Counted /\ TripKnown /\ [Next]_vars => Counted' /\ TripKnown'
<1> SUFFICES ASSUME TypeOK, Counted, TripKnown, [Next]_vars PROVE Counted' /\ TripKnown'
  OBVIOUS
<1>1. CASE UNCHANGED <<breaker, now, trip>>
  BY <1>1 DEF Counted, TripKnown
<1>2. ASSUME NEW c \in Caller, Chat(c) \/ FallBack(c) \/ NoneAvailable(c) \/ Select(c)
                    \/ SelectFallback(c) \/ FailoversUsed(c) \/ Raises(c)
      PROVE  UNCHANGED <<breaker, now, trip>>
  BY <1>2 DEF Chat, FallBack, NoneAvailable, Select, SelectFallback, FailoversUsed, Raises, history
<1>3. ASSUME NEW c \in Caller, Check(c) PROVE Counted' /\ TripKnown'
  <2>1. PICK p \in First(ToCheck(c)) : SetBreaker(p, MaybeHalfOpen(breaker[p], now)) /\ now' = now
    BY <1>3 DEF Check
  <2> QED BY <2>1, SetTrip, Entries DEF Reported
<1>4. ASSUME NEW c \in Caller, Succeeds(c) PROVE Counted' /\ TripKnown'
  <2>1. at[c] \in Provider
    BY <1>4 DEF TypeOK, Succeeds
  <2> QED BY <1>4, <2>1, SetTrip DEF Succeeds, Reported
<1>5. ASSUME NEW c \in Caller, Fails(c) PROVE Counted' /\ TripKnown'
  <2>1. at[c] \in Provider
    BY <1>5 DEF TypeOK, Fails
  <2> QED BY <1>5, <2>1, SetTrip DEF Fails, Reported
<1>6. ASSUME NEW p \in Provider, GetState(p) PROVE Counted' /\ TripKnown'
  BY <1>6, SetTrip DEF GetState, Reported
<1>7. ASSUME NEW p \in Provider, Reset(p) PROVE Counted' /\ TripKnown'
  BY <1>7 DEF TypeOK, Counted, TripKnown, Reset, NewBreaker
<1>8. CASE Tick
  <2>1. now \in Nat /\ now' = now + 1 /\ UNCHANGED <<breaker, trip>>
    BY <1>8 DEF TypeOK, Tick, history
  <2>2. \A p \in Provider : trip[p] \in Nat \cup {None}
    BY DEF TypeOK
  <2> QED BY <2>1, <2>2 DEF Counted, TripKnown
<1>9. CASE UNCHANGED vars
  BY <1>1, <1>9 DEF vars, history
<1> QED
  BY <1>1, <1>2, <1>3, <1>4, <1>5, <1>6, <1>7, <1>8, <1>9 DEF Next, Choice, Result

\* The counters of a breaker stay below the thresholds, in whatever state the
\* calls were let through whose results it is told of.
THEOREM ThresholdsKept == Spec => []Counted
BY TypeInit, TypeStep, TripInit, TripStep, PTL DEF Spec

\* No list of available providers has one whose breaker was opened less than a
\* recovery time ago and was not reset.
THEOREM OpenBreakersHold == Spec => OpenHolds
<1>1. TypeOK /\ TripKnown /\ [Next]_vars =>
        [\A c \in Caller, p \in Provider :
           (p \notin available[c] /\ p \in available'[c] /\ trip[p] # None)
              => now - trip[p] >= RecoveryTimeout]_vars
  <2> SUFFICES ASSUME TypeOK, TripKnown, Next, NEW c \in Caller, NEW p \in Provider,
                      p \notin available[c], p \in available'[c], trip[p] # None
               PROVE  now - trip[p] >= RecoveryTimeout
    OBVIOUS
  <2>1. PICK d \in Caller : Check(d)
    <3>1. ASSUME NEW d \in Caller, Chosen(d) PROVE available'[c] \subseteq available[c]
      BY <3>1 DEF TypeOK, Chosen
    <3> QED BY <3>1 DEF Next, Choice, Result, Chat, FallBack, NoneAvailable, Select, SelectFallback,
              FailoversUsed, Succeeds, Fails, Raises, GetState, Reset, Tick, callVars
  <2>2. PICK q \in First(ToCheck(d)) :
          available' = [available EXCEPT ![d] =
            IF AllowRequest(MaybeHalfOpen(breaker[q], now)) THEN @ \cup {q} ELSE @]
    BY <2>1 DEF Check
  <2>3. q = p /\ AllowRequest(MaybeHalfOpen(breaker[p], now))
    BY <2>2 DEF TypeOK
  <2>4. breaker[p] \in Breaker /\ now \in Nat
    BY DEF TypeOK
  <2> QED BY <2>3, <2>4 DEF TripKnown, AllowRequest, MaybeHalfOpen
<1> QED BY <1>1, TypeInit, TypeStep, TripInit, TripStep, PTL DEF Spec, OpenHolds

-----------------------------------------------------------------------------
(* One call of each provider *)

\* What a caller has tried, at each place of chat().
Tries ==
    \A c \in Caller :
        /\ IsFiniteSet(tried[c])
        /\ available[c] \cap tried[c] = {}
        /\ pc[c] \in {"idle", "selecting"} => tried[c] = {} /\ attempts[c] = 0
        /\ pc[c] \in {"calling", "retry", "falling"} => Cardinality(tried[c]) = attempts[c] + 1

\* Nothing has been tried at first.
LEMMA TriesInit == Init => Tries
BY FS_EmptySet DEF Init, Tries

\* A call is the first of its provider.
LEMMA CallTries ==
    ASSUME TypeOK, Tries, NEW c \in Caller, NEW p \in available[c], Call(c, p), Chosen(c)
    PROVE  /\ tried'[c] = tried[c] \cup {p} /\ IsFiniteSet(tried'[c])
           /\ Cardinality(tried'[c]) = Cardinality(tried[c]) + 1
           /\ available'[c] = {} /\ pc'[c] = "calling"
           /\ \A d \in Caller \ {c} : UNCHANGED <<tried[d], available[d], pc[d]>>
<1>1. tried'[c] = tried[c] \cup {p} /\ p \notin tried[c] /\ IsFiniteSet(tried[c])
  BY DEF TypeOK, Tries, Call
<1>2. IsFiniteSet(tried'[c]) /\ Cardinality(tried'[c]) = Cardinality(tried[c]) + 1
  BY <1>1, FS_AddElement
<1> QED BY <1>1, <1>2 DEF TypeOK, Call, Chosen

\* Who leaves has tried nothing.
LEMMA LeaveTries ==
    ASSUME TypeOK, Tries, NEW c \in Caller, Leave(c), Chosen(c) \/ UNCHANGED available
    PROVE  Tries'
<1>1. tried'[c] = {} /\ attempts'[c] = 0 /\ pc'[c] = "idle" /\ IsFiniteSet(tried'[c])
  BY FS_EmptySet DEF TypeOK, Leave
<1>2. \A d \in Caller \ {c} : UNCHANGED <<tried[d], attempts[d], pc[d]>>
  BY DEF TypeOK, Leave
<1>3. \A d \in Caller : available'[d] \subseteq available[d]
  BY DEF TypeOK, Chosen
<1> QED BY <1>1, <1>2, <1>3 DEF Tries

\* Every step keeps Tries.
LEMMA TriesStep == TypeOK /\ Tries /\ [Next]_vars => Tries'
<1> SUFFICES ASSUME TypeOK, Tries, [Next]_vars PROVE Tries'
  OBVIOUS
<1>1. CASE UNCHANGED <<pc, tried, attempts, available>>
  BY <1>1 DEF Tries
<1>2. ASSUME NEW c \in Caller, Chat(c) PROVE Tries'
  BY <1>2 DEF TypeOK, Tries, Chat
<1>3. ASSUME NEW c \in Caller, FallBack(c) PROVE Tries'
  BY <1>3 DEF TypeOK, Tries, FallBack
<1>4. ASSUME NEW c \in Caller, Check(c) PROVE Tries'
  <2>1. PICK p \in First(ToCheck(c)) :
          /\ \/ available' = [available EXCEPT ![c] = @ \cup {p}]
             \/ available' = [available EXCEPT ![c] = @]
          /\ UNCHANGED <<pc, tried, attempts>>
    BY <1>4 DEF Check
  <2>2. p \notin tried[c]
    BY DEF First, ToCheck
  <2> QED BY <2>1, <2>2 DEF TypeOK, Tries
<1>5. ASSUME NEW c \in Caller, NoneAvailable(c) \/ FailoversUsed(c) \/ Succeeds(c) \/ Raises(c)
      PROVE  Tries'
  BY <1>5, LeaveTries DEF NoneAvailable, FailoversUsed, Succeeds, Raises
<1>6. ASSUME NEW c \in Caller, Select(c) PROVE Tries'
  <2>1. PICK p \in available[c] : Call(c, p)
    BY <1>6, Entries DEF Select
  <2>2. Cardinality(tried[c]) = 0 /\ attempts[c] = 0 /\ attempts' = attempts
    BY <1>6, FS_EmptySet DEF Tries, Select
  <2>3. Chosen(c)
    BY <1>6 DEF Select
  <2> QED BY <2>1, <2>2, <2>3, CallTries DEF Tries
<1>7. ASSUME NEW c \in Caller, SelectFallback(c) PROVE Tries'
  <2>1. PICK p \in available[c] : Call(c, p)
    BY <1>7, Entries DEF SelectFallback
  <2>2. Cardinality(tried[c]) = attempts[c] + 1 /\ attempts' = [attempts EXCEPT ![c] = @ + 1] /\ Chosen(c)
    BY <1>7 DEF Tries, SelectFallback
  <2>3. attempts'[c] = attempts[c] + 1 /\ \A d \in Caller \ {c} : attempts'[d] = attempts[d]
    BY <2>2 DEF TypeOK
  <2> QED BY <2>1, <2>2, <2>3, CallTries DEF Tries
<1>8. ASSUME NEW c \in Caller, Fails(c) PROVE Tries'
  BY <1>8 DEF TypeOK, Tries, Fails
<1>9. ASSUME NEW p \in Provider, GetState(p) \/ Reset(p) PROVE UNCHANGED <<pc, tried, attempts, available>>
  BY <1>9 DEF GetState, Reset, callVars
<1>10. Tick \/ UNCHANGED vars => UNCHANGED <<pc, tried, attempts, available>>
  BY DEF Tick, vars, callVars
<1> QED
  BY <1>1, <1>2, <1>3, <1>4, <1>5, <1>6, <1>7, <1>8, <1>9, <1>10 DEF Next, Choice, Result

\* One chat() calls each provider at most once, and no more of them than
\* max_failovers allows, whatever the breakers do meanwhile.
THEOREM ProvidersOnce == Spec => []OnceEach
<1>1. TypeOK /\ Tries => OnceEach
  BY RouterAssumption DEF RouterAssumption, TypeOK, Tries, OnceEach
<1> QED BY <1>1, TypeInit, TypeStep, TriesInit, TriesStep, PTL DEF Spec
=============================================================================
