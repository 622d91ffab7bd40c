------------------------- MODULE ToolExecutorProofs -------------------------
(***************************************************************************)
(* Theorems about ToolExecutor with AutoscaledPool, for any threads, tools *)
(* and bounds: the semaphore in use has as many permits as the concurrency *)
(* says (CurrentServes), a destructive tool runs only with a permission of *)
(* its own call (Gated), the cache has one answer for a call and stays     *)
(* within its size (CacheSound), and there are no more executions than the *)
(* step limit and the retries allow together (StepLimit).                  *)
(***************************************************************************)
EXTENDS ToolExecutor, FiniteSetTheorems, SequenceTheorems, TLAPS

USE DEF Thread

-----------------------------------------------------------------------------
(* The inductive invariant. *)

\* What the place a thread is at says of the thread.
Where ==
    \A t \in Thread :
        /\ pc[t] # "idle" => key[t] \in Key
        /\ t \in Loops => pc[t] \in {"idle", "gate", "run", "remember"}
        /\ t \in Executors => pc[t] \notin {"run", "remember"}

\* The same for the thread's part in the pool.
Served ==
    \A t \in Executors :
        /\ pc[t] = "wait" => sem[t] # 0
        /\ pc[t] \in {"adjust", "tail"} => bound[t] # 0
        /\ t \in holding => pc[t] \in {"retry", "result", "release"}

\* Every thread waits for an execution of its own.
Waits ==
    /\ \A t \in Executors : pc[t] = "result" => job[t] # 0 /\ jobs[job[t]] # None
    /\ \A t, u \in Executors : t # u /\ job[t] # 0 => job[t] # job[u]

\* Whatever is under way for a destructive call has a permission.
Approved ==
    /\ \A k \in approvals : granted[k] > 0
    /\ \A t \in Thread : pc[t] \notin {"idle", "gate"} => Permitted(key[t], vouched[t])
    /\ \A j \in 1..Len(jobs) : jobs[j] # None => Permitted(jobs[j].key, jobs[j].vouched)

\* A key has at most one entry.
Unique(entries) ==
    \A i, j \in 1..Len(entries) : entries[i].key = entries[j].key => i = j

IInv == TypeOK /\ Where /\ Served /\ Waits /\ Approved /\ CurrentServes
        /\ Len(cache) <= MaxCache /\ Unique(cache)

-----------------------------------------------------------------------------
(* The types of what a thread has of its own. *)

LocalOK ==
    /\ pc \in [Thread -> Place] /\ key \in [Thread -> Key \cup {None}]
    /\ tries \in [Thread -> 0..MaxTries] /\ answer \in [Thread -> Answer]
    /\ rounds \in [Thread -> 0..MaxRounds] /\ vouched \in [Thread -> BOOLEAN]

PolicyOK ==
    /\ cache \in Seq([key : Key, answer : Answer])
    /\ approvals \subseteq Deleting /\ granted \in [Deleting -> 0..MaxApprovals]

JobsOK ==
    /\ jobs \in Seq(Execution \cup {None}) /\ job \in [Thread -> Nat]
    /\ \A t \in Executors : job[t] \in 0..Len(jobs)

OthersOK ==
    /\ file \in [Workspace -> Answer] /\ steps \in 0 .. MaxSteps + 1 /\ closed \in BOOLEAN
    /\ managed \in 0..MaxManaged

\* The type invariant, in the parts that are proved one by one.
LEMMA TypeParts == TypeOK <=> PoolTypeOK /\ LocalOK /\ PolicyOK /\ JobsOK /\ OthersOK
BY DEF TypeOK, LocalOK, PolicyOK, JobsOK, OthersOK

\* What the assumptions on the constants say, in one place.
LEMMA Constants ==
    /\ MaxSteps \in Nat /\ MaxSteps >= 1 /\ MaxTries \in Nat /\ MaxTries >= 1
    /\ MaxCache \in Nat /\ MaxCache >= 1 /\ MaxApprovals \in Nat
    /\ MaxRounds \in Nat /\ MaxManaged \in Nat
    /\ InitialLow \in Nat /\ InitialLow >= 1 /\ InitialHigh \in Nat /\ InitialHigh >= 1
    /\ Initial \in Nat /\ Initial >= 1 /\ OtherHigh \in Nat /\ OtherHigh >= 1
    /\ MinSamples \in Nat /\ MaxSemaphores \in Nat /\ MaxSemaphores >= 1
BY PoolAssumption, ToolAssumption DEF PoolAssumption, ToolAssumption

\* The executors are the users of the pool; None is neither a key nor a job.
LEMMA Sets ==
    /\ User = Executors /\ IsFiniteSet(Executors)
    /\ \A t \in Executors : t \notin Loops
    /\ \A t \in Thread : Calls[t] \subseteq Key
    /\ None \notin Key /\ None \notin Execution
BY PoolAssumption, ToolAssumption DEF PoolAssumption, ToolAssumption

\* No content is an answer, too.
LEMMA NoneIsAnswer == None \in Answer
BY DEF Answer

\* A thread that goes back to idle has the types of an idle one.
LEMMA LeaveType ==
    ASSUME LocalOK, NEW t \in Thread, Leave(t), UNCHANGED rounds
    PROVE  LocalOK'
BY Constants, NoneIsAnswer DEF LocalOK, Leave, Goto, Place

\* Every step keeps the types of what a thread holds.
LEMMA LocalStep ==
    ASSUME LocalOK, TypeOK, Where, [Next]_vars
    PROVE  LocalOK'
<1> USE Constants DEF LocalOK, Goto, Place, local
<1>1. ASSUME NEW t \in Thread, NEW k \in Calls[t], Call(t, k) PROVE LocalOK'
  <2>1. k \in Key
    BY Sets
  <2> QED BY <1>1, <2>1 DEF Call, Lookup
<1>2. ASSUME NEW t \in Thread, Gate(t) PROVE LocalOK'
  BY <1>2, LeaveType DEF Gate
<1>3. ASSUME NEW t \in Executors, Count(t) PROVE LocalOK'
  BY <1>3, LeaveType DEF Count
<1>4. ASSUME NEW t \in Executors, MaybeAdjust(t) \/ ReadSemaphore(t) \/ GiveBack(t) PROVE LocalOK'
  BY <1>4 DEF MaybeAdjust, ReadSemaphore, GiveBack
<1>5. ASSUME NEW t \in Executors, Acquire(t) \/ Retry(t) PROVE LocalOK'
  <2>1. Submit(t) /\ UNCHANGED <<key, vouched, answer, rounds>>
    BY <1>5 DEF Acquire, Retry
  <2>2. /\ pc' = [pc EXCEPT ![t] = "release"] \/ pc' = [pc EXCEPT ![t] = "result"]
        /\ tries' = [tries EXCEPT ![t] = 0] \/ tries' = tries
    BY <2>1 DEF Submit, Stop
  <2> QED BY <2>1, <2>2
<1>6. ASSUME NEW t \in Executors, Deliver(t) PROVE LocalOK'
  BY <1>6 DEF Deliver, Failed, Stop
<1>7. ASSUME NEW t \in Executors, TimeOut(t) PROVE LocalOK'
  BY <1>7 DEF TimeOut, Failed, Stop
<1>8. ASSUME NEW t \in Executors, AdjustAgain(t) PROVE LocalOK'
  BY <1>8, LeaveType DEF AdjustAgain
<1>9. ASSUME NEW t \in Loops, Run(t) PROVE LocalOK'
  <2>1. CASE Leave(t)
    BY <1>9, <2>1, LeaveType DEF Run
  <2>2. CASE ~Leave(t)
    <3>1. file \in [Workspace -> Answer] /\ Home[t] \in Workspace
      BY DEF TypeOK, Workspace
    <3>2. Returned(key[t], file[Home[t]]) \in Answer
      BY <3>1, NoneIsAnswer DEF Returned
    <3> QED BY <1>9, <2>2, <3>2 DEF Run
  <2> QED BY <2>1, <2>2
<1>10. ASSUME NEW t \in Loops, RememberRun(t) PROVE LocalOK'
  BY <1>10, LeaveType DEF RememberRun
<1>11. CASE (\E k \in Deleting : Approve(k)) \/ StartJob \/ FinishJob \/ Manage \/ UNCHANGED vars
  BY <1>11 DEF Approve, StartJob, FinishJob, Manage, vars
<1> QED BY <1>1, <1>2, <1>3, <1>4, <1>5, <1>6, <1>7, <1>8, <1>9, <1>10, <1>11
        DEF Next, Step, LoopStep

-----------------------------------------------------------------------------
(* The pool. *)

\* Every step leaves the pool alone or is one of these.
PoolStep ==
    \/ UNCHANGED pool
    \/ \E t \in Executors : pc[t] = "count" /\ Look(t)
           /\ UNCHANGED <<high, concurrency, current, permits, samples, shut, sem, holding>>
    \/ \E t \in Executors : pc[t] \in {"adjust", "tail"} /\ Adjust(t)
    \/ \E t \in Executors : pc[t] = "choose" /\ Choose(t)
    \/ \E t \in Executors : pc[t] = "wait" /\ Obtain(t)
    \/ \E t \in Executors : pc[t] = "release" /\ Release(t) /\ Look(t)
    \/ samples' = Sampled
           /\ UNCHANGED <<high, concurrency, current, permits, shut, sem, holding, bound>>
    \/ Configure \/ Reset \/ ShutDown

\* The steps, sorted by what they do to the semaphores of the pool.
LEMMA PoolSteps == [Next]_vars => PoolStep
<1> SUFFICES ASSUME [Next]_vars PROVE PoolStep
  OBVIOUS
<1>1. ASSUME NEW t \in Executors, Step(t) PROVE PoolStep
  <2>1. CASE Gate(t) \/ Retry(t) \/ TimeOut(t)
    BY <2>1 DEF Gate, Retry, TimeOut, PoolStep
  <2>2. CASE Count(t)
    BY <2>2 DEF Count, PoolStep, pool
  <2>3. CASE MaybeAdjust(t) \/ AdjustAgain(t) \/ ReadSemaphore(t) \/ Acquire(t)
    BY <2>3 DEF MaybeAdjust, AdjustAgain, ReadSemaphore, Acquire, PoolStep
  <2>4. CASE Deliver(t)
    BY <2>4 DEF Deliver, PoolStep, pool
  <2>5. CASE GiveBack(t)
    BY <2>5 DEF GiveBack, PoolStep
  <2> QED BY <1>1, <2>1, <2>2, <2>3, <2>4, <2>5 DEF Step
<1>2. ASSUME NEW t \in Loops, LoopStep(t) PROVE PoolStep
  BY <1>2 DEF LoopStep, Gate, Run, RememberRun, PoolStep
<1>3. ASSUME NEW t \in Thread, NEW k, Call(t, k) PROVE PoolStep
  BY <1>3 DEF Call, PoolStep
<1>4. CASE (\E k \in Deleting : Approve(k)) \/ StartJob \/ FinishJob \/ UNCHANGED vars
  BY <1>4 DEF Approve, StartJob, FinishJob, vars, PoolStep
<1>5. CASE Manage
  BY <1>5 DEF Manage, PoolStep
<1> QED BY <1>1, <1>2, <1>3, <1>4, <1>5 DEF Next

\* The numbers that an adjustment may choose.
LEMMA Targets ==
    ASSUME concurrency \in Nat \ {0}, NEW most \in Nat \ {0}
    PROVE  Down \in Nat \ {0} /\ Up(most) \in Nat \ {0}
<1>1. concurrency \div 2 \in Nat /\ (5 * concurrency + 3) \div 4 \in Nat \ {0}
  OBVIOUS
<1> HIDE DEF Down
<1>2. Down \in Nat \ {0}
  BY <1>1, Constants DEF Down, Greatest
<1>3. Up(most) \in Nat \ {0}
  BY <1>1 DEF Up, Least
<1> QED BY <1>2, <1>3

\* A new semaphore is the current one and has all its permits.
LEMMA RenewType ==
    ASSUME PoolTypeOK, NEW n \in Nat \ {0}, Renew(n)
    PROVE  /\ concurrency' \in Nat \ {0} /\ current' \in Semaphore /\ permits' \in [Semaphore -> Nat]
           /\ current' = current + 1 /\ current \in Nat
           /\ permits'[current'] = n /\ concurrency' = n
BY Constants DEF PoolTypeOK, Renew, Semaphore

\* The limits that adaptive concurrency may reach are positive.
LEMMA HighType == \A h \in High : h \in Nat \ {0}
BY Constants DEF High

\* What an adjustment does.
LEMMA AdjustType ==
    ASSUME PoolTypeOK, NEW t \in Executors, bound[t] # 0, Adjust(t)
    PROVE  \/ UNCHANGED <<concurrency, current, permits>>
           \/ \E n \in Nat \ {0} : Renew(n)
<1>1. concurrency \in Nat \ {0} /\ bound[t] \in Nat \ {0}
  BY Sets, HighType DEF PoolTypeOK
<1>2. Down \in Nat \ {0} /\ Up(bound[t]) \in Nat \ {0}
  BY <1>1, Targets
<1> QED BY <1>2 DEF Adjust

\* update_config leaves the semaphores alone or makes a new one.
LEMMA ConfigureType ==
    ASSUME PoolTypeOK, Configure
    PROVE  /\ \/ UNCHANGED <<concurrency, current, permits>>
              \/ \E n \in Nat \ {0} : Renew(n)
           /\ high' \in High
BY HighType DEF Configure

\* Every step keeps the types of the pool.
LEMMA PoolTypeStep ==
    ASSUME PoolTypeOK, Served, [Next]_vars
    PROVE  PoolTypeOK'
<1>0. PoolStep
  BY PoolSteps
<1>1. ASSUME \/ UNCHANGED <<concurrency, current, permits>>
             \/ \E n \in Nat \ {0} : Renew(n),
             UNCHANGED <<sem, holding>>, high' \in High, samples' \in 0..MinSamples, shut' \in BOOLEAN,
             bound' \in [User -> High \cup {0}]
      PROVE  PoolTypeOK'
  <2>1. CASE UNCHANGED <<concurrency, current, permits>>
    BY <1>1, <2>1 DEF PoolTypeOK
  <2>2. ASSUME NEW n \in Nat \ {0}, Renew(n) PROVE PoolTypeOK'
    <3>1. /\ concurrency' \in Nat \ {0} /\ current' \in Semaphore /\ permits' \in [Semaphore -> Nat]
          /\ current' = current + 1 /\ current \in Nat
      BY <2>2, RenewType
    <3>2. sem' \in [User -> 0..current']
      BY <1>1, <3>1 DEF PoolTypeOK
    <3> QED BY <1>1, <3>1, <3>2 DEF PoolTypeOK
  <2> QED BY <1>1, <2>1, <2>2
<1>2. CASE UNCHANGED pool
  BY <1>2 DEF pool, PoolTypeOK
<1>3. ASSUME NEW t \in Executors, Look(t),
             UNCHANGED <<high, concurrency, current, permits, samples, shut, sem, holding>>
      PROVE  PoolTypeOK'
  <2>1. bound' \in [User -> High \cup {0}]
    BY <1>3, Sets DEF Look, PoolTypeOK
  <2> QED BY <1>1, <1>3, <2>1 DEF PoolTypeOK
<1>4. ASSUME NEW t \in Executors, pc[t] \in {"adjust", "tail"}, Adjust(t) PROVE PoolTypeOK'
  <2>1. bound' \in [User -> High \cup {0}]
    BY <1>4, Sets DEF Adjust, PoolTypeOK
  <2>2. \/ UNCHANGED <<concurrency, current, permits>>
        \/ \E n \in Nat \ {0} : Renew(n)
    BY <1>4, AdjustType DEF Served
  <2> QED BY <1>1, <1>4, <2>1, <2>2 DEF PoolTypeOK, Adjust
<1>5. ASSUME NEW t \in Executors, pc[t] = "choose", Choose(t) PROVE PoolTypeOK'
  <2>1. sem' = [sem EXCEPT ![t] = current] /\ current \in Nat /\ current # 0
    BY <1>5 DEF Choose, PoolTypeOK, Semaphore
  <2> QED BY <1>5, <2>1, Sets DEF Choose, PoolTypeOK
<1>6. ASSUME NEW t \in Executors, pc[t] = "wait", Obtain(t) PROVE PoolTypeOK'
  <2>1. sem[t] \in Semaphore /\ t \in User
    <3>1. sem[t] \in 0..current /\ sem[t] # 0 /\ current \in 1..MaxSemaphores
      BY <1>6, Sets DEF Served, PoolTypeOK, Semaphore
    <3> QED BY <3>1, Constants, Sets DEF Semaphore
  <2>2. permits' \in [Semaphore -> Nat]
    BY <1>6, <2>1 DEF Obtain, PoolTypeOK
  <2>3. holding' \subseteq {u \in User : sem[u] # 0}
    BY <1>6, <2>1 DEF Obtain, PoolTypeOK, Semaphore
  <2> QED BY <1>6, <2>2, <2>3 DEF Obtain, PoolTypeOK
<1>7. ASSUME NEW t \in Executors, pc[t] = "release", Release(t), Look(t) PROVE PoolTypeOK'
  <2>1. permits' \in [Semaphore -> Nat] /\ current \in Nat
    BY <1>7 DEF Release, PoolTypeOK, Semaphore
  <2>2. sem' \in [User -> 0..current] /\ holding' \subseteq {u \in User : sem'[u] # 0}
    BY <1>7, <2>1, Sets DEF Release, PoolTypeOK
  <2>3. bound' \in [User -> High \cup {0}]
    BY <1>7, Sets DEF Look, PoolTypeOK
  <2> QED BY <1>7, <2>1, <2>2, <2>3 DEF Release, PoolTypeOK
<1>8. CASE samples' = Sampled /\ UNCHANGED <<high, concurrency, current, permits, shut, sem, holding, bound>>
  <2>1. samples' \in 0..MinSamples
    BY <1>8, Constants DEF Sampled, Least, PoolTypeOK
  <2> QED BY <1>1, <1>8, <2>1 DEF PoolTypeOK
<1>9. CASE Configure
  BY <1>1, <1>9, ConfigureType DEF Configure, PoolTypeOK
<1>10. CASE Reset
  <2>1. Initial \in Nat \ {0} /\ 0 \in 0..MinSamples
    BY Constants
  <2> QED BY <1>1, <1>10, <2>1 DEF Reset, PoolTypeOK
<1>11. CASE ShutDown
  BY <1>1, <1>11 DEF ShutDown, PoolTypeOK
<1> QED BY <1>0, <1>2, <1>3, <1>4, <1>5, <1>6, <1>7, <1>8, <1>9, <1>10, <1>11 DEF PoolStep

-----------------------------------------------------------------------------
(* The cache. *)

CacheEntry == [key : Key, answer : Answer]

\* A part of the cache's list.
LEMMA PartOf ==
    ASSUME NEW s \in Seq(CacheEntry), NEW m \in Nat \ {0}, NEW n \in Nat, n <= Len(s)
    PROVE  /\ SubSeq(s, m, n) \in Seq(CacheEntry)
           /\ Len(SubSeq(s, m, n)) = IF m <= n THEN n - m + 1 ELSE 0
           /\ \A i \in 1..Len(SubSeq(s, m, n)) : SubSeq(s, m, n)[i] = s[m + i - 1]
<1>1. \A i \in m..n : s[i] \in CacheEntry
  OBVIOUS
<1>2. /\ SubSeq(s, m, n) \in Seq(CacheEntry)
      /\ Len(SubSeq(s, m, n)) = IF m <= n THEN n - m + 1 ELSE 0
      /\ \A i \in 1 .. n - m + 1 : SubSeq(s, m, n)[i] = s[m + i - 1]
  BY <1>1, SubSeqProperties
<1> QED BY <1>2

\* An entry fewer: the others stay in their order.
LEMMA Removed ==
    ASSUME NEW s \in Seq(CacheEntry), NEW p \in 1..Len(s)
    PROVE  /\ RemoveAt(s, p) \in Seq(CacheEntry)
           /\ Len(RemoveAt(s, p)) = Len(s) - 1
           /\ \A i \in 1 .. Len(s) - 1 : RemoveAt(s, p)[i] = s[IF i < p THEN i ELSE i + 1]
<1> DEFINE a == SubSeq(s, 1, p - 1)
           b == SubSeq(s, p + 1, Len(s))
<1>1. Len(s) \in Nat /\ p - 1 \in Nat /\ p + 1 \in Nat \ {0} /\ p - 1 <= Len(s)
  OBVIOUS
<1>2. a \in Seq(CacheEntry) /\ Len(a) = p - 1 /\ \A i \in 1..Len(a) : a[i] = s[i]
  BY <1>1, PartOf
<1>3. b \in Seq(CacheEntry) /\ Len(b) = Len(s) - p /\ \A i \in 1..Len(b) : b[i] = s[p + i]
  <2>1. /\ b \in Seq(CacheEntry) /\ Len(b) = IF p + 1 <= Len(s) THEN Len(s) - (p + 1) + 1 ELSE 0
        /\ \A i \in 1..Len(b) : b[i] = s[(p + 1) + i - 1]
    BY <1>1, PartOf
  <2> HIDE DEF b
  <2>2. Len(b) = Len(s) - p
    BY <1>1, <2>1
  <2>3. \A i \in 1..Len(b) : (p + 1) + i - 1 = p + i
    BY <1>1, <2>2
  <2> QED BY <2>1, <2>2, <2>3
<1>4. RemoveAt(s, p) = a \o b
  BY DEF RemoveAt
<1> HIDE DEF a, b
<1>5. /\ a \o b \in Seq(CacheEntry) /\ Len(a \o b) = Len(a) + Len(b)
      /\ \A i \in 1 .. Len(a) + Len(b) : (a \o b)[i] = IF i <= Len(a) THEN a[i] ELSE b[i - Len(a)]
  BY <1>2, <1>3, ConcatProperties
<1>6. ASSUME NEW i \in 1 .. Len(s) - 1 PROVE (a \o b)[i] = s[IF i < p THEN i ELSE i + 1]
  <2>1. i \in 1 .. Len(a) + Len(b)
    BY <1>1, <1>2, <1>3
  <2>2. CASE i < p
    <3>1. i <= Len(a) /\ i \in 1..Len(a)
      BY <1>1, <1>2, <2>2
    <3> QED BY <1>2, <1>5, <2>1, <2>2, <3>1
  <2>3. CASE ~(i < p)
    <3>1. ~(i <= Len(a)) /\ i - Len(a) \in 1..Len(b) /\ p + (i - Len(a)) = i + 1
      BY <1>1, <1>2, <1>3, <2>3
    <3> QED BY <1>3, <1>5, <2>1, <2>3, <3>1
  <2> QED BY <2>2, <2>3
<1>7. Len(a \o b) = Len(s) - 1
  BY <1>1, <1>2, <1>3, <1>5
<1> QED BY <1>4, <1>5, <1>6, <1>7

\* Taking a key out of the cache leaves the other entries, once each.
LEMMA WithoutType ==
    ASSUME NEW s \in Seq(CacheEntry), Unique(s), NEW k
    PROVE  /\ Without(s, k) \in Seq(CacheEntry) /\ Len(Without(s, k)) <= Len(s)
           /\ Unique(Without(s, k))
           /\ \A i \in 1..Len(Without(s, k)) : Without(s, k)[i].key # k
<1> DEFINE places == {i \in 1..Len(s) : s[i].key = k}
<1>1. CASE places = {}
  BY <1>1 DEF Without
<1>2. CASE places # {}
  <2>1. PICK p \in 1..Len(s) : Without(s, k) = RemoveAt(s, p) /\ s[p].key = k
    <3>1. (CHOOSE i \in places : TRUE) \in places
      BY <1>2
    <3> QED BY <1>2, <3>1 DEF Without
  <2>2. Len(s) \in Nat
    OBVIOUS
  <2> DEFINE t == RemoveAt(s, p)
             At(i) == IF i < p THEN i ELSE i + 1
  <2>3. t \in Seq(CacheEntry) /\ Len(t) = Len(s) - 1 /\ \A i \in 1..Len(t) : t[i] = s[At(i)]
    BY Removed
  <2> HIDE DEF t
  <2>4. \A i \in 1..Len(t) : At(i) \in 1..Len(s) /\ At(i) # p
    BY <2>2, <2>3
  <2>5. \A i, j \in 1..Len(t) : At(i) = At(j) => i = j
    BY <2>2, <2>3
  <2> HIDE DEF At
  <2>6. Unique(t)
    BY <2>3, <2>4, <2>5 DEF Unique
  <2>7. \A i \in 1..Len(t) : t[i].key # k
    BY <2>1, <2>3, <2>4 DEF Unique
  <2>8. Without(s, k) = t
    BY <2>1 DEF t
  <2> QED BY <2>2, <2>3, <2>6, <2>7, <2>8
<1> QED BY <1>1, <1>2

\* After eviction there is room for one more entry.
LEMMA KeptType ==
    ASSUME cache \in Seq(CacheEntry), Len(cache) <= MaxCache, Unique(cache)
    PROVE  Kept \in Seq(CacheEntry) /\ Len(Kept) < MaxCache /\ Unique(Kept)
<1>1. Len(cache) \in Nat /\ MaxCache \in Nat /\ MaxCache >= 1
  BY Constants
<1>2. CASE Len(cache) < MaxCache
  BY <1>2 DEF Kept
<1>3. CASE ~(Len(cache) < MaxCache)
  <2> DEFINE d == Greatest(1, MaxCache \div 4)
             t == SubSeq(cache, d + 1, Len(cache))
  <2>1. d \in Nat \ {0}
    BY <1>1 DEF Greatest
  <2> HIDE DEF d
  <2>2. /\ t \in Seq(CacheEntry) /\ Len(t) = IF d + 1 <= Len(cache) THEN Len(cache) - (d + 1) + 1 ELSE 0
        /\ \A i \in 1..Len(t) : t[i] = cache[(d + 1) + i - 1]
    BY <1>1, <2>1, PartOf
  <2> HIDE DEF t
  <2>3. Len(t) < MaxCache /\ \A i \in 1..Len(t) : (d + 1) + i - 1 = d + i /\ d + i \in 1..Len(cache)
    BY <1>1, <1>3, <2>1, <2>2
  <2>4. ASSUME NEW i \in 1..Len(t), NEW j \in 1..Len(t), t[i].key = t[j].key PROVE i = j
    <3>1. cache[d + i].key = cache[d + j].key /\ d + i \in 1..Len(cache) /\ d + j \in 1..Len(cache)
      BY <2>2, <2>3, <2>4
    <3>2. d + i = d + j
      BY <3>1 DEF Unique
    <3> QED BY <2>1, <3>2
  <2>5. Kept = t
    BY <1>3 DEF Kept, t, d
  <2> QED BY <2>2, <2>3, <2>4, <2>5 DEF Unique
<1> QED BY <1>2, <1>3

CacheOK == cache \in Seq(CacheEntry) /\ Len(cache) <= MaxCache /\ Unique(cache)

\* Storing an answer keeps the cache within its size, each key once.
LEMMA RememberCache ==
    ASSUME CacheOK, NEW k \in Key, NEW value \in Answer, Remember(k, value)
    PROVE  CacheOK'
<1> DEFINE s == Without(Kept, k)
           e == [key |-> k, answer |-> value]
<1>1. /\ s \in Seq(CacheEntry) /\ Len(s) <= Len(Kept) /\ Unique(s)
      /\ \A i \in 1..Len(s) : s[i].key # k
      /\ Len(Kept) \in Nat /\ Len(Kept) < MaxCache
  BY KeptType, WithoutType DEF CacheOK
<1>2. cache' = Append(s, e) /\ e \in CacheEntry
  BY DEF Remember, CacheEntry
<1>3. e.key = k
  OBVIOUS
<1> HIDE DEF s, e
<1>4. Len(s) \in Nat /\ cache' \in Seq(CacheEntry) /\ Len(cache') = Len(s) + 1
      /\ \A i \in 1..Len(cache') : (i \in 1..Len(s) /\ cache'[i] = s[i]) \/ (i = Len(s) + 1 /\ cache'[i] = e)
  BY <1>1, <1>2, AppendProperties
<1>5. Len(cache') <= MaxCache
  BY <1>1, <1>4, Constants
<1>6. Unique(cache')
  BY <1>1, <1>3, <1>4 DEF Unique
<1> QED BY <1>4, <1>5, <1>6 DEF CacheOK, Unique

\* Every step keeps the cache so.
LEMMA CacheStep ==
    ASSUME TypeOK, Where, Waits, CacheOK, [Next]_vars
    PROVE  CacheOK'
<1>1. ASSUME UNCHANGED cache PROVE CacheOK'
  BY <1>1 DEF CacheOK, Unique
<1>2. ASSUME NEW t \in Thread, NEW k \in Calls[t], Call(t, k) PROVE CacheOK'
  <2>1. CASE cache' = Without(cache, k)
    <3>1. /\ Without(cache, k) \in Seq(CacheEntry) /\ Len(Without(cache, k)) <= Len(cache)
          /\ Unique(Without(cache, k))
      BY WithoutType DEF CacheOK
    <3>2. Len(cache) <= MaxCache /\ MaxCache \in Nat /\ Len(cache) \in Nat /\ Len(Without(cache, k)) \in Nat
      BY <3>1, Constants DEF CacheOK
    <3> QED BY <2>1, <3>1, <3>2 DEF CacheOK, Unique
  <2> QED BY <1>1, <1>2, <2>1 DEF Call, Lookup
<1>3. ASSUME NEW t \in Executors, Deliver(t) PROVE CacheOK'
  <2>1. CASE UNCHANGED policy
    BY <1>1, <2>1 DEF policy
  <2>2. CASE ~UNCHANGED policy
    <3>1. pc[t] = "result" /\ job[t] \in 1..Len(jobs) /\ jobs[job[t]] # None
          /\ Remember(jobs[job[t]].key, jobs[job[t]].answer)
      BY <1>3, <2>2 DEF Deliver, Waits, TypeOK
    <3>2. PICK run \in Execution : run = jobs[job[t]]
      BY <3>1 DEF TypeOK
    <3>3. PICK k \in Key, value \in Answer : k = jobs[job[t]].key /\ value = jobs[job[t]].answer
      BY <3>2 DEF Execution
    <3>4. Remember(k, value)
      BY <3>1, <3>3 DEF Remember
    <3> QED BY <3>4, RememberCache
  <2> QED BY <2>1, <2>2
<1>4. ASSUME NEW t \in Loops, RememberRun(t) PROVE CacheOK'
  <2>1. PICK k \in Key, value \in Answer : k = key[t] /\ value = answer[t]
    BY <1>4 DEF RememberRun, Where, TypeOK
  <2>2. Remember(k, value)
    BY <1>4, <2>1 DEF RememberRun, Remember
  <2> QED BY <2>2, RememberCache
<1>5. ASSUME NEW t \in Thread, Gate(t) PROVE CacheOK'
  BY <1>1, <1>5 DEF Gate, policy
<1>6. ASSUME NEW t \in Executors,
             Count(t) \/ MaybeAdjust(t) \/ ReadSemaphore(t) \/ Acquire(t) \/ Retry(t) \/ TimeOut(t)
                 \/ GiveBack(t) \/ AdjustAgain(t)
      PROVE  CacheOK'
  BY <1>1, <1>6 DEF Count, MaybeAdjust, ReadSemaphore, Acquire, Retry, TimeOut, GiveBack, AdjustAgain, policy
<1>7. ASSUME NEW t \in Loops, Run(t) PROVE CacheOK'
  BY <1>1, <1>7 DEF Run, policy
<1>8. CASE (\E k \in Deleting : Approve(k)) \/ StartJob \/ FinishJob \/ Manage \/ UNCHANGED vars
  BY <1>1, <1>8 DEF Approve, StartJob, FinishJob, Manage, vars, policy
<1> QED BY <1>2, <1>3, <1>4, <1>5, <1>6, <1>7, <1>8 DEF Next, Step, LoopStep

-----------------------------------------------------------------------------
(* The approvals, and the rest of the types. *)

\* Approvals are granted by approve() alone, and spent by a success.
LEMMA GrantStep ==
    ASSUME PolicyOK, [Next]_vars
    PROVE  /\ approvals' \subseteq Deleting /\ granted' \in [Deleting -> 0..MaxApprovals]
           /\ \A k \in Deleting : granted[k] > 0 => granted'[k] > 0
           /\ \A k \in approvals' : k \in approvals \/ granted'[k] > 0
<1> DEFINE Goal == /\ approvals' \subseteq Deleting /\ granted' \in [Deleting -> 0..MaxApprovals]
                   /\ \A k \in Deleting : granted[k] > 0 => granted'[k] > 0
                   /\ \A k \in approvals' : k \in approvals \/ granted'[k] > 0
<1>1. ASSUME approvals' \subseteq approvals, UNCHANGED granted PROVE Goal
  BY <1>1 DEF PolicyOK
<1>2. ASSUME NEW k \in Deleting, Approve(k) PROVE Goal
  BY <1>2, Constants DEF Approve, PolicyOK
<1> HIDE DEF Goal
<1>3. ASSUME NEW k, NEW value, Remember(k, value) PROVE Goal
  BY <1>1, <1>3 DEF Remember
<1>4. ASSUME UNCHANGED <<approvals, granted>> PROVE Goal
  BY <1>1, <1>4
<1>5. ASSUME NEW t \in Thread, NEW k \in Calls[t], Call(t, k) PROVE Goal
  BY <1>4, <1>5 DEF Call
<1>6. ASSUME NEW t \in Executors, Step(t) PROVE Goal
  <2>1. CASE Deliver(t)
    BY <1>3, <1>4, <2>1 DEF Deliver, policy
  <2>2. CASE ~Deliver(t)
    BY <1>4, <1>6, <2>2 DEF Step, Gate, Count, MaybeAdjust, ReadSemaphore, Acquire, Retry, TimeOut, GiveBack,
       AdjustAgain, policy
  <2> QED BY <2>1, <2>2
<1>7. ASSUME NEW t \in Loops, LoopStep(t) PROVE Goal
  BY <1>3, <1>4, <1>7 DEF LoopStep, Gate, Run, RememberRun, policy
<1>8. ASSUME StartJob \/ FinishJob \/ Manage \/ UNCHANGED vars PROVE Goal
  <2>1. UNCHANGED policy
    BY <1>8 DEF StartJob, FinishJob, Manage, vars
  <2> QED BY <1>4, <2>1 DEF policy
<1>9. Goal
  BY <1>2, <1>5, <1>6, <1>7, <1>8 DEF Next
<1> QED BY <1>9 DEF Goal

\* What a call writes is an answer.
LEMMA WrittenType ==
    ASSUME NEW k \in Key, NEW c \in Answer PROVE Written(k, c) \in Answer
BY DEF Written, Answer

\* Each thread has a workspace.
LEMMA HomeType == \A t \in Thread : Home[t] \in Workspace
BY DEF Workspace

\* Every step keeps the types of the files, the steps and what is managed.
LEMMA OthersStep ==
    ASSUME TypeOK, Where, [Next]_vars
    PROVE  OthersOK'
<1>0. OthersOK
  BY TypeParts
<1> USE <1>0 DEF OthersOK
<1>1. file' \in [Workspace -> Answer]
  <2>1. ASSUME NEW w \in Workspace, NEW k \in Key, file' = [file EXCEPT ![w] = Written(k, file[w])]
        PROVE  file' \in [Workspace -> Answer]
    <3>1. Written(k, file[w]) \in Answer
      BY WrittenType
    <3> QED BY <2>1, <3>1
  <2>2. ASSUME NEW t \in Loops, Run(t) PROVE file' \in [Workspace -> Answer]
    <3>1. PICK w \in Workspace : w = Home[t]
      BY HomeType
    <3>2. PICK k \in Key : k = key[t]
      BY <2>2 DEF Run, Where
    <3>3. UNCHANGED file \/ file' = [file EXCEPT ![w] = Written(k, file[w])]
      BY <2>2, <3>1, <3>2 DEF Run
    <3> QED BY <2>1, <3>3
  <2>3. CASE FinishJob
    <3>1. PICK j \in In("running") :
              \/ file' = [file EXCEPT ![Home[jobs[j].by]] = Written(jobs[j].key, @)]
              \/ UNCHANGED file
      BY <2>3 DEF FinishJob
    <3>2. jobs[j] \in Execution
      BY <3>1 DEF In, TypeOK
    <3>3. PICK k \in Key : k = jobs[j].key
      BY <3>2 DEF Execution
    <3>4. PICK w \in Workspace : w = Home[jobs[j].by]
      BY <3>2, HomeType DEF Execution
    <3> QED BY <2>1, <3>1, <3>3, <3>4
  <2> QED BY <2>2, <2>3 DEF Next, Step, LoopStep, Call, Gate, Count, MaybeAdjust, ReadSemaphore, Acquire, Retry,
             Deliver, TimeOut, GiveBack, AdjustAgain, RememberRun, Approve, StartJob, Manage, vars
<1>2. steps' \in 0 .. MaxSteps + 1
  <2>1. Least(steps + 1, MaxSteps + 1) \in 0 .. MaxSteps + 1
    BY Constants DEF Least
  <2> QED BY <2>1 DEF Next, Step, LoopStep, Call, Gate, Count, MaybeAdjust, ReadSemaphore, Acquire, Retry,
             Deliver, TimeOut, GiveBack, AdjustAgain, Run, RememberRun, Approve, StartJob, FinishJob, Manage, vars
<1>3. closed' \in BOOLEAN
  <2>1. closed' = closed \/ closed' = TRUE
    BY DEF Next, Step, LoopStep, Call, Gate, Count, MaybeAdjust, ReadSemaphore, Acquire, Retry,
           Deliver, TimeOut, GiveBack, AdjustAgain, Run, RememberRun, Approve, StartJob, FinishJob, Manage,
           vars, workers
  <2> QED BY <2>1
<1>4. managed' \in 0..MaxManaged
  <2>1. managed' = managed \/ (managed < MaxManaged /\ managed' = managed + 1)
    BY DEF Next, Step, LoopStep, Call, Gate, Count, MaybeAdjust, ReadSemaphore, Acquire, Retry,
           Deliver, TimeOut, GiveBack, AdjustAgain, Run, RememberRun, Approve, StartJob, FinishJob, Manage, vars
  <2> QED BY <2>1, Constants
<1> QED BY <1>1, <1>2, <1>3, <1>4

-----------------------------------------------------------------------------
(* The executions, and who waits for them. *)

\* A job that changes its state keeps its key and what its call says.
LEMMA ExecutionUpdate ==
    ASSUME NEW e \in Execution, NEW v \in Answer,
           NEW st \in {"queued", "running", "returned", "retryable", "raised"}
    PROVE  /\ [e EXCEPT !.state = st] \in Execution
           /\ [e EXCEPT !.state = st, !.answer = v] \in Execution
           /\ [e EXCEPT !.state = st].key = e.key
           /\ [e EXCEPT !.state = st].vouched = e.vouched
           /\ [e EXCEPT !.state = st, !.answer = v].key = e.key
           /\ [e EXCEPT !.state = st, !.answer = v].vouched = e.vouched
           /\ [e EXCEPT !.state = st] # None /\ [e EXCEPT !.state = st, !.answer = v] # None
BY Sets DEF Execution

\* How the executions change: not at all, by one more, by one that is dropped
\* with the thread's wait for it, by one that goes on.
Untouched == /\ UNCHANGED <<jobs, job>>
             /\ \A u \in Executors : pc'[u] = "result" => pc[u] = "result"

Drops(t) == /\ job' = [job EXCEPT ![t] = 0]
            /\ jobs' = jobs \/ (t \in Executors /\ jobs' = [jobs EXCEPT ![job[t]] = None] /\ job[t] # 0)
            /\ pc' \in [Thread -> Place] /\ pc'[t] # "result"
            /\ \A u \in Executors \ {t} : pc'[u] = pc[u]

Submits(t, e) == /\ jobs' = Append(jobs, e) /\ job' = [job EXCEPT ![t] = Len(jobs) + 1]
                 /\ \A u \in Executors \ {t} : pc'[u] = pc[u]

GoesOn(j, e) == /\ jobs' = [jobs EXCEPT ![j] = e] /\ UNCHANGED <<job, pc>>
                /\ e = None => \A t \in Executors : job[t] # j

\* Where neither jobs nor waiters change, the waiters still wait for theirs.
LEMMA UntouchedWaits == JobsOK /\ Waits /\ Untouched => JobsOK' /\ Waits'
BY DEF JobsOK, Waits, Untouched

\* A thread that drops its job leaves the jobs of the others alone.
LEMMA DropsWaits ==
    ASSUME JobsOK, Waits, NEW t \in Thread, Drops(t) PROVE JobsOK' /\ Waits'
<1>1. /\ \A u \in Executors \ {t} : job'[u] = job[u] /\ pc'[u] = pc[u]
      /\ job' \in [Thread -> Nat] /\ job'[t] = 0 /\ pc'[t] # "result"
      /\ Len(jobs) \in Nat
  BY DEF JobsOK, Drops
<1>2. /\ jobs' \in Seq(Execution \cup {None}) /\ Len(jobs') = Len(jobs)
      /\ \A j \in 1..Len(jobs) : jobs'[j] = jobs[j] \/ (j = job[t] /\ t \in Executors /\ job[t] # 0)
  <2>1. CASE jobs' = jobs
    BY <2>1 DEF JobsOK
  <2>2. CASE t \in Executors /\ jobs' = [jobs EXCEPT ![job[t]] = None] /\ job[t] # 0
    <3>1. job[t] \in 1..Len(jobs)
      BY <2>2 DEF JobsOK
    <3> QED BY <2>2, <3>1 DEF JobsOK
  <2> QED BY <2>1, <2>2 DEF Drops
<1>3. JobsOK'
  BY <1>1, <1>2 DEF JobsOK
<1>4. ASSUME NEW u \in Executors, pc'[u] = "result" PROVE job'[u] # 0 /\ jobs'[job'[u]] # None
  <2>1. u # t /\ pc[u] = "result" /\ job'[u] = job[u] /\ job[u] \in 1..Len(jobs)
    BY <1>1, <1>4 DEF Waits, JobsOK
  <2>2. jobs'[job[u]] = jobs[job[u]]
    BY <1>2, <2>1 DEF Waits
  <2> QED BY <2>1, <2>2 DEF Waits
<1>5. \A u, v \in Executors : u # v /\ job'[u] # 0 => job'[u] # job'[v]
  BY <1>1 DEF Waits
<1> QED BY <1>3, <1>4, <1>5 DEF Waits

\* A new job is at the end of the list, and its thread waits for it.
LEMMA SubmitsWaits ==
    ASSUME JobsOK, Waits, NEW t \in Executors, NEW e \in Execution, Submits(t, e)
    PROVE  JobsOK' /\ Waits'
<1>1. /\ \A u \in Executors \ {t} : job'[u] = job[u] /\ pc'[u] = pc[u] /\ job[u] \in 0..Len(jobs)
      /\ job' \in [Thread -> Nat] /\ job'[t] = Len(jobs) + 1 /\ Len(jobs) \in Nat
  BY DEF JobsOK, Submits
<1>2. /\ jobs' \in Seq(Execution \cup {None}) /\ Len(jobs') = Len(jobs) + 1
      /\ jobs'[Len(jobs) + 1] = e /\ \A j \in 1..Len(jobs) : jobs'[j] = jobs[j]
  BY DEF JobsOK, Submits
<1>3. JobsOK'
  BY <1>1, <1>2 DEF JobsOK
<1>4. e # None
  BY Sets
<1>5. ASSUME NEW u \in Executors, pc'[u] = "result" PROVE job'[u] # 0 /\ jobs'[job'[u]] # None
  <2>1. CASE u = t
    BY <1>1, <1>2, <1>4, <2>1
  <2>2. CASE u # t
    <3>1. pc[u] = "result" /\ job'[u] = job[u] /\ job[u] \in 1..Len(jobs)
      BY <1>1, <1>5, <2>2 DEF Waits
    <3> QED BY <1>2, <3>1 DEF Waits
  <2> QED BY <2>1, <2>2
<1>6. \A u, v \in Executors : u # v /\ job'[u] # 0 => job'[u] # job'[v]
  BY <1>1 DEF Waits
<1> QED BY <1>3, <1>5, <1>6 DEF Waits

\* A job that runs, ends or is forgotten is still the one its thread waits for.
LEMMA GoesOnWaits ==
    ASSUME JobsOK, Waits, NEW j \in 1..Len(jobs), NEW e \in Execution \cup {None}, GoesOn(j, e)
    PROVE  JobsOK' /\ Waits'
<1>1. jobs' \in Seq(Execution \cup {None}) /\ Len(jobs') = Len(jobs)
      /\ jobs'[j] = e /\ \A i \in 1..Len(jobs) \ {j} : jobs'[i] = jobs[i]
  BY DEF JobsOK, GoesOn
<1>2. JobsOK'
  BY <1>1 DEF JobsOK, GoesOn
<1>3. ASSUME NEW u \in Executors, pc'[u] = "result" PROVE job'[u] # 0 /\ jobs'[job'[u]] # None
  <2>1. pc[u] = "result" /\ job'[u] = job[u] /\ job[u] \in 1..Len(jobs)
    BY <1>3 DEF GoesOn, Waits, JobsOK
  <2>2. CASE job[u] = j
    BY <1>1, <2>1, <2>2 DEF GoesOn
  <2>3. CASE job[u] # j
    BY <1>1, <2>1, <2>3 DEF Waits
  <2> QED BY <2>2, <2>3, <2>1
<1>4. \A u, v \in Executors : u # v /\ job'[u] # 0 => job'[u] # job'[v]
  BY DEF Waits, GoesOn
<1> QED BY <1>2, <1>3, <1>4 DEF Waits

\* Submit adds one job for the thread's key, or none.
LEMMA SubmitCase ==
    ASSUME TypeOK, Where, NEW t \in Executors, Submit(t), pc[t] # "idle"
    PROVE  \/ Untouched
           \/ \E e \in Execution : e.key = key[t] /\ e.vouched = vouched[t] /\ Submits(t, e)
<1>1. pc \in [Thread -> Place] /\ key[t] \in Key /\ vouched[t] \in BOOLEAN
  BY DEF TypeOK, Where
<1>2. CASE closed
  BY <1>1, <1>2 DEF Submit, Stop, Goto, Untouched
<1>3. CASE ~closed
  <2> DEFINE e == [by |-> t, key |-> key[t], vouched |-> vouched[t],
                   answer |-> None, state |-> "queued"]
  <2>1. e \in Execution /\ e.key = key[t] /\ e.vouched = vouched[t]
    BY <1>1, NoneIsAnswer DEF Execution
  <2>2. jobs' = Append(jobs, e) /\ job' = [job EXCEPT ![t] = Len(jobs) + 1]
        /\ \A u \in Executors \ {t} : pc'[u] = pc[u]
    BY <1>1, <1>3 DEF Submit, Goto
  <2> HIDE DEF e
  <2> QED BY <2>1, <2>2 DEF Submits
<1> QED BY <1>2, <1>3

\* A thread that goes back to idle drops its job.
LEMMA LeaveCase ==
    ASSUME TypeOK, NEW t \in Thread, Leave(t), UNCHANGED jobs PROVE Drops(t)
BY DEF TypeOK, Leave, Goto, Drops, Place

\* Deliver and TimeOut.
LEMMA EndCase ==
    ASSUME TypeOK, Waits, NEW t \in Executors, Deliver(t) \/ TimeOut(t) PROVE Drops(t)
<1>1. pc \in [Thread -> Place] /\ pc[t] = "result" /\ job[t] # 0 /\ job' = [job EXCEPT ![t] = 0]
  BY DEF TypeOK, Deliver, TimeOut, Waits
<1>2. Goto(t, "release") \/ Goto(t, "retry")
  <2>1. ASSUME NEW again, Failed(t, again) PROVE Goto(t, "release") \/ Goto(t, "retry")
    BY <2>1 DEF Failed, Stop
  <2> QED BY <2>1 DEF Deliver, TimeOut, Stop
<1>3. jobs' = jobs \/ jobs' = [jobs EXCEPT ![job[t]] = None]
  BY DEF Deliver, TimeOut
<1> QED BY <1>1, <1>2, <1>3 DEF Goto, Drops, Place

\* StartJob and FinishJob move one job on, under the same key.
LEMMA RunCase ==
    ASSUME TypeOK, StartJob \/ FinishJob
    PROVE  \E j \in 1..Len(jobs) : \E e \in Execution \cup {None} :
               /\ GoesOn(j, e)
               /\ jobs[j] \in Execution /\ (e # None => e.key = jobs[j].key /\ e.vouched = jobs[j].vouched)
<1>1. CASE StartJob
  <2>1. PICK j \in In("queued") : jobs' = [jobs EXCEPT ![j].state = "running"]
    BY <1>1 DEF StartJob
  <2>2. j \in 1..Len(jobs) /\ jobs[j] \in Execution
    BY <2>1 DEF In, TypeOK
  <2>3. PICK e \in Execution : /\ e = [jobs[j] EXCEPT !.state = "running"] /\ e # None
                             /\ e.key = jobs[j].key /\ e.vouched = jobs[j].vouched
    <3>1. PICK d \in Execution : d = jobs[j]
      BY <2>2
    <3>2. /\ [d EXCEPT !.state = "running"] \in Execution /\ [d EXCEPT !.state = "running"].key = d.key
          /\ [d EXCEPT !.state = "running"].vouched = d.vouched
          /\ [d EXCEPT !.state = "running"] # None
      BY ExecutionUpdate, NoneIsAnswer
    <3> QED BY <3>1, <3>2
  <2>4. jobs' = [jobs EXCEPT ![j] = e] /\ UNCHANGED <<job, pc>>
    BY <1>1, <2>1, <2>3 DEF StartJob, local
  <2> QED BY <2>2, <2>3, <2>4 DEF GoesOn
<1>2. CASE FinishJob
  <2>1. PICK j \in In("running") :
            \E st \in {"returned", "retryable", "raised"} :
            \E v \in {Returned(jobs[j].key, file[Home[jobs[j].by]]), None} : Ended(j, st, v)
    BY <1>2 DEF FinishJob
  <2>2. j \in 1..Len(jobs) /\ jobs[j] \in Execution
    BY <2>1 DEF In, TypeOK
  <2>3. Returned(jobs[j].key, file[Home[jobs[j].by]]) \in Answer
    <3>1. file[Home[jobs[j].by]] \in Answer
      BY <2>2, HomeType DEF TypeOK, Execution
    <3> QED BY <3>1, NoneIsAnswer DEF Returned
  <2>4. PICK st \in {"returned", "retryable", "raised"}, v \in Answer : Ended(j, st, v)
    BY <2>1, <2>3, NoneIsAnswer
  <2>5. CASE \E t \in Executors : job[t] = j
    <3>1. PICK e \in Execution : /\ e = [jobs[j] EXCEPT !.state = st, !.answer = v]
                                 /\ e.key = jobs[j].key /\ e.vouched = jobs[j].vouched /\ e # None
      <4>1. PICK d \in Execution : d = jobs[j]
        BY <2>2
      <4>2. st \in {"queued", "running", "returned", "retryable", "raised"} /\ v \in Answer
        BY <2>4
      <4>3. /\ [d EXCEPT !.state = st, !.answer = v] \in Execution
            /\ [d EXCEPT !.state = st, !.answer = v].key = d.key
            /\ [d EXCEPT !.state = st, !.answer = v].vouched = d.vouched
            /\ [d EXCEPT !.state = st, !.answer = v] # None
        BY <4>2, ExecutionUpdate, ZenonT(40)
      <4> QED BY <4>1, <4>3
    <3>2. jobs' = [jobs EXCEPT ![j] = e]
      BY <2>4, <2>5, <3>1 DEF Ended
    <3> QED BY <1>2, <2>2, <3>1, <3>2 DEF GoesOn, FinishJob, local
  <2>6. CASE ~\E t \in Executors : job[t] = j
    <3>1. jobs' = [jobs EXCEPT ![j] = None]
      BY <2>4, <2>6 DEF Ended
    <3> QED BY <1>2, <2>2, <2>6, <3>1 DEF GoesOn, FinishJob, local
  <2> QED BY <2>5, <2>6
<1> QED BY <1>1, <1>2

\* Every step keeps each waiter and its job together.
LEMMA JobsStep ==
    ASSUME TypeOK, Where, Waits, [Next]_vars
    PROVE  JobsOK' /\ Waits'
<1> DEFINE Goal == JobsOK' /\ Waits'
<1>0. JobsOK /\ pc \in [Thread -> Place]
  BY TypeParts DEF TypeOK
<1>1. ASSUME Untouched PROVE Goal
  BY <1>0, <1>1, UntouchedWaits
<1>2. ASSUME NEW t \in Thread, Drops(t) PROVE Goal
  BY <1>0, <1>2, DropsWaits
<1> HIDE DEF Goal
<1>3. ASSUME NEW t \in Thread, NEW k \in Calls[t], Call(t, k) PROVE Goal
  <2>1. Untouched
    BY <1>0, <1>3 DEF Call, Lookup, Goto, Untouched, workers
  <2> QED BY <1>1, <2>1
<1>4. ASSUME NEW t \in Thread, Gate(t) PROVE Goal
  <2>1. CASE Leave(t)
    BY <1>2, <1>4, <2>1, LeaveCase DEF Gate, workers
  <2>2. CASE ~Leave(t)
    <3>1. Untouched
      BY <1>0, <1>4, <2>2 DEF Gate, Goto, Untouched, workers
    <3> QED BY <1>1, <3>1
  <2> QED BY <2>1, <2>2
<1>5. ASSUME NEW t \in Executors, Count(t) PROVE Goal
  <2>1. CASE Leave(t)
    BY <1>2, <1>5, <2>1, LeaveCase DEF Count, workers
  <2>2. CASE ~Leave(t)
    <3>1. Untouched
      BY <1>0, <1>5, <2>2 DEF Count, Goto, Untouched, workers
    <3> QED BY <1>1, <3>1
  <2> QED BY <2>1, <2>2
<1>6. ASSUME NEW t \in Executors, MaybeAdjust(t) \/ ReadSemaphore(t) \/ GiveBack(t) PROVE Goal
  <2>1. Untouched
    BY <1>0, <1>6 DEF MaybeAdjust, ReadSemaphore, GiveBack, Goto, Untouched, workers
  <2> QED BY <1>1, <2>1
<1>7. ASSUME NEW t \in Executors, Acquire(t) \/ Retry(t) PROVE Goal
  <2>1. Submit(t) /\ pc[t] # "idle"
    BY <1>7 DEF Acquire, Retry
  <2>2. ASSUME NEW e \in Execution, Submits(t, e) PROVE Goal
    BY <1>0, <2>2, SubmitsWaits DEF Goal
  <2> QED BY <1>1, <2>1, <2>2, SubmitCase
<1>8. ASSUME NEW t \in Executors, Deliver(t) \/ TimeOut(t) PROVE Goal
  BY <1>2, <1>8, EndCase
<1>9. ASSUME NEW t \in Executors, AdjustAgain(t) PROVE Goal
  BY <1>2, <1>9, LeaveCase DEF AdjustAgain, workers
<1>10. ASSUME NEW t \in Loops, Run(t) PROVE Goal
  <2>1. CASE Leave(t)
    BY <1>2, <1>10, <2>1, LeaveCase DEF Run, workers
  <2>2. CASE ~Leave(t)
    <3>1. Untouched
      BY <1>0, <1>10, <2>2 DEF Run, Goto, Untouched, workers
    <3> QED BY <1>1, <3>1
  <2> QED BY <2>1, <2>2
<1>11. ASSUME NEW t \in Loops, RememberRun(t) PROVE Goal
  BY <1>2, <1>11, LeaveCase DEF RememberRun, workers
<1>12. ASSUME (\E k \in Deleting : Approve(k)) \/ Manage \/ UNCHANGED vars PROVE Goal
  <2>1. Untouched
    BY <1>12 DEF Approve, Manage, vars, workers, local, Untouched
  <2> QED BY <1>1, <2>1
<1>13. ASSUME StartJob \/ FinishJob PROVE Goal
  <2>1. PICK j \in 1..Len(jobs), e \in Execution \cup {None} : GoesOn(j, e)
    BY <1>13, RunCase
  <2> QED BY <1>0, <2>1, GoesOnWaits DEF Goal
<1>14. Goal
  BY <1>3, <1>4, <1>5, <1>6, <1>7, <1>8, <1>9, <1>10, <1>11, <1>12, <1>13 DEF Next, Step, LoopStep
<1> QED BY <1>14 DEF Goal

-----------------------------------------------------------------------------
(* Where the threads are, and what they hold of the pool. *)

\* A thread that is at a place has a call, which it keeps until it leaves.
Moves(t) ==
    /\ \A u \in Thread \ {t} : pc'[u] = pc[u] /\ key'[u] = key[u] /\ vouched'[u] = vouched[u]
    /\ \/ pc'[t] = "idle"
       \/ pc[t] = "idle" /\ pc'[t] = "gate" /\ key'[t] \in Key
       \/ pc[t] = "gate" /\ key'[t] = key[t] /\ vouched'[t] = vouched[t] /\ Allowed(t)
              /\ pc'[t] = IF t \in Loops THEN "run" ELSE "count"
       \/ pc[t] \notin {"idle", "gate"} /\ key'[t] = key[t] /\ vouched'[t] = vouched[t] /\ pc'[t] \notin {"idle", "gate"}
              /\ (t \in Loops => pc'[t] = "remember")
              /\ (t \in Executors => pc'[t] \notin {"run", "remember"})

\* A step changes where at most one thread stands.
LEMMA MoveSteps ==
    ASSUME TypeOK, [Next]_vars
    PROVE  UNCHANGED <<pc, key, vouched>> \/ \E t \in Thread : Moves(t)
<1> DEFINE Goal == UNCHANGED <<pc, key, vouched>> \/ \E t \in Thread : Moves(t)
<1>0. pc \in [Thread -> Place] /\ key \in [Thread -> Key \cup {None}] /\ vouched \in [Thread -> BOOLEAN]
  BY DEF TypeOK
<1>1. ASSUME NEW t \in Thread, Moves(t) PROVE Goal
  BY <1>1
<1>2. ASSUME NEW t \in Thread, Leave(t) PROVE Moves(t)
  BY <1>0, <1>2 DEF Leave, Goto, Moves
<1>3. ASSUME NEW t \in Executors, pc[t] \notin {"idle", "gate"}, UNCHANGED <<key, vouched>>,
             NEW place \in Place \ {"idle", "gate", "run", "remember"}, Goto(t, place)
      PROVE  Moves(t)
  BY <1>0, <1>3, Sets DEF Goto, Moves
<1> HIDE DEF Goal
<1>4. ASSUME NEW t \in Thread, NEW k \in Calls[t], Call(t, k) PROVE Goal
  <2>1. k \in Key
    BY Sets
  <2>2. UNCHANGED <<pc, key, vouched>> \/ Moves(t)
    BY <1>0, <1>4, <2>1 DEF Call, Lookup, Goto, Moves
  <2> QED BY <1>1, <2>2 DEF Goal
<1>5. ASSUME NEW t \in Thread, Gate(t) PROVE Goal
  <2>1. CASE Leave(t)
    BY <1>1, <1>2, <2>1
  <2>2. CASE ~Leave(t)
    <3>1. Moves(t)
      BY <1>0, <1>5, <2>2 DEF Gate, Goto, Moves
    <3> QED BY <1>1, <3>1
  <2> QED BY <2>1, <2>2
<1>6. ASSUME NEW t \in Executors, Count(t) PROVE Goal
  <2>1. CASE Leave(t)
    BY <1>1, <1>2, <2>1
  <2>2. CASE ~Leave(t)
    <3>1. Goto(t, "adjust") /\ UNCHANGED <<key, vouched>> /\ pc[t] = "count"
      BY <1>6, <2>2 DEF Count
    <3> QED BY <1>1, <1>3, <3>1 DEF Place
  <2> QED BY <2>1, <2>2
<1>7. ASSUME NEW t \in Executors, MaybeAdjust(t) \/ ReadSemaphore(t) \/ GiveBack(t) PROVE Goal
  <2>1. /\ Goto(t, "choose") \/ Goto(t, "wait") \/ Goto(t, "tail")
        /\ UNCHANGED <<key, vouched>> /\ pc[t] \notin {"idle", "gate"}
    BY <1>7 DEF MaybeAdjust, ReadSemaphore, GiveBack
  <2> QED BY <1>1, <1>3, <2>1 DEF Place
<1>8. ASSUME NEW t \in Executors, Acquire(t) \/ Retry(t) \/ Deliver(t) \/ TimeOut(t) PROVE Goal
  <2>1. UNCHANGED <<key, vouched>> /\ pc[t] \notin {"idle", "gate"}
    BY <1>8 DEF Acquire, Retry, Deliver, TimeOut
  <2>2. ASSUME Submit(t) PROVE Goto(t, "release") \/ Goto(t, "result")
    BY <2>2 DEF Submit, Stop
  <2>3. ASSUME NEW again, Failed(t, again) PROVE Goto(t, "release") \/ Goto(t, "retry")
    BY <2>3 DEF Failed, Stop
  <2>4. Goto(t, "release") \/ Goto(t, "result") \/ Goto(t, "retry")
    BY <1>8, <2>2, <2>3 DEF Acquire, Retry, Deliver, TimeOut, Stop
  <2> QED BY <1>1, <1>3, <2>1, <2>4 DEF Place
<1>9. ASSUME NEW t \in Executors, AdjustAgain(t) PROVE Goal
  BY <1>1, <1>2, <1>9 DEF AdjustAgain
<1>10. ASSUME NEW t \in Loops, Run(t) PROVE Goal
  <2>1. CASE Leave(t)
    BY <1>1, <1>2, <2>1
  <2>2. CASE ~Leave(t)
    <3>1. t \notin Executors
      BY Sets
    <3>2. Moves(t)
      BY <1>0, <1>10, <2>2, <3>1 DEF Run, Goto, Moves
    <3> QED BY <1>1, <3>2
  <2> QED BY <2>1, <2>2
<1>11. ASSUME NEW t \in Loops, RememberRun(t) PROVE Goal
  BY <1>1, <1>2, <1>11 DEF RememberRun
<1>12. ASSUME (\E k \in Deleting : Approve(k)) \/ StartJob \/ FinishJob \/ Manage \/ UNCHANGED vars PROVE Goal
  BY <1>12 DEF Approve, StartJob, FinishJob, Manage, vars, local, Goal
<1>13. Goal
  BY <1>4, <1>5, <1>6, <1>7, <1>8, <1>9, <1>10, <1>11, <1>12 DEF Next, Step, LoopStep
<1> QED BY <1>13 DEF Goal

\* Every step keeps what a thread's place says of its variables.
LEMMA WhereStep ==
    ASSUME TypeOK, Where, [Next]_vars
    PROVE  Where'
<1>1. CASE UNCHANGED <<pc, key, vouched>>
  BY <1>1 DEF Where
<1>2. ASSUME NEW t \in Thread, Moves(t) PROVE Where'
  <2>1. \A u \in Thread \ {t} : pc'[u] = pc[u] /\ key'[u] = key[u] /\ vouched'[u] = vouched[u]
    BY <1>2 DEF Moves
  <2>2. pc'[t] # "idle" => key'[t] \in Key
    BY <1>2 DEF Moves, Where
  <2>3. t \in Loops => pc'[t] \in {"idle", "gate", "run", "remember"}
    BY <1>2 DEF Moves, Where
  <2>4. t \in Executors => pc'[t] \notin {"run", "remember"}
    BY <1>2, Sets DEF Moves, Where
  <2> QED BY <2>1, <2>2, <2>3, <2>4 DEF Where
<1> QED BY <1>1, <1>2, MoveSteps

\* The executions of this step were there before, or belong to the call of a
\* thread that has passed the gate.
LEMMA JobKeys ==
    ASSUME TypeOK, Where, Waits, [Next]_vars
    PROVE  \A j \in 1..Len(jobs') : jobs'[j] # None =>
               \/ /\ j \in 1..Len(jobs) /\ jobs[j] # None
                  /\ jobs'[j].key = jobs[j].key /\ jobs'[j].vouched = jobs[j].vouched
               \/ \E t \in Executors : /\ pc[t] \notin {"idle", "gate"}
                                         /\ jobs'[j].key = key[t] /\ jobs'[j].vouched = vouched[t]
<1> DEFINE Goal == \A j \in 1..Len(jobs') : jobs'[j] # None =>
               \/ /\ j \in 1..Len(jobs) /\ jobs[j] # None
                  /\ jobs'[j].key = jobs[j].key /\ jobs'[j].vouched = jobs[j].vouched
               \/ \E t \in Executors : /\ pc[t] \notin {"idle", "gate"}
                                         /\ jobs'[j].key = key[t] /\ jobs'[j].vouched = vouched[t]
<1>0. jobs \in Seq(Execution \cup {None}) /\ Len(jobs) \in Nat
  BY DEF TypeOK
<1>1. ASSUME UNCHANGED jobs PROVE Goal
  BY <1>1
<1>2. ASSUME NEW t \in Executors, Deliver(t) \/ TimeOut(t) PROVE Goal
  <2>1. jobs' = jobs \/ (jobs' = [jobs EXCEPT ![job[t]] = None])
    BY <1>2 DEF Deliver, TimeOut
  <2>2. jobs' = [jobs EXCEPT ![job[t]] = None] => Goal
    BY <1>0
  <2> QED BY <1>1, <2>1, <2>2
<1>3. ASSUME StartJob \/ FinishJob PROVE Goal
  <2>1. PICK j \in 1..Len(jobs), e \in Execution \cup {None} :
            GoesOn(j, e) /\ jobs[j] \in Execution /\ (e # None => e.key = jobs[j].key /\ e.vouched = jobs[j].vouched)
    BY <1>3, RunCase
  <2>2. jobs' = [jobs EXCEPT ![j] = e] /\ jobs[j] # None
    BY <2>1, Sets DEF GoesOn
  <2>3. /\ Len(jobs') = Len(jobs) /\ jobs'[j] = e
        /\ \A i \in 1..Len(jobs) \ {j} : jobs'[i] = jobs[i]
    BY <1>0, <2>2
  <2> QED BY <1>0, <2>1, <2>2, <2>3
<1>4. ASSUME NEW t \in Executors, Acquire(t) \/ Retry(t) PROVE Goal
  <2>1. Submit(t) /\ pc[t] \notin {"idle", "gate"}
    BY <1>4 DEF Acquire, Retry
  <2>2. ASSUME NEW e \in Execution, e.key = key[t], e.vouched = vouched[t], Submits(t, e) PROVE Goal
    <3>1. /\ Len(jobs') = Len(jobs) + 1 /\ jobs'[Len(jobs) + 1] = e
          /\ \A i \in 1..Len(jobs) : jobs'[i] = jobs[i]
      BY <1>0, <2>2 DEF Submits
    <3> QED BY <1>0, <2>1, <2>2, <3>1
  <2> QED BY <1>1, <2>1, <2>2, SubmitCase DEF Untouched
<1> HIDE DEF Goal
<1>5. ASSUME UNCHANGED jobs \/ UNCHANGED workers PROVE Goal
  BY <1>1, <1>5 DEF workers
<1>6. Goal
  <2>1. ASSUME NEW t \in Thread, NEW k, Call(t, k) PROVE Goal
    BY <1>5, <2>1 DEF Call
  <2>2. ASSUME NEW t \in Executors, Step(t) PROVE Goal
    <3>1. CASE Gate(t) \/ Count(t) \/ MaybeAdjust(t) \/ ReadSemaphore(t) \/ GiveBack(t) \/ AdjustAgain(t)
      BY <1>5, <3>1 DEF Gate, Count, MaybeAdjust, ReadSemaphore, GiveBack, AdjustAgain
    <3> QED BY <1>2, <1>4, <2>2, <3>1 DEF Step
  <2>3. ASSUME NEW t \in Loops, LoopStep(t) PROVE Goal
    BY <1>5, <2>3 DEF LoopStep, Gate, Run, RememberRun
  <2>4. ASSUME (\E k \in Deleting : Approve(k)) \/ Manage \/ UNCHANGED vars PROVE Goal
    BY <1>5, <2>4 DEF Approve, Manage, vars
  <2> QED BY <1>3, <2>1, <2>2, <2>3, <2>4 DEF Next
<1> QED BY <1>6 DEF Goal

\* Whatever is under way for a destructive call has a permission, after every step.
LEMMA ApprovedStep ==
    ASSUME TypeOK, Where, Waits, Approved, [Next]_vars
    PROVE  Approved'
<1>1. PolicyOK
  BY TypeParts
<1>2. /\ approvals' \subseteq Deleting
      /\ \A k \in Deleting : granted[k] > 0 => granted'[k] > 0
      /\ \A k \in approvals' : k \in approvals \/ granted'[k] > 0
  BY <1>1, GrantStep
<1>3. \A k \in approvals' : granted'[k] > 0
  BY <1>1, <1>2 DEF Approved, PolicyOK
<1>4. ASSUME NEW k, NEW said, Permitted(k, said) PROVE Permitted(k, said)'
  BY <1>2, <1>4 DEF Permitted
<1>5. ASSUME NEW u \in Thread, pc'[u] \notin {"idle", "gate"}
      PROVE  Permitted(key[u], vouched[u])'
  <2>1. CASE pc'[u] = pc[u] /\ key'[u] = key[u] /\ vouched'[u] = vouched[u]
    BY <1>4, <1>5, <2>1 DEF Approved, Permitted
  <2>2. CASE Moves(u)
    <3>1. Permitted(key[u], vouched[u])
      BY <1>5, <2>2 DEF Approved, Moves, Allowed, Permitted
    <3>2. key'[u] = key[u] /\ vouched'[u] = vouched[u]
      BY <1>5, <2>2 DEF Moves
    <3> QED BY <1>2, <3>1, <3>2 DEF Permitted
  <2> QED BY <2>1, <2>2, MoveSteps DEF Moves
<1>6. ASSUME NEW j \in 1..Len(jobs'), jobs'[j] # None
      PROVE  Permitted(jobs[j].key, jobs[j].vouched)'
  <2>1. CASE /\ j \in 1..Len(jobs) /\ jobs[j] # None
             /\ jobs'[j].key = jobs[j].key /\ jobs'[j].vouched = jobs[j].vouched
    BY <1>2, <2>1 DEF Approved, Permitted
  <2>2. CASE \E t \in Executors : /\ pc[t] \notin {"idle", "gate"}
                                  /\ jobs'[j].key = key[t] /\ jobs'[j].vouched = vouched[t]
    BY <1>2, <2>2 DEF Approved, Permitted
  <2> QED BY <1>6, <2>1, <2>2, JobKeys
<1> QED BY <1>3, <1>5, <1>6 DEF Approved

\* What Served says of one thread.
ServedAt(t) ==
    /\ pc[t] = "wait" => sem[t] # 0
    /\ pc[t] \in {"adjust", "tail"} => bound[t] # 0
    /\ t \in holding => pc[t] \in {"retry", "result", "release"}

\* A step of a thread that leaves the others' part in the pool alone.
Alone(t) ==
    \A u \in Executors \ {t} :
        pc'[u] = pc[u] /\ sem'[u] = sem[u] /\ bound'[u] = bound[u] /\ (u \in holding' => u \in holding)

\* Every step keeps what a thread's place says of its part in the pool.
LEMMA ServedStep ==
    ASSUME TypeOK, Served, [Next]_vars
    PROVE  Served'
<1>0. /\ pc \in [Thread -> Place] /\ PoolTypeOK /\ User = Executors
      /\ current # 0 /\ high # 0
  <2>1. PoolTypeOK /\ pc \in [Thread -> Place]
    BY DEF TypeOK
  <2>2. high \in Nat \ {0} /\ current # 0
    BY <2>1, HighType DEF PoolTypeOK, Semaphore
  <2> QED BY <2>1, <2>2, Sets
<1>1. ASSUME NEW t \in Thread, Alone(t), t \in Executors => ServedAt(t)' PROVE Served'
  BY <1>1 DEF Served, ServedAt, Alone
<1>2. ASSUME NEW t \in Thread, Leave(t), UNCHANGED <<sem, holding>>,
             \A u \in Executors \ {t} : bound'[u] = bound[u],
             t \notin holding
      PROVE  Served'
  <2>1. pc' = [pc EXCEPT ![t] = "idle"]
    BY <1>2 DEF Leave, Goto
  <2>2. Alone(t) /\ (t \in Executors => ServedAt(t)')
    BY <1>0, <1>2, <2>1 DEF Alone, ServedAt
  <2> QED BY <1>1, <2>2
<1>3. ASSUME NEW t \in Executors, pc[t] \in {"retry", "result", "release"}, UNCHANGED <<sem, holding, bound>>,
             Goto(t, "retry") \/ Goto(t, "result") \/ Goto(t, "release")
      PROVE  Served'
  <2>1. Alone(t) /\ ServedAt(t)'
    BY <1>0, <1>3 DEF Alone, ServedAt, Goto
  <2> QED BY <1>1, <2>1
<1>4. ASSUME NEW t \in Executors, pc[t] \notin {"retry", "result", "release"} PROVE t \notin holding
  BY <1>4 DEF Served
<1>5. ASSUME NEW t \in Loops PROVE t \notin holding
  BY <1>0, <1>5, Sets DEF PoolTypeOK
<1>6. ASSUME NEW t \in Thread, NEW k \in Calls[t], Call(t, k) PROVE Served'
  <2>1. pc' = pc \/ (pc[t] = "idle" /\ pc' = [pc EXCEPT ![t] = "gate"])
    BY <1>6 DEF Call, Lookup, Goto
  <2>2. UNCHANGED <<sem, holding, bound>>
    BY <1>6 DEF Call, pool
  <2>3. CASE pc' = pc
    BY <2>2, <2>3 DEF Served
  <2>4. CASE pc[t] = "idle" /\ pc' = [pc EXCEPT ![t] = "gate"]
    <3>1. Alone(t) /\ (t \in Executors => ServedAt(t)')
      BY <1>0, <1>4, <2>2, <2>4 DEF Alone, ServedAt
    <3> QED BY <1>1, <3>1
  <2> QED BY <2>1, <2>3, <2>4
<1>7. ASSUME NEW t \in Thread, Gate(t) PROVE Served'
  <2>1. UNCHANGED <<sem, holding, bound>> /\ t \notin holding
    BY <1>4, <1>5, <1>7 DEF Gate, pool
  <2>2. CASE Leave(t)
    BY <1>2, <2>1, <2>2
  <2>3. CASE Goto(t, IF t \in Loops THEN "run" ELSE "count")
    <3>1. Alone(t) /\ (t \in Executors => ServedAt(t)')
      BY <1>0, <2>1, <2>3 DEF Alone, ServedAt, Goto
    <3> QED BY <1>1, <3>1
  <2> QED BY <1>7, <2>2, <2>3 DEF Gate
<1>8. ASSUME NEW t \in Executors, Count(t) PROVE Served'
  <2>1. UNCHANGED <<sem, holding>> /\ t \notin holding
    BY <1>4, <1>8 DEF Count
  <2>2. CASE Leave(t) /\ UNCHANGED bound
    BY <1>2, <2>1, <2>2
  <2>3. CASE Goto(t, "adjust") /\ Look(t)
    <3>1. Alone(t) /\ ServedAt(t)'
      BY <1>0, <2>1, <2>3 DEF Alone, ServedAt, Goto, Look, PoolTypeOK
    <3> QED BY <1>1, <3>1
  <2> QED BY <1>8, <2>2, <2>3 DEF Count
<1>9. ASSUME NEW t \in Executors, MaybeAdjust(t) PROVE Served'
  <2>1. Goto(t, "choose") /\ UNCHANGED <<sem, holding>> /\ bound' = [bound EXCEPT ![t] = 0] /\ t \notin holding
    BY <1>4, <1>9 DEF MaybeAdjust, Adjust
  <2>2. Alone(t) /\ ServedAt(t)'
    BY <1>0, <2>1 DEF Alone, ServedAt, Goto, PoolTypeOK
  <2> QED BY <1>1, <2>2
<1>10. ASSUME NEW t \in Executors, ReadSemaphore(t) PROVE Served'
  <2>1. Goto(t, "wait") /\ UNCHANGED <<bound, holding>> /\ sem' = [sem EXCEPT ![t] = current] /\ t \notin holding
    BY <1>4, <1>10 DEF ReadSemaphore, Choose
  <2>2. Alone(t) /\ ServedAt(t)'
    BY <1>0, <2>1 DEF Alone, ServedAt, Goto, PoolTypeOK
  <2> QED BY <1>1, <2>2
<1>11. ASSUME NEW t \in Executors, Submit(t) PROVE Goto(t, "result") \/ Goto(t, "release")
  BY <1>11 DEF Submit, Stop
<1>12. ASSUME NEW t \in Executors, Acquire(t) PROVE Served'
  <2>1. UNCHANGED <<sem, bound>> /\ holding' = holding \cup {t}
    BY <1>12 DEF Acquire, Obtain
  <2>2. Goto(t, "result") \/ Goto(t, "release")
    BY <1>11, <1>12 DEF Acquire
  <2>3. Alone(t) /\ ServedAt(t)'
    BY <1>0, <2>1, <2>2 DEF Alone, ServedAt, Goto
  <2> QED BY <1>1, <2>3
<1>13. ASSUME NEW t \in Executors, NEW again, Failed(t, again) PROVE Goto(t, "retry") \/ Goto(t, "release")
  BY <1>13 DEF Failed, Stop
<1>14. ASSUME NEW t \in Executors, Retry(t) \/ Deliver(t) \/ TimeOut(t) PROVE Served'
  <2>1. pc[t] \in {"retry", "result", "release"} /\ UNCHANGED <<sem, holding, bound>>
    BY <1>14 DEF Retry, Deliver, TimeOut, pool
  <2>2. Goto(t, "retry") \/ Goto(t, "result") \/ Goto(t, "release")
    BY <1>11, <1>13, <1>14 DEF Retry, Deliver, TimeOut, Stop
  <2> QED BY <1>3, <2>1, <2>2
<1>15. ASSUME NEW t \in Executors, GiveBack(t) PROVE Served'
  <2>1. /\ Goto(t, "tail") /\ bound' = [bound EXCEPT ![t] = high]
        /\ sem' = [sem EXCEPT ![t] = 0] /\ holding' = holding \ {t}
    BY <1>15 DEF GiveBack, Release, Look
  <2>2. Alone(t) /\ ServedAt(t)'
    BY <1>0, <2>1 DEF Alone, ServedAt, Goto, PoolTypeOK
  <2> QED BY <1>1, <2>2
<1>16. ASSUME NEW t \in Executors, AdjustAgain(t) PROVE Served'
  <2>1. Leave(t) /\ UNCHANGED <<sem, holding>> /\ bound' = [bound EXCEPT ![t] = 0] /\ t \notin holding
    BY <1>4, <1>16 DEF AdjustAgain, Adjust
  <2>2. \A u \in Executors \ {t} : bound'[u] = bound[u]
    BY <1>0, <2>1 DEF PoolTypeOK
  <2> QED BY <1>2, <2>1, <2>2
<1>17. ASSUME NEW t \in Loops, Run(t) \/ RememberRun(t) PROVE Served'
  <2>1. UNCHANGED <<sem, holding, bound>> /\ t \notin holding
    BY <1>5, <1>17 DEF Run, RememberRun, pool
  <2>2. CASE Leave(t)
    BY <1>2, <2>1, <2>2
  <2>3. CASE Goto(t, "remember")
    <3>1. Alone(t) /\ (t \in Executors => ServedAt(t)')
      BY <1>0, <2>1, <2>3, Sets DEF Alone, ServedAt, Goto
    <3> QED BY <1>1, <3>1
  <2> QED BY <1>17, <2>2, <2>3 DEF Run, RememberRun
<1>18. ASSUME (\E k \in Deleting : Approve(k)) \/ StartJob \/ FinishJob \/ Manage \/ UNCHANGED vars PROVE Served'
  <2>1. UNCHANGED <<pc, sem, holding, bound>>
    BY <1>18 DEF Approve, StartJob, FinishJob, Manage, Configure, Reset, ShutDown, vars, local, pool
  <2> QED BY <2>1 DEF Served
<1> QED BY <1>6, <1>7, <1>8, <1>9, <1>10, <1>12, <1>14, <1>15, <1>16, <1>17, <1>18 DEF Next, Step, LoopStep

-----------------------------------------------------------------------------
(* The permits of the semaphore in use. *)

Held == HeldOf(current)

\* Finitely many executors hold a permit of the current semaphore.
LEMMA HeldFinite ==
    ASSUME PoolTypeOK PROVE IsFiniteSet(Held) /\ Cardinality(Held) \in Nat
<1>1. Held \subseteq Executors
  BY Sets DEF Held, HeldOf, PoolTypeOK
<1> QED BY <1>1, Sets, FS_Subset, FS_CardinalityType

\* Permits and holders before and after a step, as numbers.
LEMMA Balance ==
    ASSUME NEW n \in Nat, NEW p \in Nat, NEW q \in Nat, NEW h \in Nat, NEW g \in Nat,
           p + h >= n, \/ q = p /\ g = h
                       \/ q = p - 1 /\ g = h + 1
                       \/ q = p + 1 /\ (g = h \/ g = h - 1)
    PROVE  q + g >= n
OBVIOUS

\* Free permits and held ones are still no fewer than the limit after a step.
LEMMA CurrentServesStep ==
    ASSUME PoolTypeOK, PoolTypeOK', Served, CurrentServes, PoolStep
    PROVE  CurrentServes'
<1>0. /\ concurrency \in Nat /\ permits[current] \in Nat /\ Cardinality(Held) \in Nat
      /\ concurrency' \in Nat /\ permits'[current'] \in Nat /\ Cardinality(Held') \in Nat
      /\ permits[current] + Cardinality(Held) >= concurrency
      /\ IsFiniteSet(Held)
  <2>1. IsFiniteSet(Held) /\ Cardinality(Held) \in Nat
    BY HeldFinite
  <2>2. Cardinality(Held)' \in Nat
    <3>1. Held' \subseteq Executors
      BY Sets DEF Held, HeldOf, PoolTypeOK
    <3> QED BY <3>1, Sets, FS_Subset, FS_CardinalityType
  <2> QED BY <2>1, <2>2 DEF PoolTypeOK, CurrentServes, Held
<1>1. ASSUME UNCHANGED concurrency,
             \/ permits'[current'] = permits[current] /\ Cardinality(Held') = Cardinality(Held)
             \/ permits'[current'] = permits[current] - 1 /\ Cardinality(Held') = Cardinality(Held) + 1
             \/ permits'[current'] = permits[current] + 1
                   /\ (Cardinality(Held') = Cardinality(Held) \/ Cardinality(Held') = Cardinality(Held) - 1)
      PROVE  CurrentServes'
  <2>1. permits'[current'] + Cardinality(Held') >= concurrency'
    BY <1>0, <1>1, Balance
  <2> QED BY <2>1 DEF CurrentServes, Held
<1>2. ASSUME UNCHANGED <<concurrency, current, permits, sem, holding>> PROVE CurrentServes'
  BY <1>2 DEF CurrentServes, HeldOf
<1>3. ASSUME NEW n \in Nat \ {0}, Renew(n) PROVE CurrentServes'
  <2>1. permits'[current'] = n /\ concurrency' = n
    BY <1>3, RenewType
  <2>2. permits'[current'] + Cardinality(Held') >= concurrency'
    BY <1>0, <2>1
  <2> QED BY <2>2 DEF CurrentServes, Held
<1>4. ASSUME NEW t \in Executors, pc[t] = "choose", Choose(t) PROVE CurrentServes'
  <2>1. t \notin holding /\ UNCHANGED <<concurrency, current, permits, holding>>
        /\ sem' = [sem EXCEPT ![t] = current]
    BY <1>4 DEF Served, Choose
  <2>2. Held' = Held
    BY <2>1, Sets DEF Held, HeldOf, PoolTypeOK
  <2> QED BY <1>1, <2>1, <2>2
<1>5. ASSUME NEW t \in Executors, pc[t] = "wait", Obtain(t) PROVE CurrentServes'
  <2>1. /\ t \notin holding /\ UNCHANGED <<concurrency, current, sem>>
        /\ permits' = [permits EXCEPT ![sem[t]] = @ - 1] /\ holding' = holding \cup {t}
        /\ permits \in [Semaphore -> Nat] /\ current \in Semaphore
    BY <1>5 DEF Served, Obtain, PoolTypeOK
  <2>2. CASE sem[t] = current
    <3>1. permits'[current'] = permits[current] - 1
      BY <2>1, <2>2
    <3>2. Held' = Held \cup {t} /\ t \notin Held
      BY <2>1, <2>2, Sets DEF Held, HeldOf
    <3>3. Cardinality(Held') = Cardinality(Held) + 1
      BY <1>0, <3>2, FS_AddElement
    <3> QED BY <1>1, <2>1, <3>1, <3>3
  <2>3. CASE sem[t] # current
    <3>1. permits'[current'] = permits[current]
      BY <2>1, <2>3
    <3>2. Held' = Held
      BY <2>1, <2>3 DEF Held, HeldOf
    <3> QED BY <1>1, <2>1, <3>1, <3>2
  <2> QED BY <2>2, <2>3
<1>6. ASSUME NEW t \in Executors, pc[t] = "release", Release(t), Look(t) PROVE CurrentServes'
  <2>1. /\ UNCHANGED <<concurrency, current>> /\ holding' = holding \ {t}
        /\ permits' = [permits EXCEPT ![current] = @ + 1] /\ sem' = [sem EXCEPT ![t] = 0]
        /\ permits \in [Semaphore -> Nat] /\ current \in Semaphore
    BY <1>6 DEF Release, PoolTypeOK
  <2>2. permits'[current'] = permits[current] + 1
    BY <2>1
  <2>3. Held' = Held \ {t}
    BY <2>1, Sets DEF Held, HeldOf, PoolTypeOK
  <2>4. Cardinality(Held') = Cardinality(Held) \/ Cardinality(Held') = Cardinality(Held) - 1
    BY <1>0, <2>3, FS_RemoveElement
  <2> QED BY <1>1, <2>1, <2>2, <2>4
<1>7. ASSUME NEW t \in Executors, pc[t] \in {"adjust", "tail"}, Adjust(t) PROVE CurrentServes'
  <2>1. UNCHANGED <<sem, holding>>
    BY <1>7 DEF Adjust
  <2> QED BY <1>2, <1>3, <1>7, <2>1, AdjustType DEF Served
<1>8. ASSUME Configure PROVE CurrentServes'
  <2>1. UNCHANGED <<sem, holding>>
    BY <1>8 DEF Configure
  <2> QED BY <1>2, <1>3, <1>8, <2>1, ConfigureType
<1>9. ASSUME Reset PROVE CurrentServes'
  <2>1. Initial \in Nat \ {0}
    BY Constants
  <2> QED BY <1>3, <1>9, <2>1 DEF Reset
<1>10. ASSUME UNCHANGED pool \/ ShutDown PROVE CurrentServes'
  BY <1>2, <1>10 DEF pool, ShutDown
<1> QED BY <1>2, <1>4, <1>5, <1>6, <1>7, <1>8, <1>9, <1>10 DEF PoolStep

-----------------------------------------------------------------------------
(* The theorems. *)

\* The inductive invariant holds at first.
LEMMA Initially == Init => IInv
<1> SUFFICES ASSUME Init PROVE IInv
  OBVIOUS
<1>1. PoolTypeOK
  <2>1. permits \in [Semaphore -> Nat]
    BY Constants DEF Init, PoolInit
  <2>2. concurrency \in Nat \ {0} /\ current \in Semaphore /\ current \in Nat /\ high \in High
        /\ samples \in 0..MinSamples
    BY Constants DEF Init, PoolInit, Semaphore, High
  <2>3. shut \in BOOLEAN
    BY Zenon DEF Init, PoolInit
  <2>4. sem \in [User -> 0..current] /\ bound \in [User -> High \cup {0}] /\ holding = {}
    BY <2>2 DEF Init, PoolInit
  <2> QED BY <2>1, <2>2, <2>3, <2>4 DEF PoolTypeOK
<1>2. LocalOK
  <2>1. vouched \in [Thread -> BOOLEAN]
    BY Zenon DEF Init
  <2> QED BY <2>1, Constants, NoneIsAnswer DEF Init, LocalOK, Place
<1>3. PolicyOK /\ CacheOK
  BY Constants DEF Init, PolicyOK, CacheOK, Unique, CacheEntry
<1>4. JobsOK /\ OthersOK
  <2>1. file \in [Workspace -> Answer]
    BY DEF Init, Answer
  <2>2. jobs = <<>> /\ job \in [Thread -> Nat] /\ \A t \in Executors : job[t] = 0
    BY DEF Init
  <2>3. steps \in 0 .. MaxSteps + 1 /\ managed \in 0..MaxManaged
    BY Constants DEF Init
  <2>4. closed \in BOOLEAN
    BY Zenon DEF Init
  <2> QED BY <2>1, <2>2, <2>3, <2>4 DEF JobsOK, OthersOK
<1>5. Where /\ Waits /\ Approved
  <2>1. /\ jobs = <<>> /\ approvals = {} /\ pc = [t \in Thread |-> "idle"]
        /\ job = [t \in Thread |-> 0]
    BY DEF Init
  <2> QED BY <2>1 DEF Where, Waits, Approved
<1>6. Served
  BY Sets DEF Init, PoolInit, Served
<1>7. CurrentServes
  <2>1. Held = {} /\ permits[current] = concurrency /\ concurrency \in Nat
    BY Constants DEF Init, PoolInit, Held, HeldOf, Semaphore
  <2>2. Cardinality(Held) = 0
    BY <2>1, FS_EmptySet
  <2> QED BY <2>1, <2>2 DEF CurrentServes, Held
<1> QED BY <1>1, <1>2, <1>3, <1>4, <1>5, <1>6, <1>7, TypeParts DEF IInv, CacheOK

\* Every step keeps it.
LEMMA Inductive == IInv /\ [Next]_vars => IInv'
<1> SUFFICES ASSUME IInv, [Next]_vars PROVE IInv'
  OBVIOUS
<1>1. PoolTypeOK /\ LocalOK /\ PolicyOK /\ JobsOK /\ OthersOK /\ CacheOK
  BY TypeParts DEF IInv, CacheOK, PolicyOK, CacheEntry
<1>2. PoolTypeOK'
  BY <1>1, PoolTypeStep DEF IInv
<1>3. LocalOK'
  BY <1>1, LocalStep DEF IInv
<1>4. CacheOK'
  BY <1>1, CacheStep DEF IInv
<1>5. PolicyOK'
  BY <1>1, <1>4, GrantStep DEF PolicyOK, CacheOK, CacheEntry
<1>6. JobsOK' /\ Waits'
  BY JobsStep DEF IInv
<1>7. OthersOK'
  BY OthersStep DEF IInv
<1>8. Where' /\ Served' /\ Approved'
  BY WhereStep, ServedStep, ApprovedStep DEF IInv
<1>9. CurrentServes'
  BY <1>1, <1>2, PoolSteps, CurrentServesStep DEF IInv
<1>10. TypeOK'
  BY <1>2, <1>3, <1>5, <1>6, <1>7 DEF TypeOK, LocalOK, PolicyOK, JobsOK, OthersOK
<1> QED BY <1>4, <1>6, <1>8, <1>9, <1>10 DEF IInv, CacheOK

\* So it holds in every reachable state.
LEMMA Always == Spec => []IInv
BY Initially, Inductive, PTL DEF Spec

\* Every reachable state has its type; a wait for a result is for an
\* execution there is, a wait for a permit for a semaphore there is.
THEOREM TypeCorrect == Spec => []TypeOK
<1>1. IInv => TypeOK
  BY DEF IInv
<1> QED BY <1>1, Always, PTL

\* The permits of the semaphore in use, free or held, are never fewer than
\* the concurrency, whoever holds permits of the semaphores before it
\* (AutoscaledPool.acquire, release, maybe_adjust, update_config, reset).
THEOREM PoolServes == Spec => []CurrentServes
<1>1. IInv => CurrentServes
  BY DEF IInv
<1> QED BY <1>1, Always, PTL

\* No destructive tool is about to run, runs or is run again without a
\* permission of its own call: its arguments, the setting that approves every
\* call, or approve() (ToolPolicy.evaluate before every way to a tool).
THEOREM ApprovedOnly == Spec => []Gated
<1>1. IInv => Gated
  BY DEF IInv, Approved, Gated
<1> QED BY <1>1, Always, PTL

\* The cache has at most one answer for a call, and never more entries than
\* its limit (ToolPolicy.evaluate and remember_success).
THEOREM CacheIsSound == Spec => []CacheSound
<1>1. IInv => CacheSound
  <2> SUFFICES ASSUME IInv, NEW k \in Key PROVE Cardinality(Entries(k)) <= 1
    BY DEF IInv, CacheSound
  <2>1. CASE Entries(k) = {}
    BY <2>1, FS_EmptySet
  <2>2. CASE Entries(k) # {}
    <3>1. PICK i \in 1..Len(cache) : cache[i].key = k
      BY <2>2 DEF Entries
    <3>2. Entries(k) = {i}
      BY <3>1 DEF Entries, IInv, Unique
    <3>3. Cardinality({i}) = 1
      BY FS_Singleton
    <3> QED BY <3>2, <3>3
  <2> QED BY <2>1, <2>2
<1> QED BY <1>1, Always, PTL

-----------------------------------------------------------------------------
(* The step limit.  An execution uses up an attempt that its call was        *)
(* granted when it was counted as a step, so that executions, attempts still *)
(* owed to the calls under way and steps left never exceed what there is.    *)

Trying == {"adjust", "choose", "wait", "retry", "result"}

\* The attempts a thread at a place with n tries still has.
Owing(place, n) ==
    {i \in 1..MaxTries : \/ place \in Trying \ {"result"} /\ n <= i
                         \/ place = "result" /\ n < i}

Unused == {a \in Executors \X (1..MaxTries) : a[2] \in Owing(pc[a[1]], tries[a[1]])}

LeftAfter(n) == IF n < MaxSteps THEN MaxSteps - n ELSE 0
StepsLeft == LeftAfter(steps)

\* A thread that is to try, or waits for the result, has begun to count.
Counted == \A t \in Executors : pc[t] \in Trying => tries[t] >= 1

Budget == Counted /\ Len(jobs) + Cardinality(Unused) + StepsLeft * MaxTries <= MaxSteps * MaxTries

\* What a step may do to the executions, the steps and the attempts.
Alike(t) == \A u \in Executors \ {t} : pc'[u] = pc[u] /\ tries'[u] = tries[u]

Proceeds(t) ==
    /\ Alike(t)
    /\ t \in Executors =>
         \/ pc'[t] \notin Trying
         \/ pc[t] \in Trying \ {"result"} /\ pc'[t] \in Trying \ {"result"} /\ tries'[t] = tries[t]
         \/ pc[t] = "result" /\ pc'[t] = "retry" /\ tries'[t] = tries[t] + 1

GoesOnTrying ==
    /\ Len(jobs') = Len(jobs) /\ steps' >= steps
    /\ UNCHANGED <<pc, tries>> \/ \E t \in Thread : Proceeds(t)

UsesUp(t) ==
    /\ Len(jobs') = Len(jobs) + 1 /\ steps' = steps /\ Alike(t)
    /\ pc[t] \in {"wait", "retry"} /\ pc'[t] = "result" /\ tries'[t] = tries[t]

IsGranted(t) ==
    /\ Len(jobs') = Len(jobs) /\ steps < MaxSteps /\ steps' = steps + 1 /\ Alike(t)
    /\ pc'[t] = "adjust" /\ tries'[t] = 1

\* Dropping a job does not change the length of the list.
LEMMA DropsLength ==
    ASSUME JobsOK, NEW t \in Thread, Drops(t) PROVE Len(jobs') = Len(jobs)
<1>1. CASE jobs' = jobs
  BY <1>1
<1>2. CASE t \in Executors /\ jobs' = [jobs EXCEPT ![job[t]] = None] /\ job[t] # 0
  BY <1>2 DEF JobsOK
<1> QED BY <1>1, <1>2 DEF Drops

\* A thread that leaves gives up the tries it had left.
LEMMA LeaveProceeds ==
    ASSUME TypeOK, NEW t \in Thread, Leave(t) PROVE Proceeds(t)
BY DEF TypeOK, Leave, Goto, Proceeds, Alike, Trying

\* A failed attempt leaves no more tries than there were.
LEMMA FailedProceeds ==
    ASSUME TypeOK, NEW t \in Executors, pc[t] = "result", NEW again, Failed(t, again)
    PROVE  Proceeds(t)
BY DEF TypeOK, Failed, Stop, Goto, Proceeds, Alike, Trying

\* A submission uses up a try of its thread, unless it is refused.
LEMMA SubmitSpends ==
    ASSUME TypeOK, Where, NEW t \in Executors, pc[t] \in {"wait", "retry"}, Submit(t), steps' = steps
    PROVE  GoesOnTrying \/ UsesUp(t)
<1>1. /\ pc \in [Thread -> Place] /\ tries \in [Thread -> 0..MaxTries]
      /\ jobs \in Seq(Execution \cup {None}) /\ steps \in Nat
  BY Constants DEF TypeOK
<1>2. CASE closed
  <2>1. /\ pc' = [pc EXCEPT ![t] = "release"] /\ tries' = [tries EXCEPT ![t] = 0] /\ jobs' = jobs
    BY <1>2 DEF Submit, Stop, Goto
  <2>2. Proceeds(t)
    BY <1>1, <2>1 DEF Proceeds, Alike, Trying
  <2> QED BY <1>1, <2>1, <2>2 DEF GoesOnTrying
<1>3. CASE ~closed
  <2> DEFINE e == [by |-> t, key |-> key[t], vouched |-> vouched[t],
                   answer |-> None, state |-> "queued"]
  <2>1. jobs' = Append(jobs, e) /\ pc' = [pc EXCEPT ![t] = "result"] /\ tries' = tries
    BY <1>3 DEF Submit, Goto
  <2>2. e \in Execution \cup {None}
    <3>1. key[t] \in Key /\ vouched[t] \in BOOLEAN
      BY DEF Where, TypeOK
    <3> QED BY <3>1, NoneIsAnswer DEF Execution
  <2> HIDE DEF e
  <2>3. Len(jobs') = Len(jobs) + 1
    BY <1>1, <2>1, <2>2
  <2> QED BY <1>1, <2>1, <2>3 DEF UsesUp, Alike
<1> QED BY <1>2, <1>3

\* A step begins no execution, or one for a try, or grants tries for a step.
LEMMA Spending ==
    ASSUME IInv, [Next]_vars
    PROVE  GoesOnTrying \/ \E t \in Executors : UsesUp(t) \/ IsGranted(t)
<1> DEFINE Goal == GoesOnTrying \/ \E t \in Executors : UsesUp(t) \/ IsGranted(t)
<1>0. /\ TypeOK /\ Where /\ Waits /\ JobsOK
      /\ pc \in [Thread -> Place] /\ tries \in [Thread -> 0..MaxTries]
      /\ steps \in Nat /\ steps <= MaxSteps + 1
  <2>1. TypeOK /\ Where /\ Waits
    BY DEF IInv
  <2>2. JobsOK /\ LocalOK /\ OthersOK
    BY <2>1, TypeParts
  <2> QED BY <2>1, <2>2, Constants DEF LocalOK, OthersOK
<1>1. ASSUME NEW t \in Thread, Proceeds(t), Len(jobs') = Len(jobs), steps' = steps PROVE Goal
  BY <1>0, <1>1 DEF GoesOnTrying
<1>2. ASSUME UNCHANGED <<pc, tries, steps>>, Len(jobs') = Len(jobs) PROVE Goal
  BY <1>0, <1>2 DEF GoesOnTrying
<1>3. ASSUME NEW t \in Thread, NEW place \in Place \ {"adjust", "choose", "wait", "retry", "result"},
             Goto(t, place), UNCHANGED tries
      PROVE  Proceeds(t)
  BY <1>0, <1>3 DEF Goto, Proceeds, Alike, Trying
<1> HIDE DEF Goal
<1>4. ASSUME NEW t \in Thread, NEW k \in Calls[t], Call(t, k) PROVE Goal
  <2>1. UNCHANGED <<tries, steps, jobs>> /\ (pc' = pc \/ Goto(t, "gate"))
    BY <1>4 DEF Call, Lookup, workers
  <2> QED BY <1>1, <1>2, <1>3, <2>1 DEF Place
<1>5. ASSUME NEW t \in Thread, Gate(t) PROVE Goal
  <2>1. UNCHANGED <<steps, jobs>>
    BY <1>5 DEF Gate, workers
  <2>2. CASE Leave(t)
    BY <1>0, <1>1, <2>1, <2>2, LeaveProceeds
  <2>3. CASE ~Leave(t)
    <3>1. UNCHANGED tries /\ (Goto(t, "run") \/ Goto(t, "count"))
      BY <1>5, <2>3 DEF Gate
    <3> QED BY <1>1, <1>3, <2>1, <3>1 DEF Place
  <2> QED BY <2>2, <2>3
<1>6. ASSUME NEW t \in Executors, Count(t) PROVE Goal
  <2>1. jobs' = jobs /\ steps' = Least(steps + 1, MaxSteps + 1)
    BY <1>6 DEF Count, workers
  <2>2. steps' >= steps /\ (steps < MaxSteps => steps' = steps + 1)
    BY <1>0, <2>1, Constants DEF Least
  <2>3. CASE Leave(t)
    BY <1>0, <2>1, <2>2, <2>3, LeaveProceeds DEF Goal, GoesOnTrying
  <2>4. CASE ~Leave(t)
    <3>1. steps < MaxSteps /\ pc' = [pc EXCEPT ![t] = "adjust"] /\ tries' = [tries EXCEPT ![t] = 1]
      BY <1>6, <2>4 DEF Count, Goto
    <3>2. IsGranted(t)
      BY <1>0, <2>1, <2>2, <3>1 DEF IsGranted, Alike
    <3> QED BY <3>2 DEF Goal
  <2> QED BY <2>3, <2>4
<1>7. ASSUME NEW t \in Executors, MaybeAdjust(t) \/ ReadSemaphore(t) PROVE Goal
  <2>1. UNCHANGED <<tries, steps, jobs>> /\ pc[t] \in {"adjust", "choose"}
        /\ (pc' = [pc EXCEPT ![t] = "choose"] \/ pc' = [pc EXCEPT ![t] = "wait"])
    BY <1>7 DEF MaybeAdjust, ReadSemaphore, Goto, workers
  <2>2. Proceeds(t)
    BY <1>0, <2>1 DEF Proceeds, Alike, Trying
  <2> QED BY <1>1, <2>1, <2>2
<1>8. ASSUME NEW t \in Executors, Acquire(t) \/ Retry(t) PROVE Goal
  <2>1. Submit(t) /\ pc[t] \in {"wait", "retry"} /\ steps' = steps
    BY <1>8 DEF Acquire, Retry
  <2> QED BY <1>0, <2>1, SubmitSpends DEF Goal
<1>9. ASSUME NEW t \in Executors, Deliver(t) \/ TimeOut(t) PROVE Goal
  <2>1. Len(jobs') = Len(jobs)
    BY <1>0, <1>9, EndCase, DropsLength
  <2>2. pc[t] = "result" /\ steps' = steps
    BY <1>9 DEF Deliver, TimeOut
  <2>3. Proceeds(t)
    <3>1. CASE Stop(t)
      BY <1>0, <2>2, <3>1 DEF Stop, Goto, Proceeds, Alike, Trying
    <3>2. CASE \E again : Failed(t, again)
      BY <1>0, <2>2, <3>2, FailedProceeds
    <3> QED BY <1>9, <3>1, <3>2 DEF Deliver, TimeOut
  <2> QED BY <1>1, <2>1, <2>2, <2>3
<1>10. ASSUME NEW t \in Executors, GiveBack(t) PROVE Goal
  <2>1. UNCHANGED <<tries, steps, jobs>> /\ Goto(t, "tail")
    BY <1>10 DEF GiveBack, workers
  <2> QED BY <1>1, <1>3, <2>1 DEF Place
<1>11. ASSUME NEW t \in Executors, AdjustAgain(t) PROVE Goal
  BY <1>0, <1>1, <1>11, LeaveProceeds DEF AdjustAgain, workers
<1>12. ASSUME NEW t \in Loops, Run(t) \/ RememberRun(t) PROVE Goal
  <2>1. UNCHANGED <<steps, jobs>>
    BY <1>12 DEF Run, RememberRun, workers
  <2>2. CASE Leave(t)
    BY <1>0, <1>1, <2>1, <2>2, LeaveProceeds
  <2>3. CASE ~Leave(t)
    <3>1. UNCHANGED tries /\ Goto(t, "remember")
      BY <1>12, <2>3 DEF Run, RememberRun
    <3> QED BY <1>1, <1>3, <2>1, <3>1 DEF Place
  <2> QED BY <2>2, <2>3
<1>13. ASSUME (\E k \in Deleting : Approve(k)) \/ Manage \/ UNCHANGED vars PROVE Goal
  <2>1. UNCHANGED <<pc, tries, steps, jobs>>
    BY <1>13 DEF Approve, Manage, vars, workers, local
  <2> QED BY <1>2, <2>1
<1>14. ASSUME StartJob \/ FinishJob PROVE Goal
  <2>1. UNCHANGED <<pc, tries, steps>>
    BY <1>14 DEF StartJob, FinishJob, local
  <2>2. PICK j \in 1..Len(jobs), e \in Execution \cup {None} : GoesOn(j, e)
    BY <1>0, <1>14, RunCase
  <2>3. Len(jobs') = Len(jobs)
    BY <1>0, <2>2 DEF GoesOn, JobsOK
  <2> QED BY <1>2, <2>1, <2>3
<1>15. Goal
  BY <1>4, <1>5, <1>6, <1>7, <1>8, <1>9, <1>10, <1>11, <1>12, <1>13, <1>14 DEF Next, Step, LoopStep
<1> QED BY <1>15 DEF Goal

-----------------------------------------------------------------------------
(* The attempts, counted. *)

\* There are finitely many tries left.
LEMMA UnusedFinite ==
    /\ IsFiniteSet(Unused) /\ Cardinality(Unused) \in Nat
    /\ IsFiniteSet(Unused') /\ Cardinality(Unused') \in Nat
<1> DEFINE All == Executors \X (1..MaxTries)
<1>1. IsFiniteSet(1..MaxTries) /\ IsFiniteSet(Executors)
  BY Constants, Sets, FS_Interval
<1>2. IsFiniteSet(All)
  BY <1>1, FS_Product
<1>3. Unused \subseteq All /\ Unused' \subseteq All
  BY DEF Unused
<1> QED BY <1>2, <1>3, FS_Subset, FS_CardinalityType

\* A thread that goes on without a new grant has no more tries left.
LEMMA ProceedsUnused ==
    ASSUME IInv, NEW t \in Thread, Proceeds(t) PROVE Unused' \subseteq Unused
<1>1. tries[t] \in Nat /\ MaxTries \in Nat
  BY Constants DEF IInv, TypeOK
<1>2. \A u \in Executors \ {t} : pc'[u] = pc[u] /\ tries'[u] = tries[u]
  BY DEF Proceeds, Alike
<1>3. ASSUME t \in Executors PROVE Owing(pc'[t], tries'[t]) \subseteq Owing(pc[t], tries[t])
  <2>1. CASE pc'[t] \notin Trying
    BY <2>1 DEF Owing, Trying
  <2>2. CASE pc[t] \in Trying \ {"result"} /\ pc'[t] \in Trying \ {"result"} /\ tries'[t] = tries[t]
    BY <2>2 DEF Owing, Trying
  <2>3. CASE pc[t] = "result" /\ pc'[t] = "retry" /\ tries'[t] = tries[t] + 1
    <3>1. \A i \in 1..MaxTries : tries[t] + 1 <= i => tries[t] < i
      BY <1>1
    <3> QED BY <2>3, <3>1 DEF Owing, Trying
  <2> QED BY <1>3, <2>1, <2>2, <2>3 DEF Proceeds
<1> QED BY <1>2, <1>3 DEF Unused

\* A try that is used up is one less.
LEMMA UsesUpUnused ==
    ASSUME IInv, Counted, NEW t \in Executors, UsesUp(t)
    PROVE  Unused' = Unused \ {<<t, tries[t]>>} /\ <<t, tries[t]>> \in Unused
<1>1. tries[t] \in 1..MaxTries
  BY Constants DEF IInv, TypeOK, Counted, UsesUp, Trying
<1>2. \A u \in Executors \ {t} : pc'[u] = pc[u] /\ tries'[u] = tries[u]
  BY DEF UsesUp, Alike
<1>3. Owing(pc[t], tries[t]) = {i \in 1..MaxTries : tries[t] <= i}
  BY DEF UsesUp, Owing, Trying
<1>4. Owing(pc'[t], tries'[t]) = {i \in 1..MaxTries : tries[t] < i}
  BY DEF UsesUp, Owing, Trying
<1>5. <<t, tries[t]>> \in Unused
  BY <1>1, <1>3 DEF Unused
<1>6. ASSUME NEW u \in Executors, NEW i \in 1..MaxTries
      PROVE  <<u, i>> \in Unused' <=> <<u, i>> \in Unused /\ <<u, i>> # <<t, tries[t]>>
  <2>1. CASE u # t
    BY <1>2, <2>1 DEF Unused
  <2>2. CASE u = t
    <3>1. <<u, i>> \in Unused' <=> tries[t] < i
      BY <1>4, <2>2 DEF Unused
    <3>2. <<u, i>> \in Unused <=> tries[t] <= i
      BY <1>3, <2>2 DEF Unused
    <3> QED BY <1>1, <2>2, <3>1, <3>2
  <2> QED BY <2>1, <2>2
<1>7. /\ \A a \in Unused' : \E u \in Executors, i \in 1..MaxTries : a = <<u, i>>
      /\ \A a \in Unused : \E u \in Executors, i \in 1..MaxTries : a = <<u, i>>
  BY DEF Unused
<1> QED BY <1>5, <1>6, <1>7

\* A granted step adds at most MaxTries tries.
LEMMA GrantedUnused ==
    ASSUME NEW t \in Executors, IsGranted(t)
    PROVE  Cardinality(Unused') <= Cardinality(Unused) + MaxTries
<1> DEFINE Own == {t} \X (1..MaxTries)
<1>1. IsFiniteSet(1..MaxTries) /\ Cardinality(1..MaxTries) = MaxTries
  BY Constants, FS_Interval
<1>2. IsFiniteSet({t}) /\ Cardinality({t}) = 1
  BY FS_Singleton
<1>3. IsFiniteSet(Own) /\ Cardinality(Own) = MaxTries
  BY <1>1, <1>2, FS_Product, Constants
<1>4. Unused' \subseteq Unused \cup Own
  BY DEF Unused, IsGranted, Alike
<1> HIDE DEF Own
<1>5. IsFiniteSet(Unused \cup Own)
      /\ Cardinality(Unused \cup Own) = Cardinality(Unused) + Cardinality(Own) - Cardinality(Unused \cap Own)
  BY <1>3, UnusedFinite, FS_Union
<1>6. Cardinality(Unused') <= Cardinality(Unused \cup Own)
  BY <1>4, <1>5, FS_Subset
<1>7. Cardinality(Unused \cap Own) \in Nat
  BY <1>3, FS_Intersection, FS_CardinalityType
<1> QED BY <1>3, <1>5, <1>6, <1>7, UnusedFinite, FS_CardinalityType, Constants

\* Multiplication by a constant is monotone and distributes.
LEMMA Products ==
    ASSUME NEW m \in Nat
    PROVE  \A a, b \in Nat : /\ a * m \in Nat
                             /\ a <= b => a * m <= b * m
                             /\ (a + 1) * m = a * m + m
OBVIOUS

\* The steps left decrease by one with each step.
LEMMA LeftAfterFacts ==
    \A n \in Nat : /\ LeftAfter(n) \in Nat
                   /\ \A m \in Nat : m >= n => LeftAfter(m) <= LeftAfter(n)
                   /\ n < MaxSteps => LeftAfter(n) = LeftAfter(n + 1) + 1
BY Constants DEF LeftAfter

\* Executions, attempts and attempts of the steps left, before and after a step.
LEMMA Accounts ==
    ASSUME NEW n \in Nat, NEW j \in Nat, NEW a \in Nat, NEW s \in Nat,
           NEW j2 \in Nat, NEW a2 \in Nat, NEW s2 \in Nat, NEW m \in Nat,
           j + a + s <= n,
           \/ j2 = j /\ a2 <= a /\ s2 <= s
           \/ j2 = j + 1 /\ a2 = a - 1 /\ s2 = s
           \/ j2 = j /\ a2 <= a + m /\ s = s2 + m
    PROVE  j2 + a2 + s2 <= n
OBVIOUS

\* Every step keeps executions within the budget of steps and tries.
LEMMA BudgetStep == IInv /\ IInv' /\ Budget /\ [Next]_vars => Budget'
<1> SUFFICES ASSUME IInv, IInv', Budget, [Next]_vars PROVE Budget'
  OBVIOUS
<1>1. /\ steps \in Nat /\ steps' \in Nat /\ Len(jobs) \in Nat /\ Len(jobs') \in Nat
      /\ MaxSteps \in Nat /\ MaxTries \in Nat
      /\ Cardinality(Unused) \in Nat /\ Cardinality(Unused') \in Nat
  <2>1. jobs \in Seq(Execution \cup {None}) /\ jobs' \in Seq(Execution \cup {None})
    BY DEF IInv, TypeOK
  <2>2. Len(jobs) \in Nat /\ Len(jobs') \in Nat
    BY <2>1
  <2>3. steps \in Nat /\ steps' \in Nat
    BY Constants DEF IInv, TypeOK
  <2> QED BY <2>2, <2>3, Constants, UnusedFinite
<1>2. StepsLeft \in Nat /\ StepsLeft' \in Nat
  BY <1>1, LeftAfterFacts DEF StepsLeft
<1>3. /\ StepsLeft * MaxTries \in Nat /\ StepsLeft' * MaxTries \in Nat /\ MaxSteps * MaxTries \in Nat
      /\ StepsLeft' <= StepsLeft => StepsLeft' * MaxTries <= StepsLeft * MaxTries
      /\ StepsLeft = StepsLeft' + 1 => StepsLeft * MaxTries = StepsLeft' * MaxTries + MaxTries
  BY <1>1, <1>2, Products
<1>4. Len(jobs) + Cardinality(Unused) + StepsLeft * MaxTries <= MaxSteps * MaxTries
  BY DEF Budget
<1>5. ASSUME NEW t \in Thread, Proceeds(t) PROVE Counted'
  <2>1. \A u \in Executors \ {t} : pc'[u] = pc[u] /\ tries'[u] = tries[u]
    BY <1>5 DEF Proceeds, Alike
  <2>2. tries[t] \in Nat
    BY Constants DEF IInv, TypeOK
  <2>3. t \in Executors /\ pc'[t] \in Trying => tries'[t] >= 1
    BY <1>5, <2>2 DEF Proceeds, Counted, Budget, Trying
  <2> QED BY <2>1, <2>3 DEF Counted, Budget
<1>6. CASE GoesOnTrying
  <2>1. Len(jobs') = Len(jobs) /\ StepsLeft' <= StepsLeft
    BY <1>1, <1>6, LeftAfterFacts DEF GoesOnTrying, StepsLeft
  <2>2. Unused' \subseteq Unused /\ Counted'
    <3>1. CASE UNCHANGED <<pc, tries>>
      BY <3>1 DEF Unused, Counted, Budget
    <3>2. CASE \E t \in Thread : Proceeds(t)
      BY <1>5, <3>2, ProceedsUnused
    <3> QED BY <1>6, <3>1, <3>2 DEF GoesOnTrying
  <2>3. Cardinality(Unused') <= Cardinality(Unused)
    BY <2>2, UnusedFinite, FS_Subset
  <2>4. Len(jobs') + Cardinality(Unused') + StepsLeft' * MaxTries <= MaxSteps * MaxTries
    BY <1>1, <1>3, <1>4, <2>1, <2>3, Accounts
  <2> QED BY <2>2, <2>4 DEF Budget
<1>7. ASSUME NEW t \in Executors, UsesUp(t) PROVE Budget'
  <2>1. Len(jobs') = Len(jobs) + 1 /\ StepsLeft' = StepsLeft
    BY <1>7 DEF UsesUp, StepsLeft
  <2>2. Unused' = Unused \ {<<t, tries[t]>>} /\ <<t, tries[t]>> \in Unused
    BY <1>7, UsesUpUnused DEF Budget
  <2>3. Cardinality(Unused') = Cardinality(Unused) - 1
    BY <2>2, UnusedFinite, FS_RemoveElement
  <2>4. Counted'
    BY <1>7 DEF UsesUp, Alike, Counted, Budget, Trying
  <2>5. Len(jobs') + Cardinality(Unused') + StepsLeft' * MaxTries <= MaxSteps * MaxTries
    BY <1>1, <1>3, <1>4, <2>1, <2>3, Accounts
  <2> QED BY <2>4, <2>5 DEF Budget
<1>8. ASSUME NEW t \in Executors, IsGranted(t) PROVE Budget'
  <2>1. Len(jobs') = Len(jobs) /\ StepsLeft = StepsLeft' + 1
    BY <1>1, <1>8, LeftAfterFacts DEF IsGranted, StepsLeft
  <2>2. Cardinality(Unused') <= Cardinality(Unused) + MaxTries
    BY <1>8, GrantedUnused
  <2>3. Counted'
    BY <1>8 DEF IsGranted, Alike, Counted, Budget, Trying
  <2>4. Len(jobs') + Cardinality(Unused') + StepsLeft' * MaxTries <= MaxSteps * MaxTries
    BY <1>1, <1>3, <1>4, <2>1, <2>2, Accounts
  <2> QED BY <2>3, <2>4 DEF Budget
<1> QED BY <1>6, <1>7, <1>8, Spending

\* They are within it at first.
LEMMA BudgetInit == Init => Budget
<1> SUFFICES ASSUME Init PROVE Budget
  OBVIOUS
<1>1. Counted /\ Unused = {} /\ jobs = <<>> /\ steps = 0
  BY DEF Init, Counted, Unused, Owing, Trying
<1>2. StepsLeft = MaxSteps /\ MaxSteps * MaxTries \in Nat
  BY <1>1, Constants, Products DEF StepsLeft, LeftAfter
<1>3. Cardinality(Unused) = 0 /\ Len(jobs) = 0
  BY <1>1, FS_EmptySet
<1> QED BY <1>1, <1>2, <1>3 DEF Budget

\* Over all the threads that share an executor there are never more executions
\* than the step limit and the retry policy allow together (_step_counter,
\* max_total_steps and max_attempts of ToolExecutor.execute): an execution
\* that timed out and is tried again counts, one that is still running too.
THEOREM StepsLimited == Spec => []StepLimit
<1>1. Init => IInv /\ Budget
  BY Initially, BudgetInit
<1>2. (IInv /\ Budget) /\ [Next]_vars => (IInv /\ Budget)'
  BY Inductive, BudgetStep
<1>3. IInv /\ Budget => StepLimit
  <2> SUFFICES ASSUME IInv, Budget PROVE StepLimit
    OBVIOUS
  <2>1. jobs \in Seq(Execution \cup {None}) /\ steps \in Nat
    BY Constants DEF IInv, TypeOK
  <2>2. Len(jobs) \in Nat /\ StepsLeft \in Nat /\ Cardinality(Unused) \in Nat
    <3>1. Len(jobs) \in Nat
      BY <2>1
    <3>2. StepsLeft \in Nat
      BY <2>1, LeftAfterFacts DEF StepsLeft
    <3> QED BY <3>1, <3>2, UnusedFinite
  <2>3. StepsLeft * MaxTries \in Nat /\ MaxSteps * MaxTries \in Nat
    BY <2>2, Constants, Products
  <2>4. Len(jobs) + Cardinality(Unused) + StepsLeft * MaxTries <= MaxSteps * MaxTries
    BY DEF Budget
  <2> QED BY <2>2, <2>3, <2>4 DEF StepLimit
<1> QED BY <1>1, <1>2, <1>3, PTL DEF Spec
=============================================================================
