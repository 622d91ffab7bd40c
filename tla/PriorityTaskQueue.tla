-------------------------- MODULE PriorityTaskQueue --------------------------
(***************************************************************************)
(* core/scheduler/priority_queue.py: the task queue shared by the worker   *)
(* threads of a process, and mirrored in Redis for the other processes.    *)
(*                                                                         *)
(* A process keeps a heap of pending tasks, a LIFO stack of tasks that     *)
(* jump the queue, a dictionary of running tasks, and the fingerprints of  *)
(* the tasks it refuses to accept twice.  Every public method holds one    *)
(* threading.Condition from its first line to its last, so a method is one *)
(* action; a blocked get() gives the lock up and its return is an action   *)
(* of its own.  Each Redis command is best effort: an exception is         *)
(* swallowed, so where RedisMayFail holds any command may have no effect.  *)
(* A pipeline of redis-py is one MULTI/EXEC, hence ZSET and HASH agree.    *)
(*                                                                         *)
(* The workers follow the usage the class documents (lines 113-123):       *)
(* get, mark_active, execute, mark_done.  A crash loses a process's memory *)
(* and its workers, and leaves Redis alone.                                *)
(***************************************************************************)
EXTENDS Integers, Sequences, FiniteSets, Functions, SequencesExt

CONSTANTS
    Proc,          \* processes that share one Redis
    Worker,        \* consumer threads
    Home,          \* Home[w]: the process thread w belongs to
    Task,          \* task ids (uuid4: never used for two items)
    Priority,      \* Priority[t]: a larger value leaves the heap first
    Jumps,         \* the tasks created with forefront=True
    Fingerprint,   \* Fingerprint[t], or None when the field is ""
    DontFilter,    \* the tasks created with dont_filter=True
    MaxRetries,    \* max_retries, the same for all tasks
    StaleTimeout,  \* stale_timeout of the queues
    None,          \* no fingerprint, no entry
    RedisMayFail,  \* may a Redis command fail?
    MaxTime,       \* bound of the clock
    MaxCrashes,    \* bound of the crashes
    MaxAdmin       \* bound of the calls of clear() and reset()

Entry == [task : Task, retry : 0..MaxRetries]

\* A running item also has its started_at; a queued one has started_at = 0.
Running == [retry : 0..MaxRetries, started : 1..MaxTime]

ASSUME QueueAssumption ==
    /\ Home \in [Worker -> Proc]
    /\ IsFiniteSet(Worker) /\ IsFiniteSet(Task)
    /\ Priority \in [Task -> Int]
    /\ Jumps \subseteq Task
    /\ DontFilter \subseteq Task
    /\ MaxRetries \in Nat
    /\ StaleTimeout \in Nat
    /\ RedisMayFail \in BOOLEAN
    /\ MaxTime \in Nat \ {0} /\ MaxCrashes \in Nat /\ MaxAdmin \in Nat
    /\ None \notin Entry /\ None \notin Running

VARIABLES
    heap,          \* heap[p][e]: copies of entry e in _heap
    forefront,     \* forefront[p]: _forefront, popped at its right end
    active,        \* active[p][t]: _active, or None
    fingerprints,  \* fingerprints[p]: _fingerprints
    shutdown,      \* shutdown[p]: _shutdown
    redisQueue,    \* ids in the ZSET and HASH of redis_key
    redisActive,   \* the ZSET and HASH of active_key, or None
    wpc,           \* where a worker is
    hand,          \* the entry a worker has dequeued, or None
    now,           \* the clock
    fate,          \* history: what became of a task
    crashes, admin \* how many crashes, how many calls of clear and reset

memory == <<heap, forefront, active, fingerprints, shutdown>>
redis  == <<redisQueue, redisActive>>
worker == <<wpc, hand>>
vars   == <<memory, redis, worker, now, fate, crashes, admin>>

-----------------------------------------------------------------------------
(* State. *)

Fates == {"new", "accepted", "done", "dropped", "cleared", "lost"}

EmptyHeap   == [e \in Entry |-> 0]
EmptyActive == [t \in Task |-> None]

TypeOK ==
    /\ heap \in [Proc -> [Entry -> Nat]]
    /\ forefront \in [Proc -> Seq(Entry)]
    /\ active \in [Proc -> [Task -> Running \cup {None}]]
    /\ fingerprints \in [Proc -> SUBSET {Fingerprint[t] : t \in Task}]
    /\ shutdown \in [Proc -> BOOLEAN]
    /\ redisQueue \subseteq Task
    /\ redisActive \in [Task -> Running \cup {None}]
    /\ wpc \in [Worker -> {"idle", "sleeping", "notified", "holding", "running"}]
    /\ hand \in [Worker -> Entry \cup {None}]
    /\ now \in 1..MaxTime
    /\ fate \in [Task -> Fates]
    /\ crashes \in 0..MaxCrashes /\ admin \in 0..MaxAdmin

Init ==
    /\ heap = [p \in Proc |-> EmptyHeap]
    /\ forefront = [p \in Proc |-> <<>>]
    /\ active = [p \in Proc |-> EmptyActive]
    /\ fingerprints = [p \in Proc |-> {}]
    /\ shutdown = [p \in Proc |-> FALSE]
    /\ redisQueue = {}
    /\ redisActive = EmptyActive
    /\ wpc = [w \in Worker |-> "idle"]
    /\ hand = [w \in Worker |-> None]
    /\ now = 1
    /\ fate = [t \in Task |-> "new"]
    /\ crashes = 0 /\ admin = 0

InHeap(p)     == {e \in Entry : heap[p][e] > 0}
InForefront(p) == {forefront[p][i] : i \in 1..Len(forefront[p])}
HeapTasks(p)  == {e.task : e \in InHeap(p)}
FrontTasks(p) == {e.task : e \in InForefront(p)}
QueuedTasks(p) == HeapTasks(p) \cup FrontTasks(p)
ActiveTasks(p) == {t \in Task : active[p][t] # None}
Holders(p)    == {w \in Worker : Home[w] = p /\ wpc[w] = "holding"}
HeldTasks(p)  == {hand[w].task : w \in Holders(p)}

\* Everything the queue of p still has to deliver or is waiting for.
Known(p) == QueuedTasks(p) \cup ActiveTasks(p) \cup HeldTasks(p)

-----------------------------------------------------------------------------
(* Helpers. *)

\* The part of the Redis commands about the tasks S that takes effect.
Applied(S) == IF RedisMayFail THEN SUBSET S ELSE {S}

Filtered(t) == Fingerprint[t] # None /\ t \notin DontFilter

\* S pushed on a heap; S stacked, in some order, on the forefront.
Pushed(h, S) == [e \in Entry |-> IF e \in S THEN h[e] + 1 ELSE h[e]]
ForHeap(S)   == {e \in S : e.task \notin Jumps}
ForFront(S)  == {e \in S : e.task \in Jumps}

\* Condition.notify and notify_all of the threads asleep in get() of p.
Sleepers(p) == {w \in Worker : Home[w] = p /\ wpc[w] = "sleeping"}
Notified(S) == [w \in Worker |-> IF w \in S THEN "notified" ELSE wpc[w]]
NotifyOne(p) == IF Sleepers(p) = {} THEN {wpc} ELSE {Notified({w}) : w \in Sleepers(p)}
NotifyAll(p) == Notified(Sleepers(p))

\* Mutants: a retry without its limit, and one that is not counted.
RetriedAlways(S)    == {[e EXCEPT !.retry = @ + 1] : e \in S}
RetriedUncounted(S) == {e \in S : e.retry < MaxRetries}

\* Mutant: the fingerprint is discarded at each failure.
GivenUpAtOnce(S) == {e.task : e \in S}

\* A failed or stale item goes back with one retry more, or is given up.
Retried(S)  == {[e EXCEPT !.retry = @ + 1] : e \in {d \in S : d.retry < MaxRetries}}
GivenUp(S)  == {e.task : e \in {d \in S : d.retry >= MaxRetries}}
Forgotten(fps, T) == fps \ {Fingerprint[t] : t \in T}

\* History: a task is given up unless some worker has finished it.
Dropped(T) == [t \in Task |-> IF t \in T /\ fate[t] # "done" THEN "dropped" ELSE fate[t]]

\* The entries get() may return: the top of the forefront stack, else an
\* entry of the highest priority (heapq breaks ties as it pleases).
Deliverable(p) ==
    IF forefront[p] # <<>> THEN {forefront[p][Len(forefront[p])]}
    ELSE {e \in InHeap(p) : \A d \in InHeap(p) : Priority[d.task] <= Priority[e.task]}

-----------------------------------------------------------------------------
(* put, put_batch *)

\* What _put_locked accepts of the items B: one task for each fingerprint it
\* does not know, and every task that takes no part in deduplication.
Accepts(p, B, acc) ==
    /\ acc \subseteq B
    /\ {t \in B : ~Filtered(t)} \subseteq acc
    /\ \A t \in acc : Filtered(t) => Fingerprint[t] \notin fingerprints[p]
    /\ \A t, u \in acc : Filtered(t) /\ Filtered(u) /\ Fingerprint[t] = Fingerprint[u] => t = u
    /\ \A t \in B \ acc : Fingerprint[t] \in fingerprints[p]
                          \/ \E u \in acc : Filtered(u) /\ Fingerprint[u] = Fingerprint[t]

Put(p, B) ==
    /\ ~shutdown[p]
    /\ \A t \in B : fate[t] = "new"
    /\ \E acc \in SUBSET B :
         LET fresh == {[task |-> t, retry |-> 0] : t \in acc} IN
         /\ Accepts(p, B, acc)
         /\ acc # {}
         /\ heap' = [heap EXCEPT ![p] = Pushed(@, ForHeap(fresh))]
         /\ \E s \in SetToSeqs(ForFront(fresh)) : forefront' = [forefront EXCEPT ![p] = @ \o s]
         /\ fingerprints' = [fingerprints EXCEPT ![p] =
                               @ \cup {Fingerprint[t] : t \in {u \in acc : Filtered(u)}}]
         /\ \E ok \in Applied(acc) : redisQueue' = redisQueue \cup ok
         /\ fate' = [t \in Task |-> IF t \in acc THEN "accepted" ELSE fate[t]]
    /\ UNCHANGED <<active, shutdown, redisActive, hand, now, crashes, admin>>

PutOne(p, t) == Put(p, {t}) /\ wpc' \in NotifyOne(p)

\* Mutant: put_batch calls notify().
PutBatchNotifiesOne(p, B) == Put(p, B) /\ wpc' \in NotifyOne(p)

PutBatch(p, B) == Put(p, B) /\ wpc' = NotifyAll(p)

-----------------------------------------------------------------------------
(* get *)

\* _get_nowait_locked: e leaves the queue of p, and worker w has it.
Take(w, e) ==
    LET p == Home[w] IN
    /\ e \in Deliverable(p)
    /\ IF forefront[p] # <<>>
       THEN /\ forefront' = [forefront EXCEPT ![p] = SubSeq(@, 1, Len(@) - 1)]
            /\ UNCHANGED heap
       ELSE /\ heap' = [heap EXCEPT ![p][e] = @ - 1]
            /\ UNCHANGED forefront
    /\ \E gone \in Applied({e.task}) : redisQueue' = redisQueue \ gone
    /\ wpc' = [wpc EXCEPT ![w] = "holding"]
    /\ hand' = [hand EXCEPT ![w] = e]
    /\ UNCHANGED <<active, fingerprints, shutdown, redisActive, now, fate, crashes, admin>>

Get(w) ==
    /\ wpc[w] = "idle"
    /\ ~shutdown[Home[w]]
    /\ \E e \in Deliverable(Home[w]) : Take(w, e)

\* get(timeout > 0) on an empty queue: Condition.wait.
GetBlocks(w) ==
    /\ wpc[w] = "idle"
    /\ ~shutdown[Home[w]]
    /\ Deliverable(Home[w]) = {}
    /\ wpc' = [wpc EXCEPT ![w] = "sleeping"]
    /\ UNCHANGED <<memory, redis, hand, now, fate, crashes, admin>>

\* The loop of get() after Condition.wait: a notified thread, or one whose
\* wait has timed out, looks at the queue first and at the time after that.
\* It does not look at the shutdown flag again.
GetWakes(w) ==
    /\ wpc[w] \in {"notified", "sleeping"}
    /\ \E e \in Deliverable(Home[w]) : Take(w, e)

GetSleepsAgain(w) ==
    /\ wpc[w] = "notified"
    /\ Deliverable(Home[w]) = {}
    /\ wpc' = [wpc EXCEPT ![w] = "sleeping"]
    /\ UNCHANGED <<memory, redis, hand, now, fate, crashes, admin>>

GetTimesOut(w) ==
    /\ wpc[w] \in {"notified", "sleeping"}
    /\ Deliverable(Home[w]) = {}
    /\ wpc' = [wpc EXCEPT ![w] = "idle"]
    /\ UNCHANGED <<memory, redis, hand, now, fate, crashes, admin>>

-----------------------------------------------------------------------------
(* mark_active, mark_done *)

\* Mutant: mark_active does not write Redis.
MarkActiveUnmirrored(w) ==
    /\ wpc[w] = "holding"
    /\ wpc' = [wpc EXCEPT ![w] = "running"]
    /\ active' = [active EXCEPT ![Home[w]][hand[w].task] = [retry |-> hand[w].retry, started |-> now]]
    /\ UNCHANGED <<heap, forefront, fingerprints, shutdown, redis, hand, now, fate, crashes, admin>>

MarkActive(w) ==
    LET p == Home[w]
        t == hand[w].task
        item == [retry |-> hand[w].retry, started |-> now]
    IN
    /\ wpc[w] = "holding"
    /\ wpc' = [wpc EXCEPT ![w] = "running"]
    /\ active' = [active EXCEPT ![p][t] = item]
    /\ \E ok \in Applied({t}) :
         redisActive' = IF t \in ok THEN [redisActive EXCEPT ![t] = item] ELSE redisActive
    /\ UNCHANGED <<heap, forefront, fingerprints, shutdown, redisQueue, hand, now, fate, crashes, admin>>

\* Mutant: mark_done leaves the entry in Redis.
RemoveFromRedisActiveNot(t) == UNCHANGED redisActive

\* _redis_remove_from_active(t)
RemoveFromRedisActive(t) ==
    \E gone \in Applied({t}) :
        redisActive' = IF t \in gone THEN [redisActive EXCEPT ![t] = None] ELSE redisActive

\* The item of t is not in _active: another process, or reclaim_stale, has
\* taken it.  Only the entry in Redis is removed, whoever wrote it.
MarkDoneUnknown(w, success) ==
    /\ wpc[w] = "running"
    /\ active[Home[w]][hand[w].task] = None
    /\ RemoveFromRedisActive(hand[w].task)
    /\ fate' = IF success THEN [fate EXCEPT ![hand[w].task] = "done"] ELSE fate
    /\ wpc' = [wpc EXCEPT ![w] = "idle"]
    /\ hand' = [hand EXCEPT ![w] = None]
    /\ UNCHANGED <<memory, redisQueue, now, crashes, admin>>

MarkDoneSuccess(w) ==
    LET p == Home[w]
        t == hand[w].task
    IN
    /\ wpc[w] = "running"
    /\ active[p][t] # None
    /\ active' = [active EXCEPT ![p][t] = None]
    /\ RemoveFromRedisActive(t)
    /\ fingerprints' = [fingerprints EXCEPT ![p] = Forgotten(@, {t})]
    /\ fate' = [fate EXCEPT ![t] = "done"]
    /\ wpc' = [wpc EXCEPT ![w] = "idle"]
    /\ hand' = [hand EXCEPT ![w] = None]
    /\ UNCHANGED <<heap, forefront, shutdown, redisQueue, now, crashes, admin>>

\* mark_done(success=False) retries the item that _active holds now, which
\* need not be the one this worker was given.
MarkDoneFailure(w) ==
    LET p == Home[w]
        t == hand[w].task
        S == {[task |-> t, retry |-> active[p][t].retry]}
    IN
    /\ wpc[w] = "running"
    /\ active[p][t] # None
    /\ active' = [active EXCEPT ![p][t] = None]
    /\ RemoveFromRedisActive(t)
    /\ heap' = [heap EXCEPT ![p] = Pushed(@, ForHeap(Retried(S)))]
    /\ \E s \in SetToSeqs(ForFront(Retried(S))) : forefront' = [forefront EXCEPT ![p] = @ \o s]
    /\ \E ok \in Applied({e.task : e \in Retried(S)}) : redisQueue' = redisQueue \cup ok
    /\ fingerprints' = [fingerprints EXCEPT ![p] = Forgotten(@, GivenUp(S))]
    /\ fate' = Dropped(GivenUp(S))
    /\ \E pc \in IF Retried(S) = {} THEN {wpc} ELSE NotifyOne(p) : wpc' = [pc EXCEPT ![w] = "idle"]
    /\ hand' = [hand EXCEPT ![w] = None]
    /\ UNCHANGED <<shutdown, now, crashes, admin>>

-----------------------------------------------------------------------------
(* reclaim_stale *)

\* Step 1 takes the stale items of _active; step 2 those of Redis that are not
\* in _active (any more).  The threshold is the queue's, not the item's, and
\* it is exclusive in memory and inclusive in Redis (ZRANGEBYSCORE).
StaleHere(p) == {t \in ActiveTasks(p) : active[p][t].started < now - StaleTimeout}

\* Mutant: without "if task_id in self._active: continue".
StaleInRedisAll(p, entries) ==
    {t \in Task : entries[t] # None /\ entries[t].started <= now - StaleTimeout}

StaleInRedis(p, entries) ==
    {t \in Task \ (ActiveTasks(p) \ StaleHere(p)) :
        entries[t] # None /\ entries[t].started <= now - StaleTimeout}

ReclaimStale(p) ==
    \E gone \in Applied(StaleHere(p)) :
    LET mine  == {[task |-> t, retry |-> active[p][t].retry] : t \in StaleHere(p)}
        left  == [t \in Task |-> IF t \in gone THEN None ELSE redisActive[t]]
    IN
    \E seen \in Applied(StaleInRedis(p, left)) : \E gone2 \in Applied(seen) :
    LET theirs == {[task |-> t, retry |-> left[t].retry] : t \in seen}
        back   == {e.task : e \in Retried(mine) \cup Retried(theirs)}
        ended  == GivenUp(mine) \cup GivenUp(theirs)
    IN
    /\ mine \cup theirs # {}
    /\ active' = [active EXCEPT ![p] = [t \in Task |-> IF t \in StaleHere(p) THEN None ELSE @[t]]]
    /\ redisActive' = [t \in Task |-> IF t \in gone2 THEN None ELSE left[t]]
    /\ heap' = [heap EXCEPT ![p] = Pushed(Pushed(@, ForHeap(Retried(mine))), ForHeap(Retried(theirs)))]
    /\ \E s1 \in SetToSeqs(ForFront(Retried(mine))), s2 \in SetToSeqs(ForFront(Retried(theirs))) :
         forefront' = [forefront EXCEPT ![p] = @ \o s1 \o s2]
    /\ \E ok \in Applied(back) : redisQueue' = redisQueue \cup ok
    /\ fingerprints' = [fingerprints EXCEPT ![p] = Forgotten(@, ended)]
    /\ fate' = Dropped(ended)
    /\ wpc' = NotifyAll(p)
    /\ UNCHANGED <<shutdown, hand, now, crashes, admin>>

-----------------------------------------------------------------------------
(* clear, reset, shutdown *)

Cleared(T) == [t \in Task |-> IF t \in T /\ fate[t] = "accepted" THEN "cleared" ELSE fate[t]]

Clear(p) ==
    /\ admin < MaxAdmin
    /\ admin' = admin + 1
    /\ heap' = [heap EXCEPT ![p] = EmptyHeap]
    /\ forefront' = [forefront EXCEPT ![p] = <<>>]
    /\ fingerprints' = [fingerprints EXCEPT ![p] = {}]
    /\ \E gone \in Applied(Task) : redisQueue' = redisQueue \ gone
    /\ fate' = Cleared(QueuedTasks(p))
    /\ UNCHANGED <<active, shutdown, redisActive, worker, now, crashes>>

Reset(p) ==
    /\ admin < MaxAdmin
    /\ admin' = admin + 1
    /\ heap' = [heap EXCEPT ![p] = EmptyHeap]
    /\ forefront' = [forefront EXCEPT ![p] = <<>>]
    /\ active' = [active EXCEPT ![p] = EmptyActive]
    /\ fingerprints' = [fingerprints EXCEPT ![p] = {}]
    /\ \E ok \in IF RedisMayFail THEN BOOLEAN ELSE {TRUE} :
         /\ redisQueue' = IF ok THEN {} ELSE redisQueue
         /\ redisActive' = IF ok THEN EmptyActive ELSE redisActive
    /\ fate' = Cleared(QueuedTasks(p) \cup {t \in Task : redisActive'[t] # redisActive[t]} \cup ActiveTasks(p))
    /\ UNCHANGED <<shutdown, worker, now, crashes>>

Shutdown(p) ==
    /\ ~shutdown[p]
    /\ shutdown' = [shutdown EXCEPT ![p] = TRUE]
    /\ wpc' = NotifyAll(p)
    /\ UNCHANGED <<heap, forefront, active, fingerprints, redis, hand, now, fate, crashes, admin>>

-----------------------------------------------------------------------------
(* The environment. *)

\* Process p dies and a new one starts in its place: __init__ reads nothing
\* back from Redis.  History: a task that p had queued, or was handing over,
\* is "lost"; one that p had marked active is not.
Crash(p) ==
    /\ crashes < MaxCrashes
    /\ crashes' = crashes + 1
    /\ heap' = [heap EXCEPT ![p] = EmptyHeap]
    /\ forefront' = [forefront EXCEPT ![p] = <<>>]
    /\ active' = [active EXCEPT ![p] = EmptyActive]
    /\ fingerprints' = [fingerprints EXCEPT ![p] = {}]
    /\ shutdown' = [shutdown EXCEPT ![p] = FALSE]
    /\ wpc' = [w \in Worker |-> IF Home[w] = p THEN "idle" ELSE wpc[w]]
    /\ hand' = [w \in Worker |-> IF Home[w] = p THEN None ELSE hand[w]]
    /\ fate' = [t \in Task |-> IF t \in QueuedTasks(p) \cup HeldTasks(p) /\ fate[t] = "accepted"
                               THEN "lost" ELSE fate[t]]
    /\ UNCHANGED <<redis, now, admin>>

Tick ==
    /\ now < MaxTime
    /\ now' = now + 1
    /\ UNCHANGED <<memory, redis, worker, fate, crashes, admin>>

WorkerNext(w) ==
    \/ Get(w) \/ GetBlocks(w) \/ GetWakes(w) \/ GetSleepsAgain(w) \/ GetTimesOut(w)
    \/ MarkActive(w)
    \/ \E success \in BOOLEAN : MarkDoneUnknown(w, success)
    \/ MarkDoneSuccess(w) \/ MarkDoneFailure(w)

ProcNext(p) ==
    \/ \E t \in Task : PutOne(p, t)
    \/ \E B \in SUBSET Task : PutBatch(p, B)
    \/ ReclaimStale(p)
    \/ Clear(p) \/ Reset(p) \/ Shutdown(p)
    \/ Crash(p)

Next ==
    \/ \E w \in Worker : WorkerNext(w)
    \/ \E p \in Proc : ProcNext(p)
    \/ Tick

Spec == Init /\ [][Next]_vars

\* A worker that has an item executes it, and reports; a thread whose wait has
\* been notified, or has reached its timeout, is scheduled; a consumer loops.
WorkerFairness(w) ==
    /\ WF_vars(Get(w))
    /\ WF_vars(GetWakes(w))
    /\ WF_vars(GetTimesOut(w))
    /\ WF_vars(MarkActive(w))
    /\ WF_vars((\E success \in BOOLEAN : MarkDoneUnknown(w, success)) \/ MarkDoneSuccess(w) \/ MarkDoneFailure(w))

FairSpec == Spec /\ \A w \in Worker : WorkerFairness(w)

-----------------------------------------------------------------------------
(* Properties. *)

Woken(p) == {w \in Worker : Home[w] = p /\ wpc[w] = "notified"}
HeapCopies(p) == UNION {{e} \X (1..heap[p][e]) : e \in Entry}
QueueSize(p) == Cardinality(HeapCopies(p)) + Len(forefront[p])

\* No lost wakeup: put() and a retry notify one thread only, and that thread
\* takes one item only (lines 369, 422-428, 496), yet no thread sleeps in
\* get() while more items are queued than threads are awake to fetch them.
NoLostWakeup ==
    \A p \in Proc : Sleepers(p) # {} => QueueSize(p) <= Cardinality(Woken(p))

\* As long as Redis works, and one process uses it, that process holds at most
\* one copy of a task, whatever the order of late mark_done calls, retries and
\* reclaims: each hands the item on only after taking it from where it was
\* (lines 469, 545, 657).
OneCopy ==
    \A p \in Proc :
        /\ \A d, e \in InHeap(p) : d.task = e.task => d = e /\ heap[p][d] = 1
        /\ \A i, j \in 1..Len(forefront[p]) : forefront[p][i].task = forefront[p][j].task => i = j
        /\ \A v, w \in Holders(p) : hand[v].task = hand[w].task => v = w
        /\ HeapTasks(p) \cap FrontTasks(p) = {}
        /\ QueuedTasks(p) \cap HeldTasks(p) = {}
        /\ (QueuedTasks(p) \cup HeldTasks(p)) \cap ActiveTasks(p) = {}

\* "相同 fingerprint 的任务不重复入队" (line 10): of the tasks that do not skip
\* deduplication, no two that a process still knows have the same fingerprint.
\* (Until clear() or reset(), which announce that they empty _fingerprints.)
Dedup ==
    admin = 0 => \A p \in Proc : \A t, u \in Known(p) :
        (t # u /\ Filtered(t) /\ Filtered(u)) => Fingerprint[t] # Fingerprint[u]

\* While Redis works, and one process uses it, its two key sets list exactly
\* the queued and the active tasks (the mirror of lines 18-19), through every
\* retry, reclaim, clear and reset.
MirrorExact ==
    \A p \in Proc :
        /\ redisQueue = QueuedTasks(p)
        /\ {t \in Task : redisActive[t] # None} = ActiveTasks(p)
        /\ \A t \in ActiveTasks(p) : redisActive[t] = active[p][t]

\* Crash recovery (lines 9, 518-531): while Redis works, a task that was
\* accepted and neither finished, nor given up, nor cleared, nor caught by a
\* crash in a queue or between get() and mark_active(), is in a queue or in
\* hand, or can be reclaimed from Redis: no process keeps one in its _active
\* alone, though processes reclaim each other's tasks and report tasks that
\* are no longer theirs.
ActiveRecoverable ==
    \A t \in Task : fate[t] = "accepted" =>
        redisActive[t] # None \/ \E p \in Proc : t \in QueuedTasks(p) \cup HeldTasks(p)

\* Every accepted task is eventually finished, given up, or cleared, unless
\* the queue is shut down: no schedule of failures, retries, late reports and
\* reclaims keeps a task for ever.
EveryTaskSettles ==
    \A t \in Task : fate[t] = "accepted" ~>
        fate[t] # "accepted" \/ \E p \in Proc : shutdown[p]
=============================================================================
