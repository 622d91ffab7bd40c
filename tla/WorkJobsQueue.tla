--------------------------- MODULE WorkJobsQueue ---------------------------
(***************************************************************************)
(* WorkJobs on top of PriorityTaskQueue: every item's asyncio task is a    *)
(* worker of the queue, and the job's item is its task.  Work jobs skip    *)
(* deduplication (dont_filter=True) and use no Redis, that is to say one   *)
(* whose commands all fail.                                                *)
(***************************************************************************)
EXTENDS WorkJobs

\* None is not the record of a running item: "not in _active" can be told.
ASSUME QueueAbsent == None \notin [retry : 0..MaxRetries, started : {1}]

\* The queue's variables: the heap has one entry for each queued item, and a
\* running item has the retry count it was dequeued with.
HeapOf    == [p \in {"process"} |-> [e \in [task : Item, retry : 0..MaxRetries] |->
                IF e.task \in queued /\ e.retry = retry[e.task] THEN 1 ELSE 0]]
FrontOf   == [p \in {"process"} |-> <<>>]
ActiveOf  == [p \in {"process"} |-> [i \in Item |->
                IF i \in active THEN [retry |-> retry[i], started |-> 1] ELSE None]]
NoPrints  == [p \in {"process"} |-> {}]
NeverShut == [p \in {"process"} |-> FALSE]
NoMirror  == [i \in Item |-> None]

\* The item's task holds it from the dequeue to the end of its run.
PcOf   == [i \in Item |-> IF i \in running \/ i = loop THEN "running"
                          ELSE IF i \in Waiting THEN "holding" ELSE "idle"]
HandOf == [i \in Item |-> IF i \in running \cup Waiting \/ i = loop
                          THEN [task |-> i, retry |-> retry[i]] ELSE None]
FateOf == [i \in Item |-> IF outcome[i] = "cut" THEN "accepted" ELSE outcome[i]]

Queue == INSTANCE PriorityTaskQueue WITH
    Proc <- {"process"}, Worker <- Item, Home <- [i \in Item |-> "process"],
    Task <- Item, Priority <- JobPriority, Jumps <- {},
    Fingerprint <- SessionOf, DontFilter <- Item,
    StaleTimeout <- 300,
    RedisMayFail <- TRUE, MaxTime <- 1, MaxCrashes <- MaxRestarts, MaxAdmin <- 0,
    heap <- HeapOf, forefront <- FrontOf, active <- ActiveOf,
    fingerprints <- NoPrints, shutdown <- NeverShut,
    redisQueue <- {}, redisActive <- NoMirror,
    wpc <- PcOf, hand <- HandOf, now <- 1, fate <- FateOf,
    crashes <- restarts, admin <- 0

\* While the worker is not stopped, _execute drives the queue the way its
\* class documents (priority_queue.py:113-123): an item it was given, and no
\* other, is marked active once, reported once, and dequeued again only if a
\* retry put it back; the two dictionaries and this module's sets agree.
QueueProtocol == Queue!Spec
=============================================================================
