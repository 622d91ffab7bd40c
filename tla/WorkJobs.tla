------------------------------ MODULE WorkJobs ------------------------------
(***************************************************************************)
(* harness/work_jobs.py: background Work jobs.  enqueue_work_job puts an   *)
(* item on the process's PriorityTaskQueue; worker_loop dequeues items and *)
(* starts one asyncio task for each; a semaphore lets MaxConcurrent of     *)
(* them run; _run_one consumes run_work_stream and keeps the status of the *)
(* job's session.  The cancel route sets a flag that _run_one looks at     *)
(* after each event.                                                       *)
(*                                                                         *)
(* Routes, tasks and stream all run on one event loop, so what happens     *)
(* between two awaits is one action.  From the acquisition of the          *)
(* semaphore up to the first event of the agent (work_pipeline.py:1371)    *)
(* there is no await, nor is there one from the last event of the agent    *)
(* that matters to the final status.                                       *)
(*                                                                         *)
(* The queue is used without Redis, and nobody calls reclaim_stale or      *)
(* shutdown on it, which leaves of its state a set of queued and a         *)
(* dictionary of active items; that this is the queue of                   *)
(* PriorityTaskQueue is checked in WorkJobsQueue.  The stream is           *)
(* reduced to what decides the status: an error event, an exception, the   *)
(* security check that refuses the input, the regular end.                 *)
(***************************************************************************)
EXTENDS Integers, Sequences, FiniteSets

CONSTANTS
    Item,          \* calls of enqueue_work_job: one ScheduleItem each
    Session,       \* session ids
    SessionOf,     \* SessionOf[i]: payload["session_id"]
    JobPriority,   \* JobPriority[i]
    MaxConcurrent, \* _MAX_CONCURRENT_JOBS
    MaxRetries,    \* max_retries of a ScheduleItem
    None,          \* nothing in hand, no fingerprint (for the queue)
    MaxStops,      \* bound of the stops of the worker
    MaxRestarts    \* bound of the restarts of the process

ASSUME JobsAssumption ==
    /\ None \notin Item
    /\ SessionOf \in [Item -> Session]
    /\ JobPriority \in [Item -> Int]
    /\ MaxConcurrent \in Nat \ {0}
    /\ MaxRetries \in Nat
    /\ MaxStops \in Nat /\ MaxRestarts \in Nat

VARIABLES
    queued,         \* items in the queue's heap
    active,         \* items in the queue's _active
    retry,          \* retry_count of an item
    waiting,        \* tasks that wait for the semaphore, first come first served
    running,        \* items whose _run_one is consuming its stream
    status,         \* status[s]: WorkSession.status on disk, or "none"
    activeSessions, \* _active_sessions
    cancelled,      \* _cancelled_sessions
    tails,          \* the sessions in _event_tails
    loop,           \* the item whose task is using the event loop to start, or None
    up,             \* is worker_loop running?
    outcome,        \* history: what became of an item
    asked,          \* history: items whose cancellation was requested
    stops, restarts \* how many stops and restarts

queueVars == <<queued, active, retry, outcome>>
taskVars  == <<waiting, running, loop>>
flagVars  == <<activeSessions, cancelled, tails>>
envVars   == <<up, stops, restarts>>
vars == <<queueVars, taskVars, flagVars, status, asked, envVars>>

Statuses == {"none", "pending", "running", "completed", "failed", "cancelled"}
Final    == {"completed", "failed", "cancelled"}
Outcomes == {"new", "accepted", "done", "dropped", "lost", "cut"}

Waiting == {waiting[k] : k \in DOMAIN waiting}

TypeOK ==
    /\ queued \subseteq Item /\ active \subseteq Item
    /\ retry \in [Item -> 0..MaxRetries]
    /\ waiting \in Seq(Item)
    /\ running \subseteq Item
    /\ status \in [Session -> Statuses]
    /\ activeSessions \subseteq Session /\ cancelled \subseteq Session /\ tails \subseteq Session
    /\ loop \in Item \cup {None}
    /\ up \in BOOLEAN
    /\ outcome \in [Item -> Outcomes]
    /\ asked \in [Item -> {"no", "queued", "running"}]
    /\ stops \in 0..MaxStops /\ restarts \in 0..MaxRestarts

Init ==
    /\ queued = {} /\ active = {}
    /\ retry = [i \in Item |-> 0]
    /\ waiting = <<>> /\ running = {}
    /\ status = [s \in Session |-> "none"]
    /\ activeSessions = {} /\ cancelled = {} /\ tails = {}
    /\ loop = None
    /\ up = TRUE
    /\ outcome = [i \in Item |-> "new"]
    /\ asked = [i \in Item |-> "no"]
    /\ stops = 0 /\ restarts = 0

ItemsOf(s) == {i \in Item : SessionOf[i] = s}

\* SessionStore.update, of a session that is on disk.
Updated(s, st) == [status EXCEPT ![s] = st]

-----------------------------------------------------------------------------
(* Routes. *)

\* enqueue_work_job: creates the session if need be, and makes it pending
\* again if it was anything else.  dont_filter: always accepted.
Enqueue(i) ==
    /\ loop = None
    /\ outcome[i] = "new"
    /\ outcome' = [outcome EXCEPT ![i] = "accepted"]
    /\ queued' = queued \cup {i}
    /\ status' = [status EXCEPT ![SessionOf[i]] = "pending"]
    /\ UNCHANGED <<active, retry, taskVars, flagVars, asked, envVars>>

\* POST /jobs/{session_id}/cancel, up to the call of cancel_job: a session
\* that is final is refused (409), a second request is not passed on.
Cancellable(s) == status[s] \in {"pending", "running"} /\ s \notin cancelled

\* cancel_job: returns False, and changes nothing, for a session that is not
\* running and has no event tail in this process.
Cancel(s) ==
    /\ loop = None
    /\ Cancellable(s)
    /\ asked' = [i \in Item |-> IF SessionOf[i] # s THEN asked[i]
                                ELSE IF i \in running THEN "running"
                                ELSE IF i \in queued \cup Waiting THEN "queued" ELSE asked[i]]
    /\ IF s \in activeSessions \cup tails
       THEN /\ cancelled' = cancelled \cup {s}
            /\ status' = Updated(s, "cancelled")
            /\ tails' = tails \cup {s}
       ELSE UNCHANGED <<cancelled, status, tails>>
    /\ UNCHANGED <<queueVars, taskVars, activeSessions, envVars>>

-----------------------------------------------------------------------------
(* worker_loop *)

\* Mutant: the loop takes the item and leaves it in the queue.
DequeuePeeks(i) ==
    /\ up /\ loop = None
    /\ i \in queued
    /\ waiting' = Append(waiting, i)
    /\ UNCHANGED <<queueVars, running, loop, status, flagVars, asked, envVars>>

\* The loop takes the next item whether or not a permit is free.
Dequeue(i) ==
    /\ up /\ loop = None
    /\ i \in queued
    /\ \A j \in queued : JobPriority[j] <= JobPriority[i]
    /\ queued' = queued \ {i}
    /\ waiting' = Append(waiting, i)
    /\ UNCHANGED <<active, retry, outcome, running, loop, status, flagVars, asked, envVars>>

\* Mutant: a retry that is not counted.
MarkDoneUncounted(i, ok) ==
    /\ active' = active \ {i}
    /\ queued' = IF ok THEN queued ELSE queued \cup {i}
    /\ retry' = retry
    /\ outcome' = IF ok THEN [outcome EXCEPT ![i] = "done"] ELSE outcome

\* q.mark_done(task_id, success=ok), for an item that is active.
MarkDone(i, ok) ==
    LET again == ~ok /\ retry[i] < MaxRetries IN
    /\ active' = active \ {i}
    /\ queued' = IF again THEN queued \cup {i} ELSE queued
    /\ retry' = IF again THEN [retry EXCEPT ![i] = @ + 1] ELSE retry
    /\ outcome' = CASE ok -> [outcome EXCEPT ![i] = "done"]
                    [] again -> outcome
                    [] OTHER -> [outcome EXCEPT ![i] = "dropped"]

\* Mutant: _execute does not call mark_active.
GetPermitUnmarked(i) ==
    /\ loop = None
    /\ waiting # <<>> /\ i = Head(waiting)
    /\ Cardinality(running) < MaxConcurrent
    /\ waiting' = Tail(waiting)
    /\ loop' = i
    /\ UNCHANGED <<queueVars, running, status, flagVars, asked, envVars>>

\* _execute acquires the semaphore, whose waiters are served in order, and
\* marks its item active.  It keeps the event loop.
GetPermit(i) ==
    /\ loop = None
    /\ waiting # <<>> /\ i = Head(waiting)
    /\ Cardinality(running) < MaxConcurrent
    /\ waiting' = Tail(waiting)
    /\ active' = active \cup {i}
    /\ loop' = i
    /\ UNCHANGED <<queued, retry, outcome, running, status, flagVars, asked, envVars>>

\* _run_one up to its first await.
StartRun(i) ==
    LET s == SessionOf[i] IN
    /\ loop = i
    /\ s \notin cancelled
    /\ loop' = None
    /\ running' = running \cup {i}
    /\ status' = Updated(s, "running")
    /\ activeSessions' = activeSessions \cup {s}
    /\ tails' = tails \cup {s}
    /\ UNCHANGED <<queueVars, waiting, cancelled, asked, envVars>>

\* Mutant: the finally block keeps the flag.
FinallyKeepsFlag(i, ok) ==
    /\ activeSessions' = activeSessions \ {SessionOf[i]}
    /\ cancelled' = cancelled
    /\ MarkDone(i, ok)

\* The finally block of _run_one, for the run of i, and mark_done.
Finally(i, ok) ==
    /\ activeSessions' = activeSessions \ {SessionOf[i]}
    /\ cancelled' = cancelled \ {SessionOf[i]}
    /\ MarkDone(i, ok)

\* A run that ends before its first await: the flag is set, and the status
\* "running" becomes "completed" (line 326); the security check refuses the
\* input; something raises.
StartEnds(i, st, ok) ==
    /\ loop = i
    /\ loop' = None
    /\ status' = Updated(SessionOf[i], st)
    /\ tails' = tails \cup {SessionOf[i]}
    /\ Finally(i, ok)
    /\ UNCHANGED <<waiting, running, asked, envVars>>

\* Mutant: without the fallback of line 323.
StartCancelledStaysOpen(i) == SessionOf[i] \in cancelled /\ StartEnds(i, "running", TRUE)

StartCancelled(i) == SessionOf[i] \in cancelled /\ StartEnds(i, "completed", TRUE)
StartBlocked(i)   == SessionOf[i] \notin cancelled /\ StartEnds(i, "failed", TRUE)
StartRaises(i)    == StartEnds(i, "failed", FALSE)

-----------------------------------------------------------------------------
(* _run_one, from an await to the next *)

\* The run of i ends, leaving status st.
RunEnds(i, st, ok) ==
    /\ loop = None
    /\ i \in running
    /\ running' = running \ {i}
    /\ status' = Updated(SessionOf[i], st)
    /\ Finally(i, ok)
    /\ UNCHANGED <<waiting, loop, tails, asked, envVars>>

\* Line 323: "兜底", a session that is still running is completed.
Settled(st) == IF st = "running" THEN "completed" ELSE st

\* An event arrives and the flag is set.
RunCancelled(i) ==
    /\ SessionOf[i] \in cancelled
    /\ RunEnds(i, Settled(status[SessionOf[i]]), TRUE)

\* An error event: the stream sets the status before it yields the event.
RunErrs(i) ==
    /\ loop = None
    /\ i \in running
    /\ SessionOf[i] \notin cancelled
    /\ status' = Updated(SessionOf[i], "failed")
    /\ UNCHANGED <<queueVars, taskVars, flagVars, asked, envVars>>

RunErrsCancelled(i) == SessionOf[i] \in cancelled /\ RunEnds(i, "failed", TRUE)

\* The stream ends: its last statement sets the status, after its last event.
\* An error event may be outweighed by what was delivered (work_pipeline.py:1765),
\* and one of the repair loop sets no status until then (line 1619).
RunFinishes(i) ==
    /\ SessionOf[i] \notin cancelled
    /\ \E st \in {"completed", "failed"} : RunEnds(i, st, TRUE)

RunRaises(i) == RunEnds(i, "failed", FALSE)

-----------------------------------------------------------------------------
(* Stop, start, restart. *)

\* stop_work_job_worker_async, when the wait of two seconds is over: the loop
\* and the tasks it waits for are cancelled.  CancelledError passes both
\* "except Exception": the finally block runs, mark_done does not.
Stop ==
    /\ up /\ loop = None /\ stops < MaxStops
    /\ stops' = stops + 1
    /\ up' = FALSE
    /\ waiting' = <<>> /\ running' = {}
    /\ activeSessions' = activeSessions \ {SessionOf[i] : i \in running}
    /\ cancelled' = cancelled \ {SessionOf[i] : i \in running}
    /\ outcome' = [i \in Item |-> IF i \in running THEN "cut"
                                  ELSE IF i \in Waiting THEN "lost" ELSE outcome[i]]
    /\ UNCHANGED <<queued, active, retry, loop, status, tails, asked, restarts>>

\* start_work_job_worker_async
Start ==
    /\ ~up
    /\ up' = TRUE
    /\ UNCHANGED <<queueVars, taskVars, flagVars, status, asked, stops, restarts>>

\* The process ends, in whatever way, and is started again.  Only the
\* sessions are on disk; nothing reads them to enqueue their jobs again.
Restart ==
    /\ restarts < MaxRestarts
    /\ restarts' = restarts + 1
    /\ queued' = {} /\ active' = {}
    /\ waiting' = <<>> /\ running' = {}
    /\ activeSessions' = {} /\ cancelled' = {} /\ tails' = {}
    /\ loop' = None
    /\ up' = TRUE
    /\ outcome' = [i \in Item |-> IF i \in active /\ outcome[i] = "accepted" THEN "cut"
                                  ELSE IF outcome[i] = "accepted" THEN "lost" ELSE outcome[i]]
    /\ UNCHANGED <<retry, status, asked, stops>>

-----------------------------------------------------------------------------

StartsNext(i) == StartRun(i) \/ StartCancelled(i) \/ StartBlocked(i) \/ StartRaises(i)
EndsNext(i)   == RunCancelled(i) \/ RunErrsCancelled(i) \/ RunFinishes(i) \/ RunRaises(i)

ItemNext(i) == Enqueue(i) \/ Dequeue(i) \/ GetPermit(i) \/ StartsNext(i) \/ RunErrs(i) \/ EndsNext(i)

Next ==
    \/ \E i \in Item : ItemNext(i)
    \/ \E s \in Session : Cancel(s)
    \/ Stop \/ Start \/ Restart

Spec == Init /\ [][Next]_vars

\* The loop polls the queue for ever (line 358), a free permit wakes the first
\* waiter, and a stream ends or raises: the agent has a bounded number of
\* rounds, and its calls have timeouts.
FairSpec ==
    /\ Spec
    /\ WF_vars(\E i \in Item : Dequeue(i))
    /\ WF_vars(\E i \in Item : GetPermit(i))
    /\ WF_vars(\E i \in Item : StartsNext(i))
    /\ \A i \in Item : WF_vars(EndsNext(i))

-----------------------------------------------------------------------------
(* Properties. *)

Live(i) == outcome[i] \in {"accepted", "lost", "cut"}

\* The item whose task has the event loop, if any, as a set.
Starting == {loop} \cap Item

\* A job is in one place only: it is queued, or waits for the semaphore
\* (once), or is starting, or is running, and then it is not finished.  So no
\* retry, late report or restart makes two runs of one job, or runs one again
\* that was done or given up.
OnePlace ==
    /\ queued \cap Waiting = {} /\ queued \cap running = {} /\ queued \cap Starting = {}
    /\ Waiting \cap running = {} /\ Waiting \cap Starting = {}
    /\ running \cap Starting = {}
    /\ \A k, l \in DOMAIN waiting : waiting[k] = waiting[l] => k = l
    /\ \A i \in queued \cup Waiting \cup Starting \cup running : outcome[i] = "accepted"

\* However runs, retries, cancellations and further jobs of one session mix,
\* a session is pending or running on disk only if some job of it is still to
\* be finished (or was lost by a stop or a restart): the fallback of lines
\* 323-326 and the updates of the stream leave no session open.
OpenSessionHasJob ==
    \A s \in Session : status[s] \in {"pending", "running"} => \E i \in ItemsOf(s) : Live(i)

\* A cancellation flag never outlives the jobs it was meant for (the finally
\* block, lines 334-338), where it would cancel the session's next job.
CancelFlagHasJob ==
    \A s \in cancelled : \E i \in ItemsOf(s) : Live(i)

\* A session in _active_sessions has a job that is running (lines 289-290 and
\* 335-336).  The converse fails: of two runs of one session the first to end
\* takes the session off the set.
ActiveSessionHasRun ==
    \A s \in activeSessions : \E i \in ItemsOf(s) : i \in running

\* Neither kind of flag outlives the jobs it stands for.
FlagsHaveJobs == CancelFlagHasJob /\ ActiveSessionHasRun

\* Every job that was accepted is eventually done or given up, unless the
\* worker is stopped: neither the semaphore nor a retry keeps it for ever.
EveryJobSettles ==
    \A i \in Item : outcome[i] = "accepted" ~> (outcome[i] # "accepted" \/ ~up)

\* "若 job 正在执行：worker 在下一个事件循环点检查并停止" and "若 job 还在排队：
\* 从队列移除" (api/routers/work.py:401-402): a job whose cancellation was
\* requested while it was queued or running (no 409, as for one that is over)
\* does not start, and does not run again.
CancelledStops ==
    [][\A i \in Item : (asked[i] # "no" /\ i \notin running) => i \notin running']_vars
=============================================================================
