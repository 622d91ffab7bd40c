# FnixAgent: a TLA+ model and its proofs

FnixAgent runs language-model agents for office and coding work. Around the model sits a good deal of
machinery that keeps state: queues, background jobs, an agent "kernel" with processes and a scheduler,
sessions, checkpoints, change sets. This directory models that machinery. TLC checks the models on small
instances; TLAPS proves what matters most for all values of the constants.

All paths below are relative to `src/src/fnixagent` unless they start with `src/`.

- [1. Inventory of the system](#1-inventory-of-the-system)
- [2. The modules and the code](#2-the-modules-and-the-code)
- [3. The runs](#3-the-runs)
- [4. Fairness](#4-fairness)
- [5. What is proved](#5-what-is-proved)
- [6. Where the code and its words differ](#6-where-the-code-and-its-words-differ)
- [7. What is not modelled](#7-what-is-not-modelled)
- [8. Plan](#8-plan)

`PROJECT.json` holds the same facts for tools: components, runs, the map from definitions to source lines,
hazards, findings, mutants and theorems.

Commands, in this directory:

    tlc -workers 2 -config QueueThreads.cfg MCPriorityTaskQueue.tla
    tlapm AgentKernelProofs.tla

## 1. Inventory of the system

### Parts with state of their own

| Part | State | Operations | What makes it hard | What makes it correct |
|---|---|---|---|---|
| Priority task queue, `core/scheduler/priority_queue.py` | heap, forefront stack, dictionary of active items, fingerprints, shutdown flag; a ZSET and HASH for each of queue and active items in Redis | put, put_batch, get, mark_active, mark_done, reclaim_stale, clear, reset, shutdown | threads that block in get(); several processes on one Redis; best-effort Redis commands; a crash between two calls; late reports | no lost wakeup, one copy of a task, deduplication, Redis mirrors memory, active tasks survive a crash, tasks settle |
| Background work jobs, `harness/work_jobs.py` | queue items, asyncio tasks, a semaphore, `_active_sessions`, `_cancelled_sessions`, `_event_tails` | enqueue_work_job, cancel_job, worker_loop, _run_one, start, stop | cancellation against start, end and retry; two jobs of one session; stop and restart | a job is in one place; no session stays open; no flag outlives its job; jobs settle |
| Work sessions, `harness/session.py` | one JSON file for each session: status, files, results, compaction | create, update, append, load | read-modify-write of one file from several callers | the status on disk agrees with the jobs |
| Work routes and stream, `api/routers/work.py`, `services/work_pipeline.py` | none of their own; they write the session | enqueue, cancel, stream | events after an error; updates around awaits | the last status is the right one |
| Agent scheduler, `core/agent/scheduler.py`, `process.py` | five collections of processes, a lock, two background loops | admit, schedule, yield_, block, unblock, terminate, suspend, resume | a method pops a process, then a transition raises; an await of the storage; a lock that is not reentrant | a process is in one collection, and its state agrees with it |
| Agent kernel, `core/agent/kernel.py` | booted flag, process table | boot, shutdown, spawn, kill, syscalls | a shutdown of several suspensions, each with an await | shutdown ends; children die with their parents |
| Agent-to-agent bus, `core/agent/messaging.py` | mailboxes, pending requests and their futures, cards, topics | register, unregister, send, broadcast, receive, request_response, reply, delegate_task | replies after the timeout, or a second time; a receive on a mailbox that is unregistered | the first reply goes to its request, once; messages are neither lost nor doubled; no future stays behind |
| Run engine, `core/run/engine.py`, `checkpoint.py` | rows of runs, events and checkpoints in SQLite; the counters of an attempt | run_stream, start_run, append_event, save_checkpoint, finish_run, the resume route | an attempt that is resumed while it goes on; a client that leaves at a yield; a store that raises, also in the handler of that | what was yielded is logged; the status is that of the last attempt; the checkpoint is near |
| LLM access, `core/llm/`, `core/adapters/endpoint_pool.py` | circuit breaker, token buckets, cache, budget, endpoint health | allow, record, acquire, pick | results of old calls in a new circuit state, concurrent probes | the breaker opens, probes and closes as documented |
| Change sets, `core/code/diff.py`, `harness/changeset_journal.py`, `api/routers/chat_agent.py` | files of the workspace, `<id>.json` and `latest.json` of the journal | preview, apply, roll back, save, undo | an error or a crash between two files, or between files and journal; edits in between | a change set is applied as a whole or taken back; an undo gives back what was there |
| Agent loop, `core/agent/loop.py`, `compaction.py` | the conversation, the offset of what is logged, budgets of steps and reflections, one background compaction | run_stream; start_async, maybe_swap, await_compaction, compact_with_escalation | a compaction works on a copy while the conversation grows; a run is abandoned between two flushes, and resumed from events that are not the log | the log is the conversation; what the run began with stays; old conversations never come back; a resume has what the run had |
| Checkpoints, `core/checkpoint/` | `manager.py`: entries of tasks, with their messages, in memory, Redis and a file; graph states in SQLite or Postgres | append, replace, get, clean up; put, get, list | an entry expires an hour after it was made, also in use | the log of a task is there when it is needed |
| Task pipeline, `tasks/` | pending confirmations and exports | submit, confirm, cancel, expire | a confirmation that comes late or twice | nothing is exported that was not confirmed, nor twice |
| Security state, `core/security/leases.py`, `auth/` | leases, token blacklist, audit chain | grant, revoke, refresh, append | expiry against use; several processes | a revoked lease or token is not accepted |
| Autoscaled pool, `core/scheduler/autoscale.py` | a concurrency, a semaphore, latencies, CPU and memory samples | acquire, release, maybe_adjust, update_config, reset, shutdown | the semaphore is replaced while threads hold a permit of it or wait for it | there are as many permits as the concurrency says |
| Tools, `core/tools/` | `executor.py`: step counter, thread pool; `policy.py`: cache of answers, approvals | execute of executor and registry, evaluate, remember_success, approve, retry | a tool that goes on after its timeout; a cache and approvals that all runs of the process share | what needs a permission has one of its own; steps and attempts are bounded; calls end |
| Flywheel, topology, `core/flywheel/`, `core/topology/` | best version so far, stored graphs | evaluate, promote, store | concurrent promotions | the score never falls |
| Desktop workbench, `src/apps/workbench/src-tauri` | snapshots, language servers, terminals | take, restore | restore after a partial snapshot | restore gives what was taken |

### Parts without much state

Prompt assembly, reasoning, reflection, retrieval, memory, knowledge, skills, intelligence, guardrails, gateway,
MCP, observability, audit, storage services, office documents, CLI, web workbench and the TypeScript SDK. They
format, rank, route, or pass calls to a database.

### How the parts meet

    route / CLI --> enqueue_work_job --> PriorityTaskQueue <-- worker_loop --> _run_one
                         |                     ^  (mark_active, mark_done)        |
                         v                     |                                  v
                    WorkSession <--------- run_work_stream <-------------- run engine, agent loop
                                                                                  |
    AgentOS kernel --> scheduler --> storage (suspend)                            v
        |  spawn, kill, shutdown                                     LLM access, tools, change sets
        v
    A2ABus, syscalls, policies

The routes, the tasks of the jobs and the agent kernel share one event loop: what happens between two awaits is
atomic. The priority queue is also used from threads, and from several processes through Redis.

### What is hard to test here

The hazards are listed in `PROJECT.json`, each at its line and with the properties that would notice. They are of
these kinds:

1. wakeups and races in the queue's `Condition`: a notify that reaches a thread whose wait has just timed out;
2. the steps between memory and Redis, where a crash or a failing command leaves one of them behind;
3. flags that are kept for a session while the work is done by jobs (`_active_sessions`, `_cancelled_sessions`);
4. methods that take a process out of a collection before a call that may raise, or before an await;
5. a lock that is held by the loop that wants it;
6. results that are reported to a circuit breaker in another state than that in which the call was let through;
7. a copy that is worked on in the background, and an offset into something that may be replaced meanwhile;
8. two attempts of one run that write the same rows, and the many exits of a generator;
9. a semaphore that is replaced under those who use it, and calls that time out while their tool goes on;
10. several files that are to change together, with a user who edits them at the same time;
11. replies that come late, twice, or to a mailbox that is gone.

## 2. The modules and the code

| Module | Models | Extends |
|---|---|---|
| `PriorityTaskQueue` | `core/scheduler/priority_queue.py` | |
| `MCPriorityTaskQueue` | instances for TLC | `PriorityTaskQueue` |
| `PriorityTaskQueueProofs` | theorems about `PriorityTaskQueue` | `PriorityTaskQueue` |
| `WorkJobs` | `harness/work_jobs.py`, the enqueue and cancel routes, the session status | |
| `WorkJobsQueue` | the composition: work jobs are users of `PriorityTaskQueue` (refinement) | `WorkJobs` |
| `MCWorkJobs` | instances for TLC | `WorkJobsQueue` |
| `WorkJobsProofs` | theorems about `WorkJobs` and its queue | `WorkJobsQueue` |
| `AgentLifecycle` | abstract: in which collection a process may be after which | |
| `AgentScheduler` | `core/agent/scheduler.py`, `process.py`, and boot, shutdown, spawn and kill of `kernel.py`; refines `AgentLifecycle` | |
| `MCAgentScheduler` | instances for TLC | `AgentScheduler` |
| `CircuitBreaker` | `core/llm/circuit.py`, as operators on one breaker | |
| `LLMRouter` | `chat()` of `core/llm/router.py` | `CircuitBreaker` |
| `MCLLMRouter` | instances for TLC | `LLMRouter` |
| `LLMRouterProofs` | theorems about `LLMRouter` | `LLMRouter` |
| `AgentContext` | `run_stream` of `core/agent/loop.py`, `core/agent/compaction.py`, the messages of `core/checkpoint/manager.py`, the resume route of `api/routers/work.py` | |
| `MCAgentContext` | instances for TLC | `AgentContext` |
| `AgentContextProofs` | theorems about `AgentContext` | `AgentContext` |
| `RunEngine` | `core/run/engine.py`, `core/run/checkpoint.py` and their callers | |
| `MCRunEngine` | instances for TLC | `RunEngine` |
| `RunEngineProofs` | theorems about `RunEngine` | `RunEngine` |
| `AutoscaledPool` | `core/scheduler/autoscale.py`: state and methods, without users | |
| `ToolExecutor` | `core/tools/executor.py`, `policy.py`, `retry.py`, `ToolRegistry.execute`: the users of the pool | `AutoscaledPool` |
| `MCToolExecutor` | instances for TLC | `ToolExecutor` |
| `ToolExecutorProofs` | theorems about `ToolExecutor` and the pool | `ToolExecutor` |
| `ChangeSets` | `core/code/diff.py`, `harness/changeset_journal.py` and their routes | |
| `MCChangeSets` | instances for TLC | `ChangeSets` |
| `ChangeSetsProofs` | theorems about `ChangeSets` | `ChangeSets` |
| `A2ARequests` | abstract: what a request is promised | |
| `A2ABus` | `core/agent/messaging.py`; refines `A2ARequests`; it is small enough to be run as it is | |
| `AgentKernelProofs` | theorems about the two parts of the kernel with a state of their own, `AgentScheduler` and `A2ABus` | both |

A definition whose comment begins with "Mutant" is not part of any specification: it is a plausible bug of the
definition that follows it, and shows that the properties can fail.

### PriorityTaskQueue

Each public method holds one `threading.Condition` from the first line to the last, so a method is one action. The
exception is a `get(timeout)` on an empty queue, which waits: `GetBlocks` goes to sleep, and `GetWakes`,
`GetSleepsAgain` and `GetTimesOut` are what the loop does after the wait. A sleeping thread may wake up
without having been notified, as its timeout may end at any time.

| Code | Model |
|---|---|
| `_heap` | `heap[p]`, a bag of entries (task and retry count); the order is that of `Priority`, ties are open |
| `_forefront` | `forefront[p]`, a sequence popped at its right end |
| `_active` | `active[p][t]`: retry count and start time, or `None` |
| `_fingerprints`, `_shutdown` | `fingerprints[p]`, `shutdown[p]` |
| ZSET and HASH of queue and active items | `redisQueue`, `redisActive`; each pair is written by one MULTI/EXEC and therefore agrees |
| a Redis error, which the code swallows | `Applied(S)`: any subset of the commands takes effect when `RedisMayFail` |
| the consumer of the class docstring | `wpc[w]`, `hand[w]`: idle, sleeping, notified, holding, running |
| time | `now`, advanced by `Tick` up to `MaxTime` |
| history | `fate[t]`: what has become of a task; only properties read it |

`ReclaimStale` is the whole method: the step over the memory and the step over Redis, with their two different
thresholds (exclusive in memory, inclusive in Redis), the retries and the notify_all. `Crash` loses the memory and
the threads of one process and keeps Redis; a new process starts, whose `__init__` reads nothing back.

Left out: statistics, `peek`, `qsize`, `get_stats`, the process-wide singleton, and the branches that tidy up a
ZSET entry without its HASH entry. A worker calls the methods in the documented order; the model has no worker that
reports a task it was never given.

### WorkJobs

One event loop runs routes, jobs and streams: an action goes from one await to the next. `GetPermit` is the
acquisition of the semaphore and `mark_active`; the item then keeps the event loop (`loop`), and one of `StartRun`,
`StartCancelled`, `StartBlocked` or `StartRaises` is the code up to the next await, or up to the end. After that the
run gets events (`RunErrs`, and events that change nothing), and ends in one of four ways.

| Code | Model |
|---|---|
| items in the queue's heap, in its `_active` | `queued`, `active`, `retry` |
| tasks that wait for the semaphore (FIFO) | `waiting` |
| tasks inside `run_work_stream` | `running` |
| `WorkSession.status` on disk | `status[s]` |
| `_active_sessions`, `_cancelled_sessions`, `_event_tails` | `activeSessions`, `cancelled`, `tails` |
| `stop_work_job_worker_async`, a restart | `Stop`, `Restart`; `outcome` becomes "cut" or "lost" for what they interrupt |

`WorkJobs` keeps of the queue two sets of items. That this is right is a property: `QueueProtocol` maps the state to
that of `PriorityTaskQueue`, with every Redis command failing (work jobs use no Redis) and each job as a
worker: each step of the jobs is a step of the queue, or leaves it alone. TLC checks it, and `QueueIsDriven` proves it
for as long as the worker is not stopped: a stop forgets the jobs that wait for a permit, which no method of the queue
does. The variables of the mapping have names (`HeapOf`, `ActiveOf`, `PcOf`, `HandOf`, `FateOf`).

Left out: step and progress fields, `_APP_STATES`, the event log, the `task_type != "work"` branch of the loop (such
an item is marked done at once), and the routes that only list. The pipeline of `run_work_stream` is reduced to what
decides the status: an error event, an exception, the refusal of the input, and the regular end, which may leave the
session completed or failed whatever the error events were (deliveries outweigh some errors, repairs add others).

### AgentScheduler and AgentLifecycle

The five collections and the field `state` of each process are separate variables, as in the code, where they are
updated by separate statements and can disagree. An `asyncio.Lock` that is free is acquired without an await, and no
method but `suspend` awaits anything else while it is at work, hence a method is one action; `Suspend` and
`SuspendEnds` or `SuspendFails` are the two halves around `storage.set`.

`Legal` is the table of `AgentProcess.transition`. Where the code would raise `ValueError`, the action shows what is
left behind: `Yield`, `Resume`, `Block` of a ready process, `SuspendPop` of a blocked one, and the second victim of a
preemption all leave a process in no collection. `LoopTick` is the scheduler loop: it acquires the lock and awaits a
method that wants it; `stuck` is true from then on, and all methods wait. That is why the only actions that
remain are those that need no lock (`SpawnWaits`, `SuspendFails`, `Boot`, the beginning of a shutdown).

`AgentLifecycle` is the promise to the outside: from which collection a process may move to which. `Place(p)` is the
refinement mapping; "gone" is a process that no collection holds.

Left out: counters, the CFS order among ready processes of one priority, `checkpoint()` (it changes nothing),
numeric limits (any running or blocked process may be over its limit at any time), inherited capabilities, and a
resume from the storage (it ends in the same `ValueError`). One `shutdown()` is at work at a time.

### CircuitBreaker and LLMRouter

Each method of a breaker holds that breaker's lock, so it is an operator on its record and the clock, and the action
that calls it is one step. Each begins with `MaybeHalfOpen`. The router calls them from threads. It holds its own
lock while a list comprehension asks one breaker after the other, and results are reported without that lock; so
`Check` is one element of the comprehension, and `Succeeds`, `Fails`, `Raises`, `GetState`, `Reset` and `Tick` of
others come between.

| Code | Model |
|---|---|
| `_BreakerState` of each entry | `breaker[p]`; `last_failure_time` is never read |
| locals of `chat()` | `pc[c]`, `at[c]`, `tried[c]`, `attempts[c]` |
| `self._lock`, the list comprehension | `Locked`, `checked[c]`, `available[c]` |
| `_strategy` | `ByStrategy`: the first available one for FAILOVER, any for the others |
| the capabilities a request requires | `Picks`: the choice is among the available ones that match, or among all of them if none does; `Matching` has the sets of providers that some request may match |
| an `LLMError`; another exception | `Fails`, reported to the breaker; `Raises`, reported to nobody |
| `time.monotonic()` | `now` |
| history | `trip[p]`: when a breaker was last opened; `probes`: calls let through in this half-open period |

Left out: what `chat()` does before the first choice and after the call (limiter, cache, guardrails, billing), which
touches no breaker; registration, so the entries are fixed; weights and scores.

### AgentContext

The loop and the task that compacts in the background share one event loop, so an action is what happens between two
awaits of either. `Check`, `Await` and `Compact` are the part of the loop that follows each result of a tool.

| Code | Model |
|---|---|
| `messages_for_llm` | `messages`: kind, answer it belongs to, number of calls, and size of each |
| `_ckpt_offset`, `entry.messages` | `offset`, `log` |
| the task of `BackgroundCompactor`, `msgs_copy`, `_bg_result` | `task`, `snapshot`, `result` |
| `compact_with_escalation`: summary, window, truncation | `Compactions`: `Summaries`, `Level2`, `Level3`; whether the LLM finds a summary is open |
| `_aflush_step`, `areplace_messages` | `Flush`, `Replace` |
| `_consecutive_failures`, `_reflect_rounds_used`, `_tool_nudge_used` | `failures`, `reflections`, `nudged` |
| the caller that closes the generator, a cancellation, a crash | `Abandon` |
| the repair that `run_work_stream` makes of a run without artifacts | `Repair`: it goes on from the log |
| `work_resume_run` with `_build_resume_state_from_events` | `Resume`: it goes on from the events, `EventsLeft`, one message for each (`Rebuilt`), up to `MaxEvents` of them |
| the events that a resume uses, of this attempt and of those before | `told`, `earlier`: an attempt numbers its events from 1 and replaces what has these numbers |
| history | `base` and `held`: the part of the conversation, and of the log, that was there when the attempt began with something else than the log; `head`; `cut` |
| `_cleanup_expired_locked` | `Expire` |

A conversation can begin in three ways. `Fresh` is system prompt and request, which are logged at once. `Repair` takes the
log and adds a prompt. `Resume` neither reads the log nor adds to it: what it rebuilds passes for logged
(`_ckpt_offset` is its length), and what the attempt adds is appended to whatever the log holds. So the log is `held`
followed by the conversation from `base` to `offset`, and that is what `LogExact` says. If the events give no
messages, the route takes `messages_so_far` of the checkpoint, which the run engine has made of the same events, in the
same way; `EventsLeft` stands for both.

Levels two and three are written as what their loops compute (the longest conversation that fits), not as loops.
Left out: what messages say, `run()` (the variant without a stream), hooks, tools that are degraded, and failing
writes of the manager to Redis or its file.

### RunEngine

One run with several attempts. Each call of the store is a transaction of its own, and a step; an attempt is at one of
the places `waiting` (at a yield or for its source), `save`, `handle` and `rescue` (the `except` block), `closing` and
`finishing` (the `finally` block).

| Code | Model |
|---|---|
| `runs.status`, `run_events`, `run_checkpoints` | `status`, `log`, `checkpoint` |
| `_seq`, `messages_acc`, `final_status` | `seq`, `talked`, `final` |
| `INSERT OR REPLACE` with the key (run, seq) | `Log`: the entry of that number is replaced, whoever made it |
| `GeneratorExit`, `CancelledError` | `Abandon`: neither is an `Exception`, so only `finally` runs |
| an exception of the store | `Refuse`, at each place where the store is called |
| `work_resume_run` | `Resume`: guarded by the log, not by the status |

Left out: what events say, artifacts and steps, and the code channel.

### AutoscaledPool and ToolExecutor

The pool has no threads of its own: `AutoscaledPool` gives its state and what each method does to it, and
`ToolExecutor` says who calls it when. Threads are real here, so what one lock covers is a step: `acquire` is three of
them (`maybe_adjust`, reading the semaphore, waiting for it), and `maybe_adjust` is two, since it reads the
configuration before it takes the lock.

| Code | Model |
|---|---|
| `_current_concurrency`, `_semaphore` | `concurrency`, `current`; `permits[s]` of every semaphore that was ever made |
| `_latency_window`; CPU, memory and the clock | `samples`; any outcome of `maybe_adjust` once there are enough samples |
| `ToolPolicy._cache`, `_approvals` | `cache` in the order of insertion, `approvals` |
| `_approved` among the arguments of a call, `FNIX_TOOL_AUTO_APPROVE` | `vouched[t]` for the calls in `Vouched`, `AutoApprove` |
| `_step_counter`, the attempt, `retry_policy` of a tool | `steps`, `tries`, `Retried`: a tool without a policy is tried once |
| the `ThreadPoolExecutor` and its futures | `jobs`, `closed`; the pool's threads are `StartJob` and `FinishJob` |
| `future.result(timeout)`, `future.cancel()` | `Deliver`, `TimeOut`: an execution that has begun goes on, and takes effect later |
| `ToolRegistry.execute`, called by the agent loop | `Run` and `RememberRun` in the thread of the loop |

A tool reads, overwrites or deletes one file of its caller's workspace. The gate lets a destructive call through for any of
three reasons (`Allowed`): its own arguments, the setting, or an approval of its key. `_approved` is taken out of the arguments
before the key is made of them, so a call with it and one without share answers and approvals. Left out: hooks, spans, audit, back-off times,
and `execute_parallel`, which only chooses the threads. A read that returns `None` is not taken for a hit by
`ToolRegistry.execute`; the model has no such tool. `update_config`, `reset` and `shutdown` have no caller in the repository;
`Manage` calls them all the same, as any user of the pool may.

### ChangeSets

The routes await nothing while they work, so the server handles one request after the other; the user's editor
(`Edit`) and the end of the process (`Crash`) come in between. An operation on one file is a step.

| Code | Model |
|---|---|
| `FileChange` with its type | `Change`: old and new content; a creation has no old one, a deletion no new one |
| `_check_conflict` of all changes | `Fits`, `Check`; a deletion is not compared with the disk |
| `_apply_one`, `_rollback_one`, and the loop over `reversed(applied)` | `ApplyOne`, `RestoreOne` |
| `write_text` that raises or is cut short | `Fault`: nothing is changed, or the file is `Torn` |
| `<id>.json`, `latest.json` | `saved`, `latest`; the first is moved into place, the second written in place |
| `rollback_persisted_async` | `Undo` with `Inverse`, in the order of the changes |

Left out: paths outside of the workspace, diffs, and the engine's own history and `rollback()`, which nothing calls.

### A2ABus and A2ARequests

The bus has one event loop and queues without a limit, so only `receive` and `request_response` wait. A receive waits
on the queue that was the mailbox when it began. `unregister` takes that queue away: a receive that a put has woken
already still takes its first message from there (`woken`, `DeliverOld`), any other one is stranded until it times out. `caller[r]` is where the call of
`request_response` is, or what it returned; a message is the name of its request, or "event". `A2ARequests` has two
variables only, the caller and the first reply; the mapping is `first <- future`. `AskTimesOut` may take place when a
reply has just been accepted, as `asyncio.wait_for` does from Python 3.12 on.

Left out: cards and `discover()`, which change no state, and topics, to which nobody subscribes.

## 3. The runs

### Runs that pass

| Run | Question | Instance |
|---|---|---|
| `QueueThreads` | Does put wake enough threads? Is there ever a second copy of a task? Does Redis list what the memory holds? Do fingerprints keep duplicates out? Does each accepted task settle? (`TypeOK`, `NoLostWakeup`, `OneCopy`, `MirrorExact`, `Dedup`, `EveryTaskSettles`) | one process, two fair threads, three tasks, one retry, three ticks, one call of clear or reset |
| `QueueCrash` | Is what was marked active ever lost, when processes crash, reclaim and report each other's tasks? (`ActiveRecoverable`) | two processes with a thread each, two tasks, two crashes, four ticks |
| `JobsSessions` | Do jobs, sessions and flags agree? (`OnePlace`, `OpenSessionHasJob`, `FlagsHaveJobs`) | three jobs of two sessions, two permits, one retry, one stop, one restart |
| `JobsSettle` | Is each job done or given up, and do the jobs use the queue as it is meant to be used? (`EveryJobSettles`, `QueueProtocol`) | three jobs, one permit, one restart, fairness |
| `SchedulerStates` | Do collections and states agree, do processes move as the abstract specification says, and does a shutdown end? (`Consistent`, `ImplementsLifecycle`, `ShutdownIsOver`) | three processes of three priorities, both loops, failing storage, fairness |
| `RouterFailover` | Does an open breaker hold whatever is reported to it, do the counters stay below the thresholds, is each provider called once, does `chat()` end? (`Counted`, `OnceEach`, `OpenHolds`, `ChatEnds`) | two threads, three providers, requests that match all of them or the last two, three calls, one failover, one reset, one tick, opens after one failure, closes after two successes, FAILOVER, fairness |
| `AgentContext` | Is the log the conversation, whatever is compacted when? What does an abandoned run lose, and what does a resume make of it? Does an older conversation come back? Does every attempt end? (`LogExact`, `OneRoundAtRisk`, `SnapshotPrefix`, `HeadKept`, `AttemptEnds`) | two attempts of two steps, the second one a repair or a resume from up to six events; two calls in an answer, small and large results, thresholds 7 and 10, one expired entry, fairness |
| `RunResume` | Is what was yielded logged, is the status that of the attempt that finished last, how far behind is the checkpoint, does each attempt end? (`AllLogged`, `SettledStatus`, `CheckpointKeepsUp`, `AttemptEnds`) | two attempts that may overlap, six events each, a checkpoint every two, one refusal of the store, fairness |
| `ToolCalls` | Does the pool serve as many calls as it says, are steps and attempts bounded, does the permission of one call let another one through, is the cache sound, does every call end? (`CurrentServes`, `StepLimit`, `CacheSound`, `Gated`, `CallEnds`) | two executor threads and a loop, one tool that reads and is retried, one that deletes in another workspace, with or without `_approved`, and is not; one permit that may become two, two steps, two attempts, a cache of one, one approval, fairness |
| `ChangeSetsUndo` | Is a set applied or taken back as a whole, does the journal name what can be undone, does an undo give back what was there, is anything overwritten unseen? (`AllOrNothing`, `LatestIsSaved`, `UndoRestores`, `NoBlindWrite`) | two files with two contents, one of them missing at first, three previews in two sets, one undo, one edit, one failing write or crash |
| `BusRequests` | Does a request return its first reply or nothing, once? Is a message lost or doubled, when a mailbox is unregistered under a receive? What stays in the table? (`PendingExact`, `Conserved`, `KeepsPromise`) | two agents, two requests, two types of reply, two events, two calls of unregister |

`TypeOK` is checked for `PriorityTaskQueue`; for the other modules it is proved (section 5).

`CHECK_DEADLOCK FALSE` is set in all of them: every task or job of an instance may have been submitted and
finished, every `chat()` made, every process may be terminated, both attempts over, every preview accepted or refused,
every request answered; there is nothing left to do then.

### Why the bounds are enough

- *Two threads, two processes.* A lost wakeup needs a thread that is notified and one that stays asleep. A conflict
  over Redis needs a process that reclaims and one whose task it was.
- *Three tasks or jobs.* Two that share a fingerprint (or a session), and one that does not, with the other priority
  or with forefront set. Three are also more than the threads, so that the queue is longer than its readers.
- *One retry.* Tells the first attempt, the last one and the drop apart.
- *Clock 1..3 or 1..4, stale after 1.* A task can be younger than the threshold, exactly as old, older, and can be
  reclaimed a second time. It is needed that both thresholds differ in some state.
- *Two crashes.* Either process may crash, and one may crash again after it has reclaimed.
- *One stop, one restart.* A second one finds the state that the first one leaves, or an empty one.
- *Three processes* of priorities 0, 2 and 4: one that is preempted, one that preempts, one that is
  REALTIME; and two victims of one preemption, or a parent with a child and a grandchild.
- *Three providers, one failover:* so that a third one may be available when no failover is left. *Three calls of
  `chat()`*: one that opens a breaker and two successes that close it; or a late one that overlaps two others. *One
  tick* is the recovery time; the theorems have no such bounds.
- *Two steps, two attempts, six events to resume from.* A compaction that begins in the first step is taken in the second. The second
  attempt is a repair, from a log that may have expired, or a resume of an attempt that was abandoned anywhere, with the events
  of a whole round of one tool, or of a second tool that was begun. Results of one and four tokens, against thresholds of 7
  and 10, reach each of the three levels, the wait for the background, and the conversation that has outgrown its summary,
  also in an attempt that was resumed. That a third attempt finds events of two before is left to the theorems.
- *Two attempts, six events.* The second is a repair, a resume after the end, or one that overlaps the first and
  overtakes it; six events are a round of calls with its text and "done", with three checkpoints. The refusal may
  hit any call of the store.
- *Two executor threads, one permit that may become two.* One waits for a semaphore that the other replaces, or its
  release meets another one than it has acquired. The loop shares cache and approvals without a permit. Two steps, two attempts: one below the limit and one above it.
  A call that its arguments allow, and that fails or times out, comes before one that they do not allow, and before or after
  the one approval.
- *Two files, three previews.* A set of two files, or of one file twice, and another set; a fault at either file,
  at either entry of the journal, or while another one is taken back.
- *Two agents, two requests.* A mailbox with both requests, and replies to both in either order.

### Mutants

For every property of a passing run `PROJECT.json` names a mutant of the model, such as a batch that wakes one
thread only, a reclaim that does not look at what was taken already, a retry that is not counted, a `finally` block
without one of its lines, a `get` in place of a `pop`, a
breaker that is half open too early. TLC finds each property violated with its mutant.

### The run that is violated

`AgentContextPairs` checks one sentence of the code's own comments; see section 6.

## 4. Fairness

All fairness is weak.

- *Queue* (`FairSpec`): a thread that can take an item does; one whose wait has been notified or has timed out is
  scheduled; a worker that has taken an item marks it and reports its end, with success or without. Nothing is
  assumed of producers, of `reclaim_stale`, of the clock or of `clear`. So a task settles by its workers alone.
- *Jobs*: the worker loop polls for ever; a free permit wakes the first waiter; the event loop goes on with the task
  it is running; and a stream ends or raises. The last one is justified by the bounded rounds of the agent and the
  timeouts of its calls. Nothing is assumed of routes, stops and starts. `EveryJobSettles` therefore excuses a
  stopped worker.
- *Scheduler*: an await of the storage ends, the body of `shutdown()` goes on, the loops wake up again. Nothing is
  assumed of the callers of the other methods. `ShutdownIsOver` excuses the case in which the scheduler loop has
  taken the lock for good, and `shutdown()` waits for ever (that is `LoopSchedules` in section 6).
- *Router*: a thread that waits for the lock or holds it goes on, and the call of a provider ends
  (`core/llm/providers/openai.py:61` gives it a timeout). The lock need not be fair: it is held only while a list is
  made, and `MaxChats` bounds how often others take it.
- *Agent loop*: the loop goes on, as its LLM and its tools answer or time out, and the event loop runs the task in the
  background. Nothing is assumed of the user who abandons a run, nor of what results there are.
- *Run engine*: an attempt goes on (`Proceed`): its source has a bounded number of steps, and a client takes what is
  yielded or leaves, which ends the generator. Nothing is assumed of failures, resumes and crashes.
- *Tools*: an executor thread goes on, and its time-outs come. Nothing is assumed of the tools, nor of the
  threads that run them: `CallEnds` holds with a thread pool full of tools that never end. It excuses a thread that waits
  for a semaphore which was replaced (`Stranded`), and may wait for ever.
- *Change sets and bus*: no fairness; their loops are over what is given, and each wait has a time-out.

## 5. What is proved

| Theorem | Says |
|---|---|
| `PriorityTaskQueueProofs!TypeCorrect` | `Spec => [](TypeOK /\ HandsFull)` |
| `PriorityTaskQueueProofs!WakeupsReach` | `Spec => []NoLostWakeup` |
| `PriorityTaskQueueProofs!TasksRecoverable` | `~RedisMayFail => (Spec => []ActiveRecoverable)` |
| `PriorityTaskQueueProofs!NeverTwice` | `Solitary => (Spec => []OneCopy)` |
| `PriorityTaskQueueProofs!MirrorStaysExact` | `Undisturbed => (Spec => []MirrorExact)` |
| `PriorityTaskQueueProofs!NoDuplicates` | `Undisturbed /\ OwnFingerprints => (Spec => []Dedup)` |
| `WorkJobsProofs!QueueIsDriven` | `Spec /\ [](stops = 0) => QueueProtocol` |
| `WorkJobsProofs!TypeCorrect` | `Spec => []TypeOK` |
| `WorkJobsProofs!JobInOnePlace` | `Spec => []OnePlace` |
| `WorkJobsProofs!SessionsAreClosed` | `Spec => []OpenSessionHasJob` |
| `WorkJobsProofs!FlagsExpire` | `Spec => []FlagsHaveJobs` |
| `AgentKernelProofs!TypeCorrect` | `Spec => []TypeOK` |
| `AgentKernelProofs!CollectionsConsistent` | `Spec => []Consistent` |
| `AgentKernelProofs!LifecycleRefined` | `Spec => ImplementsLifecycle` |
| `LLMRouterProofs!TypeCorrect` | `Spec => []TypeOK` |
| `LLMRouterProofs!ThresholdsKept` | `Spec => []Counted` |
| `LLMRouterProofs!OpenBreakersHold` | `Spec => OpenHolds` |
| `LLMRouterProofs!ProvidersOnce` | `Spec => []OnceEach` |
| `AgentContextProofs!TypeCorrect` | `Spec => []TypeOK` |
| `AgentContextProofs!LogIsTheConversation` | `Spec => []LogExact` |
| `AgentContextProofs!OneRoundIsAtRisk` | `Spec => []OneRoundAtRisk` |
| `AgentContextProofs!SnapshotIsPrefix` | `Spec => []SnapshotPrefix` |
| `AgentContextProofs!HeadStays` | `Spec => []HeadKept` |
| `RunEngineProofs!TypeCorrect` | `Spec => []TypeOK` |
| `RunEngineProofs!EventsAreLogged` | `Spec => []AllLogged` |
| `RunEngineProofs!StatusSettles` | `Spec => []SettledStatus` |
| `RunEngineProofs!CheckpointIsNear` | `Spec => []CheckpointKeepsUp` |
| `ToolExecutorProofs!TypeCorrect` | `Spec => []TypeOK` |
| `ToolExecutorProofs!PoolServes` | `Spec => []CurrentServes` |
| `ToolExecutorProofs!ApprovedOnly` | `Spec => []Gated` |
| `ToolExecutorProofs!CacheIsSound` | `Spec => []CacheSound` |
| `ToolExecutorProofs!StepsLimited` | `Spec => []StepLimit` |
| `ChangeSetsProofs!TypeCorrect` | `Spec => []TypeOK` |
| `ChangeSetsProofs!AppliedOrKept` | `Spec => []AllOrNothing` |
| `ChangeSetsProofs!LatestCanBeUndone` | `Spec => []LatestIsSaved` |
| `ChangeSetsProofs!UndoGivesBack` | `Spec => []UndoRestores` |
| `ChangeSetsProofs!NothingOverwrittenBlindly` | `Spec => NoBlindWrite` |
| `AgentKernelProofs!BusTypeCorrect` | `BusSpec => []BusTypeOK` |
| `AgentKernelProofs!NothingStaysPending` | `BusSpec => []PendingExact` |
| `AgentKernelProofs!RequestsConserved` | `BusSpec => []Conserved` |
| `AgentKernelProofs!PromiseKept` | `BusSpec => KeepsPromise` |

**Assumptions.** Only those the modules name: `QueueAssumption` (finitely many threads and tasks, since they are counted,
each thread in one process, integer priorities, at least one tick, and `None` is no item), `JobsAssumption` (each item has a session and a priority, `None` is no
item, at least one permit), `QueueAbsent` (nor is it a running item) and `SchedulerAssumption` (`None` is no pid, priorities are integers, the switches are
Booleans). `BreakerAssumption` and `RouterAssumption` ask for
thresholds and a recovery time above zero, as the constructor does, and for entries in an order. Sets of items,
sessions, pids, callers and providers are arbitrary; they may be infinite. `ContextAssumption` orders the thresholds
and asks for one message at least to be kept at either end; what `HeadStays` says of an attempt's beginning is as long as that.
`RunAssumption` and `ChangeSetsAssumption` keep the markers (`None`, `Missing`, `Torn`) apart from data.
`PoolAssumption` has the bounds in order, and finitely many users, since permits are counted; `ToolAssumption` gives each
thread one way to call, and each tool one kind. `BusAssumption` keeps the types of replies apart from the places of a
caller.

**PriorityTaskQueue.** Some theorems have a hypothesis on the constants, each met by the run that checks the property,
and each needed:

- `~RedisMayFail`: if the command that takes a reclaimed task out of Redis's active set fails, the second half of the same
  `reclaim_stale` finds it there and queues it again (section 6); if the one of `mark_active` fails, only the process that runs the
  task knows of it.
- `Solitary`, that is one process, and Redis works. With two, a process that has reclaimed a task from Redis
  may do so again while the first copy is still queued, since the other process has run it again in between.
- `Undisturbed`, that is `Solitary` and no crash. A crash empties the memory and not Redis: the mirror is not
  exact then, and a task that comes back from Redis has no fingerprint in the new process.
- `OwnFingerprints`: no task that skips deduplication has the fingerprint of one that does not; its end would discard
  that fingerprint.

`WakeupsReach` needs none of them. `NoLostWakeup` compares what is queued with the threads that are awake, and is
inductive with the types: a `put` adds one entry and wakes one sleeper if there is one, a `get` takes one of either, and
a thread that goes back to sleep, or whose wait ends, has found the queue empty. `HeapCopies` counts copies by the
cardinality of a set of pairs, so that no sum over a function is needed. The last two of these steps rest on `HasTop`: a queue that is
not empty has an entry to deliver. That a finite set of priorities has a largest one would be an induction; the proof
takes instead a minimal set of entries without one, as the strict subsets of a finite set are well-founded.

The other invariants are layers. `HandsFull`: who holds or runs a task has an entry. `Placed`: a task that is new is nowhere, and one that
is run, and not settled, is known to the process that runs it.
`ActiveRecoverable` needs only these: what a process has in `_active` alone is the hazard, and each step that takes
a task out of Redis leaves it in a queue, or settles it. `Apart(p)` is `OneCopy` restated for one process, with one more
fact: what is queued or in hand is not in Redis's active set, so that the second half of `reclaim_stale` cannot find it. `MirrorAt(p)` is
`MirrorExact` for one process and rests on `Apart`. `DedupAt(p)` adds to `Dedup` that the fingerprint of a
task the process knows is in `_fingerprints`: it was written down with the task and is discarded only with its end.
`AddsFacts` and `RemovesFacts` say once what putting entries on heap and forefront, and taking one off, does to the tasks in them.

**WorkJobs.** `OpenSessionHasJob` is not inductive. When a run ends it takes its job away from the session; if the
session stays "pending", which a later enqueue of the same session can bring about, then some other job
must be there. So the invariant `IInv` adds `PendingNotStarted`: a pending session owes it to a job whose run has
not begun. That job is not the one that ends, since a job is in one place only (`OnePlace`). `CancelFlagHasJob`
needs `KnownSession`: a job that was enqueued has a session on disk. One lemma for each action shows that `IInv` is
kept; the ends of a run share one lemma (`EndStep`), as they share the `finally` block in the code. `Stop` and
`Restart` turn jobs into "lost" or "cut", which count as live: the code does leave such sessions open.

`QueueIsDriven` shows for each action which one of the queue it is: `Enqueue` is `PutOne`, `Dequeue` is `Get`, `GetPermit` is
`MarkActive`, the ends are `MarkDoneSuccess` and `MarkDoneFailure`, `Restart` is `Crash`; the others change nothing the queue has.
For that `OnePlace` is not enough: a job that is to be finished must be somewhere, or a restart would lose what the queue
calls active, and the active items must be those that start or run (the other `Placed`, in `WorkJobsProofs`).

**AgentScheduler.** `Consistent`, that is `OneCollection` together with `StateAgrees`, is inductive given the types.
Neither half is by itself: that a process which is popped from the ready ones is not also blocked follows from its
state, and that the state fits follows from the collections being disjoint. The refinement then goes process by
process: `PlaceOf` and `PlaceOfNext` say where a consistent state puts a process, `MovedBy` which moves are the
abstract specification's, and `StepMoves` takes each action in turn.

**LLMRouter.** The lemmas on one breaker come first: what each method keeps (`Update`, `SuccessKeeps`,
`FailureKeeps`), and what becomes of an open one (`StaysOpen`, `OpensNow`). `OpenHolds` is about steps; its invariant
is `TripKnown`: an open breaker has the time at which it was tripped, and any other one was tripped at least a recovery
time ago, never, or was reset. Without its second half a breaker could leave OPEN early and be asked later.
`OnceEach` needs `Tries`: what is on the list has not been tried, so that a choice adds one to what was tried and the
number of attempts keeps up with it.

**AgentContext.** `LogExact` alone is not inductive: that a flush appends just what is missing needs the offset to be
within the conversation, and that a repair may go on from the log needs `held` to be empty by then, as a repair is the
second attempt and no resume comes before it. `IInv` adds `Where`
(what the place of the loop says of attempts, task and calls), `Flushed` (between two steps nothing is at risk; that is stronger
than `OneRoundAtRisk`, which speaks of the time the LLM is called) and `HeadsKept`: what the attempt began with is in front of
the conversation, of the copy in the background, and of what comes back, and it is no longer than what passes for logged, so
that a repair finds it in the log. What a compaction returns is used only through
`CompactionsType`: it is a conversation, and its head is the old one unless it is the third level. How
many tokens it has plays no part, so the theorems hold for any way of counting them. Nor does it matter what a resume
rebuilds, as long as it is messages: `LogExact` needs only that they pass for logged and that `base` is their number.

**RunEngine.** `Counted` (an attempt that goes on has room for one more event, one that has not begun has none) bounds
the numbers. `SettledStatus` falls into `ErrorsFail` (who has logged an error has decided to fail) and `StatusFinal` (once all
have ended, the status is that of the one that finished last), each inductive given `IInv`. `CheckpointKeepsUp` is a
distance that grows with each event: `Near` gives each place a limit of its own for how far the checkpoint may be
behind, with remainders of `seq` by the interval.

**ToolExecutor.** `CurrentServes` counts, and is inductive with the types and `Served` (where a holder is):
`Release` gives a permit to the current semaphore even if it was of an old one, hence the inequality. `Gated` needs `Approved`: everything under
way for a destructive call, in a thread or in the thread pool, has a permission of its own call, also after an approval was spent;
and what is in `approvals` came there through `approve()`, which is why an argument of one call permits no other.
`Waits` (each thread has an execution of its own) lets a finished one be taken off without another thread waiting for
it. `CacheSound` is `Unique`, one entry for a key, with the size. `StepLimit` counts executions, and a count does not see
what is still to come: `Budget` adds to the executions so far those of the threads that have not used theirs up, and `MaxTries` for
each step that is left; a call takes a step and gets its attempts for it, an attempt takes one of them.

**ChangeSets.** `Made` and `Unmade` say what a file is while changes are made and taken back: what the last
change of it up to `next` has made; what the check has seen, an old content, or not restored yet. `Checked`
and `Journal` tie contents to what was there when the set was accepted; for an undo, `work` is the
inverse of the entry. `NoBlindWrite` is a step property and follows from `Checked` and `Made`.

**A2ABus.** `PendingExact` and `Conserved` are inductive with the types; the cases of `Conserved` are those of a
sequence that loses its head or gains an end, and `Unregister` splits one into the head that a woken receive will take and
the rest that is gone (`FirstOfBox`). The refinement is step by step: a reply is the only action that
fills a future, and a return reads it.

**Only model-checked.** Liveness (`EveryTaskSettles`, `EveryJobSettles`, `ShutdownIsOver`, `ChatEnds`, `AttemptEnds`,
`CallEnds`): fairness and `ENABLED` are beyond the prover here. Every safety invariant, every action property and each of the
three refinements that a run checks is also proved.

## 6. Where the code and its words differ

One is a run that TLC finds violated, with a trace of a few steps:

| Run | The words | The code |
|---|---|---|
| `AgentContextPairs` | `compaction.py:418`: pairs of a call and its result stay complete, or the API rejects them | `compaction.py:521` protects pairs in the middle only: the cut in front of the last messages may take the call away from its result, and a round of the window removes the first result of an answer with several |

For the following a property is kept in the module, though in no configuration; TLC refutes each when it is added to the
configuration of that module (`CancelledStops` to `JobsSessions`; for `OneShot` the threads of `ToolCalls` must all delete).

| Property | The words | The code |
|---|---|---|
| `WorkJobs!CancelledStops` | `api/routers/work.py:401-402`: a running job stops, a queued one is removed from the queue | `cancel_job` does nothing for most queued ones, and no queued one is removed; a running one that raises after the request is retried, and the flag is gone |
| `AgentScheduler!ReadyIsAdmitted` | `scheduler.py:165`: `admit` puts a process into the ready queue; `194`: an agent gives the CPU up | `yield_`, `resume` and preemption make the transition to READY themselves, `admit` makes it again and raises, and the process is in no collection |
| `AgentScheduler!LoopSchedules` | `scheduler.py:12`, `111`: schedules in the background | the loop waits for the lock it holds |
| `AgentScheduler!ShutdownCloses` | `kernel.py:195-196`: suspends all living processes, stops the scheduler | a blocked process makes `shutdown()` raise (also when the storage never fails) |
| `LLMRouter!RecoveryProbed` | `circuit.py:114`: enough successful probes come before the recovery | the late success of a call that was let through before the breaker opened is counted, and may itself make the breaker half open: it closes without a probe |
| `AgentContext!ContextRestored` | `api/routers/work.py:942`: system and user messages are replayed; `loop.py:667-668`: the complete conversation is restored | the resume route rebuilds messages from events, and system prompt and request are in none; each tool comes back as two calls and two results of the second one |
| `RunEngine!AppendOnly` | `core/run/checkpoint.py:24`: append-only events | the numbers of a second attempt begin at 1, and its events replace those of the first |
| `RunEngine!CompletedMeansDone` | `api/routers/work.py:932`: what crashed, was stopped or timed out is resumed (those that line 1000 finds running, failed or interrupted) | a generator that is closed runs only `finally`, where `final_status` is still "completed": the run is not offered for a resume |
| `ToolExecutor!OneShot` | `policy.py:145`: explicit one-shot approvals | an approval is a key in a set, and is spent when a call of that key has succeeded: calls that pass the gate before all run |
| `ToolExecutor!FreshRead` | `policy.py`: answers of a call that may be repeated are kept for 120 s | the key has no workspace in it, no write removes an entry, and the cache is one for the process; what a read said before a write, or of another workspace, is the answer |

Two properties hold in `QueueThreads`, and not in every instance:

- With `RedisMayFail`, `PriorityTaskQueue!OneCopy` fails: `priority_queue.py:623` says that items which were dealt with
  in memory are skipped (避免重复), but they are skipped only while they are in `_active`; a retry, or the first step, has taken
  them out and queued them, and if the removal from Redis failed, the second step requeues them again. With a second process it
  fails although Redis works: queued items are not skipped either.
- If the `dont_filter` task has the fingerprint of the others, `Dedup` fails (`Forgotten`): the end of any task discards its
  fingerprint (`priority_queue.py:481`), also that of a `dont_filter` task, which never added it; another queued task with that
  fingerprint is then no longer protected, although line 10 says that a fingerprint is not queued twice.

The models also have the following behaviour, which can be read off one definition:

- `Crash`: a task that is queued when its process dies stays in Redis and is never read back, although
  `priority_queue.py:2` speaks of persistence and crash recovery; only active tasks are recovered.
- `GetWakes`: the loop in `get()` does not look at the shutdown flag after the wait, so a blocked thread may take one
  more item, although `priority_queue.py:764` says that blocked threads check the flag and leave.
- `StaleHere`: `reclaim_stale` compares with the threshold of the queue and not with the item's `timeout_seconds`,
  which `priority_queue.py:74` says is meant for it.
- `Finally`: `_active_sessions` is a set of sessions, so of two running jobs of one session the first to end takes
  the session off the list (`work_jobs.py:150` calls it the list of the running jobs).
- `Dequeue`: a job leaves the queue before a permit is free; jobs of higher priority then queue up behind it.
- `Reached`: `terminate` passes over a child whose suspension is under way (`scheduler.py:233` says that children
  are terminated), and the child is suspended afterwards.
- `Level3`: `deterministic_truncate` keeps the end only, although `compaction.py:576` says that the system
  prompt is kept; `keep_first_n` is not used. `cut` marks such a conversation.
- `Swappable`, `Await`: the result of the background replaces the conversation with what has been appended since the
  copy was made; those messages are lost (they are out of the log as well, so the log agrees).
- `Check` asks for a compaction when the size is at the threshold, `Compactions` makes one when it is above.
- `Expire`: the hour of an entry begins when it is made, so the log of a task that runs for longer vanishes.
- `Approve`: nothing in the repository calls `approve()`; today a destructive tool runs by the arguments of its call or by the setting.
- `Count`: `core/config.py:75` speaks of the rounds of one task, but `reset_step_counter` is never called; the
  counter is one for the executor's life.
- `Release`: the permit of a replaced semaphore goes to the current one (`autoscale.py:272-273` says otherwise), so
  there may be more permits than the concurrency says; `Stranded`: who waits for a replaced semaphore may wait for ever.
- `TimeOut`: the tool goes on, and its effect may come after that of the retry.
- `ApplyOne`: the file at which a change set fails is not among those that are restored (`diff.py:123-124` says
  all or nothing); `RestoreOne` passes over exceptions; `Fits` does not compare a deletion with the disk.
- `Crash` of `ChangeSets`: a set that is applied and not yet in the journal cannot be undone; the same holds if
  `save_changeset` fails, which is only logged.
- `Inverse` keeps the order of the changes: a set that changes one file twice cannot be undone. `AllApplied`: the undo
  of any set removes `latest.json`, whichever set it names.
- `Ask`: a request to an agent that is not registered leaves its future in `_pending_requests` for good.

## 7. What is not modelled

- Language-model calls, prompts, ranking, documents, user interfaces: content, not state.
- Storage services: their behaviour is that of the database. `session.py` writes one file for each update, which the
  model takes as atomic since the callers share an event loop.
- Everything marked `not_modelled` in `PROJECT.json`; the parts that keep state come next.
- The limiter, the cache, the budget and the guardrails around `chat()`: they run before the first provider is chosen or
  after the last one has answered, and share no state with the breakers.
- Most of the repository's lines are of these kinds: assembling prompts, parsing documents, rendering, routing requests to
  a service, calling a database. They hold no state that outlives a call, or leave it to the database.
- Inside the modelled components: what section 2 lists as left out.

## 8. Plan

Done: the queue, the jobs on top of it, the scheduler with its kernel, the router with its circuit breakers, the
conversation of the agent and its log, the run engine, the tools with their policy and pool, change sets with their
journal, the bus; proofs for all of them.

What is left, in this order:

1. The composition of `AgentContext` with `RunEngine`: events that the store refuses, and attempts that overlap, in what a
   resume rebuilds (`EventsLeft` has the events of attempts that follow each other).
2. The endpoint pool (`core/adapters/endpoint_pool.py`) and the limiter (`core/llm/limiter.py`): health of endpoints
   and tokens under concurrent calls.
3. `Leases` (`core/security/leases.py`), the token blacklist, the `Confirmer` (`tasks`): expiry against use, and a
   confirmation that comes late or twice.
4. The ratchet of the evolver (`core/flywheel`), and the snapshots of the workbench.
