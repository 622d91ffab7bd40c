--------------------------- MODULE AgentScheduler ---------------------------
(***************************************************************************)
(* core/agent/scheduler.py and process.py, and the part of kernel.py that  *)
(* drives them: the processes of the agent kernel, the five collections    *)
(* of the scheduler, its lock, and the two background loops.               *)
(*                                                                         *)
(* Everything runs on one event loop.  The lock is an asyncio.Lock: to     *)
(* acquire it when it is free does not give the event loop up, and only    *)
(* the scheduler loop ever awaits while it holds the lock: it awaits that  *)
(* same lock, and nobody frees it again.  A method is therefore one        *)
(* action, except suspend(), which awaits the storage; and once the lock   *)
(* is held, methods only wait (a spawn has registered its process by       *)
(* then).                                                                  *)
(*                                                                         *)
(* AgentProcess.transition raises ValueError for a change that its table   *)
(* does not list.  The methods take a process out of its collection before *)
(* they call it, and do not put it back when it raises.                    *)
(*                                                                         *)
(* Left open: cpu_time_ms and the order of arrival, which decide among     *)
(* ready processes of one priority; the limits, which may be exceeded at   *)
(* any time; the capabilities a parent may pass on.  Cold resume (from the *)
(* storage) ends in the same ValueError as a warm one and changes nothing. *)
(***************************************************************************)
EXTENDS Integers, FiniteSets

CONSTANTS
    Pid,             \* pids (uuid4)
    None,            \* no pid
    Priority,        \* Priority[p]: the nice value
    Realtime,        \* AgentPriority.REALTIME
    PreemptEnabled,  \* preempt_enabled
    LoopEnabled,     \* enable_scheduler_loop of the kernel
    StorageMayFail   \* may storage.set raise?

ASSUME SchedulerAssumption ==
    /\ None \notin Pid
    /\ Priority \in [Pid -> Int]
    /\ Realtime \in Int
    /\ PreemptEnabled \in BOOLEAN /\ LoopEnabled \in BOOLEAN /\ StorageMayFail \in BOOLEAN

VARIABLES
    state,       \* AgentProcess.state, "none" before the process exists
    childPids,   \* child_pids, as a set
    ready, running, blocked, suspended, terminated,  \* the five collections
    admitting,   \* spawned, and waiting for the lock in admit()
    suspending,  \* in suspend(), waiting for storage.set
    up,          \* have the two loops been started?
    stuck,       \* does the scheduler loop wait for the lock it holds?
    booted,      \* the kernel's _booted
    closing,     \* is the kernel in shutdown()?
    todo,        \* pids that shutdown() has still to suspend
    waitFor      \* the pid whose suspension shutdown() awaits, or None

collections == <<ready, running, blocked, suspended, terminated>>
shutdownVars == <<closing, todo, waitFor>>
kernelVars  == <<up, stuck, booted>>
vars == <<state, collections, childPids, admitting, suspending, kernelVars, shutdownVars>>

States == {"none", "READY", "RUNNING", "BLOCKED", "SUSPENDED", "TERMINATED"}
Alive  == {"READY", "RUNNING", "BLOCKED", "SUSPENDED"}

\* Mutant: a ready process may be blocked.
LegalLax(from) ==
    CASE from = "READY"     -> {"RUNNING", "BLOCKED", "TERMINATED", "SUSPENDED"}
      [] from = "RUNNING"   -> {"READY", "BLOCKED", "SUSPENDED", "TERMINATED"}
      [] from = "BLOCKED"   -> {"READY", "TERMINATED"}
      [] from = "SUSPENDED" -> {"READY", "TERMINATED"}
      [] OTHER              -> {}

\* The table of AgentProcess.transition.
Legal(from) ==
    CASE from = "READY"     -> {"RUNNING", "TERMINATED", "SUSPENDED"}
      [] from = "RUNNING"   -> {"READY", "BLOCKED", "SUSPENDED", "TERMINATED"}
      [] from = "BLOCKED"   -> {"READY", "TERMINATED"}
      [] from = "SUSPENDED" -> {"READY", "TERMINATED"}
      [] OTHER              -> {}

Found == ready \cup running \cup blocked \cup suspended

TypeOK ==
    /\ state \in [Pid -> States]
    /\ childPids \in [Pid -> SUBSET Pid]
    /\ ready \subseteq Pid /\ running \subseteq Pid /\ blocked \subseteq Pid
    /\ suspended \subseteq Pid /\ terminated \subseteq Pid
    /\ admitting \subseteq Pid /\ suspending \subseteq Pid
    /\ up \in BOOLEAN /\ stuck \in BOOLEAN /\ booted \in BOOLEAN /\ closing \in BOOLEAN
    /\ todo \subseteq Pid
    /\ waitFor \in Pid \cup {None}

Init ==
    /\ state = [p \in Pid |-> "none"]
    /\ childPids = [p \in Pid |-> {}]
    /\ ready = {} /\ running = {} /\ blocked = {} /\ suspended = {} /\ terminated = {}
    /\ admitting = {} /\ suspending = {}
    /\ up = FALSE /\ stuck = FALSE
    /\ booted = FALSE /\ closing = FALSE
    /\ todo = {} /\ waitFor = None

-----------------------------------------------------------------------------
(* The lock and the event loop; admit and _try_preempt *)

\* shutdown() has the event loop, except while it awaits a suspension.
Closing == closing /\ waitFor = None /\ ~stuck

\* Another method may run, and finds the lock free.
Free == ~stuck /\ ~Closing

Victims(p) ==
    IF ~PreemptEnabled THEN {}
    ELSE {r \in running : Priority[p] > Priority[r] /\ Priority[r] # Realtime}

\* Mutant: the victims leave the running ones after their transition and
\* admit(), that is to say never, as admit() raises.
AdmitLate(p) ==
    /\ ready' = ready \cup {p}
    /\ running' = running
    /\ IF Victims(p) = {}
       THEN state' = [state EXCEPT ![p] = "READY"]
       ELSE \E v \in Victims(p) : state' = [state EXCEPT ![p] = "READY", ![v] = "READY"]

\* Process p, new or blocked, becomes ready.  The victims of its preemption
\* leave the running ones; admit() of the first, which is READY by then,
\* raises, and nothing more happens to the others.
Admit(p) ==
    /\ ready' = ready \cup {p}
    /\ running' = running \ Victims(p)
    /\ IF Victims(p) = {}
       THEN state' = [state EXCEPT ![p] = "READY"]
       ELSE \E v \in Victims(p) : state' = [state EXCEPT ![p] = "READY", ![v] = "READY"]

-----------------------------------------------------------------------------
(* kernel.spawn *)

\* A new process, of no parent or of one that the kernel lists, alive or not.
Registered(p, par) ==
    /\ state[p] = "none"
    /\ par \in Pid => state[par] # "none"

\* The child is recorded after admit(), unless that raises.
Adopted(par, p) ==
    IF par # None /\ Victims(p) = {} THEN [childPids EXCEPT ![par] = @ \cup {p}] ELSE childPids

Spawn(p, par) ==
    /\ Free
    /\ Registered(p, par)
    /\ childPids' = Adopted(par, p)
    /\ Admit(p)
    /\ UNCHANGED <<blocked, suspended, terminated, admitting, suspending, kernelVars, shutdownVars>>

SpawnWaits(p, par) ==
    /\ stuck
    /\ Registered(p, par)
    /\ state' = [state EXCEPT ![p] = "READY"]
    /\ admitting' = admitting \cup {p}
    /\ UNCHANGED <<collections, childPids, suspending, kernelVars, shutdownVars>>

-----------------------------------------------------------------------------
(* schedule, yield_, block, unblock *)

Schedule(p) ==
    /\ Free
    /\ p \in ready
    /\ \A q \in ready : Priority[q] <= Priority[p]
    /\ ready' = ready \ {p}
    /\ running' = running \cup {p}
    /\ state' = [state EXCEPT ![p] = "RUNNING"]
    /\ UNCHANGED <<blocked, suspended, terminated, childPids, admitting, suspending, kernelVars, shutdownVars>>

\* transition(READY) succeeds, then admit() asks for it again.
Yield(p) ==
    /\ Free
    /\ p \in running
    /\ running' = running \ {p}
    /\ state' = [state EXCEPT ![p] = "READY"]
    /\ UNCHANGED <<ready, blocked, suspended, terminated, childPids, admitting, suspending, kernelVars, shutdownVars>>

\* The process is taken from the running or the ready ones; the table refuses
\* to block a ready one.
Block(p) ==
    /\ Free
    /\ p \in running \cup ready
    /\ running' = running \ {p}
    /\ ready' = ready \ {p}
    /\ IF "BLOCKED" \in Legal(state[p])
       THEN /\ state' = [state EXCEPT ![p] = "BLOCKED"]
            /\ blocked' = blocked \cup {p}
       ELSE UNCHANGED <<state, blocked>>
    /\ UNCHANGED <<suspended, terminated, childPids, admitting, suspending, kernelVars, shutdownVars>>

Unblock(p) ==
    /\ Free
    /\ p \in blocked
    /\ blocked' = blocked \ {p}
    /\ Admit(p)
    /\ UNCHANGED <<suspended, terminated, childPids, admitting, suspending, kernelVars, shutdownVars>>

-----------------------------------------------------------------------------
(* terminate, by kernel.kill and by the resource monitor *)

\* The processes that terminate(p) reaches from those of S: it follows
\* child_pids, and skips what it finds in no collection, with all below it.
Closed(T) == \A q \in T : childPids[q] \cap Found \subseteq T
Reached(S) == {q \in Found : \A T \in SUBSET Found : (S \subseteq T /\ Closed(T)) => q \in T}

TerminateAll(S) ==
    LET dead == Reached(S) IN
    /\ ready' = ready \ dead
    /\ running' = running \ dead
    /\ blocked' = blocked \ dead
    /\ suspended' = suspended \ dead
    /\ terminated' = terminated \cup dead
    /\ state' = [p \in Pid |-> IF p \in dead THEN "TERMINATED" ELSE state[p]]
    /\ UNCHANGED <<childPids, admitting, suspending, kernelVars, shutdownVars>>

Kill(p) ==
    /\ Free
    /\ p \in Found
    /\ TerminateAll({p})

\* _resource_monitor_loop: the processes over their limits, of those that
\* run or are blocked, are terminated one after the other.
Monitor ==
    /\ up /\ Free
    /\ \E over \in (SUBSET (running \cup blocked)) \ {{}} : TerminateAll(over)

-----------------------------------------------------------------------------
(* suspend, resume *)

\* suspend() up to the await of storage.set; a blocked process cannot be
\* suspended, and is gone.
SuspendPop(p) ==
    /\ ready' = ready \ {p}
    /\ running' = running \ {p}
    /\ blocked' = blocked \ {p}
    /\ IF "SUSPENDED" \in Legal(state[p])
       THEN /\ state' = [state EXCEPT ![p] = "SUSPENDED"]
            /\ suspending' = suspending \cup {p}
       ELSE UNCHANGED <<state, suspending>>
    /\ UNCHANGED <<suspended, terminated, childPids, admitting, kernelVars>>

Suspend(p) ==
    /\ Free
    /\ p \in running \cup blocked \cup ready
    /\ SuspendPop(p)
    /\ UNCHANGED shutdownVars

SuspendEnds(p) ==
    /\ Free
    /\ p \in suspending
    /\ suspending' = suspending \ {p}
    /\ suspended' = suspended \cup {p}
    /\ waitFor' = IF waitFor = p THEN None ELSE waitFor
    /\ UNCHANGED <<state, ready, running, blocked, terminated, childPids, admitting, kernelVars, closing, todo>>

\* storage.set raises, out of suspend() and of shutdown().
SuspendFails(p) ==
    /\ StorageMayFail /\ ~Closing
    /\ p \in suspending
    /\ suspending' = suspending \ {p}
    /\ IF waitFor = p
       THEN closing' = FALSE /\ todo' = {} /\ waitFor' = None
       ELSE UNCHANGED shutdownVars
    /\ UNCHANGED <<state, collections, childPids, admitting, kernelVars>>

\* As in yield_, the second transition to READY raises.
Resume(p) ==
    /\ Free
    /\ p \in suspended
    /\ suspended' = suspended \ {p}
    /\ state' = [state EXCEPT ![p] = "READY"]
    /\ UNCHANGED <<ready, running, blocked, terminated, childPids, admitting, suspending, kernelVars, shutdownVars>>

-----------------------------------------------------------------------------
(* The scheduler loop; boot and shutdown of the kernel. *)

\* The loop acquires the lock, and calls schedule() or yield_(), which wait
\* for it: asyncio.Lock is not reentrant.
LoopTick ==
    /\ up /\ Free
    /\ \/ running = {} /\ ready # {}
       \/ \E r \in running : Priority[r] # Realtime
    /\ stuck' = TRUE
    /\ UNCHANGED <<state, collections, childPids, admitting, suspending, up, booted, shutdownVars>>

Boot ==
    /\ ~booted
    /\ booted' = TRUE
    /\ up' = LoopEnabled
    /\ UNCHANGED <<state, collections, childPids, admitting, suspending, stuck, shutdownVars>>

ShutdownBegins ==
    /\ booted /\ ~closing
    /\ closing' = TRUE
    /\ todo' = {p \in Pid : state[p] \in Alive}
    /\ UNCHANGED <<state, collections, childPids, admitting, suspending, kernelVars, waitFor>>

\* Mutant: shutdown() tries again to suspend what suspend() did not find.
ShutdownSuspendsInsists(p) ==
    /\ Closing
    /\ p \in todo
    /\ p \in ready \cup running \cup blocked
    /\ SuspendPop(p)
    /\ IF "SUSPENDED" \in Legal(state[p])
       THEN closing' = TRUE /\ todo' = todo \ {p} /\ waitFor' = p
       ELSE closing' = FALSE /\ todo' = {} /\ waitFor' = None

\* shutdown() awaits suspend(p): p is found and can be suspended, or is not
\* found, or the ValueError ends shutdown().
ShutdownSuspends(p) ==
    /\ Closing
    /\ p \in todo
    /\ IF p \in ready \cup running \cup blocked
       THEN /\ SuspendPop(p)
            /\ IF "SUSPENDED" \in Legal(state[p])
               THEN closing' = TRUE /\ todo' = todo \ {p} /\ waitFor' = p
               ELSE closing' = FALSE /\ todo' = {} /\ waitFor' = None
       ELSE /\ todo' = todo \ {p}
            /\ UNCHANGED <<state, collections, childPids, admitting, suspending, kernelVars, closing, waitFor>>

ShutdownEnds ==
    /\ Closing
    /\ todo = {}
    /\ closing' = FALSE
    /\ booted' = FALSE
    /\ up' = FALSE
    /\ UNCHANGED <<state, collections, childPids, admitting, suspending, stuck, todo, waitFor>>

-----------------------------------------------------------------------------

ProcessNext(p) ==
    \/ \E par \in Pid \cup {None} : Spawn(p, par) \/ SpawnWaits(p, par)
    \/ Schedule(p) \/ Yield(p) \/ Block(p) \/ Unblock(p)
    \/ Kill(p)
    \/ Suspend(p) \/ SuspendEnds(p) \/ SuspendFails(p) \/ Resume(p)
    \/ ShutdownSuspends(p)

Next ==
    \/ \E p \in Pid : ProcessNext(p)
    \/ Monitor \/ LoopTick
    \/ Boot \/ ShutdownBegins \/ ShutdownEnds

Spec == Init /\ [][Next]_vars

\* The event loop resumes a method whose await is over, shutdown() goes on,
\* and the two background tasks wake up again and again.
FairSpec ==
    /\ Spec
    /\ \A p \in Pid : WF_vars(SuspendEnds(p)) /\ WF_vars(ShutdownSuspends(p))
    /\ WF_vars(ShutdownEnds)
    /\ WF_vars(LoopTick)

-----------------------------------------------------------------------------
(* Properties. *)

\* A process is in one collection, or in one suspension or admission, at
\* most, though every method takes it from one place, awaits, and puts it
\* into another: two methods that are at work on one pid never both hold it.
OneCollection ==
    /\ ready \cap running = {} /\ ready \cap blocked = {} /\ ready \cap suspended = {}
    /\ running \cap blocked = {} /\ running \cap suspended = {} /\ blocked \cap suspended = {}
    /\ Found \cap terminated = {}
    /\ (Found \cup terminated) \cap (admitting \cup suspending) = {}
    /\ admitting \cap suspending = {}

\* The state of a process is that of the collection that holds it (what
\* get_process_state and ps report); TERMINATED is never reported of a
\* process that any other collection holds, nor the reverse.
StateAgrees ==
    /\ \A p \in ready \cup admitting : state[p] = "READY"
    /\ \A p \in running : state[p] = "RUNNING"
    /\ \A p \in blocked : state[p] = "BLOCKED"
    /\ \A p \in suspended \cup suspending : state[p] = "SUSPENDED"
    /\ \A p \in Pid : state[p] = "TERMINATED" <=> p \in terminated

\* Together: get_process_state finds a process in one place and with the
\* state of that place, however many methods are between two awaits.
Consistent == OneCollection /\ StateAgrees

\* The collection a process is in.
Place(p) ==
    CASE state[p] = "none"   -> "new"
      [] p \in admitting     -> "admitting"
      [] p \in ready         -> "ready"
      [] p \in running       -> "running"
      [] p \in blocked       -> "blocked"
      [] p \in suspending    -> "suspending"
      [] p \in suspended     -> "suspended"
      [] p \in terminated    -> "terminated"
      [] OTHER               -> "gone"

Lifecycle == INSTANCE AgentLifecycle WITH place <- [p \in Pid |-> Place(p)]

\* However the methods interleave and fail, processes move between the
\* collections along AgentLifecycle only; in particular no terminated process
\* comes back, and none is run that was not ready.
ImplementsLifecycle == Lifecycle!Spec

\* A shutdown that has begun comes to an end, whatever the callers of the
\* other methods suspend, kill or block meanwhile, and whether or not the
\* storage fails: it waits for no process that another method has taken.
\* (Unless the scheduler loop has taken the lock for good.)
ShutdownIsOver == closing ~> ~closing \/ stuck

\* "接纳进程进入就绪队列" (scheduler.py:165), of admit(), which follows each
\* transition to READY: a process that becomes READY is in the ready queue,
\* or its spawn waits for the lock.
ReadyIsAdmitted ==
    [][\A p \in Pid : (state[p] # "READY" /\ state'[p] = "READY") => p \in ready' \cup admitting']_vars

\* "后台调度循环: 自动轮转调度" (scheduler.py:12) and "若无 running 进程, 从
\* ready_queue 选一个执行" (line 111): while the loop is up and a process is
\* ready, some process is run.
LoopSchedules ==
    (up /\ ready # {}) ~> (running # {} \/ ready = {} \/ ~up)

\* "挂起所有存活进程 (保存检查点)" (kernel.py:195): shutdown() ends by closing
\* the kernel.
ShutdownCloses == [][closing /\ ~closing' => ~booted']_vars
=============================================================================
