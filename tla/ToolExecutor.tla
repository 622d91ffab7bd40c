----------------------------- MODULE ToolExecutor -----------------------------
(***************************************************************************)
(* core/tools/executor.py, core/tools/policy.py, core/tools/retry.py and   *)
(* ToolRegistry.execute: how tool calls of several threads pass the policy *)
(* gate, the step limit and the pool of AutoscaledPool, and run.           *)
(*                                                                         *)
(* Executor threads call ToolExecutor.execute: the tool runs on a thread   *)
(* pool, the caller waits for the future with a timeout and tries again.   *)
(* Loop threads call ToolRegistry.execute, as the agent loop does through  *)
(* _StpAwareRegistry: the tool runs in the thread, with no timeout.  One   *)
(* ToolPolicy serves them all, whatever workspace they work in.            *)
(*                                                                         *)
(* A tool call is identified by its idempotency key.  The tools read,      *)
(* overwrite or delete one file of the workspace of their caller.          *)
(*                                                                         *)
(* Left out: hooks (none is registered), spans, metrics, the audit list,   *)
(* back-off times, execute_parallel and execute_dag (they only choose the  *)
(* threads and the order of the calls).                                    *)
(***************************************************************************)
EXTENDS AutoscaledPool, Sequences, SequencesExt

CONSTANTS
    Executors,     \* threads that call ToolExecutor.execute
    Loops,         \* threads that call ToolRegistry.execute
    Home,          \* Home[t]: the workspace of a thread
    Calls,         \* Calls[t]: the calls a thread may make, as idempotency keys
    Reading, Writing, Deleting,   \* the calls of each kind of tool
    MaxCache,      \* max_cache
    MaxSteps,      \* max_total_steps
    MaxTries,      \* max_attempts of a RetryPolicy
    Retried,       \* the calls of the tools that have one
    Vouched,       \* the destructive calls whose arguments may have `_approved`
    AutoApprove,   \* auto_approve_high, which FNIX_TOOL_AUTO_APPROVE sets
    MaxApprovals,  \* bound of the calls of approve()
    MaxRounds,     \* bound of the calls of a loop thread
    MaxManaged,    \* bound of the calls of update_config, reset and shutdown
    Original,      \* the content of the file at first
    None           \* no file, no call, no execution

Thread == Executors \cup Loops
Key == Reading \cup Writing \cup Deleting

Workspace == {Home[t] : t \in Thread}

\* The contents of a file: the first, what a write call has made of it, or none.
Answer == Writing \cup {Original, None}

VARIABLES
    file,       \* the content of the file of every workspace, as an Answer
    cache,      \* policy._cache, the entry remembered last at the end
    approvals,  \* policy._approvals
    granted,    \* history: how often approve() was called for a key
    steps,      \* _step_counter, up to MaxSteps + 1
    closed,     \* the thread pool is shut down
    jobs,       \* the executions submitted to the thread pool, in order; None
                \* for one that has ended and that nobody waits for
    pc,         \* where a thread is in execute
    key,        \* the call it makes, or None
    vouched,    \* the arguments of its call have a true `_approved`
    tries,      \* attempt
    job,        \* the execution it waits for, or 0
    answer,     \* what its tool has returned
    rounds,     \* the calls made by a loop thread
    managed     \* the calls of update_config, reset and shutdown

policy == <<cache, approvals, granted>>
workers == <<jobs, closed>>
local == <<pc, key, vouched, tries, job, answer, rounds>>
vars == <<pool, policy, workers, local, file, steps, managed>>

Execution ==
    [by : Executors, key : Key, vouched : BOOLEAN, answer : Answer,
     state : {"queued", "running", "returned", "retryable", "raised"}]

ASSUME ToolAssumption ==
    /\ User = Executors /\ Executors \cap Loops = {}
    /\ IsFiniteSet(Thread) /\ IsFiniteSet(Key)
    /\ Calls \in [Thread -> SUBSET Key]
    /\ Home \in [Thread -> {Home[t] : t \in Thread}]
    /\ Reading \cap Writing = {} /\ Reading \cap Deleting = {} /\ Writing \cap Deleting = {}
    /\ {MaxCache, MaxSteps, MaxTries} \subseteq Nat \ {0}
    /\ Retried \subseteq Key /\ Vouched \subseteq Deleting /\ AutoApprove \in BOOLEAN
    /\ MaxApprovals \in Nat /\ MaxRounds \in Nat /\ MaxManaged \in Nat
    /\ None \notin Key /\ None \notin Execution

Place == {"idle", "gate", "count", "adjust", "choose", "wait", "retry", "result", "release", "tail",
          "run", "remember"}

TypeOK ==
    /\ PoolTypeOK
    /\ file \in [Workspace -> Answer]
    /\ cache \in Seq([key : Key, answer : Answer])
    /\ approvals \subseteq Deleting
    /\ granted \in [Deleting -> 0..MaxApprovals]
    /\ steps \in 0 .. MaxSteps + 1
    /\ closed \in BOOLEAN
    /\ jobs \in Seq(Execution \cup {None})
    /\ pc \in [Thread -> Place]
    /\ key \in [Thread -> Key \cup {None}]
    /\ vouched \in [Thread -> BOOLEAN]
    /\ tries \in [Thread -> 0..MaxTries]
    /\ job \in [Thread -> Nat]
    /\ \A t \in Executors : job[t] \in 0..Len(jobs)
    /\ answer \in [Thread -> Answer]
    /\ rounds \in [Thread -> 0..MaxRounds]
    /\ managed \in 0..MaxManaged

Init ==
    /\ PoolInit
    /\ file = [w \in Workspace |-> Original]
    /\ cache = <<>> /\ approvals = {} /\ granted = [k \in Deleting |-> 0]
    /\ steps = 0 /\ closed = FALSE /\ jobs = <<>>
    /\ pc = [t \in Thread |-> "idle"] /\ key = [t \in Thread |-> None]
    /\ vouched = [t \in Thread |-> FALSE]
    /\ tries = [t \in Thread |-> 0] /\ job = [t \in Thread |-> 0]
    /\ answer = [t \in Thread |-> None] /\ rounds = [t \in Thread |-> 0]
    /\ managed = 0

Goto(t, place) == pc' = [pc EXCEPT ![t] = place]

\* The call of a thread is over.
Leave(t) ==
    /\ Goto(t, "idle")
    /\ key' = [key EXCEPT ![t] = None]
    /\ vouched' = [vouched EXCEPT ![t] = FALSE]
    /\ tries' = [tries EXCEPT ![t] = 0]
    /\ job' = [job EXCEPT ![t] = 0]
    /\ answer' = [answer EXCEPT ![t] = None]

-----------------------------------------------------------------------------
(* The tools. *)

\* What a call of key k makes of the content c, and what it returns.
Written(k, c) == IF k \in Writing THEN k ELSE IF k \in Deleting THEN None ELSE c
Returned(k, c) == IF k \in Reading THEN c ELSE None

-----------------------------------------------------------------------------
(* The policy. *)

Entries(k) == {i \in 1..Len(cache) : cache[i].key = k}

\* A dictionary has one entry for a key, or none.
Without(entries, k) ==
    LET places == {i \in 1..Len(entries) : entries[i].key = k}
    IN IF places = {} THEN entries ELSE RemoveAt(entries, CHOOSE i \in places : TRUE)

\* evaluate up to the end of its lock: a hit is the answer of the call, an
\* entry older than the TTL is dropped.  A call has the same key with
\* `_approved` among its arguments as without; for other tools than the
\* destructive ones nothing depends on it.
Hit(k, value) == \E i \in Entries(k) : cache[i].answer = value

Lookup(t, k) ==
    \/ /\ \E value \in Answer : Hit(k, value)
       /\ UNCHANGED <<cache, pc, key, vouched>>
    \/ /\ cache' = Without(cache, k)
       /\ Goto(t, "gate")
       /\ key' = [key EXCEPT ![t] = k]
       /\ \E said \in BOOLEAN :
             /\ said => k \in Vouched
             /\ vouched' = [vouched EXCEPT ![t] = said]

\* Mutant: room is made only when the cache is over its limit.
KeptOne ==
    IF Len(cache) <= MaxCache THEN cache
    ELSE SubSeq(cache, Greatest(1, MaxCache \div 4) + 1, Len(cache))

\* A quarter of a full cache is dropped, the oldest entries first.
Kept ==
    IF Len(cache) < MaxCache THEN cache
    ELSE SubSeq(cache, Greatest(1, MaxCache \div 4) + 1, Len(cache))

\* remember_success: the entry gets the time of now, and the approval is spent.
Remember(k, value) ==
    /\ cache' = Append(Without(Kept, k), [key |-> k, answer |-> value])
    /\ approvals' = approvals \ {k}
    /\ UNCHANGED granted

\* approve()
Approve(k) ==
    /\ granted[k] < MaxApprovals
    /\ granted' = [granted EXCEPT ![k] = @ + 1]
    /\ approvals' = approvals \cup {k}
    /\ UNCHANGED <<pool, cache, workers, local, file, steps, managed>>

\* A call begins, of an executor thread or of a loop.
Call(t, k) ==
    /\ pc[t] = "idle"
    /\ t \in Loops => rounds[t] < MaxRounds
    /\ rounds' = IF t \in Loops THEN [rounds EXCEPT ![t] = @ + 1] ELSE rounds
    /\ Lookup(t, k)
    /\ UNCHANGED <<pool, approvals, granted, workers, file, steps, managed, tries, job, answer>>

\* The rest of evaluate, which reads the approvals without the lock.
Allowed(t) == key[t] \in Deleting => AutoApprove \/ vouched[t] \/ key[t] \in approvals

\* Mutant: what the arguments of a call say is noted as an approval of its key.
GateNotes(t) ==
    /\ pc[t] = "gate"
    /\ approvals' = IF vouched[t] THEN approvals \cup {key[t]} ELSE approvals
    /\ IF Allowed(t)
       THEN /\ Goto(t, IF t \in Loops THEN "run" ELSE "count")
            /\ UNCHANGED <<key, vouched, tries, job, answer>>
       ELSE Leave(t)
    /\ UNCHANGED <<pool, cache, granted, workers, file, steps, managed, rounds>>

Gate(t) ==
    /\ pc[t] = "gate"
    /\ IF Allowed(t)
       THEN /\ Goto(t, IF t \in Loops THEN "run" ELSE "count")
            /\ UNCHANGED <<key, vouched, tries, job, answer>>
       ELSE Leave(t)
    /\ UNCHANGED <<pool, policy, workers, file, steps, managed, rounds>>

-----------------------------------------------------------------------------
(* ToolExecutor.execute *)

\* The step limit; then the tool may be unknown, need a permission or get
\* arguments it rejects; a pool that is shut down raises out of execute.
Count(t) ==
    /\ pc[t] = "count"
    /\ steps' = Least(steps + 1, MaxSteps + 1)
    /\ \/ /\ steps < MaxSteps /\ ~shut
          /\ Goto(t, "adjust") /\ Look(t)
          /\ tries' = [tries EXCEPT ![t] = 1]
          /\ UNCHANGED <<key, vouched, job, answer>>
       \/ Leave(t) /\ UNCHANGED bound
    /\ UNCHANGED <<high, concurrency, current, permits, samples, shut, sem, holding>>
    /\ UNCHANGED <<policy, workers, file, managed, rounds>>

MaybeAdjust(t) ==
    /\ pc[t] = "adjust"
    /\ Adjust(t)
    /\ Goto(t, "choose")
    /\ UNCHANGED <<policy, workers, file, steps, managed, key, vouched, tries, job, answer, rounds>>

ReadSemaphore(t) ==
    /\ pc[t] = "choose"
    /\ Choose(t)
    /\ Goto(t, "wait")
    /\ UNCHANGED <<policy, workers, file, steps, managed, key, vouched, tries, job, answer, rounds>>

\* To the finally clause.
Stop(t) == Goto(t, "release") /\ tries' = [tries EXCEPT ![t] = 0]

\* submit raises after a shutdown; that is an error no policy retries.
Submit(t) ==
    IF closed
    THEN Stop(t) /\ UNCHANGED <<jobs, job>>
    ELSE /\ jobs' = Append(jobs, [by |-> t, key |-> key[t], vouched |-> vouched[t],
                                  answer |-> None, state |-> "queued"])
         /\ job' = [job EXCEPT ![t] = Len(jobs) + 1]
         /\ Goto(t, "result")
         /\ UNCHANGED tries

\* The permit is there, and the first attempt is submitted.
Acquire(t) ==
    /\ pc[t] = "wait"
    /\ Obtain(t)
    /\ Submit(t)
    /\ UNCHANGED <<policy, closed, file, steps, managed, key, vouched, answer, rounds>>

\* After the back-off.
Retry(t) ==
    /\ pc[t] = "retry"
    /\ Submit(t)
    /\ UNCHANGED <<pool, policy, closed, file, steps, managed, key, vouched, answer, rounds>>

\* Mutant: the attempts are not counted.
FailedForever(t, again) ==
    IF again THEN Goto(t, "retry") /\ UNCHANGED tries ELSE Stop(t)

\* should_retry of the tool's policy, if it has one, and what follows.
Failed(t, again) ==
    IF again /\ key[t] \in Retried /\ tries[t] < MaxTries
    THEN Goto(t, "retry") /\ tries' = [tries EXCEPT ![t] = @ + 1]
    ELSE Stop(t)

\* future.result() has the outcome in time.
Deliver(t) ==
    /\ pc[t] = "result"
    /\ LET run == jobs[job[t]] IN
       \/ /\ run.state = "returned"
          /\ samples' = Sampled
          /\ Remember(run.key, run.answer)
          /\ Stop(t)
       \/ /\ run.state \in {"retryable", "raised"}
          /\ Failed(t, run.state = "retryable")
          /\ UNCHANGED <<policy, samples>>
    /\ job' = [job EXCEPT ![t] = 0]
    /\ jobs' = [jobs EXCEPT ![job[t]] = None]
    /\ UNCHANGED <<high, concurrency, current, permits, shut, sem, holding, bound>>
    /\ UNCHANGED <<closed, file, steps, managed, key, vouched, answer, rounds>>

\* Mutant: the time of a call begins with its execution.
TimeOutBegun(t) ==
    /\ pc[t] = "result"
    /\ jobs[job[t]].state = "running"
    /\ Failed(t, TRUE)
    /\ job' = [job EXCEPT ![t] = 0]
    /\ UNCHANGED <<pool, policy, workers, file, steps, managed, key, vouched, answer, rounds>>

\* future.result() gives up; cancel() stops only what has not begun.
TimeOut(t) ==
    /\ pc[t] = "result"
    /\ jobs[job[t]].state \in {"queued", "running"}
    /\ jobs' = IF jobs[job[t]].state = "queued" THEN [jobs EXCEPT ![job[t]] = None] ELSE jobs
    /\ Failed(t, TRUE)
    /\ job' = [job EXCEPT ![t] = 0]
    /\ UNCHANGED <<pool, policy, closed, file, steps, managed, key, vouched, answer, rounds>>

\* The finally clause: release, and then maybe_adjust, which begins by reading
\* the configuration.
GiveBack(t) ==
    /\ pc[t] = "release"
    /\ Release(t)
    /\ Look(t)
    /\ Goto(t, "tail")
    /\ UNCHANGED <<policy, workers, file, steps, managed, key, vouched, tries, job, answer, rounds>>

AdjustAgain(t) ==
    /\ pc[t] = "tail"
    /\ Adjust(t)
    /\ Leave(t)
    /\ UNCHANGED <<policy, workers, file, steps, managed, rounds>>

-----------------------------------------------------------------------------
(* The threads of the pool, as many as max_concurrency says at first. *)

In(state) == {j \in 1..Len(jobs) : jobs[j] # None /\ jobs[j].state = state}

StartJob ==
    /\ Cardinality(In("running")) < InitialHigh
    /\ \E j \in In("queued") :
          /\ \A i \in In("queued") : j <= i
          /\ jobs' = [jobs EXCEPT ![j].state = "running"]
    /\ UNCHANGED <<pool, policy, local, file, steps, managed, closed>>

\* Nobody waits for an execution after its time-out.
Ended(j, outcome, value) ==
    jobs' = [jobs EXCEPT ![j] =
        IF \E t \in Executors : job[t] = j THEN [@ EXCEPT !.state = outcome, !.answer = value]
        ELSE None]

\* A tool returns or raises, an error that is retried or another.
FinishJob ==
    /\ \E j \in In("running") :
          LET w == Home[jobs[j].by]
              k == jobs[j].key
          IN \/ /\ file' = [file EXCEPT ![w] = Written(k, @)]
                /\ Ended(j, "returned", Returned(k, file[w]))
             \/ /\ \E outcome \in {"retryable", "raised"} : Ended(j, outcome, None)
                /\ UNCHANGED file
    /\ UNCHANGED <<pool, policy, local, steps, managed, closed>>

-----------------------------------------------------------------------------
(* ToolRegistry.execute *)

\* The tool runs in the thread; what it raises is the caller's.
Run(t) ==
    /\ pc[t] = "run"
    /\ \/ /\ file' = [file EXCEPT ![Home[t]] = Written(key[t], @)]
          /\ answer' = [answer EXCEPT ![t] = Returned(key[t], file[Home[t]])]
          /\ Goto(t, "remember")
          /\ UNCHANGED <<key, vouched, tries, job>>
       \/ Leave(t) /\ UNCHANGED file
    /\ UNCHANGED <<pool, policy, workers, steps, managed, rounds>>

RememberRun(t) ==
    /\ pc[t] = "remember"
    /\ Remember(key[t], answer[t])
    /\ Leave(t)
    /\ UNCHANGED <<pool, workers, file, steps, managed, rounds>>

-----------------------------------------------------------------------------

\* What nobody in the repository calls but any user of the pool may:
\* update_config, reset, and the shutdown of the executor with its pools.
Manage ==
    /\ managed < MaxManaged
    /\ managed' = managed + 1
    /\ \/ (Configure \/ Reset) /\ UNCHANGED closed
       \/ ShutDown /\ closed' = TRUE
    /\ UNCHANGED <<policy, jobs, local, file, steps>>

Step(t) ==
    \/ Gate(t) \/ Count(t) \/ MaybeAdjust(t) \/ ReadSemaphore(t) \/ Acquire(t) \/ Retry(t)
    \/ Deliver(t) \/ TimeOut(t) \/ GiveBack(t) \/ AdjustAgain(t)

LoopStep(t) == Gate(t) \/ Run(t) \/ RememberRun(t)

Next ==
    \/ \E t \in Thread : \E k \in Calls[t] : Call(t, k)
    \/ \E t \in Executors : Step(t)
    \/ \E t \in Loops : LoopStep(t)
    \/ \E k \in Deleting : Approve(k)
    \/ StartJob \/ FinishJob \/ Manage

Spec == Init /\ [][Next]_vars

\* Threads go on and time-outs come; a tool may never end, and the threads of
\* the pool may all be busy with such tools.
FairSpec == Spec /\ \A t \in Executors : WF_vars(Step(t))

-----------------------------------------------------------------------------

\* No more executions than the step limit and the retry policy allow together,
\* over all the threads that share an executor.
StepLimit == Len(jobs) <= MaxSteps * MaxTries

\* A destructive tool runs only with a permission: every call has one, the
\* arguments of this call say so, or approve() was called for its key.  The
\* permission of a call is not another's, though calls of one key share what
\* is cached, whatever is forgotten, tried again or goes on at the same time.
Permitted(k, said) == k \in Deleting => AutoApprove \/ said \/ granted[k] > 0

Gated ==
    /\ \A j \in 1..Len(jobs) : jobs[j] # None => Permitted(jobs[j].key, jobs[j].vouched)
    /\ \A t \in Thread : pc[t] \in {"count", "run"} => Permitted(key[t], vouched[t])

\* What the comment at policy.py:145 calls a one-shot approval: of the calls of
\* one key that have no other permission, no more are executed at a time than
\* approve() was called.
OneShot ==
    \A k \in Deleting :
        Cardinality({t \in Thread : pc[t] \in {"result", "run"} /\ key[t] = k /\ ~vouched[t]})
            <= granted[k]

\* The cache has one answer for a call, and stays within its size.
CacheSound == Len(cache) <= MaxCache /\ \A k \in Key : Cardinality(Entries(k)) <= 1

\* Every call of an executor thread comes to its end, even if no tool ever
\* ends and the thread pool is full of them; except that a thread may be left
\* waiting for a semaphore that was replaced.
CallEnds == \A t \in Executors : pc[t] # "idle" ~> (pc[t] = "idle" \/ Stranded(t))

\* A read that is answered from the cache gets the content of the file.
FreshRead ==
    \A i \in 1..Len(cache) : cache[i].key \in Reading =>
        \A w \in Workspace : cache[i].answer = file[w]

=============================================================================
