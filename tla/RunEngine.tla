------------------------------ MODULE RunEngine ------------------------------
(***************************************************************************)
(* core/run/engine.py and core/run/checkpoint.py, with their callers in    *)
(* services/work_pipeline.py and api/routers/work.py: a run is a stream of *)
(* events that is logged and passed on, with a checkpoint now and then, so *)
(* that it can be resumed.                                                 *)
(*                                                                         *)
(* One run.  An attempt is a call of run_stream for it: the first, the     *)
(* repair the pipeline makes of a run without artifacts, or a resume that  *)
(* a client asks for.  Attempts overlap, as nothing stops a client from    *)
(* resuming a run that is going on; every call of the store is a           *)
(* transaction, and other attempts go on between two of them.              *)
(*                                                                         *)
(* Left out: what events say; artifacts, steps and meta data; channels     *)
(* other than the work channel, whose source is the agent loop             *)
(* (core/agent/loop.py, run_stream).                                       *)
(***************************************************************************)
EXTENDS Integers, FiniteSets

CONSTANTS
    MaxAttempts,      \* bound of the calls of run_stream
    MaxEvents,        \* bound of the events of a source, for max_steps
    CheckpointEvery,  \* checkpoint_every
    MaxRefusals,      \* bound of how often the store raises
    None              \* no event, no checkpoint, no status

\* The events of the agent loop; "thinking" stands for all that neither adds
\* a message nor ends the run, "call" for an action and the tool_call after it,
\* "result" for an observation and its tool_result.
Types == {"start", "thinking", "call", "result", "text", "done", "error"}

ASSUME RunAssumption ==
    /\ MaxAttempts \in Nat \ {0} /\ MaxEvents \in Nat /\ MaxRefusals \in Nat
    /\ CheckpointEvery \in Nat \ {0}
    /\ None \notin [type : Types, by : Nat] \cup [seq : Nat, by : Nat, talked : BOOLEAN]
    /\ None # "running"

Attempt == 1..MaxAttempts

\* The order in which the loop yields them.
Follows(t) ==
    CASE t = "start"    -> {"thinking"}
      [] t = "thinking" -> {"call", "text", "error"}
      [] t = "call"     -> {"result"}
      [] t = "result"   -> {"call", "thinking", "text", "error"}
      [] t = "text"     -> {"done"}
      [] OTHER          -> {}

\* How many events there are to the end of the run, this one included.
Room(t) ==
    CASE t = "call"     -> 4
      [] t = "thinking" -> 3
      [] t = "text"     -> 2
      [] OTHER          -> 1

\* The events that _build_resume_state_from_events makes messages of.
Messages == {"call", "result", "text"}

Entry == [type : Types, by : Attempt]

VARIABLES
    status,      \* runs.status, or None without a row
    log,         \* run_events
    checkpoint,  \* run_checkpoints, or None
    pc,          \* where an attempt is in run_stream
    last,        \* the event its source has last yielded
    seq,         \* _seq
    talked,      \* messages_acc is not empty
    final,       \* final_status
    started,     \* how many attempts there were
    finisher,    \* history: the attempt that called finish_run last
    missed,      \* history: the sequence numbers the store has refused
    refusals     \* how often the store has raised

store == <<status, log, checkpoint>>
local == <<last, seq, talked, final>>
history == <<finisher, missed>>
vars == <<store, pc, local, started, history, refusals>>

Over == {"idle", "ended", "dead"}
Live(a) == pc[a] \notin Over

Slots == 1 .. MaxEvents + 1

TypeOK ==
    /\ status \in {None, "running", "completed", "failed"}
    /\ log \in [Slots -> Entry \cup {None}]
    /\ checkpoint \in [seq : Nat, by : Attempt, talked : BOOLEAN] \cup {None}
    /\ pc \in [Attempt -> {"idle", "waiting", "save", "handle", "rescue", "closing", "finishing",
                           "ended", "dead"}]
    /\ last \in [Attempt -> Types]
    /\ seq \in [Attempt -> 0 .. MaxEvents + 1]
    /\ talked \in [Attempt -> BOOLEAN]
    /\ final \in [Attempt -> {"completed", "failed"}]
    /\ started \in 0..MaxAttempts
    /\ finisher \in Attempt \cup {0}
    /\ missed \subseteq Slots /\ refusals \in Nat

Goto(a, place) == pc' = [pc EXCEPT ![a] = place]

-----------------------------------------------------------------------------
(* The attempts. *)

\* run_stream up to its loop: start_run replaces the row.
Begin ==
    /\ started < MaxAttempts
    /\ started' = started + 1
    /\ Goto(started + 1, "waiting")
    /\ status' = "running"
    /\ UNCHANGED <<log, checkpoint, local, history, refusals>>

First == started = 0 /\ Begin

\* The pipeline repairs its first attempt when that has succeeded.
Repair ==
    /\ pc[1] = "ended" /\ last[1] = "done" /\ started = 1
    /\ Begin

\* work_resume_run asks for events and for messages, not for a status.
Resume ==
    /\ status # None
    /\ \E i \in Slots : log[i] # None
    /\ \/ \E i \in Slots : log[i] # None /\ log[i].type \in Messages
       \/ checkpoint # None /\ checkpoint.talked
    /\ Begin

\* The process ends.
Crash ==
    /\ \E a \in Attempt : Live(a)
    /\ pc' = [a \in Attempt |-> IF Live(a) THEN "dead" ELSE pc[a]]
    /\ UNCHANGED <<store, local, started, history, refusals>>

-----------------------------------------------------------------------------
(* run_stream *)

\* Mutant: only what becomes a message is logged.
LogMessages(a, t) ==
    /\ seq' = [seq EXCEPT ![a] = @ + 1]
    /\ log' = IF t = "thinking" THEN log ELSE [log EXCEPT ![seq[a] + 1] = [type |-> t, by |-> a]]
    /\ status' = IF t = "error" THEN "failed" ELSE "running"

\* _normalize and append_event: the row of this number is replaced, and the
\* status follows the event.
Log(a, t) ==
    /\ seq' = [seq EXCEPT ![a] = @ + 1]
    /\ log' = [log EXCEPT ![seq[a] + 1] = [type |-> t, by |-> a]]
    /\ status' = IF t = "error" THEN "failed" ELSE "running"

\* Mutant: nothing is saved in between.
SavesAtEnds(a, t) == t \in {"done", "error", "text"}

Saves(a, t) == t \in {"done", "error", "text"} \/ (seq[a] + 1) % CheckpointEvery = 0

\* The source yields an event, and run_stream does when it is logged and saved.
Yields(a, t) ==
    /\ pc[a] = "waiting" /\ t \in Follows(last[a])
    /\ seq[a] + Room(t) <= MaxEvents
    /\ last' = [last EXCEPT ![a] = t]
    /\ talked' = [talked EXCEPT ![a] = @ \/ t \in Messages]

Emit(a, t) ==
    /\ Yields(a, t)
    /\ Log(a, t)
    /\ final' = [final EXCEPT ![a] = IF t = "error" THEN "failed" ELSE @]
    /\ Goto(a, IF Saves(a, t) THEN "save" ELSE "waiting")
    /\ UNCHANGED <<checkpoint, started, history, refusals>>

\* Mutant: the end of the source goes unnoticed.
SourceEndsUnnoticed(a) ==
    /\ pc[a] = "waiting" /\ Follows(last[a]) = {}
    /\ Goto(a, "waiting")
    /\ UNCHANGED <<store, local, started, history, refusals>>

SourceEnds(a) ==
    /\ pc[a] = "waiting" /\ Follows(last[a]) = {}
    /\ Goto(a, "closing")
    /\ UNCHANGED <<store, local, started, history, refusals>>

Checkpoint(a) == checkpoint' = [seq |-> seq[a], by |-> a, talked |-> talked[a]]

Save(a) ==
    /\ pc[a] = "save"
    /\ Checkpoint(a)
    /\ Goto(a, "waiting")
    /\ UNCHANGED <<status, log, local, started, history, refusals>>

\* except Exception: an event of its own, logged and saved.
SourceRaises(a) ==
    /\ pc[a] = "waiting" /\ seq[a] < MaxEvents
    /\ Goto(a, "handle")
    /\ UNCHANGED <<store, local, started, history, refusals>>

HandleAppend(a) ==
    /\ pc[a] = "handle"
    /\ Log(a, "error")
    /\ final' = [final EXCEPT ![a] = "failed"]
    /\ Goto(a, "rescue")
    /\ UNCHANGED <<checkpoint, last, talked, started, history, refusals>>

HandleSave(a) ==
    /\ pc[a] = "rescue"
    /\ Checkpoint(a)
    /\ Goto(a, "closing")
    /\ UNCHANGED <<status, log, local, started, history, refusals>>

\* Mutant: an abandoned generator does not run its finally.
AbandonAtOnce(a) ==
    /\ pc[a] = "waiting" /\ Follows(last[a]) # {}
    /\ Goto(a, "ended")
    /\ UNCHANGED <<store, local, started, history, refusals>>

\* The client goes, or the task is cancelled, while the generator waits at a
\* yield or for its source: no Exception, so only finally runs, as it does
\* when the source has ended.
Abandon(a) ==
    /\ pc[a] = "waiting" /\ Follows(last[a]) # {}
    /\ Goto(a, "closing")
    /\ UNCHANGED <<store, local, started, history, refusals>>

\* finally
Close(a) ==
    /\ pc[a] = "closing"
    /\ Checkpoint(a)
    /\ Goto(a, "finishing")
    /\ UNCHANGED <<status, log, local, started, history, refusals>>

\* finish_run
Finish(a) ==
    /\ pc[a] = "finishing"
    /\ status' = final[a]
    /\ finisher' = a
    /\ Goto(a, "ended")
    /\ UNCHANGED <<log, checkpoint, local, started, missed, refusals>>

\* The store raises, for instance as the database is locked.  In the loop that
\* is an error like any other; in the handler finally still runs; and from
\* finally it leaves, so that the run is not finished.
Miss(a) ==
    /\ seq' = [seq EXCEPT ![a] = @ + 1]
    /\ missed' = missed \cup {seq[a] + 1}

RefuseEvent(a, t) ==
    /\ Yields(a, t) /\ Miss(a)
    /\ Goto(a, "handle") /\ UNCHANGED final

RefuseError(a) ==
    /\ pc[a] = "handle" /\ Miss(a)
    /\ final' = [final EXCEPT ![a] = "failed"]
    /\ Goto(a, "closing") /\ UNCHANGED <<last, talked>>

RefuseSave(a) ==
    /\ \/ pc[a] = "save" /\ Goto(a, "handle")
       \/ pc[a] = "rescue" /\ Goto(a, "closing")
       \/ pc[a] \in {"closing", "finishing"} /\ Goto(a, "dead")
    /\ UNCHANGED <<local, missed>>

Refuse(a) ==
    /\ refusals < MaxRefusals
    /\ refusals' = refusals + 1
    /\ \/ \E t \in Types : RefuseEvent(a, t)
       \/ RefuseError(a) \/ RefuseSave(a)
    /\ UNCHANGED <<store, started, finisher>>

-----------------------------------------------------------------------------

Init ==
    /\ status = None
    /\ log = [i \in Slots |-> None]
    /\ checkpoint = None
    /\ pc = [a \in Attempt |-> "idle"]
    /\ last = [a \in Attempt |-> "start"]
    /\ seq = [a \in Attempt |-> 0]
    /\ talked = [a \in Attempt |-> FALSE]
    /\ final = [a \in Attempt |-> "completed"]
    /\ started = 0
    /\ finisher = 0 /\ missed = {}
    /\ refusals = 0

\* What an attempt does of itself.
Proceed(a) ==
    \/ \E t \in Types : Emit(a, t)
    \/ SourceEnds(a) \/ Save(a)
    \/ HandleAppend(a) \/ HandleSave(a) \/ Close(a) \/ Finish(a)

Next ==
    \/ First \/ Repair \/ Resume \/ Crash
    \/ \E a \in Attempt : Proceed(a) \/ SourceRaises(a) \/ Abandon(a) \/ Refuse(a)

Spec == Init /\ [][Next]_vars

\* The agent loop takes a bounded number of steps, and its client takes what is
\* yielded or goes.
FairSpec == Spec /\ \A a \in Attempt : WF_vars(Proceed(a))

-----------------------------------------------------------------------------
(* Properties. *)

\* What an attempt has yielded is in the log, as its own unless another attempt,
\* whose numbers begin at 1 again, has got as far; so the log has no gap but
\* where the store refused an event.
AllLogged ==
    \A a \in Attempt : \A i \in (1..seq[a]) \ missed :
        /\ log[i] # None
        /\ (\A b \in Attempt \ {a} : seq[b] < i) => log[i].by = a

\* When every attempt has ended the run has the status of the one that finished
\* last, and an attempt that logged an error is not one that completed.
SettledStatus ==
    (started > 0 /\ \A a \in Attempt : pc[a] \in {"idle", "ended"}) =>
        /\ finisher \in Attempt /\ status = final[finisher]
        /\ \A i \in Slots :
               log[i] # None /\ log[i].type = "error" => final[log[i].by] = "failed"

\* The checkpoint is of an event in the log, and no more than CheckpointEvery
\* events of its attempt, or of the only one, are missing in it; one more each
\* time the store raised.
Saved(a) == IF checkpoint # None /\ checkpoint.by = a THEN checkpoint.seq ELSE 0

CheckpointKeepsUp ==
    /\ checkpoint # None /\ checkpoint.seq > 0 =>
           log[checkpoint.seq] # None \/ checkpoint.seq \in missed
    /\ \A a \in Attempt : Saved(a) > 0 \/ started = 1 =>
           seq[a] - Saved(a) <= CheckpointEvery + refusals

\* Every attempt comes to an end, and so does "running", unless the process
\* ends first or the store fails in the end.
AttemptEnds == \A a \in Attempt : Live(a) ~> ~Live(a)

\* checkpoint.py:24, "append-only events": what a client was sent stays in the log.
AppendOnly == \A a \in Attempt : \A i \in (1..seq[a]) \ missed : log[i].by = a

\* work.py:932, "长程任务中断后（崩溃/用户停止/超时），从最后一个 checkpoint 恢复执行",
\* and work.py:1000 offers every run for a resume that is not completed: a run
\* whose attempts were all interrupted before "done" is not called completed.
CompletedMeansDone ==
    status = "completed" => \E a \in Attempt : last[a] = "done"
=============================================================================
