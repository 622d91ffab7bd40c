---------------------------- MODULE AgentContext ----------------------------
(***************************************************************************)
(* core/agent/loop.py, run_stream, with core/agent/compaction.py and the   *)
(* messages of core/checkpoint/manager.py: the conversation an agent sends *)
(* to its LLM, how it is compacted when it grows, the log of it that the   *)
(* checkpoint manager keeps, from which the loop that repairs a run        *)
(* starts, and the resume of a run, from the run's events.                 *)
(*                                                                         *)
(* The loop and the compaction it runs in the background share a           *)
(* conversation.  The compaction works on a copy: what it returns replaces *)
(* the conversation when a step begins, or when the loop waits for it.     *)
(*                                                                         *)
(* Left out: what messages say, apart from their size; the events that no  *)
(* resume uses, events the store refuses and attempts of a run that        *)
(* overlap (module RunEngine); tools that write files and text that looks  *)
(* like a call, which only decide whether a text ends the run.  The        *)
(* manager writes memory, Redis and file in one call, under its lock; that *)
(* a write to Redis or the file fails is left out.                         *)
(***************************************************************************)
EXTENDS Integers, Sequences, FiniteSets, SequencesExt

CONSTANTS
    MaxSteps,       \* max_steps
    MaxReflect,     \* max_reflect_rounds
    ForceDelivery,  \* force_tool_delivery
    KeepFirst,      \* keep_first_n, 2
    KeepRecent,     \* keep_recent, 6
    Soft, Hard,     \* tau_soft, tau_hard
    Target,         \* l2_target_tokens
    Least,          \* l3_max_tokens
    ResultSizes,    \* the tokens of a tool's result
    SummarySizes,   \* the tokens of a summary
    MaxAttempts,    \* bound: a run is resumed while it has had fewer attempts
    MaxEvents,      \* bound of the events a run is resumed with
    MaxCalls,       \* bound of the calls in one answer
    MaxExpiries     \* bound of how often the log expires

ASSUME ContextAssumption ==
    /\ MaxSteps \in Nat /\ MaxReflect \in Nat /\ MaxAttempts \in Nat /\ MaxEvents \in Nat
    /\ MaxCalls \in Nat /\ MaxExpiries \in Nat
    /\ ForceDelivery \in BOOLEAN
    /\ KeepFirst \in Nat \ {0} /\ KeepRecent \in Nat \ {0}
    /\ Soft \in Nat /\ Hard \in Nat /\ Target \in Nat /\ Least \in Nat
    /\ Least <= Target /\ Target <= Soft /\ Soft <= Hard
    /\ ResultSizes \subseteq Nat /\ SummarySizes \subseteq Nat

\* A message: which answer of the LLM it belongs to, and for an answer the
\* number of its calls, for a result the call it is of.
Kinds == {"system", "user", "calls", "result", "text", "nudge", "reflection", "summary"}
Message == [kind : Kinds, turn : Nat, n : Nat, size : Nat]
Msg(k, t, n, s) == [kind |-> k, turn |-> t, n |-> n, size |-> s]

VARIABLES
    messages,    \* messages_for_llm
    offset,      \* _ckpt_offset
    log,         \* entry.messages of the checkpoint manager
    task,        \* the background compaction: "none", "running" or "ready"
    snapshot,    \* msgs_copy
    result,      \* _bg_result
    pc,          \* where the loop is
    step,        \* step_idx + 1
    turn,        \* how many answers there were
    calls, done, \* the calls of this answer, and how many have a result
    bad,         \* round_failures is not empty
    failures,    \* _consecutive_failures, up to 2
    reflections, \* _reflect_rounds_used
    nudged,      \* _tool_nudge_used
    outcome,     \* how the attempt ended
    attempts,    \* how often run_stream was called for the run
    told,        \* this attempt's events that a resume would use, by their kind
    earlier,     \* those of the attempts before
    base,        \* history: the messages before it are not in the log
    held,        \* history: what the log held already when the run was resumed
    head,        \* history: the head of what the attempt began with
    cut,         \* history: the head of the conversation was lost
    expiries     \* how often the entry expired

talk    == <<messages, offset, log>>
bgVars  == <<task, snapshot, result>>
round   == <<turn, calls, done, bad>>
budget  == <<failures, reflections, nudged>>
events  == <<told, earlier>>
marks   == <<base, held, head, cut>>
vars == <<talk, bgVars, pc, step, round, budget, outcome, attempts, events, marks, expiries>>

Running == pc \notin {"idle", "over"}

TypeOK ==
    /\ messages \in Seq(Message) /\ log \in Seq(Message) /\ snapshot \in Seq(Message)
    /\ offset \in 0..Len(messages)
    /\ task \in {"none", "running", "ready"}
    /\ result \in [messages : Seq(Message), compacted : BOOLEAN, level : 0..3]
    /\ pc \in {"idle", "step", "calling", "tools", "check", "await", "compact", "close", "over"}
    /\ step \in 0..MaxSteps /\ turn \in Nat /\ calls \in Nat /\ done \in 0..calls
    /\ bad \in BOOLEAN /\ failures \in 0..2 /\ reflections \in 0..MaxReflect
    /\ nudged \in BOOLEAN /\ outcome \in {"none", "ok", "error", "abandoned"}
    /\ attempts \in Nat /\ told \in Seq(Kinds) /\ earlier \in Seq(Kinds)
    /\ base \in 0..offset /\ held \in Seq(Message) /\ head \in Seq(Message)
    /\ cut \in BOOLEAN /\ expiries \in Nat

-----------------------------------------------------------------------------
(* compact_with_escalation *)

Tokens(ms) ==
    LET sum[i \in 0..Len(ms)] == IF i = 0 THEN 0 ELSE sum[i-1] + ms[i].size
    IN sum[Len(ms)]

\* Mutant: the request is summarised with the rest.
ShortHead(ms)   == SubSeq(ms, 1, KeepFirst - 1)

Head_(ms)   == SubSeq(ms, 1, KeepFirst)
Tail_(ms)   == SubSeq(ms, Len(ms) - KeepRecent + 1, Len(ms))
Middle(ms)  == SubSeq(ms, KeepFirst + 1, Len(ms) - KeepRecent)
TooShort(ms) == Len(ms) <= KeepFirst + KeepRecent

Answers(m, r) == m.kind = "result" /\ r.kind = "calls" /\ m.turn = r.turn

\* compact_messages_if_needed, when the LLM returns a summary that helps.
Summaries(ms) ==
    {c \in {Head_(ms) \o <<Msg("summary", Last(Middle(ms)).turn, 0, s)>> \o Tail_(ms) :
                s \in SummarySizes} : Tokens(c) < Tokens(ms)}

\* _find_tool_call_pairs: a call with a result, and the results of it.
Paired(ms) == SelectSeq(Middle(ms), LAMBDA m :
    \/ m.kind = "calls" /\ \E i \in DOMAIN ms : Answers(ms[i], m)
    \/ m.kind = "result" /\ \E i \in DOMAIN ms : Answers(m, ms[i]))

\* sliding_window_compact's loop after k rounds.  A round removes the oldest
\* calls with the result of the first of them, or the oldest message if there
\* are no calls.
Oldest(kept, k) ==
    LET callTurns == {kept[i].turn : i \in {j \in DOMAIN kept : kept[j].kind = "calls"}} IN
    {t \in callTurns : Cardinality({u \in callTurns : u < t}) < k}

Without(kept, k) ==
    LET gone == Oldest(kept, k)
        left == SelectSeq(kept, LAMBDA m :
                    ~(m.turn \in gone /\ (m.kind = "calls" \/ m.n = 1)))
    IN SubSeq(left, k - Cardinality(gone) + 1, Len(left))

Rests(ms) == {Without(kept, k) : kept \in {Paired(ms)}, k \in 0..Len(ms)} \cap Seq(Message)

Windows(ms) == {Head_(ms) \o rest \o Tail_(ms) : rest \in Rests(ms)}

Longest(S) == {s \in S : \A t \in S : Len(t) <= Len(s)}

\* sliding_window_compact: the loop ends as soon as few enough tokens are left.
Level2(ms) ==
    IF TooShort(ms) THEN {} ELSE Longest({w \in Windows(ms) : Tokens(w) <= Target})

\* deterministic_truncate: the longest end that fits, one message at least.
Level3(ms) ==
    Longest({e \in {SubSeq(ms, k, Len(ms)) : k \in 1..Len(ms)} : Tokens(e) <= Least \/ Len(e) = 1})

Outcomes(S, level) == {[messages |-> ms, compacted |-> TRUE, level |-> level] : ms \in S}

\* What may come of it: whether the LLM finds a summary is open.
Compactions(ms, threshold) ==
    IF Tokens(ms) <= threshold
    THEN {[messages |-> ms, compacted |-> FALSE, level |-> 0]}
    ELSE (IF TooShort(ms) THEN {} ELSE Outcomes(Summaries(ms), 1)) \cup
         (IF Level2(ms) # {} THEN Outcomes(Level2(ms), 2) ELSE Outcomes(Level3(ms), 3))

NoResult == [messages |-> << >>, compacted |-> FALSE, level |-> 0]

NoTask == task' = "none" /\ snapshot' = << >> /\ result' = NoResult

-----------------------------------------------------------------------------
(* The log. *)

\* _aflush_step: what is in the conversation and not in the log is appended.
Flush ==
    /\ log' = log \o SubSeq(messages', offset + 1, Len(messages'))
    /\ offset' = Len(messages')
    /\ UNCHANGED marks

\* Mutant: a compaction is not written to the log.
ReplaceKeepsLog(c) ==
    /\ messages' = c.messages
    /\ log' = log
    /\ offset' = Len(c.messages)
    /\ base' = 0 /\ held' = << >> /\ cut' = (cut \/ c.level = 3)
    /\ UNCHANGED head

\* areplace_messages, and the conversation is what is written.
Replace(c) ==
    /\ messages' = c.messages
    /\ log' = c.messages
    /\ offset' = Len(c.messages)
    /\ base' = 0 /\ held' = << >> /\ cut' = (cut \/ c.level = 3)
    /\ UNCHANGED head

\* _cleanup_expired_locked: the entry is older than its ttl, however much it
\* is in use, and some call of the manager was the hundredth.
Expire ==
    /\ attempts > 0 /\ expiries < MaxExpiries
    /\ expiries' = expiries + 1
    /\ log' = << >> /\ base' = offset /\ held' = << >>
    /\ UNCHANGED <<messages, offset, bgVars, pc, step, round, budget, outcome, attempts, events,
                   head, cut>>

-----------------------------------------------------------------------------
(* The attempts. *)

Prompt == <<Msg("system", turn, 0, 1), Msg("user", turn, 0, 1)>>

\* The counters are an attempt's own.
Cleared ==
    /\ step' = 0 /\ calls' = 0 /\ done' = 0 /\ bad' = FALSE
    /\ failures' = 0 /\ reflections' = 0 /\ nudged' = FALSE

\* The start of run_stream, up to the loop over the steps.
Begin ==
    /\ attempts' = attempts + 1
    /\ pc' = "step" /\ Cleared
    /\ outcome' = "none"
    /\ told' = << >>
    /\ UNCHANGED <<bgVars, expiries>>

\* What a compaction takes for the head of the conversation.
Opening(ms) == SubSeq(ms, 1, IF Len(ms) < KeepFirst THEN Len(ms) ELSE KeepFirst)

\* Without history the prompt is appended to whatever the log holds.
Fresh ==
    /\ messages' = Prompt
    /\ log' = log \o Prompt
    /\ offset' = Len(Prompt)
    /\ base' = 0 /\ held' = << >> /\ head' = Opening(Prompt) /\ cut' = FALSE

Start == pc = "idle" /\ Begin /\ Fresh /\ UNCHANGED <<turn, earlier>>

\* run_work_stream repairs a run that succeeded and left no artifacts, once.
\* The repair goes on from the log, with a prompt that is not in it yet.
Repair ==
    /\ pc = "over" /\ outcome = "ok" /\ attempts = 1
    /\ Begin
    /\ earlier' = told
    /\ \/ log = << >> /\ Fresh
       \/ /\ log # << >>
          /\ messages' = Append(log, Msg("user", turn, 1, 1))
          /\ offset' = Len(log)
          /\ base' = 0 /\ cut' = (cut \/ base > 0)
          /\ UNCHANGED <<log, held, head>>
    /\ UNCHANGED turn

\* _build_resume_state_from_events: a message for every event.  Calls are
\* numbered as they come, and a result is of the last one.
CallsUpTo(es, i) == Cardinality({j \in 1..i : es[j] = "calls"})

Rebuilt(es) == [i \in DOMAIN es |->
    Msg(es[i], turn + CallsUpTo(es, i), IF es[i] = "text" THEN 0 ELSE 1, 1)]

\* The events of an attempt are numbered from 1 again, so they are in front,
\* and some of the earlier ones, the first, are replaced.
EventsLeft == {told \o SubSeq(earlier, k, Len(earlier)) : k \in 1..Len(earlier)+1}

\* Mutant: nothing of what is rebuilt passes for logged.
ResumeUnlogged ==
    /\ pc = "over" /\ attempts < MaxAttempts
    /\ Begin
    /\ \E es \in EventsLeft \ {<< >>} :
          /\ Len(es) <= MaxEvents
          /\ messages' = Rebuilt(es)
          /\ turn' = turn + CallsUpTo(es, Len(es))
          /\ offset' = 0 /\ base' = Len(es)
          /\ head' = Opening(Rebuilt(es)) /\ cut' = FALSE
          /\ earlier' = es
    /\ held' = log
    /\ UNCHANGED log

\* work_resume_run, whatever became of the attempt.  The log is neither read
\* nor written: what is rebuilt passes for logged.
Resume ==
    /\ pc = "over" /\ attempts < MaxAttempts
    /\ Begin
    /\ \E es \in EventsLeft \ {<< >>} :
          /\ Len(es) <= MaxEvents
          /\ messages' = Rebuilt(es)
          /\ turn' = turn + CallsUpTo(es, Len(es))
          /\ offset' = Len(es) /\ base' = Len(es)
          /\ head' = Opening(Rebuilt(es)) /\ cut' = FALSE
          /\ earlier' = es
    /\ held' = log
    /\ UNCHANGED log

\* The compactor is the attempt's own: nobody uses what it may still return.
End(how) == pc' = "over" /\ outcome' = how /\ NoTask /\ Cleared

\* A tool that is run is told twice before, action and tool_call, and twice
\* after, observation and tool_result.
OneTool == <<"calls", "calls", "result", "result">>

\* The caller closes the generator, the task is cancelled, or the process
\* ends: nothing is flushed, and of a tool's events some are told.
Abandon ==
    /\ Running
    /\ End("abandoned")
    /\ \/ UNCHANGED told
       \/ pc = "tools" /\ \E k \in 1..Len(OneTool) : told' = told \o SubSeq(OneTool, 1, k)
    /\ UNCHANGED <<talk, turn, attempts, earlier, marks, expiries>>

-----------------------------------------------------------------------------
(* BackgroundCompactor *)

\* Mutant: the task is not taken off when it is done.
CompactedForGood ==
    /\ task = "running"
    /\ task' = "running"
    /\ result' \in Compactions(snapshot, Soft)
    /\ UNCHANGED <<talk, snapshot, pc, step, round, budget, outcome, attempts, events, marks, expiries>>

\* _bg_compact ends.
Compacted ==
    /\ task = "running"
    /\ task' = "ready"
    /\ result' \in Compactions(snapshot, Soft)
    /\ UNCHANGED <<talk, snapshot, pc, step, round, budget, outcome, attempts, events, marks, expiries>>

\* maybe_swap takes the result, unless the conversation has grown by half.
Swappable ==
    /\ result.compacted
    /\ 2 * Tokens(messages) <= 3 * Tokens(snapshot)

\* The top of a step.
NextStep ==
    /\ pc = "step" /\ step < MaxSteps
    /\ pc' = "calling" /\ step' = step + 1
    /\ IF task = "ready" THEN NoTask ELSE UNCHANGED bgVars
    /\ IF task = "ready" /\ Swappable THEN Replace(result) ELSE UNCHANGED <<talk, marks>>
    /\ UNCHANGED <<round, budget, outcome, attempts, events, expiries>>

OutOfSteps ==
    /\ pc = "step" /\ step = MaxSteps
    /\ messages' = messages /\ Flush
    /\ End("error")
    /\ UNCHANGED <<turn, attempts, events, expiries>>

-----------------------------------------------------------------------------
(* The LLM answers. *)

LLMFails ==
    /\ pc = "calling"
    /\ messages' = messages /\ Flush
    /\ End("error")
    /\ UNCHANGED <<turn, attempts, events, expiries>>

Calls(n) ==
    /\ pc = "calling"
    /\ messages' = Append(messages, Msg("calls", turn + 1, n, 1))
    /\ turn' = turn + 1 /\ calls' = n /\ done' = 0 /\ bad' = FALSE
    /\ pc' = "tools"
    /\ UNCHANGED <<offset, log, bgVars, step, budget, outcome, attempts, events, marks, expiries>>

\* A text ends the run,
Text ==
    /\ pc = "calling"
    /\ messages' = Append(messages, Msg("text", turn + 1, 0, 1)) /\ Flush
    /\ turn' = turn + 1
    /\ End("ok") /\ told' = Append(told, "text")
    /\ UNCHANGED <<attempts, earlier, expiries>>

\* or, if it should have been a call, is answered by a request for one, once.
Nudge ==
    /\ pc = "calling" /\ ForceDelivery /\ ~nudged /\ step < MaxSteps
    /\ nudged' = TRUE
    /\ messages' = messages \o <<Msg("text", turn + 1, 0, 1), Msg("nudge", turn + 1, 0, 1)>>
    /\ Flush
    /\ turn' = turn + 1
    /\ pc' = "step"
    /\ UNCHANGED <<bgVars, step, calls, done, bad, failures, reflections,
                   outcome, attempts, events, expiries>>

\* Neither a text nor a call.
Nothing ==
    /\ pc = "calling"
    /\ pc' = "step"
    /\ UNCHANGED <<talk, bgVars, step, round, budget, outcome, attempts, events, marks, expiries>>

-----------------------------------------------------------------------------
(* A round of tool calls. *)

ToolResult(size, ok) ==
    /\ pc = "tools"
    /\ messages' = Append(messages, Msg("result", turn, done + 1, size))
    /\ done' = done + 1 /\ bad' = (bad \/ ~ok)
    /\ pc' = "check"
    /\ told' = told \o OneTool
    /\ UNCHANGED <<offset, log, bgVars, step, turn, calls, budget, outcome, attempts, earlier,
                   marks, expiries>>

GoOn == pc' = IF done < calls THEN "tools" ELSE "close"

\* Mutant: a conversation over the hard threshold is compacted at once.
CheckNeverWaits ==
    /\ pc = "check"
    /\ IF Tokens(messages) >= Hard
       THEN pc' = "compact" /\ UNCHANGED bgVars
       ELSE /\ GoOn
            /\ IF Tokens(messages) >= Soft /\ task = "none"
               THEN task' = "running" /\ snapshot' = messages /\ UNCHANGED result
               ELSE UNCHANGED bgVars
    /\ UNCHANGED <<talk, step, round, budget, outcome, attempts, events, marks, expiries>>

\* check(), and start_async if it says so.
Check ==
    /\ pc = "check"
    /\ IF Tokens(messages) >= Hard
       THEN /\ pc' = IF task = "none" THEN "compact" ELSE "await"
            /\ UNCHANGED bgVars
       ELSE /\ GoOn
            /\ IF Tokens(messages) >= Soft /\ task = "none"
               THEN task' = "running" /\ snapshot' = messages /\ UNCHANGED result
               ELSE UNCHANGED bgVars
    /\ UNCHANGED <<talk, step, round, budget, outcome, attempts, events, marks, expiries>>

Take(c) == IF c.compacted THEN Replace(c) ELSE UNCHANGED <<talk, marks>>

\* await_compaction, with a background task that is done or to be waited for,
Await ==
    /\ pc = "await" /\ task = "ready"
    /\ Take(result) /\ NoTask
    /\ GoOn
    /\ UNCHANGED <<step, round, budget, outcome, attempts, events, expiries>>

\* and without one.
Compact ==
    /\ pc = "compact"
    /\ \E c \in Compactions(messages, Hard) : Take(c)
    /\ GoOn
    /\ UNCHANGED <<bgVars, step, round, budget, outcome, attempts, events, expiries>>

\* The end of a round: a reflection after the second failed round in a row,
\* then a flush.  A run whose files came out of its text ends here.
Failures == IF ~bad THEN 0 ELSE IF failures < 2 THEN failures + 1 ELSE 2

Reflects == bad /\ Failures = 2 /\ reflections < MaxReflect

\* Mutant: the flush at the end of a round is forgotten.
CloseRoundUnflushed ==
    /\ pc = "close"
    /\ failures' = Failures
    /\ pc' = "step"
    /\ UNCHANGED <<talk, bgVars, step, round, reflections, nudged, outcome, attempts, events, marks, expiries>>

CloseRound ==
    /\ pc = "close"
    /\ \/ messages' = messages
       \/ Reflects /\ messages' = Append(messages, Msg("reflection", turn, 0, 1))
    /\ Flush
    /\ \/ /\ pc' = "step"
          /\ failures' = Failures
          /\ reflections' = IF messages' = messages THEN reflections ELSE reflections + 1
          /\ UNCHANGED <<bgVars, step, calls, done, bad, nudged, outcome, told>>
       \/ ForceDelivery /\ End("ok") /\ told' = Append(told, "text")
    /\ UNCHANGED <<turn, attempts, earlier, expiries>>

-----------------------------------------------------------------------------

Init ==
    /\ messages = << >> /\ offset = 0 /\ log = << >>
    /\ task = "none" /\ snapshot = << >> /\ result = NoResult
    /\ pc = "idle" /\ step = 0
    /\ turn = 0 /\ calls = 0 /\ done = 0 /\ bad = FALSE
    /\ failures = 0 /\ reflections = 0 /\ nudged = FALSE
    /\ outcome = "none" /\ attempts = 0 /\ told = << >> /\ earlier = << >>
    /\ base = 0 /\ held = << >> /\ head = << >> /\ cut = FALSE /\ expiries = 0

LoopStep ==
    \/ NextStep \/ OutOfSteps
    \/ LLMFails \/ Text \/ Nudge \/ Nothing
    \/ \E n \in 1..MaxCalls : Calls(n)
    \/ \E size \in ResultSizes, ok \in BOOLEAN : ToolResult(size, ok)
    \/ Check \/ Await \/ Compact \/ CloseRound

Next == Start \/ Repair \/ Resume \/ Abandon \/ Expire \/ Compacted \/ LoopStep

Spec == Init /\ [][Next]_vars

\* The loop goes on: its LLM and its tools answer or time out, and the event
\* loop runs the task in the background.
FairSpec == Spec /\ WF_vars(LoopStep) /\ WF_vars(Compacted)

-----------------------------------------------------------------------------
(* Properties. *)

\* The log is the conversation up to the offset, less what went with an
\* expired entry, and after what it held already when the run was resumed:
\* nothing is logged twice, nothing the attempt added is skipped, and a
\* compaction in the background does not come between (_aflush_step's offset
\* and areplace_messages against maybe_swap and await_compaction).
LogExact == log = held \o SubSeq(messages, base + 1, offset)

\* What the attempt adds to its conversation is in the log, the request of a
\* repair apart: a crash costs at most the round in progress (_aflush_step at
\* the end of every step).
OneRoundAtRisk ==
    \A i \in offset + 1 .. Len(messages) :
        messages[i].kind = "user" \/ (messages[i].turn = turn /\ pc # "calling")

\* The background works on the beginning of the conversation as it now is:
\* a conversation that was replaced since never comes back.
SnapshotPrefix == task # "none" => IsPrefix(snapshot, messages)

\* What the attempt began with, the system prompt and the request unless it
\* was resumed, stays in front until the last resort, deterministic_truncate,
\* has cut it off, or a repair begins with a log that expired in between.
HeadKept == Running /\ ~cut => IsPrefix(head, messages)

\* Every attempt ends, also one that waits for the background.
AttemptEnds == Running ~> ~Running

\* compaction.py:418: a result's call is in the conversation, and the results
\* of every call, whenever the LLM is sent it.
PairsComplete ==
    pc = "calling" => \A i \in DOMAIN messages :
        /\ messages[i].kind = "result" =>
               \E j \in 1..i-1 : Answers(messages[i], messages[j])
        /\ messages[i].kind = "calls" =>
               \A n \in 1..messages[i].n : \E j \in i+1..Len(messages) :
                   Answers(messages[j], messages[i]) /\ messages[j].n = n

\* work.py:942 and loop.py:667: a run that crashed is resumed with the system
\* prompt and the requests, as far as the log kept them.
ContextRestored == [][Resume /\ outcome = "abandoned" =>
    \A i \in DOMAIN log : log[i].kind \in {"system", "user"} => log[i] \in ToSet(messages')]_vars
=============================================================================
