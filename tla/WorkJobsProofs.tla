--------------------------- MODULE WorkJobsProofs ---------------------------
(***************************************************************************)
(* Theorems about WorkJobs, for any number of jobs, sessions, permits and  *)
(* retries, and any number of stops and restarts.                          *)
(*                                                                         *)
(* The argument: a job that was accepted is in one place only (OnePlace),  *)
(* so the end of a run takes a job away from its session but none of the   *)
(* others; and a session that is "pending" owes it to a job whose run has  *)
(* not begun (PendingNotStarted), so the end of a run that leaves it       *)
(* "pending" leaves that job too.                                          *)
(*                                                                         *)
(* The last part shows that these jobs are a use of PriorityTaskQueue as   *)
(* WorkJobsQueue describes it, for as long as the worker is not stopped:   *)
(* the refinement needs, next to the above, that a job which is to be      *)
(* finished is somewhere and that the queue's active items are those that  *)
(* start or run (Placed), which a stop breaks.                             *)
(***************************************************************************)
EXTENDS WorkJobsQueue, SequenceTheorems, FiniteSetTheorems, TLAPS

USE DEF Updated

\* A session that is pending owes it to a job whose run has not begun.
PendingNotStarted ==
    \A s \in Session : status[s] = "pending" =>
        \E i \in ItemsOf(s) : Live(i) /\ i \notin running

\* The other half of OpenSessionHasJob.
RunningHasJob ==
    \A s \in Session : status[s] = "running" => \E i \in ItemsOf(s) : Live(i)

\* What the theorems rest on, without the types.
JobInv ==
    /\ OnePlace
    /\ PendingNotStarted
    /\ RunningHasJob
    /\ CancelFlagHasJob
    /\ ActiveSessionHasRun

\* A job that was enqueued has a session on disk.
KnownSession == \A i \in Item : outcome[i] # "new" => status[SessionOf[i]] # "none"

IInv == TypeOK /\ KnownSession /\ JobInv

-----------------------------------------------------------------------------
(* The sequence of waiting tasks. *)

\* Append and Tail as functions, for the provers.
LEMMA AppendFacts ==
    ASSUME NEW S, NEW w \in Seq(S), NEW x \in S
    PROVE  /\ Append(w, x) \in Seq(S)
           /\ Len(w) \in Nat /\ DOMAIN w = 1..Len(w)
           /\ DOMAIN Append(w, x) = 1..(Len(w) + 1)
           /\ \A k \in 1..Len(w) : Append(w, x)[k] = w[k]
           /\ Append(w, x)[Len(w) + 1] = x
  BY AppendProperties, LenProperties

\* The same for the head that leaves.
LEMMA TailFacts ==
    ASSUME NEW S, NEW w \in Seq(S), w # <<>>
    PROVE  /\ Tail(w) \in Seq(S)
           /\ Head(w) = w[1] /\ Head(w) \in S
           /\ Len(w) \in Nat \ {0} /\ DOMAIN w = 1..Len(w)
           /\ DOMAIN Tail(w) = 1..(Len(w) - 1)
           /\ \A k \in 1..(Len(w) - 1) : Tail(w)[k] = w[k + 1]
  BY HeadTailProperties, LenProperties, EmptySeq

-----------------------------------------------------------------------------
(* TypeOK *)

\* The types of all variables: TypeOK is inductive by itself.
LEMMA TypeInit == Init => TypeOK
  BY JobsAssumption DEF Init, TypeOK, Statuses, Outcomes

\* Every step keeps the types.
LEMMA TypeStep == TypeOK /\ [Next]_vars => TypeOK'
  <1> SUFFICES ASSUME TypeOK, [Next]_vars PROVE TypeOK'
    OBVIOUS
  <1> USE JobsAssumption DEF TypeOK, Statuses, Outcomes
  <1>1. ASSUME NEW i \in Item, Enqueue(i) PROVE TypeOK'
    BY <1>1 DEF Enqueue, taskVars, flagVars, envVars
  <1>2. ASSUME NEW i \in Item, Dequeue(i) PROVE TypeOK'
    BY <1>2, AppendFacts DEF Dequeue, flagVars, envVars
  <1>3. ASSUME NEW i \in Item, GetPermit(i) PROVE TypeOK'
    BY <1>3, TailFacts DEF GetPermit, flagVars, envVars
  <1>4. ASSUME NEW i \in Item, StartRun(i) PROVE TypeOK'
    BY <1>4 DEF StartRun, queueVars, envVars
  <1>5. ASSUME NEW i \in Item, NEW st \in Final, NEW ok \in BOOLEAN, StartEnds(i, st, ok) PROVE TypeOK'
    BY <1>5 DEF StartEnds, Finally, MarkDone, Final, envVars
  <1>6. ASSUME NEW i \in Item, RunErrs(i) PROVE TypeOK'
    BY <1>6 DEF RunErrs, queueVars, taskVars, flagVars, envVars
  <1>7. ASSUME NEW i \in Item, NEW st \in Statuses, NEW ok \in BOOLEAN, RunEnds(i, st, ok) PROVE TypeOK'
    BY <1>7 DEF RunEnds, Finally, MarkDone, envVars
  <1>8. ASSUME NEW s \in Session, Cancel(s) PROVE TypeOK'
    BY <1>8 DEF Cancel, queueVars, taskVars, envVars
  <1>9. CASE Stop
    <2>1. outcome' \in [Item -> Outcomes]
      BY <1>9 DEF Stop
    <2>2. stops' \in 0..MaxStops
      BY <1>9 DEF Stop
    <2>3. waiting' \in Seq(Item)
      BY <1>9, EmptySeq DEF Stop
    <2>4. activeSessions' \subseteq Session /\ cancelled' \subseteq Session
      BY <1>9 DEF Stop
    <2> QED
      BY <1>9, <2>1, <2>2, <2>3, <2>4 DEF Stop
  <1>10. CASE Start
    BY <1>10 DEF Start, queueVars, taskVars, flagVars
  <1>11. CASE Restart
    BY <1>11 DEF Restart
  <1>12. CASE UNCHANGED vars
    BY <1>12 DEF vars, queueVars, taskVars, flagVars, envVars
  <1> QED
    BY <1>1, <1>2, <1>3, <1>4, <1>5, <1>6, <1>7, <1>8, <1>9, <1>10, <1>11, <1>12
    DEF Next, ItemNext, StartsNext, EndsNext, StartCancelled, StartBlocked, StartRaises,
        RunCancelled, RunErrsCancelled, RunFinishes, RunRaises, Settled, Final

\* The variables of work_jobs.py and of its queue keep their types.
THEOREM TypeCorrect == Spec => []TypeOK
  <1>1. Init => TypeOK
    BY TypeInit
  <1>2. TypeOK /\ [Next]_vars => TypeOK'
    BY TypeStep
  <1> QED
    BY <1>1, <1>2, PTL DEF Spec
-----------------------------------------------------------------------------
(* JobInv *)

\* At first there is no job, no flag and no session.
LEMMA JobInit == Init => JobInv
  <1> SUFFICES ASSUME Init PROVE JobInv
    OBVIOUS
  <1>1. Waiting = {} /\ Starting = {} /\ DOMAIN waiting = {}
    BY JobsAssumption DEF Init, Waiting, Starting
  <1> QED
    BY <1>1 DEF Init, JobInv, OnePlace, PendingNotStarted, RunningHasJob,
                CancelFlagHasJob, ActiveSessionHasRun

\* How the set of waiting tasks changes.
LEMMA WaitingAppend ==
    ASSUME TypeOK, NEW i \in Item, waiting' = Append(waiting, i), i \notin Waiting,
           \A k, l \in DOMAIN waiting : waiting[k] = waiting[l] => k = l
    PROVE  /\ Waiting' = Waiting \cup {i}
           /\ \A k, l \in DOMAIN waiting' : waiting'[k] = waiting'[l] => k = l
  <1> DEFINE n == Len(waiting) + 1
  <1>1. /\ DOMAIN waiting = 1..(n - 1) /\ DOMAIN waiting' = 1..n /\ n \in Nat \ {0}
        /\ \A k \in 1..(n - 1) : waiting'[k] = waiting[k]
        /\ waiting'[n] = i
    BY AppendFacts DEF TypeOK
  <1> HIDE DEF n
  <1>2. \A k \in 1..(n - 1) : waiting[k] # i
    BY <1>1 DEF Waiting
  <1>3. \A k, l \in DOMAIN waiting' : waiting'[k] = waiting'[l] => k = l
    BY <1>1, <1>2
  <1>4. ASSUME NEW x \in Waiting' PROVE x \in Waiting \cup {i}
    BY <1>1, <1>4 DEF Waiting
  <1>5. ASSUME NEW x \in Waiting \cup {i} PROVE x \in Waiting'
    <2>1. CASE x = i
      BY <1>1, <2>1 DEF Waiting
    <2>2. CASE x \in Waiting
      <3>1. PICK k \in DOMAIN waiting : x = waiting[k]
        BY <2>2 DEF Waiting
      <3>2. k \in DOMAIN waiting' /\ waiting'[k] = x
        BY <1>1, <3>1
      <3> QED
        BY <3>2 DEF Waiting
    <2> QED
      BY <1>5, <2>1, <2>2
  <1> QED
    BY <1>3, <1>4, <1>5

\* What is left of the waiting tasks when the first gets its permit.
LEMMA WaitingTail ==
    ASSUME TypeOK, waiting # <<>>, waiting' = Tail(waiting),
           \A k, l \in DOMAIN waiting : waiting[k] = waiting[l] => k = l
    PROVE  /\ Head(waiting) \in Waiting \cap Item
           /\ Waiting' = Waiting \ {Head(waiting)}
           /\ \A k, l \in DOMAIN waiting' : waiting'[k] = waiting'[l] => k = l
  <1> USE TailFacts DEF TypeOK
  <1>1. Head(waiting) \in Waiting \cap Item
    BY DEF Waiting
  <1>2. \A k, l \in DOMAIN waiting' : waiting'[k] = waiting'[l] => k = l
    BY SMTT(30) DEF Waiting
  <1>3. ASSUME NEW x \in Waiting' PROVE x \in Waiting \ {Head(waiting)}
    BY <1>3 DEF Waiting
  <1>4. ASSUME NEW x \in Waiting, x # Head(waiting) PROVE x \in Waiting'
    <2>1. PICK k \in DOMAIN waiting : x = waiting[k]
      BY DEF Waiting
    <2>2. k # 1 /\ k - 1 \in 1..(Len(waiting) - 1) /\ waiting'[k - 1] = x
      BY <1>4, <2>1
    <2> QED
      BY <2>2 DEF Waiting
  <1> QED
    BY <1>1, <1>2, <1>3, <1>4

\* The set of waiting tasks is a function of their sequence.
LEMMA WaitingSame == waiting' = waiting => Waiting' = Waiting
  BY DEF Waiting

\* A step that keeps every live job, and starts none, keeps what is said of
\* the sessions it does not touch.
LEMMA SessionsKept ==
    ASSUME JobInv,
           NEW T,
           \A i \in Item : SessionOf[i] \notin T => (Live(i) => Live(i)'),
           \A i \in Item : SessionOf[i] \notin T /\ i \in running' => i \in running,
           \A s \in Session \ T : status'[s] = status[s]
    PROVE  \A s \in Session \ T :
             /\ status'[s] = "pending" => \E i \in ItemsOf(s) : Live(i)' /\ i \notin running'
             /\ status'[s] = "running" => \E i \in ItemsOf(s) : Live(i)'
             /\ s \in cancelled => \E i \in ItemsOf(s) : Live(i)'
  BY DEF JobInv, PendingNotStarted, RunningHasJob, CancelFlagHasJob, ItemsOf

\* What one step must establish of the sessions.
SessionsInv ==
    /\ PendingNotStarted
    /\ RunningHasJob
    /\ CancelFlagHasJob
    /\ ActiveSessionHasRun

\* A new job is in the queue only, and its session is pending.
LEMMA EnqueueStep ==
    ASSUME TypeOK, JobInv, NEW i \in Item, Enqueue(i)
    PROVE  JobInv'
  <1> USE DEF Enqueue, taskVars, flagVars
  <1>1. Waiting' = Waiting /\ Starting' = Starting
    BY DEF Waiting, Starting
  <1>2. i \notin queued \cup Waiting \cup Starting \cup running
    BY DEF JobInv, OnePlace
  <1>3. OnePlace'
    BY <1>1, <1>2 DEF JobInv, OnePlace, TypeOK, Waiting
  <1>4. Live(i)' /\ \A j \in Item : Live(j) => Live(j)'
    BY DEF Live, TypeOK
  <1>5. i \notin running' /\ i \in ItemsOf(SessionOf[i])
    BY <1>2 DEF ItemsOf
  <1>6. SessionsInv'
    BY <1>4, <1>5, JobsAssumption
    DEF JobInv, SessionsInv, PendingNotStarted, RunningHasJob, CancelFlagHasJob,
        ActiveSessionHasRun, TypeOK, ItemsOf
  <1> QED
    BY <1>3, <1>6 DEF JobInv, SessionsInv

\* A cancellation is accepted for sessions with a live job only.
LEMMA CancelStep ==
    ASSUME TypeOK, JobInv, NEW s \in Session, Cancel(s)
    PROVE  JobInv'
  <1> USE DEF Cancel, queueVars, taskVars
  <1>1. Waiting' = Waiting /\ Starting' = Starting
    BY DEF Waiting, Starting
  <1>2. OnePlace'
    BY <1>1 DEF JobInv, OnePlace
  <1>3. \A j \in Item : Live(j)' <=> Live(j)
    BY DEF Live
  <1>4. \E j \in ItemsOf(s) : Live(j)
    BY DEF Cancellable, JobInv, PendingNotStarted, RunningHasJob
  <1>5. SessionsInv'
    BY <1>3, <1>4
    DEF JobInv, SessionsInv, PendingNotStarted, RunningHasJob, CancelFlagHasJob,
        ActiveSessionHasRun, TypeOK, ItemsOf
  <1> QED
    BY <1>2, <1>5 DEF JobInv, SessionsInv

\* A job goes from the queue to the end of the line, where it was not.
LEMMA DequeueStep ==
    ASSUME TypeOK, JobInv, NEW i \in Item, Dequeue(i)
    PROVE  JobInv'
  <1> USE DEF Dequeue, flagVars
  <1>1. i \notin Waiting /\ Starting' = Starting
    BY DEF JobInv, OnePlace, Starting
  <1>2. /\ Waiting' = Waiting \cup {i}
        /\ \A k, l \in DOMAIN waiting' : waiting'[k] = waiting'[l] => k = l
    BY <1>1, WaitingAppend DEF JobInv, OnePlace
  <1>3. OnePlace'
    BY <1>1, <1>2 DEF JobInv, OnePlace
  <1>4. SessionsInv'
    BY DEF JobInv, SessionsInv, PendingNotStarted, RunningHasJob, CancelFlagHasJob,
           ActiveSessionHasRun, Live
  <1> QED
    BY <1>3, <1>4 DEF JobInv, SessionsInv

\* The first of the line leaves it, and was in it once.
LEMMA GetPermitStep ==
    ASSUME TypeOK, JobInv, NEW i \in Item, GetPermit(i)
    PROVE  JobInv'
  <1> USE DEF GetPermit, flagVars
  <1>1. /\ i \in Waiting /\ Waiting' = Waiting \ {i}
        /\ \A k, l \in DOMAIN waiting' : waiting'[k] = waiting'[l] => k = l
    BY WaitingTail DEF JobInv, OnePlace
  <1>2. Starting = {} /\ Starting' = {i}
    BY JobsAssumption DEF Starting
  <1>3. OnePlace'
    BY <1>1, <1>2 DEF JobInv, OnePlace
  <1>4. SessionsInv'
    BY DEF JobInv, SessionsInv, PendingNotStarted, RunningHasJob, CancelFlagHasJob,
           ActiveSessionHasRun, Live
  <1> QED
    BY <1>3, <1>4 DEF JobInv, SessionsInv

\* The starting job runs, and its session is on the active list.
LEMMA StartRunStep ==
    ASSUME TypeOK, JobInv, NEW i \in Item, StartRun(i)
    PROVE  JobInv'
  <1> USE DEF StartRun, queueVars
  <1>1. Waiting' = Waiting /\ Starting = {i} /\ Starting' = {}
    BY JobsAssumption DEF Waiting, Starting
  <1>2. OnePlace'
    BY <1>1 DEF JobInv, OnePlace
  <1>3. Live(i) /\ \A j \in Item : Live(j)' <=> Live(j)
    BY <1>1 DEF JobInv, OnePlace, Live
  <1>4. i \in ItemsOf(SessionOf[i]) /\ \A s \in Session : i \in ItemsOf(s) => s = SessionOf[i]
    BY DEF ItemsOf
  <1>5. PendingNotStarted' /\ RunningHasJob'
    BY <1>3, <1>4, JobsAssumption DEF JobInv, PendingNotStarted, RunningHasJob, TypeOK, ItemsOf
  <1>6. CancelFlagHasJob' /\ ActiveSessionHasRun'
    BY <1>3, <1>4 DEF JobInv, CancelFlagHasJob, ActiveSessionHasRun, ItemsOf
  <1> QED
    BY <1>2, <1>5, <1>6 DEF JobInv

\* The end of a run, or of a start: job i leaves its place, and its session is
\* final, unless it is pending.
LEMMA EndStep ==
    ASSUME TypeOK, JobInv, NEW i \in Item, NEW ok \in BOOLEAN, NEW st \in Statuses,
           Finally(i, ok),
           i \in running \cup Starting,
           Waiting' = Waiting, waiting' = waiting,
           running' = running \ {i}, Starting' = Starting \ {i},
           status' = [status EXCEPT ![SessionOf[i]] = st],
           st \in Final \/ (st = "pending" /\ st = status[SessionOf[i]] /\ i \in running)
    PROVE  JobInv'
  <1> USE DEF Finally, MarkDone
  <1> DEFINE s == SessionOf[i]
  <1>1. /\ i \notin queued \cup Waiting
        /\ i \notin running' \cup Starting'
        /\ \A j \in Item \ {i} : outcome'[j] = outcome[j]
        /\ queued' \subseteq queued \cup {i}
        /\ i \in queued' => outcome'[i] = "accepted"
    <2>1. outcome[i] = "accepted" /\ i \notin queued \cup Waiting
      BY DEF JobInv, OnePlace
    <2>2. i \notin running' \cup Starting'
      OBVIOUS
    <2> QED
      BY <2>1, <2>2 DEF TypeOK
  <1>2. OnePlace'
    <2>1. \A j \in queued \cup Waiting \cup Starting \cup running : j \in Item
      BY DEF TypeOK, Waiting, Starting
    <2> QED
      BY <1>1, <2>1 DEF JobInv, OnePlace, TypeOK
  <1>3. \A t \in Session \ {s} :
             /\ status'[t] = "pending" => \E j \in ItemsOf(t) : Live(j)' /\ j \notin running'
             /\ status'[t] = "running" => \E j \in ItemsOf(t) : Live(j)'
             /\ t \in cancelled => \E j \in ItemsOf(t) : Live(j)'
    <2>1. \A j \in Item : SessionOf[j] \notin {s} => (Live(j) => Live(j)')
      BY <1>1 DEF Live
    <2>2. \A t \in Session \ {s} : status'[t] = status[t]
      BY DEF TypeOK
    <2> QED
      BY <2>1, <2>2, SessionsKept
  <1>4. status'[s] = "pending" => \E j \in ItemsOf(s) : Live(j)' /\ j \notin running'
    <2> SUFFICES ASSUME status'[s] = "pending"
                 PROVE  \E j \in ItemsOf(s) : Live(j)' /\ j \notin running'
      OBVIOUS
    <2>1. status[s] = "pending" /\ i \in running /\ s \in Session
      BY JobsAssumption DEF TypeOK, Final
    <2>2. PICK j \in ItemsOf(s) : Live(j) /\ j \notin running
      BY <2>1 DEF JobInv, PendingNotStarted
    <2>3. j \in Item \ {i}
      BY <2>1, <2>2 DEF ItemsOf
    <2> QED
      BY <1>1, <2>2, <2>3 DEF Live
  <1>5. status'[s] # "running"
    BY JobsAssumption DEF TypeOK, Final
  <1>6. PendingNotStarted' /\ RunningHasJob'
    BY <1>3, <1>4, <1>5 DEF PendingNotStarted, RunningHasJob, ItemsOf
  <1>7. CancelFlagHasJob'
    BY <1>3 DEF CancelFlagHasJob, ItemsOf, TypeOK
  <1>8. ActiveSessionHasRun'
    <2> SUFFICES ASSUME NEW t \in activeSessions' PROVE \E j \in ItemsOf(t) : j \in running'
      BY DEF ActiveSessionHasRun, ItemsOf
    <2>1. t \in activeSessions /\ t # s
      OBVIOUS
    <2>2. PICK j \in ItemsOf(t) : j \in running
      BY <2>1 DEF JobInv, ActiveSessionHasRun
    <2>3. j # i
      BY <2>1, <2>2 DEF ItemsOf
    <2> QED
      BY <2>2, <2>3
  <1> QED
    BY <1>2, <1>6, <1>7, <1>8 DEF JobInv

\* A run that ends at its start settles its job and its session.
LEMMA StartEndsStep ==
    ASSUME TypeOK, JobInv, NEW i \in Item, NEW st \in Final, NEW ok \in BOOLEAN, StartEnds(i, st, ok)
    PROVE  JobInv'
  <1>1. Starting = {i} /\ Starting' = {} /\ waiting' = waiting /\ Finally(i, ok)
    BY JobsAssumption DEF StartEnds, Starting
  <1>2. running' = running \ {i}
    BY <1>1 DEF StartEnds, JobInv, OnePlace
  <1>3. status' = [status EXCEPT ![SessionOf[i]] = st] /\ st \in Statuses
    BY DEF StartEnds, Final, Statuses
  <1> QED
    BY <1>1, <1>2, <1>3, WaitingSame, EndStep

\* A run that ends later does, too.
LEMMA RunEndsStep ==
    ASSUME TypeOK, JobInv, NEW i \in Item, NEW st \in Final \cup {"pending"}, NEW ok \in BOOLEAN,
           RunEnds(i, st, ok), st = "pending" => status[SessionOf[i]] = "pending"
    PROVE  JobInv'
  <1>1. i \in running /\ running' = running \ {i} /\ waiting' = waiting /\ Finally(i, ok)
    BY DEF RunEnds
  <1>2. Starting' = Starting \ {i}
    BY <1>1 DEF RunEnds, Starting, JobInv, OnePlace
  <1>3. status' = [status EXCEPT ![SessionOf[i]] = st] /\ st \in Statuses
    BY DEF RunEnds, Final, Statuses
  <1> QED
    BY <1>1, <1>2, <1>3, WaitingSame, EndStep

\* An error event closes the session of a job that is still running.
LEMMA RunErrsStep ==
    ASSUME TypeOK, JobInv, NEW i \in Item, RunErrs(i)
    PROVE  JobInv'
  <1> USE DEF RunErrs, queueVars, taskVars, flagVars
  <1>1. Waiting' = Waiting /\ Starting' = Starting
    BY DEF Waiting, Starting
  <1>2. OnePlace'
    BY <1>1 DEF JobInv, OnePlace
  <1>3. SessionsInv'
    BY JobsAssumption
    DEF JobInv, SessionsInv, PendingNotStarted, RunningHasJob, CancelFlagHasJob,
        ActiveSessionHasRun, TypeOK, Live
  <1> QED
    BY <1>2, <1>3 DEF JobInv, SessionsInv

\* A stop or a restart: jobs are lost, and live on as such.
LEMMA StopStep ==
    ASSUME TypeOK, JobInv, Stop \/ Restart
    PROVE  JobInv'
  <1>1. Waiting' = {} /\ running' = {} /\ Starting' = {}
    BY JobsAssumption DEF Stop, Restart, Waiting, Starting
  <1>2. \A i \in Item : Live(i) => Live(i)'
    BY DEF Stop, Restart, Live
  <1>3. OnePlace'
    <2>1. CASE Stop
      <3>1. \A i \in queued : outcome'[i] = outcome[i] /\ outcome[i] = "accepted"
        BY <2>1 DEF Stop, JobInv, OnePlace, TypeOK
      <3>2. waiting' = <<>> /\ queued' = queued
        BY <2>1 DEF Stop
      <3> QED
        BY <1>1, <3>1, <3>2 DEF OnePlace
    <2>2. CASE Restart
      BY <1>1, <2>2 DEF Restart, OnePlace
    <2> QED
      BY <2>1, <2>2
  <1>4. status' = status /\ cancelled' \subseteq cancelled
    BY DEF Stop, Restart
  <1>5. PendingNotStarted' /\ RunningHasJob' /\ CancelFlagHasJob'
    BY <1>1, <1>2, <1>4
    DEF JobInv, PendingNotStarted, RunningHasJob, CancelFlagHasJob, ItemsOf
  <1>6. ActiveSessionHasRun'
    <2>1. activeSessions' = {}
      BY DEF Stop, Restart, JobInv, ActiveSessionHasRun, ItemsOf
    <2> QED
      BY <2>1 DEF ActiveSessionHasRun
  <1> QED
    BY <1>3, <1>5, <1>6 DEF JobInv

\* A start of the worker and a stutter touch no job.
LEMMA IdleStep ==
    ASSUME TypeOK, JobInv, Start \/ UNCHANGED vars
    PROVE  JobInv'
  <1>1. UNCHANGED <<queueVars, taskVars, flagVars, status>>
    BY DEF Start, vars
  <1> USE <1>1 DEF queueVars, taskVars, flagVars
  <1>2. Waiting' = Waiting /\ Starting' = Starting
    BY DEF Waiting, Starting
  <1>3. OnePlace'
    BY <1>2 DEF JobInv, OnePlace
  <1>4. SessionsInv'
    BY DEF JobInv, SessionsInv, PendingNotStarted, RunningHasJob, CancelFlagHasJob,
           ActiveSessionHasRun, Live
  <1> QED
    BY <1>3, <1>4 DEF JobInv, SessionsInv

\* No session disappears: no status becomes "none" again.
LEMMA KnownStep == TypeOK /\ JobInv /\ KnownSession /\ [Next]_vars => KnownSession'
  <1> SUFFICES ASSUME TypeOK, JobInv, KnownSession, [Next]_vars PROVE KnownSession'
    OBVIOUS
  <1> USE JobsAssumption DEF KnownSession, TypeOK
  <1>1. ASSUME NEW i \in Item, Enqueue(i) PROVE KnownSession'
    BY <1>1 DEF Enqueue
  <1>2. ASSUME NEW i \in Item, Dequeue(i) \/ GetPermit(i) PROVE KnownSession'
    BY <1>2 DEF Dequeue, GetPermit
  <1>3. ASSUME NEW i \in Item, StartRun(i) \/ RunErrs(i) PROVE KnownSession'
    BY <1>3 DEF StartRun, RunErrs, queueVars
  <1>4. ASSUME NEW i \in Item, NEW st \in Final, NEW ok \in BOOLEAN,
               StartEnds(i, st, ok) PROVE KnownSession'
    <2>1. outcome[i] = "accepted"
      BY <1>4 DEF StartEnds, JobInv, OnePlace, Starting
    <2> QED
      BY <1>4, <2>1 DEF StartEnds, Finally, MarkDone, Final
  <1>5. ASSUME NEW i \in Item, NEW ok \in BOOLEAN, NEW st \in Final \cup {Settled(status[SessionOf[i]])},
               RunEnds(i, st, ok) PROVE KnownSession'
    <2>1. outcome[i] = "accepted"
      BY <1>5 DEF RunEnds, JobInv, OnePlace
    <2>2. st # "none"
      BY <2>1 DEF Settled, Final
    <2> QED
      BY <1>5, <2>1, <2>2 DEF RunEnds, Finally, MarkDone
  <1>6. ASSUME NEW s \in Session, Cancel(s) PROVE KnownSession'
    BY <1>6 DEF Cancel, queueVars
  <1>7. CASE Stop \/ Restart
    <2>1. ASSUME NEW i \in Item, outcome'[i] # "new" PROVE outcome[i] # "new"
      <3>1. i \in running \cup Waiting => outcome[i] = "accepted"
        BY DEF JobInv, OnePlace
      <3> QED
        BY <1>7, <2>1, <3>1 DEF Stop, Restart
    <2>2. status' = status
      BY <1>7 DEF Stop, Restart
    <2> QED
      BY <2>1, <2>2
  <1>8. CASE Start \/ UNCHANGED vars
    BY <1>8 DEF Start, vars, queueVars
  <1> QED
    BY <1>1, <1>2, <1>3, <1>4, <1>5, <1>6, <1>7, <1>8
    DEF Next, ItemNext, StartsNext, EndsNext, StartCancelled, StartBlocked, StartRaises,
        RunCancelled, RunErrsCancelled, RunFinishes, RunRaises, Final

\* Each step of the worker, of a route, and of the process keeps JobInv.
LEMMA JobStep == TypeOK /\ KnownSession /\ JobInv /\ [Next]_vars => JobInv'
  <1> SUFFICES ASSUME TypeOK, KnownSession, JobInv, [Next]_vars PROVE JobInv'
    OBVIOUS
  <1>1. ASSUME NEW i \in Item, StartsNext(i) PROVE JobInv'
    BY <1>1, StartRunStep, StartEndsStep
    DEF StartsNext, StartCancelled, StartBlocked, StartRaises, Final
  <1>2. ASSUME NEW i \in Item, EndsNext(i) PROVE JobInv'
    <2>1. ASSUME i \in running PROVE status[SessionOf[i]] \in Statuses \ {"none"}
      BY <2>1, JobsAssumption DEF TypeOK, KnownSession, JobInv, OnePlace
    <2>2. ASSUME RunCancelled(i) PROVE JobInv'
      BY <2>1, <2>2, RunEndsStep DEF RunCancelled, RunEnds, Settled, Statuses, Final
    <2>3. ASSUME RunErrsCancelled(i) \/ RunFinishes(i) \/ RunRaises(i) PROVE JobInv'
      BY <2>3, RunEndsStep DEF RunErrsCancelled, RunFinishes, RunRaises, Final
    <2> QED
      BY <1>2, <2>2, <2>3 DEF EndsNext
  <1> QED
    BY <1>1, <1>2, EnqueueStep, CancelStep, DequeueStep, GetPermitStep, RunErrsStep, StopStep, IdleStep
    DEF Next, ItemNext
-----------------------------------------------------------------------------
(* The theorems. *)

\* The inductive invariant: the types, JobInv, and that the session of every
\* job is on disk; the properties of the runs are parts of it.
THEOREM Inductive == Spec => []IInv
  <1>1. Init => IInv
    BY TypeInit, JobInit DEF IInv, Init, KnownSession
  <1>2. IInv /\ [Next]_vars => IInv'
    BY TypeStep, JobStep, KnownStep DEF IInv
  <1> QED
    BY <1>1, <1>2, PTL DEF Spec

\* No job is ever in two places of the worker, whatever retries, errors,
\* stops and restarts it meets: it is never run twice at once, nor again
\* after it was done or given up.
THEOREM JobInOnePlace == Spec => []OnePlace
  <1>1. IInv => OnePlace
    BY DEF IInv, JobInv
  <1> QED
    BY <1>1, Inductive, PTL

\* No session stays pending or running on disk without a job to close it.
THEOREM SessionsAreClosed == Spec => []OpenSessionHasJob
  <1>1. IInv => OpenSessionHasJob
    BY DEF IInv, JobInv, PendingNotStarted, RunningHasJob, OpenSessionHasJob
  <1> QED
    BY <1>1, Inductive, PTL

\* No cancellation reaches a job that was enqueued after the cancelled ones
\* had ended, and active_job_sessions lists no session whose jobs are all idle.
THEOREM FlagsExpire == Spec => []FlagsHaveJobs
  <1>1. IInv => FlagsHaveJobs
    BY DEF IInv, JobInv, FlagsHaveJobs
  <1> QED
    BY <1>1, Inductive, PTL
-----------------------------------------------------------------------------
(* The queue's protocol. *)

\* While the worker is not stopped: a job that is to be finished is somewhere,
\* the active ones are those that start or run, and a new job has no retries.
Placed ==
    /\ \A i \in Item : outcome[i] = "accepted" => i \in queued \cup Waiting \cup Starting \cup running
    /\ active = Starting \cup running
    /\ \A i \in Item : outcome[i] = "new" => retry[i] = 0

\* At first every job is new.
LEMMA PlacedInit == Init => Placed
  BY JobsAssumption DEF Init, Placed, Waiting, Starting

\* A report ends a job, or queues it again.
LEMMA PlacedEnd ==
    ASSUME TypeOK, JobInv, Placed, NEW i \in Item, NEW ok \in BOOLEAN, MarkDone(i, ok),
           i \in running \cup Starting, Waiting' = Waiting,
           running' = running \ {i}, Starting' = Starting \ {i}
    PROVE  Placed'
  <1>1. outcome[i] = "accepted" /\ active' = active \ {i}
    BY DEF JobInv, OnePlace, MarkDone
  <1>2. \A j \in Item : outcome'[j] = "accepted" =>
          j \in queued' \cup Waiting' \cup Starting' \cup running'
    BY DEF MarkDone, Placed, TypeOK
  <1>3. \A j \in Item : outcome'[j] = "new" => retry'[j] = 0
    BY <1>1 DEF MarkDone, Placed, TypeOK
  <1> QED
    BY <1>1, <1>2, <1>3 DEF Placed

\* Only a stop takes a job from its place and leaves it active.
LEMMA PlacedStep == IInv /\ Placed /\ [Next]_vars /\ ~Stop => Placed'
  <1> SUFFICES ASSUME TypeOK, JobInv, Placed, [Next]_vars, ~Stop PROVE Placed'
    BY DEF IInv
  <1>1. ASSUME NEW i \in Item, Enqueue(i) PROVE Placed'
    <2>1. Waiting' = Waiting /\ Starting' = Starting
      BY <1>1 DEF Enqueue, taskVars, Waiting, Starting
    <2> QED
      BY <1>1, <2>1 DEF Enqueue, taskVars, Placed, TypeOK
  <1>2. ASSUME NEW i \in Item, Dequeue(i) PROVE Placed'
    <2>1. Waiting' = Waiting \cup {i} /\ Starting' = Starting
      BY <1>2, WaitingAppend DEF Dequeue, JobInv, OnePlace, Starting
    <2> QED
      BY <1>2, <2>1 DEF Dequeue, Placed
  <1>3. ASSUME NEW i \in Item, GetPermit(i) PROVE Placed'
    <2>1. Waiting' = Waiting \ {i} /\ Starting' = {i} /\ Starting = {}
      BY <1>3, WaitingTail, JobsAssumption DEF GetPermit, JobInv, OnePlace, Starting
    <2> QED
      BY <1>3, <2>1 DEF GetPermit, Placed
  <1>4. ASSUME NEW i \in Item, StartRun(i) PROVE Placed'
    <2>1. Waiting' = Waiting /\ Starting' = {} /\ Starting = {i}
      BY <1>4, JobsAssumption DEF StartRun, Waiting, Starting
    <2> QED
      BY <1>4, <2>1 DEF StartRun, queueVars, Placed
  <1>5. ASSUME NEW i \in Item, NEW st, NEW ok \in BOOLEAN, StartEnds(i, st, ok) PROVE Placed'
    <2>1. Waiting' = Waiting /\ Starting' = {} /\ Starting = {i}
      BY <1>5, JobsAssumption DEF StartEnds, Waiting, Starting
    <2>2. running' = running \ {i}
      BY <1>5, <2>1 DEF StartEnds, JobInv, OnePlace
    <2> QED
      BY <1>5, <2>1, <2>2, PlacedEnd DEF StartEnds, Finally
  <1>6. ASSUME NEW i \in Item, NEW st, NEW ok \in BOOLEAN, RunEnds(i, st, ok) PROVE Placed'
    <2>1. Waiting' = Waiting /\ Starting' = Starting \ {i} /\ running' = running \ {i} /\ i \in running
      BY <1>6 DEF RunEnds, Waiting, Starting, JobInv, OnePlace
    <2> QED
      BY <1>6, <2>1, PlacedEnd DEF RunEnds, Finally
  <1>7. ASSUME UNCHANGED <<queueVars, taskVars>> PROVE Placed'
    <2>1. Waiting' = Waiting /\ Starting' = Starting
      BY <1>7 DEF taskVars, Waiting, Starting
    <2> QED
      BY <1>7, <2>1 DEF queueVars, taskVars, Placed
  <1>8. CASE Restart
    <2>1. \A i \in Item : outcome'[i] # "accepted" /\ (outcome'[i] = "new" => outcome[i] = "new")
      BY <1>8 DEF Restart, TypeOK
    <2>2. Waiting' = {} /\ Starting' = {}
      BY <1>8, JobsAssumption DEF Restart, Waiting, Starting
    <2> QED
      BY <1>8, <2>1, <2>2 DEF Restart, Placed
  <1> QED
    BY <1>1, <1>2, <1>3, <1>4, <1>5, <1>6, <1>7, <1>8
    DEF Next, ItemNext, StartsNext, EndsNext, StartCancelled, StartBlocked, StartRaises,
        RunCancelled, RunErrs, RunErrsCancelled, RunFinishes, RunRaises, Cancel, Start, vars

-----------------------------------------------------------------------------
(* Steps of the job's sets as steps of the queue's variables. *)

\* The part of the queue's state that no step of this module uses: nobody
\* sleeps in get(), the forefront is empty and no fingerprint is kept.
LEMMA Unused ==
    /\ FrontOf' = FrontOf /\ NoPrints' = NoPrints /\ NeverShut' = NeverShut /\ NoMirror' = NoMirror
    /\ FrontOf["process"] = <<>> /\ NoPrints["process"] = {} /\ NeverShut["process"] = FALSE
    /\ Queue!Sleepers("process") = {}
    /\ \A S : Queue!ForFront(S) = {} /\ Queue!ForHeap(S) = S
    /\ \A t : t \in Item => ~Queue!Filtered(t)
    /\ \A S : {} \in Queue!Applied(S)
  <1>1. Queue!Sleepers("process") = {}
    BY DEF Queue!Sleepers, PcOf
  <1>2. \A S : Queue!ForFront(S) = {} /\ Queue!ForHeap(S) = S
    BY DEF Queue!ForFront, Queue!ForHeap
  <1>3. \A t : t \in Item => ~Queue!Filtered(t)
    BY DEF Queue!Filtered
  <1>4. \A S : {} \in Queue!Applied(S)
    BY DEF Queue!Applied
  <1> QED
    BY <1>1, <1>2, <1>3, <1>4 DEF FrontOf, NoPrints, NeverShut, NoMirror

\* Nothing is stacked on the forefront.
LEMMA FrontStays ==
    \A S : \E s \in Queue!SetToSeqs(Queue!ForFront(S)) : FrontOf' = [FrontOf EXCEPT !["process"] = @ \o s]
  <1>1. <<>> \in Queue!SetToSeqs({})
    <2>1. Queue!Cardinality({}) = Cardinality({})
      BY DEF Queue!Cardinality, Cardinality
    <2>2. Queue!Cardinality({}) = 0
      BY <2>1, FS_EmptySet
    <2>3. <<>> \in [1..0 -> {}] /\ 1..0 = {}
      BY EmptySeq
    <2> QED
      BY <2>2, <2>3 DEF Queue!SetToSeqs
  <1>2. <<>> \o <<>> = <<>>
    BY EmptySeq, ConcatEmptySeq
  <1>3. FrontOf' = [FrontOf EXCEPT !["process"] = @ \o <<>>]
    BY <1>2 DEF FrontOf
  <1> QED
    BY <1>1, <1>3, Unused

\* The entry of a queued item, the only one in the heap for it.
EntryOf(i) == [task |-> i, retry |-> retry[i]]

\* What the queue keeps of one item.
LEMMA Mapped ==
    ASSUME TypeOK, NEW i \in Item
    PROVE  /\ EntryOf(i) \in Queue!Entry /\ EntryOf(i).task = i /\ EntryOf(i).retry = retry[i]
           /\ HeapOf["process"][EntryOf(i)] = IF i \in queued THEN 1 ELSE 0
           /\ ActiveOf["process"][i] = IF i \in active THEN [retry |-> retry[i], started |-> 1] ELSE None
  <1>1. EntryOf(i) \in Queue!Entry /\ EntryOf(i).task = i /\ EntryOf(i).retry = retry[i]
    BY DEF TypeOK, EntryOf, Queue!Entry
  <1> QED
    BY <1>1 DEF HeapOf, ActiveOf, Queue!Entry

\* The heap after an item has been pushed.
LEMMA HeapPush ==
    ASSUME TypeOK, TypeOK', NEW i \in Item, i \notin queued, queued' = queued \cup {i},
           \A j \in Item \ {i} : retry'[j] = retry[j]
    PROVE  HeapOf' = [HeapOf EXCEPT !["process"] = Queue!Pushed(@, {[task |-> i, retry |-> retry'[i]]})]
  <1> DEFINE x == [task |-> i, retry |-> retry'[i]]
             E == [task : Item, retry : 0..MaxRetries]
  <1>1. ASSUME NEW e \in E
        PROVE  (IF e.task \in queued' /\ e.retry = retry'[e.task] THEN 1 ELSE 0)
               = IF e \in {x} THEN (IF e.task \in queued /\ e.retry = retry[e.task] THEN 1 ELSE 0) + 1
                 ELSE IF e.task \in queued /\ e.retry = retry[e.task] THEN 1 ELSE 0
    <2>1. e = x <=> e.task = i /\ e.retry = retry'[i]
      OBVIOUS
    <2> QED
      BY <2>1
  <1>2. Queue!Pushed(HeapOf["process"], {x}) = HeapOf'["process"]
    BY <1>1 DEF Queue!Pushed, Queue!Entry, HeapOf
  <1> QED
    BY <1>2 DEF HeapOf

\* It stays as it is if no queued item's retry count changes.
LEMMA HeapSame ==
    ASSUME queued' = queued, \A j \in Item : j \in queued => retry'[j] = retry[j]
    PROVE  /\ HeapOf' = HeapOf
           /\ HeapOf' = [HeapOf EXCEPT !["process"] = Queue!Pushed(@, {})]
  <1>1. HeapOf' = HeapOf
    BY DEF HeapOf
  <1>2. Queue!Pushed(HeapOf["process"], {}) = HeapOf["process"]
    BY DEF Queue!Pushed, Queue!Entry, HeapOf
  <1> QED
    BY <1>1, <1>2 DEF HeapOf
-----------------------------------------------------------------------------
(* Each step is one of the queue, or leaves it alone. *)

\* The heap holds the entry of each queued item.
LEMMA QueuedInHeap ==
    ASSUME TypeOK, NEW i \in queued
    PROVE  EntryOf(i) \in Queue!InHeap("process") /\ EntryOf(i).task = i
  <1>1. i \in Item
    BY DEF TypeOK
  <1>2. HeapOf["process"][EntryOf(i)] = 1 /\ EntryOf(i) \in Queue!Entry /\ EntryOf(i).task = i
    BY <1>1, Mapped
  <1>3. 1 > 0
    OBVIOUS
  <1> QED
    BY <1>2, <1>3 DEF Queue!InHeap

\* enqueue_work_job is a put().
LEMMA EnqueuePuts ==
    ASSUME TypeOK, TypeOK', JobInv, Placed, NEW i \in Item, Enqueue(i)
    PROVE  Queue!PutOne("process", i)
  <1> DEFINE fresh == {[task |-> t, retry |-> 0] : t \in {i}}
  <1>1. /\ i \notin queued \cup Waiting \cup running /\ i # loop
        /\ retry[i] = 0 /\ retry' = retry
        /\ queued' = queued \cup {i}
    BY DEF Enqueue, JobInv, OnePlace, Placed, Starting
  <1>2. PcOf' = PcOf /\ HandOf' = HandOf /\ ActiveOf' = ActiveOf /\ restarts' = restarts
    BY WaitingSame DEF PcOf, HandOf, ActiveOf, Enqueue, taskVars, envVars
  <1>3. FateOf[i] = "new" /\ FateOf' = [t \in Item |-> IF t \in {i} THEN "accepted" ELSE FateOf[t]]
    BY DEF FateOf, Enqueue, TypeOK
  <1>4. HeapOf' = [HeapOf EXCEPT !["process"] = Queue!Pushed(@, Queue!ForHeap(fresh))]
    <2>1. fresh = {[task |-> i, retry |-> retry'[i]]} /\ Queue!ForHeap(fresh) = fresh
      BY <1>1, Unused
    <2> QED
      BY <1>1, <2>1, HeapPush
  <1>5. \E s \in Queue!SetToSeqs(Queue!ForFront(fresh)) : FrontOf' = [FrontOf EXCEPT !["process"] = @ \o s]
    BY FrontStays
  <1>6. NoPrints' = [NoPrints EXCEPT !["process"] =
                       @ \cup {SessionOf[t] : t \in {u \in {i} : Queue!Filtered(u)}}]
    <2>1. {u \in {i} : Queue!Filtered(u)} = {}
      BY Unused
    <2> QED
      BY <2>1 DEF NoPrints
  <1>7. \E ok \in Queue!Applied({i}) : {} = {} \cup ok
    BY Unused
  <1>8. Queue!Accepts("process", {i}, {i})
    BY Unused DEF Queue!Accepts
  <1>9. PcOf' \in Queue!NotifyOne("process")
    BY <1>2, Unused DEF Queue!NotifyOne
  <1> HIDE DEF fresh
  <1>10. Queue!Put("process", {i})
    <2>1. {i} \in SUBSET {i} /\ {i} # {}
      OBVIOUS
    <2> QED
      BY <1>2, <1>3, <1>4, <1>5, <1>6, <1>7, <1>8, <2>1, Unused DEF Queue!Put, fresh
  <1> QED
    BY <1>9, <1>10 DEF Queue!PutOne

\* The loop's dequeue is a get(): the item's task has the entry now.
LEMMA DequeueGets ==
    ASSUME TypeOK, JobInv, NEW i \in Item, Dequeue(i)
    PROVE  Queue!Get(i)
  <1>1. /\ i \in queued /\ i \notin Waiting /\ i \notin running /\ loop = None /\ i # None
        /\ queued' = queued \ {i} /\ Waiting' = Waiting \cup {i}
        /\ UNCHANGED <<active, retry, outcome, running, loop, restarts>>
    BY WaitingAppend, JobsAssumption DEF Dequeue, JobInv, OnePlace, envVars
  <1>2. PcOf[i] = "idle" /\ PcOf' = [PcOf EXCEPT ![i] = "holding"]
    BY <1>1 DEF PcOf
  <1>3. HandOf' = [HandOf EXCEPT ![i] = EntryOf(i)]
    BY <1>1 DEF HandOf, EntryOf
  <1>4. ActiveOf' = ActiveOf /\ FateOf' = FateOf
    BY <1>1 DEF ActiveOf, FateOf
  <1>5. EntryOf(i) \in Queue!Deliverable("process")
    <2>1. EntryOf(i) \in Queue!InHeap("process") /\ EntryOf(i).task = i
      BY <1>1, QueuedInHeap
    <2>2. \A d \in Queue!InHeap("process") : d.task \in queued
      BY DEF Queue!InHeap, HeapOf, Queue!Entry
    <2>3. \A j \in queued : JobPriority[j] <= JobPriority[i]
      BY DEF Dequeue
    <2> QED
      BY <2>1, <2>2, <2>3, Unused DEF Queue!Deliverable
  <1>6. HeapOf' = [HeapOf EXCEPT !["process"][EntryOf(i)] = @ - 1]
    <2> DEFINE E == [task : Item, retry : 0..MaxRetries]
    <2>1. \A e \in E : e = EntryOf(i) <=> e.task = i /\ e.retry = retry[i]
      BY DEF EntryOf
    <2>2. \A e \in E :
            (IF e.task \in queued' /\ e.retry = retry'[e.task] THEN 1 ELSE 0)
            = IF e = EntryOf(i) THEN (IF e.task \in queued /\ e.retry = retry[e.task] THEN 1 ELSE 0) - 1
              ELSE IF e.task \in queued /\ e.retry = retry[e.task] THEN 1 ELSE 0
      BY <1>1, <2>1
    <2> QED
      BY <2>2 DEF HeapOf
  <1>7. \E gone \in Queue!Applied({EntryOf(i).task}) : {} = {} \ gone
    BY Unused
  <1>8. Queue!Take(i, EntryOf(i))
    BY <1>1, <1>2, <1>3, <1>4, <1>5, <1>6, <1>7, Unused DEF Queue!Take
  <1> QED
    BY <1>2, <1>5, <1>8, Unused DEF Queue!Get

\* _execute, given its permit, marks its item active.
LEMMA PermitMarks ==
    ASSUME TypeOK, JobInv, NEW i \in Item, GetPermit(i)
    PROVE  Queue!MarkActive(i)
  <1>1. /\ i \in Waiting /\ Waiting' = Waiting \ {i}
        /\ i \notin running /\ loop = None /\ loop' = i
        /\ active' = active \cup {i}
        /\ UNCHANGED <<queued, retry, outcome, running, restarts>>
    BY WaitingTail DEF GetPermit, JobInv, OnePlace, envVars
  <1>2. \A j \in Item : j # None
    BY JobsAssumption
  <1>3. PcOf[i] = "holding" /\ PcOf' = [PcOf EXCEPT ![i] = "running"]
    BY <1>1, <1>2 DEF PcOf
  <1>4. HandOf' = HandOf /\ HandOf[i] = EntryOf(i) /\ HandOf[i].task = i /\ HandOf[i].retry = retry[i]
    BY <1>1, <1>2 DEF HandOf, EntryOf
  <1>5. ActiveOf' = [ActiveOf EXCEPT !["process"][i] = [retry |-> retry[i], started |-> 1]]
    BY <1>1 DEF ActiveOf
  <1>6. HeapOf' = HeapOf /\ FateOf' = FateOf
    BY <1>1 DEF HeapOf, FateOf
  <1>7. \E ok \in Queue!Applied({i}) :
          NoMirror' = IF i \in ok THEN [NoMirror EXCEPT ![i] = [retry |-> retry[i], started |-> 1]]
                      ELSE NoMirror
    BY Unused
  <1> QED
    BY <1>1, <1>3, <1>4, <1>5, <1>6, <1>7, Unused DEF Queue!MarkActive

\* The end of a run is the mark_done of the worker that has its item.
LEMMA EndReports ==
    ASSUME TypeOK, TypeOK', JobInv, Placed, NEW i \in Item, NEW ok \in BOOLEAN, MarkDone(i, ok),
           i \in running \cup Starting, Waiting' = Waiting,
           running' = running \ {i}, Starting' = Starting \ {i}, restarts' = restarts
    PROVE  Queue!MarkDoneSuccess(i) \/ Queue!MarkDoneFailure(i)
  <1>1. /\ i \in active /\ i \notin queued \cup Waiting /\ outcome[i] = "accepted"
        /\ i = loop \/ i \in running
        /\ i \notin running' /\ i # loop'
        /\ \A j \in Item \ {i} : j \in running' <=> j \in running
        /\ \A j \in Item \ {i} : j = loop' <=> j = loop
    BY JobsAssumption DEF JobInv, OnePlace, Placed, Starting
  <1>2. active' = active \ {i} /\ \A j \in Item \ {i} : retry'[j] = retry[j] /\ outcome'[j] = outcome[j]
    BY DEF MarkDone, TypeOK
  <1>3. PcOf[i] = "running" /\ PcOf' = [PcOf EXCEPT ![i] = "idle"]
    BY <1>1 DEF PcOf
  <1>4. HandOf[i].task = i /\ HandOf' = [HandOf EXCEPT ![i] = None]
    BY <1>1, <1>2 DEF HandOf
  <1>5. /\ ActiveOf["process"][i] # None /\ ActiveOf["process"][i].retry = retry[i]
        /\ ActiveOf' = [ActiveOf EXCEPT !["process"][i] = None]
    <2>1. ActiveOf["process"][i] = [retry |-> retry[i], started |-> 1]
      BY <1>1 DEF ActiveOf
    <2>2. [retry |-> retry[i], started |-> 1] # None
      BY QueueAbsent DEF TypeOK
    <2>3. \A j \in Item : (IF j \in active' THEN [retry |-> retry'[j], started |-> 1] ELSE None)
                          = IF j = i THEN None
                            ELSE IF j \in active THEN [retry |-> retry[j], started |-> 1] ELSE None
      BY <1>2
    <2>4. ActiveOf' = [ActiveOf EXCEPT !["process"][i] = None]
      BY <2>3 DEF ActiveOf
    <2> QED
      BY <2>1, <2>2, <2>4
  <1>6. Queue!RemoveFromRedisActive(i)
    BY Unused DEF Queue!RemoveFromRedisActive
  <1>7. \A T : NoPrints' = [NoPrints EXCEPT !["process"] = Queue!Forgotten(@, T)]
    BY DEF NoPrints, Queue!Forgotten
  <1>8. CASE ok
    <2>1. queued' = queued /\ retry' = retry /\ outcome' = [outcome EXCEPT ![i] = "done"]
      BY <1>8 DEF MarkDone
    <2>2. HeapOf' = HeapOf
      BY <2>1, HeapSame
    <2>3. FateOf' = [FateOf EXCEPT ![i] = "done"]
      BY <2>1 DEF TypeOK, FateOf
    <2> QED
      BY <1>3, <1>4, <1>5, <1>6, <1>7, <2>2, <2>3, Unused DEF Queue!MarkDoneSuccess
  <1>9. CASE ~ok
    <2> DEFINE S == {[task |-> i, retry |-> ActiveOf["process"][i].retry]}
    <2>1. S = {EntryOf(i)}
      BY <1>5 DEF EntryOf
    <2> HIDE DEF S
    <2>2. /\ retry[i] < MaxRetries =>
               Queue!Retried(S) = {[task |-> i, retry |-> retry[i] + 1]} /\ Queue!GivenUp(S) = {}
          /\ ~(retry[i] < MaxRetries) => Queue!Retried(S) = {} /\ Queue!GivenUp(S) = {i}
      <3> DEFINE x == EntryOf(i)
      <3>1. retry[i] \in Nat /\ MaxRetries \in Nat /\ x.task = i /\ x.retry = retry[i]
        BY JobsAssumption DEF TypeOK, EntryOf
      <3>2. [x EXCEPT !.retry = @ + 1] = [task |-> i, retry |-> retry[i] + 1]
        BY DEF EntryOf
      <3> HIDE DEF x
      <3>3. S = {x}
        BY <2>1 DEF x
      <3>4. CASE retry[i] < MaxRetries
        <4>1. {d \in S : d.retry < MaxRetries} = {x} /\ {d \in S : d.retry >= MaxRetries} = {}
          BY <3>1, <3>3, <3>4
        <4>2. Queue!Retried(S) = {[x EXCEPT !.retry = @ + 1]}
          BY <4>1 DEF Queue!Retried
        <4>3. Queue!GivenUp(S) = {}
          BY <4>1 DEF Queue!GivenUp
        <4> QED
          BY <3>2, <3>4, <4>2, <4>3
      <3>5. CASE ~(retry[i] < MaxRetries)
        <4>1. {d \in S : d.retry < MaxRetries} = {} /\ {d \in S : d.retry >= MaxRetries} = {x}
          BY <3>1, <3>3, <3>5
        <4> QED
          BY <3>1, <3>5, <4>1 DEF Queue!Retried, Queue!GivenUp
      <3> QED
        BY <3>4, <3>5
    <2>3. HeapOf' = [HeapOf EXCEPT !["process"] = Queue!Pushed(@, Queue!ForHeap(Queue!Retried(S)))]
      <3>1. CASE retry[i] < MaxRetries
        <4>1. queued' = queued \cup {i} /\ retry'[i] = retry[i] + 1
          BY <1>9, <3>1 DEF MarkDone, TypeOK
        <4> QED
          BY <1>1, <1>2, <2>2, <3>1, <4>1, HeapPush, Unused
      <3>2. CASE ~(retry[i] < MaxRetries)
        <4>1. queued' = queued /\ retry' = retry
          BY <1>9, <3>2 DEF MarkDone
        <4> QED
          BY <2>2, <3>2, <4>1, HeapSame, Unused
      <3> QED
        BY <3>1, <3>2
    <2>4. FateOf' = Queue!Dropped(Queue!GivenUp(S))
      <3>1. CASE retry[i] < MaxRetries
        BY <1>9, <2>2, <3>1 DEF MarkDone, FateOf, Queue!Dropped
      <3>2. CASE ~(retry[i] < MaxRetries)
        BY <1>1, <1>9, <2>2, <3>2 DEF MarkDone, TypeOK, FateOf, Queue!Dropped
      <3> QED
        BY <3>1, <3>2
    <2>5. \E s \in Queue!SetToSeqs(Queue!ForFront(Queue!Retried(S))) :
            FrontOf' = [FrontOf EXCEPT !["process"] = @ \o s]
      BY FrontStays
    <2>6. \E pc \in IF Queue!Retried(S) = {} THEN {PcOf} ELSE Queue!NotifyOne("process") :
            PcOf' = [pc EXCEPT ![i] = "idle"]
      BY <1>3, Unused DEF Queue!NotifyOne
    <2>7. \E done \in Queue!Applied({e.task : e \in Queue!Retried(S)}) : {} = {} \cup done
      BY Unused
    <2> QED
      BY <1>3, <1>4, <1>5, <1>6, <1>7, <2>3, <2>4, <2>5, <2>6, <2>7, Unused DEF Queue!MarkDoneFailure, S
  <1> QED
    BY <1>8, <1>9

\* A restart is a crash, which loses what was queued or held.
LEMMA RestartCrashes ==
    ASSUME TypeOK, JobInv, Placed, Restart
    PROVE  Queue!Crash("process")
  <1>1. /\ Waiting' = {} /\ running' = {} /\ queued' = {} /\ active' = {} /\ loop' = None
        /\ restarts < MaxRestarts /\ restarts' = restarts + 1
        /\ \A j \in Item : j # None
    BY JobsAssumption DEF Restart, Waiting
  <1>2. HeapOf' = [HeapOf EXCEPT !["process"] = Queue!EmptyHeap]
    BY <1>1 DEF HeapOf, Queue!EmptyHeap, Queue!Entry
  <1>3. ActiveOf' = [ActiveOf EXCEPT !["process"] = Queue!EmptyActive]
    BY <1>1 DEF ActiveOf, Queue!EmptyActive
  <1>4. PcOf' = [w \in Item |-> IF [i \in Item |-> "process"][w] = "process" THEN "idle" ELSE PcOf[w]]
    BY <1>1 DEF PcOf
  <1>5. HandOf' = [w \in Item |-> IF [i \in Item |-> "process"][w] = "process" THEN None ELSE HandOf[w]]
    BY <1>1 DEF HandOf
  <1>6. Queue!QueuedTasks("process") = queued
    <2>1. \A i \in queued : EntryOf(i) \in Queue!InHeap("process") /\ EntryOf(i).task = i
      BY QueuedInHeap
    <2>2. \A e \in Queue!InHeap("process") : e.task \in queued
      BY DEF Queue!InHeap, HeapOf, Queue!Entry
    <2>3. Queue!HeapTasks("process") = queued
      BY <2>1, <2>2 DEF Queue!HeapTasks
    <2>4. Queue!FrontTasks("process") = {}
      BY EmptySeq DEF Queue!FrontTasks, Queue!InForefront, FrontOf
    <2> QED
      BY <2>3, <2>4 DEF Queue!QueuedTasks
  <1>7. Queue!HeldTasks("process") = Waiting
    <2>1. \A i \in Waiting : i \in Item /\ i \notin running /\ i # loop
      BY DEF TypeOK, Waiting, JobInv, OnePlace, Starting
    <2>2. Queue!Holders("process") = Waiting
      BY <2>1 DEF Queue!Holders, PcOf
    <2>3. \A i \in Waiting : HandOf[i].task = i
      BY <2>1 DEF HandOf
    <2> QED
      BY <2>2, <2>3 DEF Queue!HeldTasks
  <1>8. FateOf' = [t \in Item |-> IF t \in queued \cup Waiting /\ FateOf[t] = "accepted"
                                  THEN "lost" ELSE FateOf[t]]
    <2>1. \A t \in Item : /\ t \in queued \cup Waiting => t \notin active /\ outcome[t] = "accepted"
                          /\ outcome[t] = "accepted" /\ t \notin active => t \in queued \cup Waiting
      BY DEF JobInv, OnePlace, Placed
    <2>2. outcome' = [i \in Item |-> IF i \in active /\ outcome[i] = "accepted" THEN "cut"
                                     ELSE IF outcome[i] = "accepted" THEN "lost" ELSE outcome[i]]
      BY DEF Restart
    <2> QED
      BY <2>1, <2>2 DEF FateOf
  <1> QED
    BY <1>1, <1>2, <1>3, <1>4, <1>5, <1>6, <1>7, <1>8, EmptySeq, Unused
    DEF Queue!Crash, FrontOf, NoPrints, NeverShut

\* Everything else leaves the queue's state as it is.
LEMMA QueueRests ==
    ASSUME UNCHANGED <<queueVars, waiting, running, loop, restarts>>
           \/ \E i \in Item : StartRun(i)
    PROVE  UNCHANGED Queue!vars
  <1>1. Waiting' = Waiting /\ UNCHANGED <<queued, active, retry, outcome, restarts>>
    BY WaitingSame DEF queueVars, StartRun, envVars
  <1>2. \A j \in Item : j \in running' \/ j = loop' <=> j \in running \/ j = loop
    BY JobsAssumption DEF StartRun
  <1>3. HeapOf' = HeapOf /\ ActiveOf' = ActiveOf /\ FateOf' = FateOf
    BY <1>1 DEF HeapOf, ActiveOf, FateOf
  <1>4. PcOf' = PcOf /\ HandOf' = HandOf
    BY <1>1, <1>2 DEF PcOf, HandOf
  <1> QED
    BY <1>1, <1>3, <1>4, Unused DEF Queue!vars, Queue!memory, Queue!redis, Queue!worker

\* As long as the worker is not stopped, every step of the jobs is one of the
\* queue or leaves it alone.
LEMMA QueueStep ==
    ASSUME TypeOK, TypeOK', JobInv, Placed, [Next]_vars, ~Stop
    PROVE  [Queue!Next]_(Queue!vars)
  <1>1. ASSUME NEW i \in Item, Queue!Get(i) \/ Queue!MarkActive(i)
                               \/ Queue!MarkDoneSuccess(i) \/ Queue!MarkDoneFailure(i)
        PROVE  Queue!Next
    BY <1>1 DEF Queue!Next, Queue!WorkerNext
  <1>2. ASSUME NEW i \in Item, Enqueue(i) PROVE Queue!Next
    BY <1>2, EnqueuePuts DEF Queue!Next, Queue!ProcNext
  <1>3. ASSUME NEW i \in Item, Dequeue(i) \/ GetPermit(i) PROVE Queue!Next
    BY <1>1, <1>3, DequeueGets, PermitMarks
  <1>4. ASSUME NEW i \in Item, NEW st, NEW ok \in BOOLEAN, StartEnds(i, st, ok) PROVE Queue!Next
    <2>1. Waiting' = Waiting /\ Starting' = {} /\ Starting = {i}
      BY <1>4, JobsAssumption DEF StartEnds, Waiting, Starting
    <2>2. running' = running \ {i} /\ MarkDone(i, ok) /\ restarts' = restarts
      BY <1>4, <2>1 DEF StartEnds, Finally, JobInv, OnePlace, envVars
    <2> QED
      BY <1>1, <2>1, <2>2, EndReports
  <1>5. ASSUME NEW i \in Item, NEW st, NEW ok \in BOOLEAN, RunEnds(i, st, ok) PROVE Queue!Next
    <2>1. Waiting' = Waiting /\ Starting' = Starting \ {i} /\ running' = running \ {i} /\ i \in running
      BY <1>5 DEF RunEnds, Waiting, Starting, JobInv, OnePlace
    <2>2. MarkDone(i, ok) /\ restarts' = restarts
      BY <1>5 DEF RunEnds, Finally, envVars
    <2> QED
      BY <1>1, <2>1, <2>2, EndReports
  <1>6. CASE Restart
    BY <1>6, RestartCrashes DEF Queue!Next, Queue!ProcNext
  <1>7. ASSUME NEW i \in Item, StartRun(i) PROVE UNCHANGED Queue!vars
    BY <1>7, QueueRests
  <1>8. ASSUME UNCHANGED <<queueVars, waiting, running, loop, restarts>> PROVE UNCHANGED Queue!vars
    BY <1>8, QueueRests
  <1>9. ASSUME (\E i \in Item : RunErrs(i)) \/ (\E s \in Session : Cancel(s)) \/ Start \/ UNCHANGED vars
        PROVE  UNCHANGED <<queueVars, waiting, running, loop, restarts>>
    BY <1>9 DEF RunErrs, Cancel, Start, vars, taskVars, envVars
  <1>10. ASSUME NEW i \in Item, ItemNext(i) PROVE Queue!Next \/ UNCHANGED Queue!vars
    BY <1>2, <1>3, <1>4, <1>5, <1>7, <1>8, <1>9, <1>10
    DEF ItemNext, StartsNext, EndsNext, StartCancelled, StartBlocked, StartRaises,
        RunCancelled, RunErrsCancelled, RunFinishes, RunRaises
  <1> QED
    BY <1>6, <1>8, <1>9, <1>10 DEF Next

\* The queue of no jobs is the empty queue.
LEMMA QueueInit == Init => Queue!Init
  <1> SUFFICES ASSUME Init PROVE Queue!Init
    OBVIOUS
  <1>1. queued = {} /\ active = {} /\ Waiting = {} /\ running = {} /\ restarts = 0 /\ loop = None
        /\ outcome = [i \in Item |-> "new"] /\ \A i \in Item : i # None
    BY JobsAssumption DEF Init, Waiting
  <1>2. HeapOf = [p \in {"process"} |-> Queue!EmptyHeap]
    BY <1>1 DEF HeapOf, Queue!EmptyHeap, Queue!Entry
  <1>3. ActiveOf = [p \in {"process"} |-> Queue!EmptyActive]
    BY <1>1 DEF ActiveOf, Queue!EmptyActive
  <1>4. PcOf = [w \in Item |-> "idle"] /\ HandOf = [w \in Item |-> None]
    BY <1>1 DEF PcOf, HandOf
  <1>5. FateOf = [t \in Item |-> "new"]
    BY <1>1 DEF FateOf
  <1> QED
    BY <1>1, <1>2, <1>3, <1>4, <1>5
    DEF Queue!Init, Queue!EmptyActive, FrontOf, NoPrints, NeverShut, NoMirror

\* Whatever the jobs do, and whenever the process is restarted, the worker
\* drives its queue as priority_queue.py documents, until it is stopped: it
\* reports each item it was given once, and takes it again only after a retry.
THEOREM QueueIsDriven == Spec /\ [](stops = 0) => QueueProtocol
  <1>1. Init => Queue!Init /\ Placed
    BY QueueInit, PlacedInit
  <1>2. IInv /\ IInv' /\ Placed /\ stops = 0 /\ (stops = 0)' /\ [Next]_vars
        => Placed' /\ [Queue!Next]_(Queue!vars)
    <2> SUFFICES ASSUME IInv, IInv', Placed, stops = 0, (stops = 0)', [Next]_vars
                 PROVE  Placed' /\ [Queue!Next]_(Queue!vars)
      OBVIOUS
    <2>1. ~Stop
      BY DEF Stop
    <2> QED
      BY <2>1, PlacedStep, QueueStep DEF IInv
  <1> QED
    BY <1>1, <1>2, Inductive, PTL DEF Spec, QueueProtocol, Queue!Spec
=============================================================================
