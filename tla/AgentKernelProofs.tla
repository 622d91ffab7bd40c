-------------------------- MODULE AgentKernelProofs --------------------------
(***************************************************************************)
(* Theorems about the two parts of the agent kernel, its scheduler and its *)
(* bus, which share no state.                                              *)
(*                                                                         *)
(* AgentScheduler, for any processes and priorities: the collections are   *)
(* disjoint and agree with the states (Consistent, inductive as it         *)
(* stands), and every behaviour is one of AgentLifecycle.                  *)
(*                                                                         *)
(* A2ABus, for any agents, requests and types of reply: no request is lost *)
(* or doubled on its way (Conserved), no future stays behind but that of a *)
(* refused request (PendingExact), and what a caller gets is what module   *)
(* A2ARequests promises (KeepsPromise).                                    *)
(***************************************************************************)
EXTENDS AgentScheduler, A2ABus, TLAPS

-----------------------------------------------------------------------------
(* Type correctness *)

\* The scheduler starts without a process.
LEMMA TypeInit == Init => TypeOK
BY SchedulerAssumption DEF Init, TypeOK, States

\* A terminated set is one of processes that a collection holds.
LEMMA ReachedFound == \A S : Reached(S) \subseteq Found
BY DEF Reached

\* Becoming ready keeps the types of what admit() touches.
LEMMA AdmitType ==
    ASSUME TypeOK, NEW p \in Pid, Admit(p)
    PROVE  state' \in [Pid -> States] /\ ready' \subseteq Pid /\ running' \subseteq Pid
<1>1. Victims(p) \subseteq Pid
  BY DEF TypeOK, Victims
<1>2. state' \in [Pid -> States]
  BY <1>1 DEF TypeOK, Admit, States
<1> QED BY <1>2 DEF TypeOK, Admit

\* Terminating what S reaches keeps the types.
LEMMA TerminateType == ASSUME TypeOK, NEW S, TerminateAll(S) PROVE TypeOK'
<1>1. Reached(S) \subseteq Pid
  BY ReachedFound DEF Found, TypeOK
<1>2. state' \in [Pid -> States]
  BY DEF TypeOK, TerminateAll, States
<1>3. terminated' \subseteq Pid
  BY <1>1 DEF TypeOK, TerminateAll
<1> QED BY <1>2, <1>3 DEF TypeOK, TerminateAll, kernelVars, shutdownVars

\* The first half of suspend() keeps the types of what it touches.
LEMMA SuspendPopType ==
    ASSUME TypeOK, NEW p \in Pid, SuspendPop(p)
    PROVE  /\ state' \in [Pid -> States] /\ suspending' \subseteq Pid
           /\ ready' \subseteq Pid /\ running' \subseteq Pid /\ blocked' \subseteq Pid
BY DEF TypeOK, SuspendPop, States

\* Every step keeps the types.
LEMMA TypeStep == TypeOK /\ [Next]_vars => TypeOK'
<1> SUFFICES ASSUME TypeOK, [Next]_vars PROVE TypeOK'
  OBVIOUS
<1>1. ASSUME NEW p \in Pid, NEW par \in Pid \cup {None}, Spawn(p, par) PROVE TypeOK'
  <2>1. childPids' \in [Pid -> SUBSET Pid]
    BY <1>1 DEF TypeOK, Spawn, Adopted
  <2> QED BY <1>1, <2>1, AdmitType DEF TypeOK, Spawn, kernelVars, shutdownVars
<1>2. ASSUME NEW p \in Pid, NEW par \in Pid \cup {None}, SpawnWaits(p, par) PROVE TypeOK'
  BY <1>2 DEF TypeOK, SpawnWaits, States, collections, kernelVars, shutdownVars
<1>3. ASSUME NEW p \in Pid, Schedule(p) PROVE TypeOK'
  BY <1>3 DEF TypeOK, Schedule, States, kernelVars, shutdownVars
<1>4. ASSUME NEW p \in Pid, Yield(p) PROVE TypeOK'
  BY <1>4 DEF TypeOK, Yield, States, kernelVars, shutdownVars
<1>5. ASSUME NEW p \in Pid, Block(p) PROVE TypeOK'
  BY <1>5 DEF TypeOK, Block, States, kernelVars, shutdownVars
<1>6. ASSUME NEW p \in Pid, Unblock(p) PROVE TypeOK'
  BY <1>6, AdmitType DEF TypeOK, Unblock, kernelVars, shutdownVars
<1>7. ASSUME NEW S, TerminateAll(S) PROVE TypeOK'
  BY <1>7, TerminateType
<1>8. ASSUME NEW p \in Pid, Suspend(p) PROVE TypeOK'
  BY <1>8, SuspendPopType DEF TypeOK, Suspend, SuspendPop, kernelVars, shutdownVars
<1>9. ASSUME NEW p \in Pid, SuspendEnds(p) PROVE TypeOK'
  BY <1>9 DEF TypeOK, SuspendEnds, kernelVars
<1>10. ASSUME NEW p \in Pid, SuspendFails(p) PROVE TypeOK'
  BY <1>10 DEF TypeOK, SuspendFails, collections, kernelVars, shutdownVars
<1>11. ASSUME NEW p \in Pid, Resume(p) PROVE TypeOK'
  BY <1>11 DEF TypeOK, Resume, States, kernelVars, shutdownVars
<1>12. ASSUME NEW p \in Pid, ShutdownSuspends(p) PROVE TypeOK'
  <2>1. CASE p \in ready \cup running \cup blocked
    BY <1>12, <2>1, SuspendPopType DEF TypeOK, ShutdownSuspends, SuspendPop, kernelVars
  <2>2. CASE p \notin ready \cup running \cup blocked
    BY <1>12, <2>2 DEF TypeOK, ShutdownSuspends, collections, kernelVars
  <2> QED BY <2>1, <2>2
<1>13. CASE LoopTick
  BY <1>13 DEF TypeOK, LoopTick, collections, shutdownVars
<1>14. CASE Boot
  BY <1>14, SchedulerAssumption DEF TypeOK, Boot, collections, shutdownVars
<1>15. CASE ShutdownBegins
  BY <1>15 DEF TypeOK, ShutdownBegins, collections, kernelVars
<1>16. CASE ShutdownEnds
  BY <1>16 DEF TypeOK, ShutdownEnds, collections
<1>17. CASE UNCHANGED vars
  BY <1>17 DEF TypeOK, vars, collections, kernelVars, shutdownVars
<1> QED
  BY <1>1, <1>2, <1>3, <1>4, <1>5, <1>6, <1>7, <1>8, <1>9, <1>10, <1>11, <1>12,
     <1>13, <1>14, <1>15, <1>16, <1>17
  DEF Next, ProcessNext, Kill, Monitor

\* Every variable of the scheduler has its type in every reachable state.
THEOREM TypeCorrect == Spec => []TypeOK
<1> QED BY TypeInit, TypeStep, PTL DEF Spec

-----------------------------------------------------------------------------
(* Consistent *)

\* At first no collection holds a process, and no process has a state.
LEMMA ConsistentInit == Init => Consistent
BY DEF Init, Consistent, OneCollection, StateAgrees, Found

\* What keeps the collections disjoint when process p, of none of the others,
\* is made ready: p and the victims are the only ones whose state changes.
LEMMA AdmitStates ==
    ASSUME TypeOK, Consistent, NEW p \in Pid, p \notin running, Admit(p)
    PROVE  /\ state'[p] = "READY"
           /\ running' \subseteq running
           /\ ready' = ready \cup {p}
           /\ \A q \in Pid \ {p} :
                 \/ state'[q] = state[q]
                 \/ q \in running \ running' /\ state'[q] = "READY"
<1>1. CASE Victims(p) = {}
  BY <1>1 DEF Admit, TypeOK
<1>2. ASSUME NEW v \in Victims(p), state' = [state EXCEPT ![p] = "READY", ![v] = "READY"]
      PROVE  /\ state'[p] = "READY"
             /\ \A q \in Pid \ {p} :
                   \/ state'[q] = state[q]
                   \/ q \in running \ running' /\ state'[q] = "READY"
  <2>1. v \in running /\ v \notin running' /\ v \in Pid
    BY <1>2 DEF Admit, Victims, TypeOK
  <2> QED BY <1>2, <2>1 DEF TypeOK
<1> QED BY <1>1, <1>2 DEF Admit

\* Terminating what S reaches keeps the collections disjoint and their
\* processes in the states they stand for.
LEMMA TerminateConsistent ==
    ASSUME TypeOK, Consistent, NEW S, TerminateAll(S) PROVE Consistent'
<1>1. Reached(S) \subseteq Found
  BY ReachedFound
<1>2. OneCollection'
  BY <1>1 DEF Consistent, OneCollection, Found, TerminateAll
<1>3. StateAgrees'
  BY <1>1 DEF TypeOK, Consistent, OneCollection, StateAgrees, Found, TerminateAll
<1> QED BY <1>2, <1>3 DEF Consistent

\* So does the first half of suspend().
LEMMA SuspendPopConsistent ==
    ASSUME TypeOK, Consistent, NEW p \in ready \cup running \cup blocked, SuspendPop(p)
    PROVE  Consistent'
<1>1. p \in Pid
  BY DEF TypeOK
<1>2. OneCollection'
  BY <1>1 DEF Consistent, OneCollection, Found, SuspendPop
<1>3. StateAgrees'
  BY <1>1 DEF TypeOK, Consistent, OneCollection, StateAgrees, Found, SuspendPop, Legal
<1> QED BY <1>2, <1>3 DEF Consistent

\* Every step keeps the collections disjoint and in agreement with the states.
LEMMA ConsistentStep == TypeOK /\ Consistent /\ [Next]_vars => Consistent'
<1> SUFFICES ASSUME TypeOK, Consistent, [Next]_vars PROVE Consistent'
  OBVIOUS
<1> USE DEF Consistent, OneCollection, StateAgrees, Found
<1>1. ASSUME NEW p \in Pid, NEW par \in Pid \cup {None}, Spawn(p, par) PROVE Consistent'
  BY <1>1, AdmitStates DEF TypeOK, Spawn, Registered
<1>2. ASSUME NEW p \in Pid, NEW par \in Pid \cup {None}, SpawnWaits(p, par) PROVE Consistent'
  BY <1>2 DEF TypeOK, SpawnWaits, Registered, collections
<1>3. ASSUME NEW p \in Pid, Schedule(p) PROVE Consistent'
  BY <1>3 DEF TypeOK, Schedule
<1>4. ASSUME NEW p \in Pid, Yield(p) PROVE Consistent'
  BY <1>4 DEF TypeOK, Yield
<1>5. ASSUME NEW p \in Pid, Block(p) PROVE Consistent'
  BY <1>5 DEF TypeOK, Block, Legal
<1>6. ASSUME NEW p \in Pid, Unblock(p) PROVE Consistent'
  BY <1>6, AdmitStates DEF TypeOK, Unblock
<1>7. ASSUME NEW S, TerminateAll(S) PROVE Consistent'
  BY <1>7, TerminateConsistent
<1>8. ASSUME NEW p \in Pid, Suspend(p) PROVE Consistent'
  BY <1>8, SuspendPopConsistent DEF Suspend
<1>9. ASSUME NEW p \in Pid, SuspendEnds(p) PROVE Consistent'
  BY <1>9 DEF TypeOK, SuspendEnds
<1>10. ASSUME NEW p \in Pid, SuspendFails(p) PROVE Consistent'
  BY <1>10 DEF TypeOK, SuspendFails, collections
<1>11. ASSUME NEW p \in Pid, Resume(p) PROVE Consistent'
  BY <1>11 DEF TypeOK, Resume
<1>12. ASSUME NEW p \in Pid, ShutdownSuspends(p) PROVE Consistent'
  BY <1>12, SuspendPopConsistent DEF ShutdownSuspends, collections
<1>13. CASE LoopTick \/ Boot \/ ShutdownBegins \/ ShutdownEnds \/ UNCHANGED vars
  BY <1>13 DEF LoopTick, Boot, ShutdownBegins, ShutdownEnds, vars, collections
<1> QED
  BY <1>1, <1>2, <1>3, <1>4, <1>5, <1>6, <1>7, <1>8, <1>9, <1>10, <1>11, <1>12, <1>13
  DEF Next, ProcessNext, Kill, Monitor

\* In every reachable state a process is in one collection, suspension or
\* admission at most, and its own state is that of the collection.
THEOREM CollectionsConsistent == Spec => []Consistent
<1> QED
  BY TypeInit, TypeStep, ConsistentInit, ConsistentStep, PTL DEF Spec

-----------------------------------------------------------------------------
(* The refinement of AgentLifecycle *)

\* Process q stays where it is, or makes a move that AgentLifecycle lists.
Moved(q) == Place(q)' = Place(q) \/ Place(q)' \in Lifecycle!Moves(Place(q))

\* The place of a process, by the collection that holds it.
LEMMA PlaceOf ==
    ASSUME TypeOK, Consistent, NEW p \in Pid
    PROVE  /\ state[p] = "none" <=> Place(p) = "new"
           /\ p \in admitting  <=> Place(p) = "admitting"
           /\ p \in ready      <=> Place(p) = "ready"
           /\ p \in running    <=> Place(p) = "running"
           /\ p \in blocked    <=> Place(p) = "blocked"
           /\ p \in suspending <=> Place(p) = "suspending"
           /\ p \in suspended  <=> Place(p) = "suspended"
           /\ p \in terminated <=> Place(p) = "terminated"
           /\ Place(p) \in Lifecycle!Places
BY DEF Consistent, OneCollection, StateAgrees, Found, Place, Lifecycle!Places

\* The same after a step.
LEMMA PlaceOfNext ==
    ASSUME TypeOK', Consistent', NEW p \in Pid
    PROVE  /\ state'[p] = "none" <=> Place(p)' = "new"
           /\ p \in admitting'  <=> Place(p)' = "admitting"
           /\ p \in ready'      <=> Place(p)' = "ready"
           /\ p \in running'    <=> Place(p)' = "running"
           /\ p \in blocked'    <=> Place(p)' = "blocked"
           /\ p \in suspending' <=> Place(p)' = "suspending"
           /\ p \in suspended'  <=> Place(p)' = "suspended"
           /\ p \in terminated' <=> Place(p)' = "terminated"
           /\ Place(p)' \in Lifecycle!Places
BY DEF Consistent, OneCollection, StateAgrees, Found, Place, Lifecycle!Places

\* The moves, by the collections before and after.
LEMMA MovedBy ==
    ASSUME TypeOK, Consistent, TypeOK', Consistent', NEW q \in Pid,
           \/ /\ state[q] = "none"
              /\ state'[q] = "none" \/ q \in admitting' \cup ready'
           \/ q \in admitting \cap admitting'
           \/ /\ q \in ready
              /\ q \notin admitting' \cup blocked' \cup suspended' /\ state'[q] # "none"
           \/ /\ q \in running
              /\ q \notin admitting' \cup ready' \cup suspended' /\ state'[q] # "none"
           \/ /\ q \in blocked
              /\ q \notin admitting' \cup running' \cup suspending' \cup suspended'
              /\ state'[q] # "none"
           \/ /\ q \in suspending
              /\ q \notin admitting' \cup ready' \cup running' \cup blocked' \cup terminated'
              /\ state'[q] # "none"
           \/ /\ q \in suspended
              /\ q \notin admitting' \cup ready' \cup running' \cup blocked' \cup suspending'
              /\ state'[q] # "none"
           \/ q \in terminated \cap terminated'
           \/ /\ state[q] # "none" /\ state'[q] # "none"
              /\ q \notin Found \cup terminated \cup admitting \cup suspending
              /\ q \notin Found' \cup terminated' \cup admitting' \cup suspending'
    PROVE  Moved(q)
BY PlaceOf, PlaceOfNext DEF Moved, Lifecycle!Moves, Lifecycle!Places, Found

\* Every step moves the processes as AgentLifecycle does.
LEMMA StepMoves ==
    TypeOK /\ Consistent /\ TypeOK' /\ Consistent' /\ [Next]_vars => \A q \in Pid : Moved(q)
<1> SUFFICES ASSUME TypeOK, Consistent, TypeOK', Consistent', [Next]_vars, NEW q \in Pid
             PROVE  Moved(q)
  OBVIOUS
<1> USE DEF Consistent, OneCollection, StateAgrees, Found
<1>1. ASSUME NEW p \in Pid, NEW par \in Pid \cup {None}, Spawn(p, par) PROVE Moved(q)
  BY <1>1, AdmitStates, MovedBy DEF TypeOK, Spawn, Registered
<1>2. ASSUME NEW p \in Pid, NEW par \in Pid \cup {None}, SpawnWaits(p, par) PROVE Moved(q)
  BY <1>2, MovedBy DEF TypeOK, SpawnWaits, Registered, collections
<1>3. ASSUME NEW p \in Pid, Schedule(p) PROVE Moved(q)
  BY <1>3, MovedBy DEF TypeOK, Schedule
<1>4. ASSUME NEW p \in Pid, Yield(p) PROVE Moved(q)
  BY <1>4, MovedBy DEF TypeOK, Yield
<1>5. ASSUME NEW p \in Pid, Block(p) PROVE Moved(q)
  BY <1>5, MovedBy DEF TypeOK, Block, Legal
<1>6. ASSUME NEW p \in Pid, Unblock(p) PROVE Moved(q)
  BY <1>6, AdmitStates, MovedBy DEF TypeOK, Unblock
<1>7. ASSUME NEW S, TerminateAll(S) PROVE Moved(q)
  BY <1>7, ReachedFound, MovedBy DEF TypeOK, TerminateAll
<1>8. ASSUME NEW p \in ready \cup running \cup blocked, SuspendPop(p) PROVE Moved(q)
  BY <1>8, MovedBy DEF TypeOK, SuspendPop, Legal
<1>9. ASSUME NEW p \in Pid, SuspendEnds(p) PROVE Moved(q)
  BY <1>9, MovedBy DEF TypeOK, SuspendEnds
<1>10. ASSUME NEW p \in Pid, SuspendFails(p) PROVE Moved(q)
  BY <1>10, MovedBy DEF TypeOK, SuspendFails, collections
<1>11. ASSUME NEW p \in Pid, Resume(p) PROVE Moved(q)
  BY <1>11, MovedBy DEF TypeOK, Resume
<1>12. ASSUME UNCHANGED <<state, collections, admitting, suspending>> PROVE Moved(q)
  BY <1>12, MovedBy DEF TypeOK, collections
<1> QED
  BY <1>1, <1>2, <1>3, <1>4, <1>5, <1>6, <1>7, <1>8, <1>9, <1>10, <1>11, <1>12
  DEF Next, ProcessNext, Kill, Monitor, Suspend, ShutdownSuspends, LoopTick, Boot,
      ShutdownBegins, ShutdownEnds, vars

\* Whatever the methods do, and however suspend() and the loop interleave with
\* them, the processes move between the collections along AgentLifecycle: none
\* that was terminated or lost is scheduled again.
THEOREM LifecycleRefined == Spec => ImplementsLifecycle
<1>1. Init => Lifecycle!Init
  BY DEF Init, Lifecycle!Init, Place
<1>2. TypeOK /\ Consistent /\ TypeOK' /\ Consistent' /\ [Next]_vars
         => [Lifecycle!Next]_[p \in Pid |-> Place(p)]
  <2> SUFFICES ASSUME TypeOK, Consistent, TypeOK', Consistent', [Next]_vars
               PROVE  Lifecycle!Next
    OBVIOUS
  <2>1. [p \in Pid |-> Place(p)]' \in [Pid -> Lifecycle!Places]
    BY PlaceOfNext
  <2>2. \A q \in Pid : Moved(q)
    BY StepMoves
  <2> QED BY <2>1, <2>2 DEF Lifecycle!Next, Moved
<1> QED
  BY <1>1, <1>2, TypeInit, TypeStep, ConsistentInit, ConsistentStep, PTL
  DEF Spec, ImplementsLifecycle, Lifecycle!Spec

-----------------------------------------------------------------------------
(* Type correctness of the bus *)

USE BusAssumption DEF BusAssumption

Message == Requests \cup {"event"}

\* The bus has the right types at first.
LEMMA BusTypeInit == BusInit => BusTypeOK
BY DEF BusInit, BusTypeOK, Members

\* Sending adds messages to boxes.
LEMMA PutType ==
    ASSUME BusTypeOK, NEW targets, NEW m \in Message, Put(targets, m)
    PROVE  /\ DOMAIN boxes' = Members
           /\ \A a \in Members : boxes'[a] \in Seq(Message)
BY DEF BusTypeOK, Put, Members, Message

\* Receiving takes the first message of one's own box.
LEMMA TakeType ==
    ASSUME BusTypeOK, NEW a \in Members, Take(a)
    PROVE  /\ DOMAIN boxes' = Members
           /\ \A b \in Members : boxes'[b] \in Seq(Message)
           /\ Head(boxes[a]) \in Message
           /\ read' \subseteq Requests
           /\ receiving' \in [Agents -> {"no", "waiting", "stranded"}]
           /\ receiving'[a] = "no"
           /\ \A b \in Agents \ {a} : receiving'[b] = receiving[b]
<1>1. boxes[a] \in Seq(Message) /\ boxes[a] # << >> /\ a \in Agents
  BY DEF BusTypeOK, Take, Message
<1>2. Head(boxes[a]) \in Message /\ Tail(boxes[a]) \in Seq(Message)
  BY <1>1
<1> QED BY <1>1, <1>2 DEF BusTypeOK, Take, Members, Message

\* Every step of the bus keeps the types.
LEMMA BusTypeStep == BusTypeOK /\ [BusNext]_busVars => BusTypeOK'
<1> SUFFICES ASSUME BusTypeOK, [BusNext]_busVars PROVE BusTypeOK'
  OBVIOUS
<1>1. ASSUME NEW a \in Agents, Register(a) PROVE BusTypeOK'
  BY <1>1 DEF BusTypeOK, Register, Members, asks
<1>2. ASSUME NEW a \in Agents, Unregister(a) PROVE BusTypeOK'
  <2> DEFINE takes == receiving[a] = "waiting" /\ boxes[a] # << >>
             lost == IF takes THEN Tail(boxes[a]) ELSE boxes[a]
  <2>1. boxes[a] \in Seq(Message) /\ (takes => Head(boxes[a]) \in Message)
    BY <1>2 DEF BusTypeOK, Unregister, Message
  <2>2. ToSet(lost) \ {"event"} \subseteq Requests
    <3>1. lost \in Seq(Message)
      BY <2>1
    <3> HIDE DEF lost
    <3> QED BY <3>1 DEF ToSet, Message
  <2>3. gone' \subseteq Requests
    BY <1>2, <2>2 DEF Unregister, BusTypeOK
  <2>4. /\ woken' \in [Agents -> Message \cup {"nothing"}]
        /\ receiving' \in [Agents -> {"no", "waiting", "stranded"}]
        /\ \A b \in Agents : woken'[b] # "nothing" => receiving'[b] = "stranded"
    <3>1. woken' = woken \/ (takes /\ woken' = [woken EXCEPT ![a] = Head(boxes[a])])
      BY <1>2 DEF Unregister
    <3>2. receiving' = [receiving EXCEPT ![a] = IF @ = "waiting" THEN "stranded" ELSE @]
      BY <1>2 DEF Unregister
    <3> QED BY <2>1, <3>1, <3>2 DEF BusTypeOK, Message
  <2> HIDE DEF takes, lost
  <2> QED BY <1>2, <2>3, <2>4 DEF BusTypeOK, Unregister, Members, asks, Message
<1>3. ASSUME NEW targets, SendEvent(targets) PROVE BusTypeOK'
  BY <1>3, PutType DEF BusTypeOK, SendEvent, Members, asks, Message
<1>4. ASSUME NEW a \in Agents, Receive(a) PROVE BusTypeOK'
  <2>1. CASE Take(a)
    BY <1>4, <2>1, TakeType DEF BusTypeOK, Receive, Members, asks, Message
  <2>2. CASE ~Take(a)
    BY <1>4, <2>2 DEF BusTypeOK, Receive, Members, asks
  <2> QED BY <2>1, <2>2
<1>5. ASSUME NEW a \in Agents, Deliver(a) PROVE BusTypeOK'
  <2>1. a \in Members
    BY <1>5 DEF BusTypeOK, Deliver
  <2> QED BY <1>5, <2>1, TakeType DEF BusTypeOK, Deliver, Members, asks, Message
<1>6. ASSUME NEW a \in Agents, ReceiveEnds(a) PROVE BusTypeOK'
  <2>1. {woken[a]} \ {"event", "nothing"} \subseteq Requests
    BY DEF BusTypeOK
  <2> QED BY <1>6, <2>1 DEF BusTypeOK, ReceiveEnds, Members, asks
<1>7. ASSUME NEW r \in Requests, Ask(r) PROVE BusTypeOK'
  <2>1. CASE UNCHANGED boxes
    BY <1>7, <2>1 DEF BusTypeOK, Ask, Members
  <2>2. CASE \E a \in Members : Put({a}, r)
    BY <1>7, <2>2, PutType DEF BusTypeOK, Ask, Members, Message
  <2> QED BY <1>7, <2>1, <2>2 DEF Ask
<1>8. ASSUME NEW r \in Requests, Answered(r) \/ AskTimesOut(r) PROVE BusTypeOK'
  BY <1>8 DEF BusTypeOK, Answered, AskTimesOut, Returns, Members, mail
<1>9. ASSUME NEW r \in Requests, NEW t \in Types, Reply(r, t) PROVE BusTypeOK'
  BY <1>9 DEF BusTypeOK, Reply, Members, mail
<1>10. CASE UNCHANGED busVars
  BY <1>10 DEF BusTypeOK, busVars, mail, asks, Members
<1>11. ASSUME NEW a \in Agents, DeliverOld(a) PROVE BusTypeOK'
  <2>1. {woken[a]} \ {"event"} \subseteq Requests
    BY <1>11 DEF BusTypeOK, DeliverOld
  <2> QED BY <1>11, <2>1 DEF BusTypeOK, DeliverOld, Members, asks
<1> QED BY <1>1, <1>2, <1>3, <1>4, <1>5, <1>6, <1>7, <1>8, <1>9, <1>10, <1>11
        DEF BusNext, Send, Broadcast

\* Every variable of the bus has its type.
THEOREM BusTypeCorrect == BusSpec => []BusTypeOK
BY BusTypeInit, BusTypeStep, PTL DEF BusSpec

-----------------------------------------------------------------------------
(* The table of futures of the bus. *)

\* Every step keeps the pending requests those that wait or were refused.
LEMMA PendingStep == BusTypeOK /\ PendingExact /\ [BusNext]_busVars => PendingExact'
<1> SUFFICES ASSUME BusTypeOK, PendingExact, [BusNext]_busVars PROVE PendingExact'
  OBVIOUS
<1>1. ASSUME NEW r \in Requests, Ask(r) PROVE PendingExact'
  <2>1. PICK c \in {"waiting", "refused"} : caller' = [caller EXCEPT ![r] = c]
    BY <1>1 DEF Ask
  <2>2. pending' = pending \cup {r} /\ caller \in [Requests -> {"idle", "waiting", "refused", "nothing"} \cup Types]
    BY <1>1 DEF Ask, BusTypeOK
  <2> QED BY <2>1, <2>2 DEF PendingExact
<1>2. ASSUME NEW r \in Requests, Answered(r) \/ AskTimesOut(r) PROVE PendingExact'
  <2>1. PICK value \in Types \cup {"nothing"} : Returns(r, value)
    BY <1>2 DEF BusTypeOK, Answered, AskTimesOut
  <2>2. value \notin {"waiting", "refused"}
    BY <2>1
  <2> QED BY <2>1, <2>2 DEF BusTypeOK, PendingExact, Returns
<1>3. CASE UNCHANGED <<pending, caller>>
  BY <1>3 DEF PendingExact
<1> QED BY <1>1, <1>2, <1>3
        DEF BusNext, busVars, mail, asks, Send, Broadcast, Register, Unregister, SendEvent, Receive,
            Deliver, DeliverOld, ReceiveEnds, Reply

\* A future that waits for a reply belongs to a request that waits, or was
\* refused by send (request_response's try begins behind it).
THEOREM NothingStaysPending == BusSpec => []PendingExact
<1>1. BusInit => PendingExact
  BY DEF BusInit, PendingExact
<1> QED BY <1>1, PendingStep, BusTypeCorrect, PTL DEF BusSpec

-----------------------------------------------------------------------------
(* The requests on their way through the bus. *)

\* Where a request is after a put, a take, or the loss of a mailbox.
LEMMA PutPlaces ==
    ASSUME BusTypeOK, NEW targets, NEW m \in Message, Put(targets, m), NEW r \in Requests, r # m
    PROVE  /\ Boxed(r)' <=> Boxed(r)
           /\ BoxedOnce(r) => BoxedOnce(r)'
<1>1. \A a \in Members : boxes[a] \in Seq(Message) /\ boxes'[a] \in Seq(Message)
  BY PutType DEF BusTypeOK, Message
<1>2. Members' = Members
  BY PutType DEF Members
<1>3. \A a \in Members : DOMAIN boxes[a] = 1..Len(boxes[a]) /\ DOMAIN boxes'[a] = 1..Len(boxes'[a])
  BY <1>1
<1>4. \A a \in Members :
          /\ Len(boxes[a]) \in Nat
          /\ \/ boxes'[a] = boxes[a]
             \/ /\ Len(boxes'[a]) = Len(boxes[a]) + 1
                /\ \A i \in 1..Len(boxes[a]) : boxes'[a][i] = boxes[a][i]
                /\ boxes'[a][Len(boxes[a]) + 1] = m
  BY <1>1 DEF Put, Members
<1>5. \A a \in Members :
          {i \in DOMAIN boxes'[a] : boxes'[a][i] = r} = {i \in DOMAIN boxes[a] : boxes[a][i] = r}
  <2> SUFFICES ASSUME NEW a \in Members
               PROVE  \A i : /\ i \in DOMAIN boxes'[a] /\ boxes'[a][i] = r
                             <=> i \in DOMAIN boxes[a] /\ boxes[a][i] = r
    OBVIOUS
  <2> QED BY <1>3, <1>4, SMTT(30)
<1>6. \A a \in Members : r \in ToSet(boxes'[a]) <=> r \in ToSet(boxes[a])
  BY <1>5 DEF ToSet
<1>7. \A a \in Members : \A i : i \in DOMAIN boxes'[a] /\ boxes'[a][i] = r
                                   => i \in DOMAIN boxes[a] /\ boxes[a][i] = r
  BY <1>5
<1> QED BY <1>2, <1>6, <1>7 DEF Boxed, BoxedOnce

\* The first message of a box, and the others.
LEMMA FirstOfBox ==
    ASSUME BusTypeOK, NEW a \in Members, boxes[a] # << >>, NEW r \in Requests, BoxedOnce(r)
    PROVE  /\ Head(boxes[a]) \in Message
           /\ r \in ToSet(boxes[a]) <=> r \in ToSet(Tail(boxes[a])) \/ r = Head(boxes[a])
           /\ ~(r \in ToSet(Tail(boxes[a])) /\ r = Head(boxes[a]))
<1> DEFINE q == boxes[a]
           t == Tail(boxes[a])
<1>1. q \in Seq(Message) /\ q # << >>
  BY DEF BusTypeOK, Message
<1>2. t = Tail(q)
  OBVIOUS
<1>3. \A i, j \in DOMAIN q : q[i] = r /\ q[j] = r => i = j
  BY DEF BoxedOnce
<1> HIDE DEF q, t
<1>4. /\ DOMAIN q = 1..Len(q) /\ Len(q) \in Nat \ {0}
      /\ DOMAIN t = 1..(Len(q) - 1)
      /\ \A i \in 1..(Len(q) - 1) : t[i] = q[i + 1]
      /\ Head(q) = q[1] /\ Head(q) \in Message
  BY <1>1, <1>2
<1>5. r \in ToSet(q) <=> r \in ToSet(t) \/ r = Head(q)
  <2>1. ASSUME NEW i \in DOMAIN q, q[i] = r, i # 1 PROVE r \in ToSet(t)
    <3>1. i - 1 \in DOMAIN t /\ t[i - 1] = r
      BY <1>4, <2>1
    <3> QED BY <3>1 DEF ToSet
  <2>2. ASSUME NEW i \in DOMAIN t, t[i] = r PROVE r \in ToSet(q)
    <3>1. i + 1 \in DOMAIN q /\ q[i + 1] = r
      BY <1>4, <2>2
    <3> QED BY <3>1 DEF ToSet
  <2>3. 1 \in DOMAIN q
    BY <1>4
  <2> QED BY <1>4, <2>1, <2>2, <2>3 DEF ToSet
<1>6. ~(r \in ToSet(t) /\ r = Head(q))
  <2> SUFFICES ASSUME NEW i \in DOMAIN t, t[i] = r, r = Head(q) PROVE FALSE
    BY DEF ToSet
  <2>1. /\ i + 1 \in DOMAIN q /\ q[i + 1] = r /\ 1 \in DOMAIN q /\ q[1] = r
        /\ i \in Nat /\ i >= 1
    BY <1>4
  <2> QED BY <1>3, <2>1
<1> QED BY <1>4, <1>5, <1>6 DEF q, t

\* Every step keeps each request that was sent in one place.
LEMMA ConservedStep == BusTypeOK /\ Conserved /\ [BusNext]_busVars => Conserved'
<1> SUFFICES ASSUME BusTypeOK, Conserved, [BusNext]_busVars, NEW r \in Requests
             PROVE  /\ BoxedOnce(r)' /\ WakesOne(r)'
                    /\ Sent(r)' <=> Boxed(r)' \/ Wakes(r)' \/ r \in read' \/ r \in gone'
                    /\ Boxed(r)' => ~Wakes(r)' /\ r \notin read' /\ r \notin gone'
                    /\ Wakes(r)' => r \notin read' /\ r \notin gone'
                    /\ ~(r \in read' /\ r \in gone')
  BY DEF Conserved
<1> DEFINE Goal == /\ BoxedOnce(r)' /\ WakesOne(r)'
                   /\ Sent(r)' <=> Boxed(r)' \/ Wakes(r)' \/ r \in read' \/ r \in gone'
                   /\ Boxed(r)' => ~Wakes(r)' /\ r \notin read' /\ r \notin gone'
                   /\ Wakes(r)' => r \notin read' /\ r \notin gone'
                   /\ ~(r \in read' /\ r \in gone')
<1>0. /\ BoxedOnce(r) /\ WakesOne(r)
      /\ Sent(r) <=> Boxed(r) \/ Wakes(r) \/ r \in read \/ r \in gone
      /\ Boxed(r) => ~Wakes(r) /\ r \notin read /\ r \notin gone
      /\ Wakes(r) => r \notin read /\ r \notin gone
      /\ ~(r \in read /\ r \in gone)
  BY DEF Conserved
<1>00. UNCHANGED woken => (Wakes(r)' <=> Wakes(r)) /\ WakesOne(r)'
  BY <1>0 DEF Wakes, WakesOne
<1>1. ASSUME NEW a \in Agents, Register(a) PROVE Goal
  <2>1. Members' = Members \cup {a} /\ boxes'[a] = << >>
        /\ \A b \in Members : boxes'[b] = boxes[b]
    BY <1>1 DEF Register, Members
  <2>2. DOMAIN boxes'[a] = {} /\ ToSet(boxes'[a]) = {}
    BY <2>1 DEF ToSet
  <2>3. BoxedOnce(r)'
    BY <1>0, <2>1, <2>2 DEF BoxedOnce
  <2>4. Boxed(r)' <=> Boxed(r)
    BY <2>1, <2>2 DEF Boxed
  <2> QED BY <1>0, <1>1, <1>00, <2>3, <2>4 DEF Register, asks, Sent
<1>2. ASSUME NEW a \in Agents, Unregister(a) PROVE Goal
  <2>1. Members' = Members \ {a} /\ \A b \in Members' : boxes'[b] = boxes[b]
    BY <1>2 DEF Unregister, Members
  <2>2. a \in Members /\ UNCHANGED <<read, caller>>
    BY <1>2 DEF Unregister, asks
  <2>3. BoxedOnce(r)'
    BY <1>0, <2>1 DEF BoxedOnce
  <2>4. Boxed(r) <=> Boxed(r)' \/ r \in ToSet(boxes[a])
    BY <2>1, <2>2 DEF Boxed
  <2>5. ~(Boxed(r)' /\ r \in ToSet(boxes[a]))
    <3> SUFFICES ASSUME NEW b \in Members', r \in ToSet(boxes'[b]), r \in ToSet(boxes[a])
                 PROVE  FALSE
      BY DEF Boxed
    <3>1. PICK i \in DOMAIN boxes[b], j \in DOMAIN boxes[a] : boxes[b][i] = r /\ boxes[a][j] = r
      BY <2>1 DEF ToSet
    <3> QED BY <1>0, <2>1, <2>2, <3>1 DEF BoxedOnce
  <2>6. Sent(r)' <=> Sent(r)
    BY <2>2 DEF Sent
  <2>7. CASE receiving[a] = "waiting" /\ boxes[a] # << >>
    <3>1. /\ gone' = gone \cup (ToSet(Tail(boxes[a])) \ {"event"})
          /\ woken' = [woken EXCEPT ![a] = Head(boxes[a])]
      BY <1>2, <2>7 DEF Unregister
    <3>2. woken[a] = "nothing" /\ woken \in [Agents -> Message \cup {"nothing"}]
      BY <2>7 DEF BusTypeOK, Message
    <3>3. Wakes(r)' <=> Wakes(r) \/ r = Head(boxes[a])
      BY <3>1, <3>2 DEF Wakes
    <3>4. ~(Wakes(r) /\ r = Head(boxes[a]))
      BY <1>0, <2>2, <2>7, FirstOfBox DEF Boxed
    <3>5. WakesOne(r)'
      BY <1>0, <3>1, <3>2, <3>4 DEF WakesOne, Wakes
    <3> QED BY <1>0, <2>2, <2>3, <2>4, <2>5, <2>6, <2>7, <3>1, <3>3, <3>4, <3>5, FirstOfBox
  <2>8. CASE ~(receiving[a] = "waiting" /\ boxes[a] # << >>)
    <3>1. gone' = gone \cup (ToSet(boxes[a]) \ {"event"}) /\ woken' = woken
      BY <1>2, <2>8 DEF Unregister
    <3> QED BY <1>0, <1>00, <2>2, <2>3, <2>4, <2>5, <2>6, <3>1
  <2> QED BY <2>7, <2>8
<1>3. ASSUME NEW targets, SendEvent(targets) PROVE Goal
  <2>1. (Boxed(r)' <=> Boxed(r)) /\ BoxedOnce(r)'
    BY <1>0, <1>3, PutPlaces DEF SendEvent, Message
  <2> QED BY <1>0, <1>3, <1>00, <2>1 DEF SendEvent, asks, Sent
<1>4. ASSUME NEW a \in Members, Take(a), UNCHANGED <<woken, gone, caller>> PROVE Goal
  <2> DEFINE q == boxes[a]
             t == boxes'[a]
  <2>1. q \in Seq(Message) /\ q # << >>
    BY <1>4 DEF BusTypeOK, Take, Message
  <2>2. t = Tail(q) /\ Members' = Members /\ \A b \in Members \ {a} : boxes'[b] = boxes[b]
    BY <1>4 DEF Take, Members
  <2>3. /\ DOMAIN q = 1..Len(q) /\ Len(q) \in Nat \ {0}
        /\ DOMAIN t = 1..(Len(q) - 1)
        /\ \A i \in 1..(Len(q) - 1) : t[i] = q[i + 1]
        /\ Head(q) = q[1]
    <3> HIDE DEF q
    <3> QED BY <2>1, <2>2
  <2>4. r \in ToSet(q) <=> r \in ToSet(t) \/ r = Head(q)
    BY <1>0, <2>1, <2>2, FirstOfBox
  <2> HIDE DEF q, t
  <2>5. Boxed(r) <=> Boxed(r)' \/ r = Head(q)
    BY <2>2, <2>4 DEF Boxed, q, t
  <2>6. read' = read \cup ({Head(q)} \ {"event"})
    BY <1>4 DEF Take, q
  <2>7. ASSUME NEW b \in Members, NEW i \in DOMAIN boxes'[b], boxes'[b][i] = r
        PROVE  LET k == IF b = a THEN i + 1 ELSE i IN k \in DOMAIN boxes[b] /\ boxes[b][k] = r
    <3>1. CASE b = a
      <4>1. i \in DOMAIN t /\ t[i] = r
        BY <2>7, <3>1 DEF t
      <4>2. i + 1 \in DOMAIN q /\ q[i + 1] = r
        BY <2>3, <4>1
      <4> QED BY <3>1, <4>2 DEF q
    <3>2. CASE b # a
      BY <2>2, <2>7, <3>2
    <3> QED BY <3>1, <3>2
  <2>8. BoxedOnce(r)'
    <3> SUFFICES ASSUME NEW b \in Members, NEW c \in Members,
                        NEW i \in DOMAIN boxes'[b], NEW j \in DOMAIN boxes'[c],
                        boxes'[b][i] = r, boxes'[c][j] = r
                 PROVE  b = c /\ i = j
      BY <2>2 DEF BoxedOnce
    <3>1. b = c
      BY <1>0, <2>7 DEF BoxedOnce
    <3>2. CASE b = a
      <4>1. i \in DOMAIN t /\ j \in DOMAIN t
        BY <3>1, <3>2 DEF t
      <4>2. i \in Int /\ j \in Int
        BY <2>3, <4>1
      <4>3. i + 1 = j + 1
        BY <1>0, <2>7, <3>1, <3>2 DEF BoxedOnce
      <4> QED BY <3>1, <4>2, <4>3
    <3>3. CASE b # a
      BY <1>0, <2>7, <3>1, <3>3 DEF BoxedOnce
    <3> QED BY <3>2, <3>3
  <2>9. ~(Boxed(r)' /\ r = Head(q))
    <3> SUFFICES ASSUME NEW b \in Members, NEW i \in DOMAIN boxes'[b], boxes'[b][i] = r,
                        r = Head(q)
                 PROVE  FALSE
      BY <2>2 DEF Boxed, ToSet
    <3>1. 1 \in DOMAIN boxes[a] /\ boxes[a][1] = r
      BY <2>3 DEF q
    <3>2. CASE b = a
      <4>1. i \in DOMAIN t /\ t[i] = r
        BY <3>2 DEF t
      <4>2. i \in Nat /\ i >= 1
        BY <2>3, <4>1
      <4>3. i + 1 = 1
        BY <1>0, <2>7, <3>1, <3>2 DEF BoxedOnce
      <4> QED BY <4>2, <4>3
    <3>3. CASE b # a
      BY <1>0, <2>7, <3>1, <3>3 DEF BoxedOnce
    <3> QED BY <3>2, <3>3
  <2>10. Sent(r)' <=> Sent(r)
    BY <1>4 DEF Sent
  <2>11. Head(q) = r => r # "event"
    OBVIOUS
  <2> QED BY <1>0, <1>4, <1>00, <2>5, <2>6, <2>8, <2>9, <2>10, <2>11
<1>5. ASSUME NEW s \in Requests, Ask(s) PROVE Goal
  <2>1. caller[s] = "idle" /\ UNCHANGED <<woken, read, gone>>
        /\ \A c \in Requests \ {s} : caller'[c] = caller[c]
        /\ caller' \in [Requests -> {"idle", "waiting", "refused", "nothing"} \cup Types]
    BY <1>5 DEF Ask, BusTypeOK
  <2>2. CASE UNCHANGED boxes /\ caller' = [caller EXCEPT ![s] = "refused"]
    <3>1. Sent(r)' <=> Sent(r)
      BY <2>1, <2>2 DEF Sent, BusTypeOK
    <3>2. (Boxed(r)' <=> Boxed(r)) /\ BoxedOnce(r)'
      BY <1>0, <2>2 DEF Boxed, BoxedOnce, Members
    <3> QED BY <1>0, <1>00, <2>1, <3>1, <3>2
  <2>3. ASSUME NEW a \in Members, Put({a}, s), caller' = [caller EXCEPT ![s] = "waiting"]
        PROVE  Goal
    <3>1. CASE s # r
      <4>1. (Boxed(r)' <=> Boxed(r)) /\ BoxedOnce(r)'
        BY <1>0, <2>3, <3>1, PutPlaces DEF Message
      <4>2. Sent(r)' <=> Sent(r)
        BY <2>1, <3>1 DEF Sent
      <4> QED BY <1>0, <1>00, <2>1, <4>1, <4>2
    <3>2. CASE s = r
      <4>1. ~Sent(r) /\ Sent(r)'
        BY <2>1, <2>3, <3>2 DEF Sent, BusTypeOK
      <4>2. ~Boxed(r) /\ ~Wakes(r) /\ r \notin read /\ r \notin gone
        BY <1>0, <4>1
      <4>3. \A b \in Members : boxes[b] \in Seq(Message)
        BY DEF BusTypeOK, Message
      <4>4. Members' = Members /\ boxes'[a] = Append(boxes[a], r)
            /\ \A b \in Members \ {a} : boxes'[b] = boxes[b]
        BY <2>3, <3>2 DEF Put, Members
      <4>5. \A b \in Members : \A i \in DOMAIN boxes[b] : boxes[b][i] # r
        BY <4>2 DEF Boxed, ToSet
      <4>6. /\ DOMAIN boxes'[a] = 1..(Len(boxes[a]) + 1) /\ Len(boxes[a]) \in Nat
            /\ boxes'[a][Len(boxes[a]) + 1] = r
            /\ \A i \in 1..Len(boxes[a]) : boxes'[a][i] = boxes[a][i]
            /\ DOMAIN boxes[a] = 1..Len(boxes[a])
        BY <4>3, <4>4
      <4>7. \A b \in Members : \A i \in DOMAIN boxes'[b] :
                boxes'[b][i] = r => b = a /\ i = Len(boxes[a]) + 1
        BY <4>4, <4>5, <4>6, SMTT(30)
      <4>8. BoxedOnce(r)'
        BY <4>4, <4>7 DEF BoxedOnce
      <4>9. Boxed(r)'
        <5>1. Len(boxes[a]) + 1 \in DOMAIN boxes'[a]
          BY <4>6
        <5> QED BY <4>4, <4>6, <5>1 DEF Boxed, ToSet
      <4> QED BY <1>00, <2>1, <4>1, <4>2, <4>8, <4>9
    <3> QED BY <3>1, <3>2
  <2> QED BY <1>5, <2>2, <2>3 DEF Ask
<1>6. ASSUME NEW s \in Requests, Answered(s) \/ AskTimesOut(s) PROVE Goal
  <2>1. PICK value \in Types \cup {"nothing"} : Returns(s, value)
    BY <1>6 DEF BusTypeOK, Answered, AskTimesOut
  <2>2. Sent(r)' <=> Sent(r)
    BY <2>1 DEF BusTypeOK, Returns, Sent
  <2>3. UNCHANGED mail
    BY <2>1 DEF Returns
  <2> QED BY <1>0, <1>00, <2>2, <2>3 DEF mail, Boxed, BoxedOnce, Members
<1>7. CASE UNCHANGED <<boxes, woken, read, gone, caller>>
  BY <1>0, <1>7, <1>00 DEF Boxed, BoxedOnce, Members, Sent
<1>8. ASSUME NEW a \in Agents, Receive(a) \/ Deliver(a) PROVE Goal
  <2>1. UNCHANGED <<woken, gone, caller>>
    BY <1>8 DEF Receive, Deliver, asks
  <2>2. a \in Members
    BY <1>8 DEF Receive, Deliver, BusTypeOK
  <2>3. Take(a) \/ UNCHANGED <<boxes, read>>
    BY <1>8 DEF Receive, Deliver
  <2> QED BY <1>4, <1>7, <2>1, <2>2, <2>3
<1>9. ASSUME NEW a \in Agents, DeliverOld(a) \/ ReceiveEnds(a) PROVE Goal
  <2>1. /\ woken \in [Agents -> Message \cup {"nothing"}]
        /\ woken' = [woken EXCEPT ![a] = "nothing"] /\ UNCHANGED <<boxes, caller>>
    BY <1>9 DEF DeliverOld, ReceiveEnds, asks, BusTypeOK, Message
  <2>2. (Boxed(r)' <=> Boxed(r)) /\ BoxedOnce(r)' /\ (Sent(r)' <=> Sent(r))
    BY <1>0, <2>1 DEF Boxed, BoxedOnce, Members, Sent
  <2>3. WakesOne(r)' /\ (Wakes(r) <=> Wakes(r)' \/ r = woken[a]) /\ ~(Wakes(r)' /\ r = woken[a])
    BY <1>0, <2>1 DEF WakesOne, Wakes
  <2>4. CASE DeliverOld(a)
    <3>1. (r \in read' <=> r \in read \/ r = woken[a]) /\ gone' = gone
      BY <2>4 DEF DeliverOld
    <3> QED BY <1>0, <2>2, <2>3, <3>1
  <2>5. CASE ReceiveEnds(a)
    <3>1. (r \in gone' <=> r \in gone \/ r = woken[a]) /\ read' = read
      BY <2>5 DEF ReceiveEnds
    <3> QED BY <1>0, <2>2, <2>3, <3>1
  <2> QED BY <1>9, <2>4, <2>5
<1>10. ASSUME NEW s \in Requests, NEW t \in Types, Reply(s, t) PROVE Goal
  BY <1>7, <1>10 DEF Reply, mail
<1>11. ASSUME UNCHANGED busVars PROVE Goal
  BY <1>7, <1>11 DEF busVars, mail, asks
<1>12. ASSUME Send \/ Broadcast PROVE Goal
  BY <1>3, <1>12 DEF Send, Broadcast
<1>13. ASSUME NEW a \in Agents,
              Register(a) \/ Unregister(a) \/ Receive(a) \/ Deliver(a) \/ DeliverOld(a) \/ ReceiveEnds(a)
       PROVE  Goal
  BY <1>1, <1>2, <1>8, <1>9, <1>13
<1>14. ASSUME NEW s \in Requests, Ask(s) \/ Answered(s) \/ AskTimesOut(s) PROVE Goal
  BY <1>5, <1>6, <1>14
<1> HIDE DEF Goal
<1>15. Goal
  BY <1>10, <1>11, <1>12, <1>13, <1>14 DEF BusNext
<1> QED BY <1>15 DEF Goal

\* No interleaving of sends, receives, their time-outs and unregister loses or
\* doubles a request.
THEOREM RequestsConserved == BusSpec => []Conserved
<1>1. BusInit => Conserved
  BY DEF BusInit, Conserved, BoxedOnce, Boxed, WakesOne, Wakes, Sent, Members
<1> QED BY <1>1, ConservedStep, BusTypeCorrect, PTL DEF BusSpec

-----------------------------------------------------------------------------
(* The promise of the bus. *)

\* A reply finds its future only while the caller waits, so every step of the
\* bus is one of A2ARequests, or none.
LEMMA PromiseStep ==
    BusTypeOK /\ PendingExact /\ Conserved /\ [BusNext]_busVars => [Promise!Next]_<<caller, future>>
<1> SUFFICES ASSUME BusTypeOK, PendingExact, Conserved, [BusNext]_busVars
             PROVE  [Promise!Next]_<<caller, future>>
  OBVIOUS
<1>1. ASSUME NEW r \in Requests, Ask(r) PROVE Promise!Ask(r)
  BY <1>1 DEF Ask, Promise!Ask, Promise!Idle
<1>2. ASSUME NEW r \in Requests, Answered(r) \/ AskTimesOut(r) PROVE Promise!Return(r)
  BY <1>2 DEF Answered, AskTimesOut, Returns, Promise!Return, Promise!Waiting
<1>3. ASSUME NEW r \in Requests, NEW t \in Types, Reply(r, t) PROVE Promise!Answer(r)
  <2>1. caller[r] \in {"waiting", "refused"} /\ Sent(r)
    BY <1>3 DEF Reply, PendingExact, Conserved
  <2>2. caller[r] = "waiting"
    BY <2>1 DEF Sent
  <2> QED BY <1>3, <2>2 DEF Reply, Promise!Answer, Promise!Waiting
<1>4. CASE UNCHANGED <<caller, future>>
  BY <1>4
<1>5. \/ \E r \in Requests : Ask(r) \/ Answered(r) \/ AskTimesOut(r)
      \/ \E r \in Requests, t \in Types : Reply(r, t)
      \/ UNCHANGED <<caller, future>>
  BY DEF BusNext, busVars, mail, asks, Send, Broadcast, Register, Unregister, SendEvent, Receive,
         Deliver, DeliverOld, ReceiveEnds
<1> QED BY <1>1, <1>2, <1>3, <1>4, <1>5 DEF Promise!Next

\* The bus implements A2ARequests: a request returns once, with the first reply
\* made to it while it waited, or with nothing.
THEOREM PromiseKept == BusSpec => KeepsPromise
<1>1. BusInit => Promise!Init
  BY DEF BusInit, Promise!Init
<1> QED BY <1>1, PromiseStep, BusTypeCorrect, NothingStaysPending, RequestsConserved, PTL
        DEF BusSpec, KeepsPromise, Promise!Spec
=============================================================================
