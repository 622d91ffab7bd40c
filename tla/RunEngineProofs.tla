--------------------------- MODULE RunEngineProofs ---------------------------
(***************************************************************************)
(* Theorems about RunEngine, for any attempts, events, checkpoint interval *)
(* and failures of the store: what was yielded is logged (AllLogged), a    *)
(* run that has ended has the status of the attempt that finished last     *)
(* (SettledStatus), and the checkpoint stays close (CheckpointKeepsUp).    *)
(***************************************************************************)
EXTENDS RunEngine, TLAPS

-----------------------------------------------------------------------------
(* Remainders: a number and its successor. *)

\* A remainder is less than its divisor.
LEMMA ModRange == ASSUME NEW n \in Nat, NEW c \in Nat \ {0} PROVE n % c \in 0..(c-1)
BY Z3

\* Division with remainder.
LEMMA Quotient ==
    ASSUME NEW n \in Nat, NEW c \in Nat \ {0}
    PROVE  \E q \in Int, r \in 0..(c-1) : r = n % c /\ n = q * c + r
<1>1. n % c \in 0..(c-1)
  BY ModRange
<1>2. n = (n \div c) * c + (n % c) /\ n \div c \in Int
  BY SMT
<1> QED BY <1>1, <1>2, Zenon

\* The remainder is unique.
LEMMA OneRemainder ==
    ASSUME NEW c \in Nat \ {0}, NEW q \in Int, NEW p \in Int,
           NEW r \in 0..(c-1), NEW s \in 0..(c-1), q * c + r = p * c + s
    PROVE  r = s
<1>1. c * (q - p) = s - r
  OBVIOUS
<1>2. CASE q - p >= 1
  <2>1. c * (q - p) >= c
    BY <1>2
  <2> QED BY <1>1, <2>1
<1>3. CASE q - p <= -1
  <2>1. c * (q - p) <= -c
    BY <1>3
  <2> QED BY <1>1, <2>1
<1> QED BY <1>1, <1>2, <1>3

\* The remainder of the next number, unless that is a multiple.
LEMMA NextRemainder ==
    ASSUME NEW n \in Nat, NEW c \in Nat \ {0}, (n + 1) % c # 0
    PROVE  (n + 1) % c = (n % c) + 1
<1>1. PICK p \in Int, r \in 0..(c-1) : r = n % c /\ n = p * c + r
  BY Quotient
<1>2. PICK m \in Nat : m = n + 1
  OBVIOUS
<1>3. PICK q \in Int, s \in 0..(c-1) : s = m % c /\ m = q * c + s
  BY Quotient
<1>4. PICK P \in Int, Q \in Int : P = p * c /\ Q = q * c
  OBVIOUS
<1>5. Q + (s - 1) = P + r
  BY <1>1, <1>2, <1>3, <1>4
<1>6. q * c + (s - 1) = p * c + r
  BY <1>4, <1>5
<1>7. s # 0
  BY <1>2, <1>3
<1>8. s - 1 \in 0..(c-1)
  BY <1>7
<1>9. s - 1 = r
  BY <1>6, <1>8, OneRemainder
<1>10. s = r + 1
  BY <1>9
<1> QED BY <1>1, <1>2, <1>3, <1>10

-----------------------------------------------------------------------------

USE RunAssumption DEF RunAssumption

\* The steps, with those that begin an attempt in one.
LEMMA Steps ==
    ASSUME [Next]_vars
    PROVE  \/ Begin \/ Crash \/ UNCHANGED vars
           \/ \E a \in Attempt :
                 \/ \E t \in Types : Emit(a, t)
                 \/ SourceEnds(a) \/ Save(a) \/ HandleAppend(a) \/ HandleSave(a)
                 \/ Close(a) \/ Finish(a) \/ SourceRaises(a) \/ Abandon(a) \/ Refuse(a)
BY DEF Next, Proceed, First, Repair, Resume

\* What the steps of an attempt use of its counter: there is room for an event,
\* and the attempts that have not begun have nothing.
Counted ==
    \A a \in Attempt :
        /\ pc[a] \in {"waiting", "save", "handle"} => seq[a] <= MaxEvents
        /\ pc[a] = "idle" => seq[a] = 0
        /\ a > started => pc[a] = "idle"

IInv == TypeOK /\ Counted

-----------------------------------------------------------------------------
(* Types. *)

\* The inductive invariant holds at first.
LEMMA TypeInit == Init => IInv
BY DEF Init, IInv, TypeOK, Counted, Types, Slots, Attempt

\* There are one to four events to the end of a run.
LEMMA RoomPositive == \A t \in Types : Room(t) \in 1..4
BY DEF Types, Room

\* An event of an attempt that has room for it.
LEMMA LogType ==
    ASSUME IInv, NEW a \in Attempt, NEW t \in Types, Log(a, t), seq[a] <= MaxEvents
    PROVE  /\ status' \in {"running", "failed"}
           /\ seq' \in [Attempt -> 0 .. MaxEvents + 1]
           /\ seq' = [seq EXCEPT ![a] = seq[a] + 1]
           /\ seq[a] + 1 \in Slots
           /\ log' = [log EXCEPT ![seq[a] + 1] = [type |-> t, by |-> a]]
           /\ [type |-> t, by |-> a] \in Entry
           /\ log' \in [Slots -> Entry \cup {None}]
<1>1. seq[a] \in 0 .. MaxEvents + 1 /\ seq[a] + 1 \in Slots
  BY DEF IInv, TypeOK, Slots
<1>2. [type |-> t, by |-> a] \in Entry
  BY DEF Entry
<1>3. log \in [Slots -> Entry \cup {None}]
  BY DEF IInv, TypeOK
<1>4. log' = [log EXCEPT ![seq[a] + 1] = [type |-> t, by |-> a]]
  BY DEF Log
<1>5. log' \in [Slots -> Entry \cup {None}]
  BY <1>1, <1>2, <1>3, <1>4
<1>6. seq' = [seq EXCEPT ![a] = seq[a] + 1] /\ seq \in [Attempt -> 0 .. MaxEvents + 1]
  BY DEF Log, IInv, TypeOK
<1>7. seq' \in [Attempt -> 0 .. MaxEvents + 1]
  BY <1>1, <1>6
<1> QED BY <1>1, <1>2, <1>4, <1>5, <1>6, <1>7 DEF Log

\* A number that the store refuses is used up.
LEMMA MissType ==
    ASSUME TypeOK, NEW a \in Attempt, Miss(a), seq[a] <= MaxEvents
    PROVE  /\ seq[a] + 1 \in Slots
           /\ seq' = [seq EXCEPT ![a] = seq[a] + 1]
           /\ seq' \in [Attempt -> 0 .. MaxEvents + 1]
           /\ missed' \subseteq Slots
<1>1. seq[a] + 1 \in Slots /\ seq[a] + 1 \in 0 .. MaxEvents + 1
  BY DEF TypeOK, Slots
<1>2. seq' = [seq EXCEPT ![a] = seq[a] + 1] /\ missed' = missed \cup {seq[a] + 1}
  BY DEF Miss
<1>3. seq' \in [Attempt -> 0 .. MaxEvents + 1]
  BY <1>1, <1>2 DEF TypeOK
<1>4. missed' \subseteq Slots
  BY <1>1, <1>2 DEF TypeOK
<1> QED BY <1>1, <1>2, <1>3, <1>4

\* What a step makes of the checkpoint has the right type.
LEMMA CheckpointType ==
    ASSUME TypeOK, NEW a \in Attempt, Checkpoint(a)
    PROVE  checkpoint' \in [seq : Nat, by : Attempt, talked : BOOLEAN]
BY DEF Checkpoint, TypeOK

\* An attempt that only goes somewhere else.
LEMMA GotoStep ==
    ASSUME IInv, NEW a \in Attempt,
           NEW place \in {"waiting", "save", "handle", "rescue", "closing", "finishing", "ended", "dead"},
           Goto(a, place), pc[a] # "idle",
           UNCHANGED <<log, local, started, missed>>, refusals' \in Nat,
           status' \in {None, "running", "completed", "failed"},
           checkpoint' \in [seq : Nat, by : Attempt, talked : BOOLEAN] \cup {None},
           finisher' \in Attempt \cup {0},
           place \in {"waiting", "save", "handle"} => seq[a] <= MaxEvents
    PROVE  IInv'
<1>1. TypeOK'
  BY DEF IInv, TypeOK, Goto, local
<1>2. Counted'
  BY DEF IInv, TypeOK, Counted, Goto, local
<1> QED BY <1>1, <1>2 DEF IInv

\* Every step keeps the inductive invariant.
LEMMA IInvStep == IInv /\ [Next]_vars => IInv'
<1> SUFFICES ASSUME IInv, [Next]_vars PROVE IInv'
  OBVIOUS
<1>0. TypeOK /\ Counted
  BY DEF IInv
<1>1. CASE Begin
  <2>1. started + 1 \in Attempt
    BY <1>0, <1>1 DEF TypeOK, Begin, Attempt
  <2>2. pc[started + 1] = "idle" /\ seq[started + 1] = 0
    BY <1>0, <2>1 DEF Counted, TypeOK
  <2>3. TypeOK'
    BY <1>0, <1>1, <2>1 DEF TypeOK, Begin, Goto, local, history
  <2>4. Counted'
    BY <1>0, <1>1, <2>1, <2>2 DEF TypeOK, Begin, Goto, local, Counted, Attempt
  <2> QED BY <2>3, <2>4 DEF IInv
<1>2. CASE Crash
  <2>1. TypeOK'
    BY <1>0, <1>2 DEF TypeOK, Crash, store, local, history
  <2>2. Counted'
    BY <1>0, <1>2 DEF TypeOK, Counted, Crash, Live, Over, local
  <2> QED BY <2>1, <2>2 DEF IInv
<1>3. CASE UNCHANGED vars
  BY <1>0, <1>3 DEF IInv, TypeOK, Counted, vars, store, local, history
<1>4. ASSUME NEW a \in Attempt, NEW t \in Types, Emit(a, t) PROVE IInv'
  <2>1. seq[a] + 1 <= MaxEvents /\ pc[a] = "waiting" /\ seq[a] \in Nat
    BY <1>0, <1>4, RoomPositive DEF Emit, Yields, TypeOK
  <2>2. seq[a] <= MaxEvents
    BY <2>1
  <2>3. /\ status' \in {"running", "failed"} /\ seq' \in [Attempt -> 0 .. MaxEvents + 1]
        /\ seq' = [seq EXCEPT ![a] = seq[a] + 1] /\ log' \in [Slots -> Entry \cup {None}]
    BY <1>4, <2>2, LogType DEF Emit
  <2>4. TypeOK'
    BY <1>0, <1>4, <2>3 DEF TypeOK, Emit, Yields, Goto, history
  <2>5. Counted'
    BY <1>0, <1>4, <2>1, <2>3 DEF TypeOK, Counted, Emit, Goto
  <2> QED BY <2>4, <2>5 DEF IInv
<1>5. ASSUME NEW a \in Attempt, SourceEnds(a) \/ Abandon(a) PROVE IInv'
  BY <1>0, <1>5, GotoStep DEF SourceEnds, Abandon, TypeOK, store, history
<1>6. ASSUME NEW a \in Attempt, Save(a) PROVE IInv'
  BY <1>0, <1>6, GotoStep, CheckpointType DEF Save, TypeOK, Counted, history
<1>7. ASSUME NEW a \in Attempt, HandleAppend(a) PROVE IInv'
  <2>1. seq[a] <= MaxEvents /\ pc[a] = "handle"
    BY <1>0, <1>7 DEF Counted, HandleAppend
  <2>2. /\ status' \in {"running", "failed"} /\ seq' \in [Attempt -> 0 .. MaxEvents + 1]
        /\ seq' = [seq EXCEPT ![a] = seq[a] + 1] /\ log' \in [Slots -> Entry \cup {None}]
    BY <1>7, <2>1, LogType DEF HandleAppend, Types
  <2>3. TypeOK'
    BY <1>0, <1>7, <2>2 DEF TypeOK, HandleAppend, Goto, history
  <2>4. Counted'
    BY <1>0, <1>7, <2>1, <2>2 DEF TypeOK, Counted, HandleAppend, Goto
  <2> QED BY <2>3, <2>4 DEF IInv
<1>8. ASSUME NEW a \in Attempt, HandleSave(a) PROVE IInv'
  BY <1>0, <1>8, GotoStep, CheckpointType DEF HandleSave, TypeOK, Counted, history
<1>9. ASSUME NEW a \in Attempt, Close(a) PROVE IInv'
  BY <1>0, <1>9, GotoStep, CheckpointType DEF Close, TypeOK, Counted, history
<1>10. ASSUME NEW a \in Attempt, Finish(a) PROVE IInv'
  BY <1>0, <1>10, GotoStep DEF Finish, TypeOK, Counted
<1>11. ASSUME NEW a \in Attempt, SourceRaises(a) PROVE IInv'
  <2>1. seq[a] <= MaxEvents
    BY <1>0, <1>11 DEF SourceRaises, TypeOK
  <2> QED BY <1>0, <1>11, <2>1, GotoStep DEF SourceRaises, TypeOK, store, history
<1>12. ASSUME NEW a \in Attempt, Refuse(a) PROVE IInv'
  <2>1. refusals' \in Nat /\ UNCHANGED <<store, started, finisher>>
    BY <1>0, <1>12 DEF Refuse, TypeOK
  <2>2. ASSUME NEW t \in Types, RefuseEvent(a, t) PROVE IInv'
    <3>1. seq[a] + 1 <= MaxEvents /\ pc[a] = "waiting" /\ seq[a] \in 0 .. MaxEvents + 1
      BY <1>0, <2>2, RoomPositive DEF RefuseEvent, Yields, TypeOK
    <3>2. seq[a] + 1 \in Slots /\ seq' = [seq EXCEPT ![a] = seq[a] + 1]
          /\ seq' \in [Attempt -> 0 .. MaxEvents + 1] /\ missed' \subseteq Slots
      BY <1>0, <2>2, <3>1, MissType DEF RefuseEvent
    <3>3. TypeOK'
      BY <1>0, <2>1, <2>2, <3>2 DEF TypeOK, RefuseEvent, Yields, Goto, store
    <3>4. Counted'
      BY <1>0, <2>1, <2>2, <3>1, <3>2 DEF TypeOK, Counted, RefuseEvent, Goto
    <3> QED BY <3>3, <3>4 DEF IInv
  <2>3. ASSUME RefuseError(a) PROVE IInv'
    <3>1. seq[a] <= MaxEvents /\ pc[a] = "handle" /\ seq[a] \in 0 .. MaxEvents + 1
      BY <1>0, <2>3 DEF RefuseError, Counted, TypeOK
    <3>2. seq[a] + 1 \in Slots /\ seq' = [seq EXCEPT ![a] = seq[a] + 1]
          /\ seq' \in [Attempt -> 0 .. MaxEvents + 1] /\ missed' \subseteq Slots
      BY <1>0, <2>3, <3>1, MissType DEF RefuseError
    <3>3. TypeOK'
      BY <1>0, <2>1, <2>3, <3>2 DEF TypeOK, RefuseError, Goto, store
    <3>4. Counted'
      BY <1>0, <2>1, <2>3, <3>1, <3>2 DEF TypeOK, Counted, RefuseError, Goto
    <3> QED BY <3>3, <3>4 DEF IInv
  <2>4. ASSUME RefuseSave(a) PROVE IInv'
    <3>1. UNCHANGED <<log, local, started, missed, status, checkpoint, finisher>>
      BY <2>1, <2>4 DEF RefuseSave, store
    <3>2. /\ status \in {None, "running", "completed", "failed"} /\ finisher \in Attempt \cup {0}
          /\ checkpoint \in [seq : Nat, by : Attempt, talked : BOOLEAN] \cup {None}
      BY <1>0 DEF TypeOK
    <3>3. CASE pc[a] = "save" /\ Goto(a, "handle")
      BY <1>0, <2>1, <3>1, <3>2, <3>3, GotoStep DEF Counted
    <3>4. CASE pc[a] # "idle" /\ (Goto(a, "closing") \/ Goto(a, "dead"))
      BY <2>1, <3>1, <3>2, <3>4, GotoStep
    <3> QED BY <2>4, <3>3, <3>4 DEF RefuseSave
  <2> QED BY <1>12, <2>2, <2>3, <2>4 DEF Refuse
<1> QED BY Steps, <1>1, <1>2, <1>3, <1>4, <1>5, <1>6, <1>7, <1>8, <1>9, <1>10, <1>11, <1>12

\* Every variable has its type, and a counter stays within its slots.
THEOREM TypeCorrect == Spec => []TypeOK
<1>1. IInv => TypeOK
  BY DEF IInv
<1> QED BY <1>1, TypeInit, IInvStep, PTL DEF Spec

-----------------------------------------------------------------------------
(* The log. *)

\* A step logs an event, misses one, or leaves the log alone.
LEMMA LogSteps ==
    ASSUME IInv, [Next]_vars
    PROVE  \/ \E a \in Attempt, t \in Types : Log(a, t) /\ seq[a] <= MaxEvents /\ UNCHANGED missed
           \/ \E a \in Attempt : Miss(a) /\ seq[a] <= MaxEvents /\ UNCHANGED log
           \/ UNCHANGED <<log, seq, missed>>
<1>1. ASSUME NEW a \in Attempt, NEW t \in Types, Yields(a, t) PROVE seq[a] <= MaxEvents
  <2>1. Room(t) \in 1..4 /\ seq[a] \in Nat /\ seq[a] + Room(t) <= MaxEvents
    BY <1>1, RoomPositive DEF Yields, IInv, TypeOK
  <2> QED BY <2>1
<1>2. ASSUME NEW a \in Attempt, NEW t \in Types, Emit(a, t)
      PROVE  Log(a, t) /\ seq[a] <= MaxEvents /\ UNCHANGED missed
  BY <1>1, <1>2 DEF Emit, history
<1>3. ASSUME NEW a \in Attempt, HandleAppend(a)
      PROVE  Log(a, "error") /\ seq[a] <= MaxEvents /\ UNCHANGED missed /\ "error" \in Types
  BY <1>3 DEF HandleAppend, IInv, Counted, history, Types
<1>4. ASSUME NEW a \in Attempt, Refuse(a)
      PROVE  \/ Miss(a) /\ seq[a] <= MaxEvents /\ UNCHANGED log
             \/ UNCHANGED <<log, seq, missed>>
  <2>1. UNCHANGED log
    BY <1>4 DEF Refuse, store
  <2>2. ASSUME NEW t \in Types, RefuseEvent(a, t) PROVE Miss(a) /\ seq[a] <= MaxEvents
    BY <1>1, <2>2 DEF RefuseEvent
  <2>3. ASSUME RefuseError(a) PROVE Miss(a) /\ seq[a] <= MaxEvents
    BY <2>3 DEF RefuseError, IInv, Counted
  <2>4. ASSUME RefuseSave(a) PROVE UNCHANGED <<seq, missed>>
    BY <2>4 DEF RefuseSave, local
  <2> QED BY <1>4, <2>1, <2>2, <2>3, <2>4 DEF Refuse
<1>5. ASSUME NEW a \in Attempt,
             SourceEnds(a) \/ Save(a) \/ HandleSave(a) \/ Close(a) \/ Finish(a)
             \/ SourceRaises(a) \/ Abandon(a)
      PROVE  UNCHANGED <<log, seq, missed>>
  BY <1>5 DEF SourceEnds, Save, HandleSave, Close, Finish, SourceRaises, Abandon,
              store, local, history
<1>6. ASSUME Begin \/ Crash \/ UNCHANGED vars PROVE UNCHANGED <<log, seq, missed>>
  BY <1>6 DEF Begin, Crash, vars, store, local, history
<1> QED BY Steps, <1>2, <1>3, <1>4, <1>5, <1>6

\* What an attempt has yielded is logged, or was refused, after every step.
LEMMA AllLoggedStep == IInv /\ AllLogged /\ [Next]_vars => AllLogged'
<1> SUFFICES ASSUME IInv, AllLogged, [Next]_vars PROVE AllLogged'
  OBVIOUS
<1>0. seq \in [Attempt -> 0 .. MaxEvents + 1] /\ log \in [Slots -> Entry \cup {None}]
      /\ missed \subseteq Slots
  BY DEF IInv, TypeOK
<1>1. ASSUME NEW a \in Attempt, NEW t \in Types, Log(a, t), seq[a] <= MaxEvents, UNCHANGED missed
      PROVE  AllLogged'
  <2> DEFINE k == seq[a] + 1
             e == [type |-> t, by |-> a]
  <2>1. /\ seq' = [seq EXCEPT ![a] = k] /\ k \in Slots
        /\ log' = [log EXCEPT ![k] = e] /\ e \in Entry
    BY <1>1, LogType
  <2>2. e # None /\ e.by = a
    <3>1. e \in [type : Types, by : Nat]
      BY DEF Attempt
    <3> HIDE DEF e
    <3>2. e # None
      BY <3>1
    <3> QED BY <3>2 DEF e
  <2>3. k \in Nat
    BY <2>1 DEF Slots
  <2> HIDE DEF k, e
  <2> SUFFICES ASSUME NEW b \in Attempt, NEW i \in (1..seq'[b]) \ missed
               PROVE  /\ log'[i] # None
                      /\ (\A c \in Attempt \ {b} : seq'[c] < i) => log'[i].by = b
    BY <1>1 DEF AllLogged
  <2>4. i \in Slots /\ i \in Nat /\ seq'[b] \in 0 .. MaxEvents + 1
    BY <1>0, <2>1, <2>3 DEF Slots
  <2>5. CASE i = k
    <3>1. log'[i] = e
      BY <1>0, <2>1, <2>5
    <3>2. ASSUME b # a PROVE ~ \A c \in Attempt \ {b} : seq'[c] < i
      <4>1. seq'[a] = k
        BY <1>0, <2>1
      <4> QED BY <2>3, <2>5, <3>2, <4>1
    <3> QED BY <2>2, <3>1, <3>2
  <2>6. CASE i # k
    <3>1. log'[i] = log[i]
      BY <1>0, <2>1, <2>4, <2>6
    <3>2. i \in 1..seq[b]
      <4>1. seq'[b] = IF b = a THEN k ELSE seq[b]
        BY <1>0, <2>1
      <4> QED BY <1>0, <2>4, <2>6, <4>1 DEF k
    <3>3. (\A c \in Attempt \ {b} : seq'[c] < i) => \A c \in Attempt \ {b} : seq[c] < i
      <4>1. \A c \in Attempt : seq[c] <= seq'[c] /\ seq[c] \in Nat /\ seq'[c] \in Nat
        BY <1>0, <2>1 DEF k
      <4> QED BY <2>4, <4>1
    <3> QED BY <3>1, <3>2, <3>3 DEF AllLogged
  <2> QED BY <2>5, <2>6
<1>2. ASSUME NEW a \in Attempt, Miss(a), UNCHANGED log PROVE AllLogged'
  <2>1. seq' = [seq EXCEPT ![a] = seq[a] + 1] /\ missed' = missed \cup {seq[a] + 1}
    BY <1>2 DEF Miss
  <2>2. \A c \in Attempt : seq[c] \in Nat /\ seq'[c] \in Nat /\ seq[c] <= seq'[c]
    BY <1>0, <2>1
  <2> SUFFICES ASSUME NEW b \in Attempt, NEW i \in (1..seq'[b]) \ missed'
               PROVE  /\ log[i] # None
                      /\ (\A c \in Attempt \ {b} : seq'[c] < i) => log[i].by = b
    BY <1>2 DEF AllLogged
  <2>3. i \in (1..seq[b]) \ missed
    BY <1>0, <2>1
  <2>4. (\A c \in Attempt \ {b} : seq'[c] < i) => \A c \in Attempt \ {b} : seq[c] < i
    BY <2>2, <2>3
  <2> QED BY <2>3, <2>4 DEF AllLogged
<1>3. CASE UNCHANGED <<log, seq, missed>>
  BY <1>3 DEF AllLogged
<1> QED BY LogSteps, <1>1, <1>2, <1>3

\* Whatever attempts overlap, crash or are refused by the store, every number an
\* attempt has given out is in the log, with its event unless another attempt
\* has come as far (append_event replaces the row of a number).
THEOREM EventsAreLogged == Spec => []AllLogged
<1>1. Init => AllLogged
  BY DEF Init, AllLogged
<1> QED BY <1>1, AllLoggedStep, TypeInit, IInvStep, PTL DEF Spec

-----------------------------------------------------------------------------
(* The status. *)

ErrorsFail ==
    \A i \in Slots : log[i] # None /\ log[i].type = "error" => final[log[i].by] = "failed"

AllEnded == started > 0 /\ \A a \in Attempt : pc[a] \in {"idle", "ended"}

StatusFinal == AllEnded => finisher \in Attempt /\ status = final[finisher]

\* An attempt that logged an error is one that failed, after every step.
LEMMA ErrorsFailStep == IInv /\ ErrorsFail /\ [Next]_vars => ErrorsFail'
<1> SUFFICES ASSUME IInv, ErrorsFail, [Next]_vars PROVE ErrorsFail'
  OBVIOUS
<1>0. /\ log \in [Slots -> Entry \cup {None}] /\ final \in [Attempt -> {"completed", "failed"}]
      /\ \A i \in Slots : log[i] # None => log[i].by \in Attempt
  BY DEF IInv, TypeOK, Entry
<1>1. ASSUME NEW a \in Attempt, NEW t \in Types, Log(a, t), seq[a] <= MaxEvents,
             final' = [final EXCEPT ![a] = IF t = "error" THEN "failed" ELSE @]
      PROVE  ErrorsFail'
  <2> DEFINE k == seq[a] + 1
             e == [type |-> t, by |-> a]
  <2>1. k \in Slots /\ log' = [log EXCEPT ![k] = e]
    BY <1>1, LogType
  <2>2. e.type = t /\ e.by = a
    OBVIOUS
  <2> HIDE DEF k, e
  <2>3. ASSUME NEW i \in Slots, log'[i] # None, log'[i].type = "error"
        PROVE  final'[log'[i].by] = "failed"
    <3>1. CASE i = k
      BY <1>0, <1>1, <2>1, <2>2, <2>3, <3>1
    <3>2. CASE i # k
      BY <1>0, <1>1, <2>1, <2>3, <3>2 DEF ErrorsFail
    <3> QED BY <3>1, <3>2
  <2> QED BY <2>3 DEF ErrorsFail
<1>2. ASSUME NEW a \in Attempt, NEW t \in Types, Emit(a, t) PROVE ErrorsFail'
  <2>1. seq[a] <= MaxEvents
    BY <1>2, RoomPositive DEF Emit, Yields, IInv, TypeOK
  <2> QED BY <1>1, <1>2, <2>1 DEF Emit
<1>3. ASSUME NEW a \in Attempt, HandleAppend(a) PROVE ErrorsFail'
  <2>1. seq[a] <= MaxEvents /\ "error" \in Types
    BY <1>3 DEF HandleAppend, IInv, Counted, Types
  <2> QED BY <1>1, <1>3, <2>1 DEF HandleAppend
<1>4. ASSUME UNCHANGED log,
             \/ UNCHANGED final
             \/ \E a \in Attempt : final' = [final EXCEPT ![a] = "failed"]
      PROVE  ErrorsFail'
  BY <1>0, <1>4 DEF ErrorsFail
<1>5. ASSUME NEW a \in Attempt, Refuse(a) PROVE ErrorsFail'
  BY <1>4, <1>5 DEF Refuse, RefuseEvent, RefuseError, RefuseSave, store, local
<1>6. ASSUME NEW a \in Attempt,
             SourceEnds(a) \/ Save(a) \/ HandleSave(a) \/ Close(a) \/ Finish(a)
             \/ SourceRaises(a) \/ Abandon(a)
      PROVE  ErrorsFail'
  BY <1>4, <1>6 DEF SourceEnds, Save, HandleSave, Close, Finish, SourceRaises, Abandon,
              store, local
<1>7. ASSUME Begin \/ Crash \/ UNCHANGED vars PROVE ErrorsFail'
  BY <1>4, <1>7 DEF Begin, Crash, vars, store, local
<1> QED BY Steps, <1>2, <1>3, <1>5, <1>6, <1>7

\* A step that leaves an attempt under way, or dead, ends nothing.
LEMMA StillGoing ==
    ASSUME TypeOK, NEW a \in Attempt, NEW place, place \notin {"idle", "ended"}, Goto(a, place)
    PROVE  ~AllEnded'
BY DEF TypeOK, Goto, AllEnded

\* When all have ended the status is the last one's, after every step.
LEMMA StatusFinalStep == IInv /\ StatusFinal /\ [Next]_vars => StatusFinal'
<1> SUFFICES ASSUME IInv, StatusFinal, [Next]_vars PROVE StatusFinal'
  OBVIOUS
<1>0. TypeOK
  BY DEF IInv
<1>1. ASSUME NEW a \in Attempt, NEW place, place \notin {"idle", "ended"}, Goto(a, place)
      PROVE  StatusFinal'
  BY <1>0, <1>1, StillGoing DEF StatusFinal
<1>2. CASE Begin
  <2>1. started + 1 \in Attempt
    BY <1>0, <1>2 DEF TypeOK, Begin, Attempt
  <2> QED BY <1>1, <1>2, <2>1 DEF Begin
<1>3. CASE Crash
  <2>1. PICK a \in Attempt : Live(a)
    BY <1>3 DEF Crash
  <2>2. pc'[a] = "dead"
    BY <1>0, <1>3, <2>1 DEF Crash, TypeOK
  <2> QED BY <2>2 DEF StatusFinal, AllEnded
<1>4. CASE UNCHANGED vars
  BY <1>4 DEF StatusFinal, AllEnded, vars, store, local, history
<1>5. ASSUME NEW a \in Attempt, Finish(a) PROVE StatusFinal'
  BY <1>0, <1>5 DEF Finish, StatusFinal, local
<1>6. ASSUME NEW a \in Attempt,
             \/ \E t \in Types : Emit(a, t)
             \/ SourceEnds(a) \/ Save(a) \/ HandleAppend(a) \/ HandleSave(a)
             \/ Close(a) \/ SourceRaises(a) \/ Abandon(a) \/ Refuse(a)
      PROVE  StatusFinal'
  <2>1. \/ Goto(a, "save") \/ Goto(a, "waiting") \/ Goto(a, "closing") \/ Goto(a, "rescue")
        \/ Goto(a, "finishing") \/ Goto(a, "handle") \/ Goto(a, "dead")
    BY <1>6 DEF Emit, SourceEnds, Save, HandleAppend, HandleSave, Close, SourceRaises, Abandon,
                Refuse, RefuseEvent, RefuseError, RefuseSave
  <2> QED BY <1>1, <2>1
<1> QED BY Steps, <1>2, <1>3, <1>4, <1>5, <1>6

\* When no attempt is under way or cut off, the run has the status of the
\* attempt that finished last; no attempt that logged an error is a success.
THEOREM StatusSettles == Spec => []SettledStatus
<1>1. Init => ErrorsFail /\ StatusFinal
  BY DEF Init, ErrorsFail, StatusFinal, AllEnded
<1>2. ErrorsFail /\ StatusFinal => SettledStatus
  BY DEF ErrorsFail, StatusFinal, AllEnded, SettledStatus
<1> QED BY <1>1, <1>2, ErrorsFailStep, StatusFinalStep, TypeInit, IInvStep, PTL DEF Spec

-----------------------------------------------------------------------------
(* The checkpoint. *)

OfEvent ==
    checkpoint # None /\ checkpoint.seq > 0 =>
        /\ checkpoint.seq \in Slots
        /\ log[checkpoint.seq] # None \/ checkpoint.seq \in missed

\* A step saves a checkpoint, or has nothing to do with it.
LEMMA CheckpointSteps ==
    ASSUME [Next]_vars
    PROVE  \/ \E a \in Attempt :
                 /\ Checkpoint(a) /\ pc[a] \in {"save", "rescue", "closing"}
                 /\ Goto(a, "waiting") \/ Goto(a, "closing") \/ Goto(a, "finishing")
                 /\ UNCHANGED <<log, seq, started, missed, refusals>>
           \/ UNCHANGED checkpoint
<1>1. ASSUME NEW a \in Attempt, Save(a) \/ HandleSave(a) \/ Close(a)
      PROVE  /\ Checkpoint(a) /\ pc[a] \in {"save", "rescue", "closing"}
             /\ Goto(a, "waiting") \/ Goto(a, "closing") \/ Goto(a, "finishing")
             /\ UNCHANGED <<log, seq, started, missed, refusals>>
  BY <1>1 DEF Save, HandleSave, Close, local, history
<1>2. ASSUME NEW a \in Attempt,
             \/ \E t \in Types : Emit(a, t)
             \/ SourceEnds(a) \/ HandleAppend(a) \/ Finish(a) \/ SourceRaises(a) \/ Abandon(a) \/ Refuse(a)
      PROVE  UNCHANGED checkpoint
  BY <1>2 DEF Emit, SourceEnds, HandleAppend, Finish, SourceRaises, Abandon, Refuse, store
<1>3. ASSUME Begin \/ Crash \/ UNCHANGED vars PROVE UNCHANGED checkpoint
  BY <1>3 DEF Begin, Crash, vars, store
<1> QED BY Steps, <1>1, <1>2, <1>3

\* What is logged or missed stays so.
LEMMA LogStays ==
    ASSUME IInv, [Next]_vars, NEW i \in Slots, log[i] # None \/ i \in missed
    PROVE  log'[i] # None \/ i \in missed'
<1>1. ASSUME NEW a \in Attempt, NEW t \in Types, Log(a, t), seq[a] <= MaxEvents, UNCHANGED missed
      PROVE  log'[i] # None \/ i \in missed'
  <2> DEFINE e == [type |-> t, by |-> a]
  <2>1. log' = [log EXCEPT ![seq[a] + 1] = e] /\ e \in [type : Types, by : Nat]
    BY <1>1, LogType DEF Attempt
  <2>2. log \in [Slots -> Entry \cup {None}]
    BY DEF IInv, TypeOK
  <2> HIDE DEF e
  <2>3. e # None
    BY <2>1
  <2> QED BY <1>1, <2>1, <2>2, <2>3
<1>2. ASSUME NEW a \in Attempt, Miss(a), UNCHANGED log PROVE log'[i] # None \/ i \in missed'
  BY <1>2 DEF Miss
<1> QED BY <1>1, <1>2, LogSteps

\* The checkpoint is of an event that is logged or missed, after every step.
LEMMA OfEventStep == IInv /\ AllLogged /\ OfEvent /\ [Next]_vars => OfEvent'
<1> SUFFICES ASSUME IInv, AllLogged, OfEvent, [Next]_vars PROVE OfEvent'
  OBVIOUS
<1>1. ASSUME NEW a \in Attempt, Checkpoint(a), UNCHANGED <<log, missed>> PROVE OfEvent'
  <2>1. checkpoint'.seq = seq[a] /\ seq[a] \in 0 .. MaxEvents + 1
    BY <1>1 DEF Checkpoint, IInv, TypeOK
  <2>2. ASSUME seq[a] > 0 PROVE seq[a] \in Slots /\ (log[seq[a]] # None \/ seq[a] \in missed)
    BY <2>1, <2>2 DEF AllLogged, Slots
  <2> QED BY <1>1, <2>1, <2>2 DEF OfEvent
<1>2. CASE UNCHANGED checkpoint
  BY <1>2, LogStays DEF OfEvent
<1> QED BY <1>1, <1>2, CheckpointSteps

\* How far the checkpoint may be behind at each place.
Limit(a) ==
    CASE pc[a] = "waiting" -> seq[a] % CheckpointEvery
      [] pc[a] = "save"    -> CheckpointEvery
      [] pc[a] = "handle"  -> CheckpointEvery - 1 + refusals
      [] OTHER             -> CheckpointEvery + refusals

Near == \A a \in Attempt :
            Saved(a) > 0 \/ started = 1 => seq[a] - Saved(a) <= Limit(a)

\* What an attempt has saved is a number.
LEMMA SavedType == IInv => \A a \in Attempt : Saved(a) \in Nat
BY DEF IInv, TypeOK, Saved

\* How far an attempt may be ahead of its checkpoint.
LEMMA LimitRange ==
    ASSUME IInv, NEW a \in Attempt
    PROVE  /\ Limit(a) \in Nat /\ Limit(a) <= CheckpointEvery + refusals
           /\ seq[a] % CheckpointEvery \in 0 .. CheckpointEvery - 1
<1>1. seq[a] \in Nat /\ refusals \in Nat
  BY DEF IInv, TypeOK
<1>2. seq[a] % CheckpointEvery \in 0 .. CheckpointEvery - 1
  BY <1>1, ModRange
<1> HIDE DEF RunAssumption
<1>3. PICK m \in 0 .. CheckpointEvery - 1 : m = seq[a] % CheckpointEvery
  BY <1>2
<1>4. Limit(a) = IF pc[a] = "waiting" THEN m
                 ELSE IF pc[a] = "save" THEN CheckpointEvery
                 ELSE IF pc[a] = "handle" THEN CheckpointEvery - 1 + refusals
                 ELSE CheckpointEvery + refusals
  BY <1>3 DEF Limit
<1>5. CheckpointEvery \in Nat \ {0}
  BY RunAssumption DEF RunAssumption
<1> QED BY <1>1, <1>2, <1>4, <1>5

\* An attempt that has not begun is never behind.
LEMMA IdleNear ==
    ASSUME IInv, NEW a \in Attempt, seq[a] = 0
    PROVE  seq[a] - Saved(a) <= Limit(a)
BY SavedType, LimitRange

\* Such bounds grow with the refusals.
LEMMA Larger ==
    ASSUME NEW c \in Nat \ {0}, NEW r \in Nat, NEW s \in Nat, r <= s
    PROVE  /\ c - 1 + s \in Nat /\ c + s \in Nat
           /\ c - 1 + r <= c - 1 + s /\ c + r <= c + s
OBVIOUS

\* Only attempt a moves, and the checkpoint stays.
LEMMA NearFrame ==
    ASSUME IInv, IInv', Near, NEW a \in Attempt, UNCHANGED <<checkpoint, started>>,
           \A b \in Attempt \ {a} : seq'[b] = seq[b] /\ pc'[b] = pc[b],
           refusals' \in Nat, refusals <= refusals',
           seq[a] - Saved(a) <= Limit(a) => seq'[a] - Saved(a) <= Limit(a)'
    PROVE  Near'
<1>1. \A b \in Attempt : Saved(b)' = Saved(b)
  BY DEF Saved
<1>2. ASSUME NEW b \in Attempt \ {a} PROVE Limit(b)' \in Nat /\ Limit(b) <= Limit(b)'
  <2>1. refusals \in Nat /\ seq'[b] = seq[b] /\ pc'[b] = pc[b]
    BY DEF IInv, TypeOK
  <2>2. PICK m \in Nat : m = seq[b] % CheckpointEvery
    BY LimitRange
  <2>3. Limit(b) = IF pc[b] = "waiting" THEN m
                   ELSE IF pc[b] = "save" THEN CheckpointEvery
                   ELSE IF pc[b] = "handle" THEN CheckpointEvery - 1 + refusals
                   ELSE CheckpointEvery + refusals
    BY <2>2 DEF Limit
  <2>4. Limit(b)' = IF pc[b] = "waiting" THEN m
                    ELSE IF pc[b] = "save" THEN CheckpointEvery
                    ELSE IF pc[b] = "handle" THEN CheckpointEvery - 1 + refusals'
                    ELSE CheckpointEvery + refusals'
    BY <2>1, <2>2 DEF Limit
  <2>5. /\ CheckpointEvery \in Nat
        /\ CheckpointEvery - 1 + refusals' \in Nat /\ CheckpointEvery + refusals' \in Nat
        /\ CheckpointEvery - 1 + refusals <= CheckpointEvery - 1 + refusals'
        /\ CheckpointEvery + refusals <= CheckpointEvery + refusals'
    <3>1. CheckpointEvery \in Nat \ {0} /\ refusals \in Nat /\ refusals' \in Nat /\ refusals <= refusals'
      BY <2>1
    <3> QED BY <3>1, Larger
  <2>6. CASE pc[b] = "waiting"
    <3>1. Limit(b) = m
      BY <2>3, <2>6
    <3>2. Limit(b)' = m
      BY <2>4, <2>6
    <3> QED BY <3>1, <3>2
  <2>7. CASE pc[b] = "save"
    <3>1. Limit(b) = CheckpointEvery
      BY <2>3, <2>7
    <3>2. Limit(b)' = CheckpointEvery
      BY <2>4, <2>7
    <3> QED BY <2>5, <3>1, <3>2
  <2>8. CASE pc[b] = "handle"
    <3>1. Limit(b) = CheckpointEvery - 1 + refusals
      BY <2>3, <2>8
    <3>2. Limit(b)' = CheckpointEvery - 1 + refusals'
      BY <2>4, <2>8
    <3> QED BY <2>5, <3>1, <3>2, Zenon
  <2>9. CASE pc[b] \notin {"waiting", "save", "handle"}
    <3>1. Limit(b) = CheckpointEvery + refusals
      BY <2>3, <2>9
    <3>2. Limit(b)' = CheckpointEvery + refusals'
      BY <2>4, <2>9
    <3> QED BY <2>5, <3>1, <3>2, Zenon
  <2> QED BY <2>6, <2>7, <2>8, <2>9
<1>3. ASSUME NEW b \in Attempt \ {a}, Saved(b) > 0 \/ started = 1
      PROVE  seq'[b] - Saved(b) <= Limit(b)'
  <2>1. seq[b] - Saved(b) <= Limit(b) /\ seq'[b] = seq[b] /\ Limit(b) <= Limit(b)'
    BY <1>2, <1>3 DEF Near
  <2>2. Limit(b) \in Nat /\ Saved(b) \in Nat /\ seq[b] \in Nat
    BY LimitRange, SavedType DEF IInv, TypeOK
  <2>3. Limit(b)' \in Nat
    BY <1>2
  <2> QED BY <2>1, <2>2, <2>3
<1> QED BY <1>1, <1>3 DEF Near

\* A saved checkpoint is up to date for its attempt, and nobody else has one.
LEMMA SavedNear ==
    ASSUME IInv, IInv', NEW a \in Attempt, Checkpoint(a), pc[a] # "idle",
           UNCHANGED <<seq, started>>, \A b \in Attempt \ {a} : pc'[b] = pc[b]
    PROVE  \A b \in Attempt : Saved(b)' > 0 \/ started' = 1 => seq'[b] - Saved(b)' = 0
<1>1. Saved(a)' = seq[a] /\ \A b \in Attempt \ {a} : Saved(b)' = 0
  <2>1. checkpoint' # None
    <3>1. checkpoint' \in [seq : Nat, by : Nat, talked : BOOLEAN]
      BY CheckpointType DEF IInv, Attempt
    <3> QED BY <3>1
  <2> QED BY <2>1 DEF Checkpoint, Saved
<1>2. \A b \in Attempt : seq[b] \in Nat
  BY DEF IInv, TypeOK
<1>3. ASSUME NEW b \in Attempt \ {a}, started' = 1 PROVE seq[b] = 0
  BY <1>3 DEF IInv, TypeOK, Counted, Attempt
<1> QED BY <1>1, <1>2, <1>3

\* It is a number.
LEMMA LimitNat == IInv => \A a \in Attempt : Limit(a) \in Nat
BY LimitRange

\* It is one after a step, too.
LEMMA LimitNatNext == IInv' => (\A a \in Attempt : Limit(a) \in Nat)'
BY LimitNat, PTL

\* Attempt a moves, and its limit with it.
LEMMA Advance ==
    ASSUME IInv, IInv', Near, NEW a \in Attempt, NEW d \in {0, 1}, NEW place,
           Goto(a, place), UNCHANGED <<checkpoint, started>>,
           seq' = [seq EXCEPT ![a] = seq[a] + d],
           refusals' = refusals \/ refusals' = refusals + 1,
           Limit(a) + d <= Limit(a)'
    PROVE  Near'
<1>1. /\ seq \in [Attempt -> 0 .. MaxEvents + 1] /\ refusals \in Nat
      /\ DOMAIN pc = Attempt /\ Saved(a) \in Nat /\ Limit(a) \in Nat
  BY SavedType, LimitNat DEF IInv, TypeOK
<1>2. refusals' \in Nat /\ refusals <= refusals'
  BY <1>1
<1>3. \A b \in Attempt \ {a} : seq'[b] = seq[b] /\ pc'[b] = pc[b]
  BY <1>1 DEF Goto
<1>4. Limit(a)' \in Nat
  BY LimitNatNext
<1>5. seq[a] - Saved(a) <= Limit(a) => seq'[a] - Saved(a) <= Limit(a)'
  <2>1. seq'[a] = seq[a] + d /\ seq[a] \in Nat
    BY <1>1
  <2> QED BY <1>1, <1>4, <2>1
<1> QED BY <1>2, <1>3, <1>5, NearFrame

\* The limit at each place, after a step.
LEMMA Limits ==
    ASSUME IInv, NEW a \in Attempt, NEW place, Goto(a, place)
    PROVE  /\ pc[a] = "waiting" => Limit(a) = seq[a] % CheckpointEvery
           /\ pc[a] = "save" => Limit(a) = CheckpointEvery
           /\ pc[a] = "handle" => Limit(a) = CheckpointEvery - 1 + refusals
           /\ place = "waiting" => Limit(a)' = seq'[a] % CheckpointEvery
           /\ place = "save" => Limit(a)' = CheckpointEvery
           /\ place = "handle" => Limit(a)' = CheckpointEvery - 1 + refusals'
           /\ place \notin {"waiting", "save", "handle"} => Limit(a)' = CheckpointEvery + refusals'
           /\ seq[a] % CheckpointEvery <= CheckpointEvery - 1
           /\ seq[a] % CheckpointEvery \in Nat
           /\ Limit(a) <= CheckpointEvery + refusals
           /\ Limit(a) \in Nat /\ refusals \in Nat
<1>1. pc'[a] = place
  BY DEF IInv, TypeOK, Goto
<1>2. seq[a] % CheckpointEvery \in 0 .. CheckpointEvery - 1 /\ Limit(a) <= CheckpointEvery + refusals
      /\ Limit(a) \in Nat /\ refusals \in Nat
  BY LimitRange DEF IInv, TypeOK
<1>3. /\ pc[a] = "waiting" => Limit(a) = seq[a] % CheckpointEvery
      /\ pc[a] = "save" => Limit(a) = CheckpointEvery
      /\ pc[a] = "handle" => Limit(a) = CheckpointEvery - 1 + refusals
  BY DEF Limit
<1>4. /\ place = "waiting" => Limit(a)' = seq'[a] % CheckpointEvery
      /\ place = "save" => Limit(a)' = CheckpointEvery
      /\ place = "handle" => Limit(a)' = CheckpointEvery - 1 + refusals'
      /\ place \notin {"waiting", "save", "handle"} => Limit(a)' = CheckpointEvery + refusals'
  BY <1>1 DEF Limit
<1>5. seq[a] % CheckpointEvery <= CheckpointEvery - 1 /\ seq[a] % CheckpointEvery \in Nat
  BY <1>2
<1> QED BY <1>2, <1>3, <1>4, <1>5

\* No attempt is further ahead of its checkpoint than that, after every step.
LEMMA NearStep == IInv /\ IInv' /\ Near /\ [Next]_vars => Near'
<1> SUFFICES ASSUME IInv, IInv', Near, [Next]_vars PROVE Near'
  OBVIOUS
<1>0. \A b \in Attempt : seq[b] \in Nat /\ Saved(b) \in Nat /\ Limit(b) \in Nat
  BY SavedType, LimitNat DEF IInv, TypeOK
<1>1. \A b \in Attempt : Limit(b)' \in Nat
  BY LimitNatNext
<1>2. CASE Begin
  <2>1. started + 1 \in Attempt /\ started \in Nat
    BY <1>2 DEF IInv, TypeOK, Begin, Attempt
  <2>2. UNCHANGED <<checkpoint, seq, refusals>> /\ started' = started + 1
        /\ \A b \in Attempt \ {started + 1} : pc'[b] = pc[b]
    BY <1>2 DEF Begin, local, Goto, IInv, TypeOK
  <2>3. \A b \in Attempt : Saved(b)' = Saved(b)
    BY <2>2 DEF Saved
  <2>4. ASSUME NEW b \in Attempt, Saved(b) > 0 \/ started' = 1
        PROVE  seq[b] - Saved(b) <= Limit(b)'
    <3>1. CASE b > started
      <4>1. seq[b] = 0
        BY <3>1 DEF IInv, Counted
      <4>2. seq[b] - Saved(b) <= 0
        BY <1>0, <4>1
      <4> QED BY <1>0, <1>1, <4>2
    <3>2. CASE ~(b > started)
      <4>1. started' # 1 /\ b # started + 1
        BY <2>1, <2>2, <3>2 DEF Attempt
      <4>2. Limit(b)' = Limit(b)
        BY <2>2, <4>1 DEF Limit
      <4>3. seq[b] - Saved(b) <= Limit(b)
        BY <2>4, <4>1 DEF Near
      <4> QED BY <4>2, <4>3
    <3> QED BY <3>1, <3>2
  <2> QED BY <2>2, <2>3, <2>4 DEF Near
<1>3. CASE Crash
  <2>1. UNCHANGED <<checkpoint, seq, refusals, started>>
        /\ pc' = [b \in Attempt |-> IF Live(b) THEN "dead" ELSE pc[b]]
    BY <1>3 DEF Crash, store, local
  <2>2. \A b \in Attempt : Saved(b)' = Saved(b)
    BY <2>1 DEF Saved
  <2>3. ASSUME NEW b \in Attempt PROVE Limit(b) <= Limit(b)'
    <3>1. CASE Live(b)
      <4>1. pc'[b] = "dead"
        BY <2>1, <3>1
      <4>2. Limit(b)' = CheckpointEvery + refusals
        BY <2>1, <4>1 DEF Limit
      <4> QED BY <4>2, LimitRange
    <3>2. CASE ~Live(b)
      <4>1. Limit(b)' = Limit(b)
        BY <2>1, <3>2 DEF Limit
      <4> QED BY <1>0, <4>1
    <3> QED BY <3>1, <3>2
  <2>4. ASSUME NEW b \in Attempt, Saved(b) > 0 \/ started = 1
        PROVE  seq[b] - Saved(b) <= Limit(b)'
    <3>1. seq[b] - Saved(b) <= Limit(b)
      BY <2>4 DEF Near
    <3> QED BY <1>0, <1>1, <2>3, <3>1
  <2> QED BY <2>1, <2>2, <2>4 DEF Near
<1>4. CASE UNCHANGED vars
  <2>1. UNCHANGED <<checkpoint, seq, refusals, started, pc>>
    BY <1>4 DEF vars, store, local
  <2> QED BY <2>1 DEF Near, Limit, Saved
<1>5. ASSUME NEW a \in Attempt, Save(a) \/ HandleSave(a) \/ Close(a) PROVE Near'
  <2>1. Checkpoint(a) /\ pc[a] # "idle" /\ UNCHANGED <<seq, started>>
    BY <1>5 DEF Save, HandleSave, Close, local
  <2>2. \A b \in Attempt \ {a} : pc'[b] = pc[b]
    BY <1>5 DEF Save, HandleSave, Close, Goto, IInv, TypeOK
  <2>3. \A b \in Attempt : Saved(b)' > 0 \/ started' = 1 => seq'[b] - Saved(b)' = 0
    BY <2>1, <2>2, SavedNear
  <2> QED BY <1>1, <2>3 DEF Near
<1>6. ASSUME NEW a \in Attempt, NEW t \in Types, Emit(a, t) PROVE Near'
  <2>1. /\ pc[a] = "waiting" /\ seq' = [seq EXCEPT ![a] = seq[a] + 1] /\ seq'[a] = seq[a] + 1
        /\ UNCHANGED <<checkpoint, started, refusals>>
    BY <1>6 DEF Emit, Yields, Log, IInv, TypeOK
  <2>2. CASE Goto(a, "save")
    <3>1. Limit(a) + 1 <= Limit(a)'
      BY <2>1, <2>2, Limits
    <3> QED BY <2>1, <2>2, <3>1, Advance
  <2>3. CASE Goto(a, "waiting") /\ ~Saves(a, t)
    <3>1. (seq[a] + 1) % CheckpointEvery # 0
      BY <2>3 DEF Saves
    <3>2. (seq[a] + 1) % CheckpointEvery = (seq[a] % CheckpointEvery) + 1
      BY <1>0, <3>1, NextRemainder
    <3>3. PICK m \in Nat : m = seq[a] % CheckpointEvery
      BY <2>3, Limits
    <3>4. Limit(a) = m /\ Limit(a)' = m + 1
      BY <2>1, <2>3, <3>2, <3>3, Limits
    <3>5. Limit(a) + 1 <= Limit(a)'
      BY <3>4
    <3> QED BY <2>1, <2>3, <3>5, Advance
  <2> QED BY <1>6, <2>2, <2>3 DEF Emit
<1>7. ASSUME NEW a \in Attempt, SourceEnds(a) \/ Abandon(a) PROVE Near'
  <2>1. /\ pc[a] = "waiting" /\ Goto(a, "closing") /\ seq' = [seq EXCEPT ![a] = seq[a] + 0]
        /\ UNCHANGED <<checkpoint, started, refusals>>
    BY <1>0, <1>7 DEF SourceEnds, Abandon, store, local, IInv, TypeOK
  <2>2. Limit(a) + 0 <= Limit(a)'
    BY <2>1, Limits
  <2> QED BY <2>1, <2>2, Advance
<1>8. ASSUME NEW a \in Attempt, SourceRaises(a) PROVE Near'
  <2>1. /\ pc[a] = "waiting" /\ Goto(a, "handle") /\ seq' = [seq EXCEPT ![a] = seq[a] + 0]
        /\ UNCHANGED <<checkpoint, started, refusals>>
    BY <1>0, <1>8 DEF SourceRaises, store, local, IInv, TypeOK
  <2>2. Limit(a) + 0 <= Limit(a)'
    BY <2>1, Limits
  <2> QED BY <2>1, <2>2, Advance
<1>9. ASSUME NEW a \in Attempt, HandleAppend(a) PROVE Near'
  <2>1. /\ pc[a] = "handle" /\ Goto(a, "rescue") /\ seq' = [seq EXCEPT ![a] = seq[a] + 1]
        /\ UNCHANGED <<checkpoint, started, refusals>>
    BY <1>9 DEF HandleAppend, Log, IInv, TypeOK
  <2>2. Limit(a) + 1 <= Limit(a)'
    BY <2>1, Limits
  <2> QED BY <2>1, <2>2, Advance
<1>10. ASSUME NEW a \in Attempt, Finish(a) PROVE Near'
  <2>1. /\ pc[a] = "finishing" /\ Goto(a, "ended") /\ seq' = [seq EXCEPT ![a] = seq[a] + 0]
        /\ UNCHANGED <<checkpoint, started, refusals>>
    BY <1>0, <1>10 DEF Finish, local, IInv, TypeOK
  <2>2. Limit(a) + 0 <= Limit(a)'
    BY <2>1, Limits
  <2> QED BY <2>1, <2>2, Advance
<1>11. ASSUME NEW a \in Attempt, Refuse(a) PROVE Near'
  <2>1. refusals' = refusals + 1 /\ UNCHANGED <<checkpoint, started>>
    BY <1>11 DEF Refuse, store
  <2>2. ASSUME NEW t \in Types, RefuseEvent(a, t) PROVE Near'
    <3>1. pc[a] = "waiting" /\ Goto(a, "handle") /\ seq' = [seq EXCEPT ![a] = seq[a] + 1]
      BY <2>2 DEF RefuseEvent, Yields, Miss
    <3>2. Limit(a) + 1 <= Limit(a)'
      BY <2>1, <3>1, Limits
    <3> QED BY <2>1, <3>1, <3>2, Advance
  <2>3. ASSUME RefuseError(a) PROVE Near'
    <3>1. pc[a] = "handle" /\ Goto(a, "closing") /\ seq' = [seq EXCEPT ![a] = seq[a] + 1]
      BY <2>3 DEF RefuseError, Miss
    <3>2. Limit(a) + 1 <= Limit(a)'
      BY <2>1, <3>1, Limits
    <3> QED BY <2>1, <3>1, <3>2, Advance
  <2>4. ASSUME RefuseSave(a) PROVE Near'
    <3>1. seq' = [seq EXCEPT ![a] = seq[a] + 0]
      BY <1>0, <2>4 DEF RefuseSave, local, IInv, TypeOK
    <3>2. CASE pc[a] = "save" /\ Goto(a, "handle")
      <4>1. Limit(a) + 0 <= Limit(a)'
        BY <2>1, <3>2, Limits
      <4> QED BY <2>1, <3>1, <3>2, <4>1, Advance
    <3>3. ASSUME NEW place \in {"closing", "dead"}, Goto(a, place) PROVE Near'
      <4>1. Limit(a) + 0 <= Limit(a)'
        BY <2>1, <3>3, Limits
      <4> QED BY <2>1, <3>1, <3>3, <4>1, Advance
    <3> QED BY <2>4, <3>2, <3>3 DEF RefuseSave
  <2> QED BY <1>11, <2>2, <2>3, <2>4 DEF Refuse
<1> QED BY Steps, <1>2, <1>3, <1>4, <1>5, <1>6, <1>7, <1>8, <1>9, <1>10, <1>11

\* The checkpoint is of a logged event and at most checkpoint_every events old,
\* one more for each failure of the store, for any interval.
THEOREM CheckpointIsNear == Spec => []CheckpointKeepsUp
<1>1. Init => AllLogged /\ OfEvent /\ Near
  BY SavedType, TypeInit, IdleNear DEF Init, AllLogged, OfEvent, Near
<1>2. IInv /\ OfEvent /\ Near => CheckpointKeepsUp
  <2> SUFFICES ASSUME IInv, OfEvent, Near PROVE CheckpointKeepsUp
    OBVIOUS
  <2>1. ASSUME NEW a \in Attempt, Saved(a) > 0 \/ started = 1
        PROVE  seq[a] - Saved(a) <= CheckpointEvery + refusals
    <3>1. seq[a] - Saved(a) <= Limit(a)
      BY <2>1 DEF Near
    <3>2. seq[a] \in Nat /\ Saved(a) \in Nat /\ refusals \in Nat
      BY SavedType DEF IInv, TypeOK
    <3> QED BY <3>1, <3>2, LimitRange
  <2> QED BY <2>1 DEF OfEvent, CheckpointKeepsUp
<1> QED BY <1>1, <1>2, TypeInit, IInvStep, AllLoggedStep, OfEventStep, NearStep, PTL DEF Spec
=============================================================================
