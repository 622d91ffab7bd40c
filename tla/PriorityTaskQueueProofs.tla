----------------------- MODULE PriorityTaskQueueProofs -----------------------
(***************************************************************************)
(* Theorems about PriorityTaskQueue, for any processes, workers and tasks, *)
(* and any number of retries, crashes and calls of clear and reset.        *)
(***************************************************************************)
EXTENDS PriorityTaskQueue, FiniteSetTheorems, SequenceTheorems, TLAPS

-----------------------------------------------------------------------------
(* Entries. *)

\* There are finitely many entries.
LEMMA EntriesFinite == IsFiniteSet(Entry)
<1> DEFINE D == Task \X (0..MaxRetries)
           f == [x \in D |-> [task |-> x[1], retry |-> x[2]]]
<1>1. IsFiniteSet(D)
  <2>1. IsFiniteSet(Task) /\ MaxRetries \in Int
    BY QueueAssumption DEF QueueAssumption
  <2>2. IsFiniteSet(0..MaxRetries)
    BY <2>1, FS_Interval
  <2> QED BY <2>1, <2>2, FS_Product
<1>2. f \in Surjection(D, Entry)
  <2>1. f \in [D -> Entry]
    BY DEF Entry
  <2>2. ASSUME NEW e \in Entry PROVE \E x \in D : f[x] = e
    <3>1. <<e.task, e.retry>> \in D /\ f[<<e.task, e.retry>>] = e
      BY DEF Entry
    <3> QED BY <3>1
  <2> QED BY <2>1, <2>2 DEF Surjection
<1> QED BY <1>1, <1>2, FS_Surjection

\* An entry of the highest priority among some entries.
Top(S, e) == e \in S /\ \A d \in S : Priority[d.task] <= Priority[e.task]

\* A set of entries has one.  (By a set without one that has no smaller such
\* set in it.)
LEMMA HasTop == ASSUME NEW S \in SUBSET Entry, S # {} PROVE \E e \in S : Top(S, e)
<1> DEFINE R == StrictSubsetOrdering(Entry)
           T == {A \in SUBSET Entry : A # {} /\ ~\E e \in A : Top(A, e)}
<1>1. SUFFICES T = {}
  OBVIOUS
<1>2. SUFFICES ASSUME T # {} PROVE FALSE
  OBVIOUS
<1>3. IsWellFoundedOn(R, SUBSET Entry)
  BY EntriesFinite, FS_FiniteSubsetsOfFinite, FS_StrictSubsetOrderingWellFounded
<1>4. PICK A \in T : \A B \in T : <<B, A>> \notin R
  <2> HIDE DEF R, T
  <2>1. T \subseteq SUBSET Entry
    BY DEF T
  <2> QED BY <1>2, <1>3, <2>1, WFMin
<1>5. PICK x \in A : TRUE
  OBVIOUS
<1> DEFINE B == A \ {x}
<1>6. B \notin T
  BY <1>4, <1>5 DEF StrictSubsetOrdering
<1>7. \A d \in A : Priority[d.task] \in Int
  BY QueueAssumption DEF QueueAssumption, Entry
<1>8. CASE B = {}
  BY <1>5, <1>7, <1>8 DEF Top
<1>9. CASE B # {}
  <2>1. PICK m \in B : Top(B, m)
    BY <1>6, <1>9
  <2>2. CASE Priority[x.task] <= Priority[m.task]
    BY <1>5, <1>7, <2>1, <2>2 DEF Top
  <2>3. CASE Priority[m.task] <= Priority[x.task]
    BY <1>5, <1>7, <2>1, <2>3 DEF Top
  <2> QED BY <1>5, <1>7, <2>2, <2>3
<1> QED BY <1>8, <1>9

-----------------------------------------------------------------------------
(* A heap and a stack, as values. *)

HeapSet(h)  == {e \in Entry : h[e] > 0}
Elements(f) == {f[i] : i \in 1..Len(f)}

TasksOf(S)  == {e.task : e \in S}

\* The tasks of the two.
TasksIn(h, f) == TasksOf(HeapSet(h)) \cup TasksOf(Elements(f))

\* No task is twice in them.
OnceIn(h, f) ==
    /\ \A d, e \in HeapSet(h) : d.task = e.task => d = e /\ h[d] = 1
    /\ \A i, j \in 1..Len(f) : f[i].task = f[j].task => i = j
    /\ TasksOf(HeapSet(h)) \cap TasksOf(Elements(f)) = {}

\* What a process has queued, as a function of its heap and its stack.
LEMMA QueuedTasksAre ==
    \A p : /\ QueuedTasks(p) = TasksIn(heap[p], forefront[p])
           /\ QueuedTasks(p)' = TasksIn(heap'[p], forefront'[p])
BY DEF QueuedTasks, TasksIn, TasksOf, HeapTasks, FrontTasks, HeapSet, Elements, InHeap, InForefront

\* The elements of a set in some order.
LEMMA OrderedSet ==
    ASSUME NEW S \in SUBSET Entry, NEW s \in SetToSeqs(S)
    PROVE  /\ s \in Seq(Entry) /\ Len(s) = Cardinality(S)
           /\ Elements(s) = S
           /\ \A i, j \in 1..Len(s) : s[i] = s[j] => i = j
<1> DEFINE n == Cardinality(S)
           D == 1..n
           R == {s[i] : i \in D}
<1>1. IsFiniteSet(S) /\ n \in Nat
  BY EntriesFinite, FS_Subset, FS_CardinalityType
<1>2. s \in [D -> S] /\ \A i, j \in D : i # j => s[i] # s[j]
  BY DEF SetToSeqs
<1>3. s \in Seq(Entry) /\ Len(s) = n
  <2>1. s \in [1..n -> Entry]
    BY <1>2
  <2> QED BY <1>1, <2>1, IsASeq, LenProperties
<1>4. R = S
  <2>1. IsFiniteSet(D) /\ Cardinality(D) = n
    BY <1>1, FS_Interval
  <2>2. s \in Bijection(D, R)
    BY <1>2 DEF Bijection, Injection, Surjection, IsInjective
  <2>3. Cardinality(R) = n
    BY <2>1, <2>2, FS_Bijection DEF ExistsBijection
  <2>4. R \in SUBSET S
    BY <1>2
  <2> QED BY <1>1, <2>3, <2>4, FS_Subset
<1> QED BY <1>2, <1>3, <1>4 DEF Elements

-----------------------------------------------------------------------------
(* Entries go in, and one goes out. *)

\* S pushed on the heap h and stacked on f.
Adds(h, f, S, h2, f2) ==
    /\ h2 = Pushed(h, ForHeap(S))
    /\ \E s \in SetToSeqs(ForFront(S)) : f2 = f \o s

\* No two entries of S are of one task.
Distinct(S) == \A d, e \in S : d.task = e.task => d = e

\* What is added is there, next to what was; if it is one entry for a task,
\* of tasks that were not there, no task is there twice.
LEMMA AddsFacts ==
    ASSUME NEW h \in [Entry -> Nat], NEW f \in Seq(Entry), NEW S \in SUBSET Entry,
           NEW h2, NEW f2, Adds(h, f, S, h2, f2)
    PROVE  /\ h2 \in [Entry -> Nat] /\ f2 \in Seq(Entry)
           /\ TasksIn(h2, f2) = TasksIn(h, f) \cup TasksOf(S)
           /\ OnceIn(h, f) /\ Distinct(S) /\ TasksIn(h, f) \cap TasksOf(S) = {} => OnceIn(h2, f2)
<1> DEFINE H == ForHeap(S)
           F == ForFront(S)
<1>1. /\ H \subseteq S /\ F \subseteq S /\ H \cup F = S
      /\ \A d \in H, e \in F : d.task # e.task
  BY DEF ForHeap, ForFront
<1> HIDE DEF H, F
<1>2. h2 = Pushed(h, H)
  BY DEF Adds, H
<1>3. PICK s \in SetToSeqs(F) : f2 = f \o s
  BY DEF Adds, F
<1>4. /\ s \in Seq(Entry)
      /\ Elements(s) = F
      /\ \A i, j \in 1..Len(s) : s[i] = s[j] => i = j
  BY <1>1, OrderedSet
<1>5. h2 \in [Entry -> Nat] /\ \A e \in Entry : h2[e] = IF e \in H THEN h[e] + 1 ELSE h[e]
  BY <1>2 DEF Pushed
<1>6. HeapSet(h2) = HeapSet(h) \cup H
  BY <1>1, <1>5 DEF HeapSet
<1>7. /\ f2 \in Seq(Entry) /\ Len(f2) = Len(f) + Len(s)
      /\ \A i \in 1..Len(f2) : f2[i] = IF i <= Len(f) THEN f[i] ELSE s[i - Len(f)]
  BY <1>3, <1>4, ConcatProperties
<1>8. Len(f) \in Nat /\ Len(s) \in Nat
  BY <1>4, LenProperties
<1>9. Elements(f2) = Elements(f) \cup F
  <2>1. ASSUME NEW i \in 1..Len(f2) PROVE f2[i] \in Elements(f) \cup Elements(s)
    <3>1. CASE i <= Len(f)
      <4>1. i \in 1..Len(f) /\ f2[i] = f[i]
        BY <1>7, <1>8, <3>1
      <4> QED BY <4>1 DEF Elements
    <3>2. CASE i > Len(f)
      <4>1. i - Len(f) \in 1..Len(s) /\ f2[i] = s[i - Len(f)]
        BY <1>7, <1>8, <3>2
      <4> QED BY <4>1 DEF Elements
    <3> QED BY <1>7, <1>8, <3>1, <3>2
  <2>2. ASSUME NEW i \in 1..Len(f) PROVE f[i] \in Elements(f2)
    <3>1. i \in 1..Len(f2) /\ f2[i] = f[i]
      BY <1>7, <1>8
    <3> QED BY <3>1 DEF Elements
  <2>3. ASSUME NEW i \in 1..Len(s) PROVE s[i] \in Elements(f2)
    <3>1. Len(f) + i \in 1..Len(f2) /\ f2[Len(f) + i] = s[i]
      <4>1. Len(f) + i \in 1..Len(f2) /\ ~(Len(f) + i <= Len(f)) /\ (Len(f) + i) - Len(f) = i
        BY <1>7, <1>8
      <4>2. f2[Len(f) + i] = s[(Len(f) + i) - Len(f)]
        BY <1>7, <4>1
      <4> QED BY <4>1, <4>2
    <3> QED BY <3>1 DEF Elements
  <2>4. Elements(f2) \subseteq Elements(f) \cup Elements(s)
    BY <2>1 DEF Elements
  <2>5. Elements(f) \subseteq Elements(f2) /\ Elements(s) \subseteq Elements(f2)
    BY <2>2, <2>3 DEF Elements
  <2> QED BY <1>4, <2>4, <2>5
<1>10. TasksIn(h2, f2) = TasksIn(h, f) \cup TasksOf(S)
  BY <1>1, <1>6, <1>9 DEF TasksIn, TasksOf
<1>11. ASSUME OnceIn(h, f), Distinct(S), TasksIn(h, f) \cap TasksOf(S) = {}
       PROVE  OnceIn(h2, f2)
  <2>0. /\ \A e \in HeapSet(h) : e.task \in TasksIn(h, f)
        /\ \A e \in Elements(f) : e.task \in TasksIn(h, f)
        /\ \A e \in S : e.task \in TasksOf(S)
    BY DEF TasksIn, TasksOf
  <2>1. ASSUME NEW d \in HeapSet(h2), NEW e \in HeapSet(h2), d.task = e.task
        PROVE  d = e /\ h2[d] = 1
    <3>1. CASE d \in HeapSet(h) /\ e \in HeapSet(h)
      <4>1. d = e /\ h[d] = 1 /\ d \in Entry
        BY <2>1, <1>11, <3>1 DEF OnceIn, HeapSet
      <4>2. d \notin H
        BY <1>1, <1>11, <2>0, <3>1
      <4> QED BY <1>5, <4>1, <4>2
    <3>2. CASE d \in H /\ e \in H
      <4>1. d = e
        BY <1>1, <1>11, <2>1, <3>2 DEF Distinct
      <4>2. d \in Entry /\ d \notin HeapSet(h)
        BY <1>1, <1>11, <2>0, <3>2
      <4>3. h[d] = 0
        BY <4>2 DEF HeapSet
      <4> QED BY <1>5, <3>2, <4>1, <4>2, <4>3
    <3> QED BY <1>1, <1>6, <1>11, <2>0, <2>1, <3>1, <3>2
  <2>2. ASSUME NEW i \in 1..Len(f2), NEW j \in 1..Len(f2), f2[i].task = f2[j].task
        PROVE  i = j
    <3>1. CASE i <= Len(f) /\ j <= Len(f)
      <4>1. f[i].task = f[j].task /\ i \in 1..Len(f) /\ j \in 1..Len(f)
        BY <1>7, <1>8, <2>2, <3>1
      <4> QED BY <1>11, <4>1 DEF OnceIn
    <3>2. CASE i > Len(f) /\ j > Len(f)
      <4>1. /\ s[i - Len(f)].task = s[j - Len(f)].task
            /\ i - Len(f) \in 1..Len(s) /\ j - Len(f) \in 1..Len(s)
        BY <1>7, <1>8, <2>2, <3>2
      <4>2. s[i - Len(f)] \in S /\ s[j - Len(f)] \in S
        BY <1>1, <1>4, <4>1 DEF Elements
      <4>3. i - Len(f) = j - Len(f)
        BY <1>4, <1>11, <4>1, <4>2 DEF Distinct
      <4> QED BY <1>7, <1>8, <4>3
    <3>3. ASSUME NEW k \in 1..Len(f2), NEW l \in 1..Len(f2), k <= Len(f), l > Len(f)
          PROVE  f2[k].task # f2[l].task
      <4>1. f2[k] \in Elements(f) /\ f2[l] \in Elements(s)
        <5>1. k \in 1..Len(f) /\ f2[k] = f[k]
          BY <1>7, <1>8, <3>3
        <5>2. l - Len(f) \in 1..Len(s) /\ f2[l] = s[l - Len(f)]
          BY <1>7, <1>8, <3>3
        <5> QED BY <5>1, <5>2 DEF Elements
      <4> QED BY <1>1, <1>4, <1>11, <2>0, <4>1
    <3> QED BY <1>7, <1>8, <2>2, <3>1, <3>2, <3>3
  <2>3. TasksOf(HeapSet(h2)) \cap TasksOf(Elements(f2)) = {}
    <3>1. SUFFICES ASSUME NEW d \in HeapSet(h2), NEW e \in Elements(f2), d.task = e.task
                   PROVE  FALSE
      BY DEF TasksOf
    <3>2. CASE d \in HeapSet(h) /\ e \in Elements(f)
      BY <1>11, <3>1, <3>2 DEF OnceIn, TasksOf
    <3> QED BY <1>1, <1>6, <1>9, <1>11, <2>0, <3>1, <3>2
  <2> QED BY <2>1, <2>2, <2>3 DEF OnceIn, TasksOf
<1> QED BY <1>5, <1>7, <1>10, <1>11

\* Entry e taken off the stack, or off the heap when there is no stack.
Removes(h, f, e, h2, f2) ==
    IF f # <<>> THEN e = f[Len(f)] /\ f2 = SubSeq(f, 1, Len(f) - 1) /\ h2 = h
    ELSE e \in HeapSet(h) /\ h2 = [h EXCEPT ![e] = @ - 1] /\ f2 = f

\* One entry goes and the others stay; if no task was there twice, the task
\* of the one that went is not there.
LEMMA RemovesFacts ==
    ASSUME NEW h \in [Entry -> Nat], NEW f \in Seq(Entry), NEW e,
           NEW h2, NEW f2, Removes(h, f, e, h2, f2)
    PROVE  /\ e \in Entry
           /\ h2 \in [Entry -> Nat] /\ f2 \in Seq(Entry)
           /\ f # <<>> => Len(f2) = Len(f) - 1
           /\ TasksIn(h, f) = TasksIn(h2, f2) \cup {e.task}
           /\ OnceIn(h, f) => OnceIn(h2, f2) /\ e.task \notin TasksIn(h2, f2)
<1>1. CASE f # <<>>
  <2> DEFINE n == Len(f)
  <2>1. /\ n \in Nat /\ n >= 1 /\ f2 \in Seq(Entry) /\ Len(f2) = n - 1
        /\ \A i \in 1..(n - 1) : f2[i] = f[i]
        /\ h2 = h /\ e = f[n]
    <3>1. n \in Nat /\ n >= 1
      BY <1>1, LenProperties, EmptySeq
    <3>2. f2 = SubSeq(f, 1, n - 1) /\ h2 = h /\ e = f[n]
      BY <1>1 DEF Removes
    <3>3. \A i \in 1..(n - 1) : f[i] \in Entry
      BY <3>1, ElementOfSeq
    <3>4. f2 \in Seq(Entry) /\ Len(f2) = n - 1 /\ \A i \in 1..(n - 1) : f2[i] = f[i]
      <4>1. /\ SubSeq(f, 1, n - 1) \in Seq(Entry)
            /\ Len(SubSeq(f, 1, n - 1)) = IF 1 <= n - 1 THEN (n - 1) - 1 + 1 ELSE 0
            /\ \A i \in 1..((n - 1) - 1 + 1) : SubSeq(f, 1, n - 1)[i] = f[1 + i - 1]
        <5> HIDE DEF n
        <5>1. 1 \in Int /\ n - 1 \in Int
          BY <3>1
        <5> QED BY <3>3, <5>1, SubSeqProperties
      <4>2. (n - 1) - 1 + 1 = n - 1 /\ \A i \in 1..(n - 1) : 1 + i - 1 = i
        BY <3>1
      <4> QED BY <3>1, <3>2, <4>1, <4>2
    <3> QED BY <3>1, <3>2, <3>4
  <2>2. Elements(f) = Elements(f2) \cup {e}
    <3>1. ASSUME NEW i \in 1..n PROVE f[i] \in Elements(f2) \cup {e}
      <4>1. i = n \/ i \in 1..(n - 1)
        BY <2>1
      <4> QED BY <2>1, <4>1 DEF Elements
    <3>2. ASSUME NEW i \in 1..Len(f2) PROVE f2[i] \in Elements(f)
      <4>1. i \in 1..n /\ f2[i] = f[i]
        BY <2>1
      <4> QED BY <4>1 DEF Elements
    <3>3. n \in 1..n
      BY <2>1
    <3>4. Elements(f) \subseteq Elements(f2) \cup {e}
      BY <3>1 DEF Elements
    <3>5. Elements(f2) \subseteq Elements(f) /\ e \in Elements(f)
      BY <2>1, <3>2, <3>3 DEF Elements
    <3> QED BY <3>4, <3>5
  <2>3. e \in Entry
    BY <2>1, ElementOfSeq
  <2>4. TasksIn(h, f) = TasksIn(h2, f2) \cup {e.task}
    BY <2>1, <2>2 DEF TasksIn, TasksOf
  <2>5. ASSUME OnceIn(h, f) PROVE OnceIn(h2, f2) /\ e.task \notin TasksIn(h2, f2)
    <3>1. \A i, j \in 1..Len(f2) : f2[i].task = f2[j].task => i = j
      <4>1. \A i, j \in 1..n : f[i].task = f[j].task => i = j
        BY <2>5 DEF OnceIn
      <4>2. \A i \in 1..Len(f2) : i \in 1..n /\ f2[i] = f[i]
        BY <2>1
      <4> HIDE DEF n
      <4> QED BY <4>1, <4>2
    <3>2. e.task \notin TasksOf(Elements(f2))
      <4>1. \A i, j \in 1..n : f[i].task = f[j].task => i = j
        BY <2>5 DEF OnceIn
      <4>2. \A i \in 1..Len(f2) : i \in 1..n /\ i # n /\ f2[i] = f[i]
        BY <2>1
      <4>3. n \in 1..n
        BY <2>1
      <4>4. \A i \in 1..Len(f2) : f2[i].task # e.task
        <5> HIDE DEF n
        <5> QED BY <2>1, <4>1, <4>2, <4>3
      <4> QED BY <4>4 DEF TasksOf, Elements
    <3>3. e.task \notin TasksOf(HeapSet(h))
      <4>1. TasksOf(HeapSet(h)) \cap TasksOf(Elements(f)) = {}
        BY <2>5 DEF OnceIn
      <4> QED BY <2>2, <4>1 DEF TasksOf
    <3>4. TasksOf(Elements(f2)) \subseteq TasksOf(Elements(f))
      BY <2>2 DEF TasksOf
    <3>5. OnceIn(h2, f2)
      BY <2>1, <2>5, <3>1, <3>4 DEF OnceIn
    <3> QED BY <2>1, <3>2, <3>3, <3>5 DEF TasksIn
  <2> HIDE DEF n
  <2>6. f # <<>> => Len(f2) = n - 1
    BY <2>1
  <2> QED BY <2>1, <2>3, <2>4, <2>5, <2>6 DEF n
<1>2. CASE f = <<>>
  <2>1. e \in Entry /\ h[e] > 0 /\ f2 = f /\ h2 = [h EXCEPT ![e] = @ - 1]
    BY <1>2 DEF Removes, HeapSet
  <2>2. /\ h2 \in [Entry -> Nat]
        /\ \A d \in Entry : h2[d] = IF d = e THEN h[e] - 1 ELSE h[d]
    BY <2>1
  <2>3. HeapSet(h) = HeapSet(h2) \cup {e}
    BY <2>1, <2>2 DEF HeapSet
  <2>4. Elements(f) = {}
    BY <1>2 DEF Elements
  <2>5. TasksIn(h, f) = TasksIn(h2, f2) \cup {e.task}
    BY <2>1, <2>3, <2>4 DEF TasksIn, TasksOf
  <2>6. ASSUME OnceIn(h, f) PROVE OnceIn(h2, f2) /\ e.task \notin TasksIn(h2, f2)
    <3>1. h[e] = 1 /\ \A d \in HeapSet(h) : d.task = e.task => d = e
      BY <2>1, <2>6 DEF OnceIn, HeapSet
    <3>2. HeapSet(h2) = HeapSet(h) \ {e}
      BY <2>1, <2>2, <3>1 DEF HeapSet
    <3>3. \A d \in HeapSet(h2) : d # e /\ h2[d] = h[d]
      BY <2>2, <3>2 DEF HeapSet
    <3>4. e.task \notin TasksIn(h2, f2)
      BY <2>1, <2>4, <3>1, <3>2 DEF TasksIn, TasksOf
    <3>5. TasksOf(Elements(f2)) = {}
      BY <2>1, <2>4 DEF TasksOf
    <3>6. \A d, c \in HeapSet(h2) : d.task = c.task => d = c /\ h2[d] = 1
      BY <2>6, <3>2, <3>3 DEF OnceIn
    <3>7. \A i, j \in 1..Len(f2) : f2[i].task = f2[j].task => i = j
      BY <2>1, <2>6 DEF OnceIn
    <3> QED BY <3>4, <3>5, <3>6, <3>7 DEF OnceIn
  <2> QED BY <1>2, <2>1, <2>2, <2>5, <2>6
<1> QED BY <1>1, <1>2

-----------------------------------------------------------------------------
(* What the parts of an action do. *)

\* A failed or stale entry is either retried or given up.
LEMMA RetriedFacts ==
    ASSUME NEW S \in SUBSET Entry
    PROVE  /\ Retried(S) \in SUBSET Entry
           /\ GivenUp(S) \in SUBSET Task
           /\ TasksOf(S) = TasksOf(Retried(S)) \cup GivenUp(S)
           /\ Distinct(S) => Distinct(Retried(S)) /\ TasksOf(Retried(S)) \cap GivenUp(S) = {}
<1> DEFINE R == {d \in S : d.retry < MaxRetries}
           up(d) == [d EXCEPT !.retry = @ + 1]
<1>1. MaxRetries \in Nat
  BY QueueAssumption DEF QueueAssumption
<1>2. \A d \in S : d.task \in Task /\ d.retry \in 0..MaxRetries
  BY DEF Entry
<1>3. \A d \in R : up(d) \in Entry /\ up(d).task = d.task
  <2>1. SUFFICES ASSUME NEW d \in R PROVE up(d) \in Entry /\ up(d).task = d.task
    OBVIOUS
  <2>2. up(d) = [task |-> d.task, retry |-> d.retry + 1]
    BY DEF Entry
  <2>3. d.retry + 1 \in 0..MaxRetries
    BY <1>1, <1>2
  <2> QED BY <1>2, <2>2, <2>3 DEF Entry
<1>4. Retried(S) = {up(d) : d \in R}
  BY DEF Retried
<1>5. GivenUp(S) = {d.task : d \in {c \in S : c.retry >= MaxRetries}}
  BY DEF GivenUp
<1>6. \A d \in S : d \in R <=> ~(d.retry >= MaxRetries)
  BY <1>1, <1>2
<1> HIDE DEF R, up
<1>7. TasksOf(Retried(S)) = {d.task : d \in R}
  BY <1>3, <1>4 DEF TasksOf
<1>8. R \subseteq S
  BY DEF R
<1>9. TasksOf(S) = TasksOf(Retried(S)) \cup GivenUp(S)
  BY <1>5, <1>6, <1>7, <1>8 DEF TasksOf
<1>10. Distinct(S) => Distinct(Retried(S))
  BY <1>3, <1>4, <1>8 DEF Distinct
<1>11. Distinct(S) => TasksOf(Retried(S)) \cap GivenUp(S) = {}
  BY <1>5, <1>6, <1>7, <1>8 DEF Distinct
<1> QED BY <1>2, <1>3, <1>4, <1>5, <1>9, <1>10, <1>11

\* Redis commands take effect in part, or wholly when Redis works.
LEMMA AppliedFacts ==
    \A S : \A T \in Applied(S) : T \subseteq S /\ (~RedisMayFail => T = S)
BY QueueAssumption DEF Applied, QueueAssumption

States == {"idle", "sleeping", "notified", "holding", "running"}

\* Nothing but threads of p waking up.
OnlyWakes(pc) ==
    /\ pc \in [Worker -> States]
    /\ \A w \in Worker : pc[w] = wpc[w] \/ (wpc[w] = "sleeping" /\ pc[w] = "notified")

\* notify(), notify_all() and no notification at all only wake sleepers.
LEMMA NotifyFacts ==
    ASSUME TypeOK, NEW p, NEW pc, pc \in NotifyOne(p) \/ pc = NotifyAll(p) \/ pc = wpc
    PROVE  OnlyWakes(pc)
<1>1. wpc \in [Worker -> States]
  BY DEF TypeOK, States
<1>2. ASSUME NEW S \in SUBSET Sleepers(p) PROVE OnlyWakes(Notified(S))
  BY <1>1, <1>2 DEF OnlyWakes, Notified, Sleepers, States
<1>3. OnlyWakes(wpc)
  BY <1>1 DEF OnlyWakes
<1>4. pc \in NotifyOne(p) => pc = wpc \/ \E w \in Sleepers(p) : pc = Notified({w})
  BY DEF NotifyOne
<1>5. \A w \in Sleepers(p) : {w} \in SUBSET Sleepers(p)
  OBVIOUS
<1> QED BY <1>2, <1>3, <1>4, <1>5 DEF NotifyAll

\* The queue of p as a value, and no task twice in it.
OnceQueued(p) == OnceIn(heap[p], forefront[p])

\* A step that changes the queue of p alone.
OthersKeep(p) ==
    \A q \in Proc : q # p => /\ heap'[q] = heap[q]
                             /\ forefront'[q] = forefront[q]

\* A queue that is left alone has the same tasks, once each if that was so.
LEMMA QueuesKept ==
    ASSUME NEW q, heap'[q] = heap[q], forefront'[q] = forefront[q]
    PROVE  QueuedTasks(q)' = QueuedTasks(q) /\ OnceQueued(q)' = OnceQueued(q)
BY QueuedTasksAre DEF OnceQueued

\* Entries S go into the queue of p, and then the entries T.
Added(p, S) ==
    /\ heap' = [heap EXCEPT ![p] = Pushed(@, ForHeap(S))]
    /\ \E s \in SetToSeqs(ForFront(S)) : forefront' = [forefront EXCEPT ![p] = @ \o s]

AddedBoth(p, S, T) ==
    /\ heap' = [heap EXCEPT ![p] = Pushed(Pushed(@, ForHeap(S)), ForHeap(T))]
    /\ \E s \in SetToSeqs(ForFront(S)), t \in SetToSeqs(ForFront(T)) :
         forefront' = [forefront EXCEPT ![p] = @ \o s \o t]

\* The tasks of a queue after some entries went in.
LEMMA AddedFacts ==
    ASSUME TypeOK, NEW p \in Proc, NEW S \in SUBSET Entry, Added(p, S)
    PROVE  /\ heap' \in [Proc -> [Entry -> Nat]]
           /\ forefront' \in [Proc -> Seq(Entry)]
           /\ OthersKeep(p)
           /\ QueuedTasks(p)' = QueuedTasks(p) \cup TasksOf(S)
           /\ OnceQueued(p) /\ Distinct(S) /\ QueuedTasks(p) \cap TasksOf(S) = {} => OnceQueued(p)'
<1>1. heap \in [Proc -> [Entry -> Nat]] /\ forefront \in [Proc -> Seq(Entry)]
  BY DEF TypeOK
<1>2. Adds(heap[p], forefront[p], S, heap'[p], forefront'[p])
  BY <1>1 DEF Added, Adds
<1>3. heap[p] \in [Entry -> Nat] /\ forefront[p] \in Seq(Entry)
  BY <1>1
<1>4. /\ heap'[p] \in [Entry -> Nat] /\ forefront'[p] \in Seq(Entry)
      /\ TasksIn(heap'[p], forefront'[p]) = TasksIn(heap[p], forefront[p]) \cup TasksOf(S)
      /\ OnceIn(heap[p], forefront[p]) /\ Distinct(S) /\ TasksIn(heap[p], forefront[p]) \cap TasksOf(S) = {}
           => OnceIn(heap'[p], forefront'[p])
  BY <1>2, <1>3, AddsFacts
<1>5. OthersKeep(p)
  BY <1>1 DEF Added, OthersKeep
<1>6. heap' \in [Proc -> [Entry -> Nat]] /\ forefront' \in [Proc -> Seq(Entry)]
  BY <1>1, <1>4 DEF Added
<1>7. QueuedTasks(p)' = TasksIn(heap'[p], forefront'[p])
  BY QueuedTasksAre
<1> QED BY <1>4, <1>5, <1>6, <1>7, QueuedTasksAre DEF OnceQueued

\* The same after two sets of entries, as reclaim_stale adds them.
LEMMA AddedBothFacts ==
    ASSUME TypeOK, NEW p \in Proc, NEW S \in SUBSET Entry, NEW T \in SUBSET Entry, AddedBoth(p, S, T)
    PROVE  /\ heap' \in [Proc -> [Entry -> Nat]]
           /\ forefront' \in [Proc -> Seq(Entry)]
           /\ OthersKeep(p)
           /\ QueuedTasks(p)' = QueuedTasks(p) \cup TasksOf(S) \cup TasksOf(T)
           /\ /\ OnceQueued(p) /\ Distinct(S) /\ Distinct(T)
              /\ QueuedTasks(p) \cap TasksOf(S) = {}
              /\ (QueuedTasks(p) \cup TasksOf(S)) \cap TasksOf(T) = {}
              => OnceQueued(p)'
<1> DEFINE h1 == Pushed(heap[p], ForHeap(S))
<1>1. heap \in [Proc -> [Entry -> Nat]] /\ forefront \in [Proc -> Seq(Entry)]
  BY DEF TypeOK
<1>2. PICK s \in SetToSeqs(ForFront(S)), t \in SetToSeqs(ForFront(T)) :
           forefront' = [forefront EXCEPT ![p] = @ \o s \o t]
  BY DEF AddedBoth
<1> DEFINE f1 == forefront[p] \o s
<1>3. Adds(heap[p], forefront[p], S, h1, f1)
  BY DEF Adds
<1>4. Adds(h1, f1, T, heap'[p], forefront'[p])
  BY <1>1, <1>2 DEF AddedBoth, Adds
<1>5. heap[p] \in [Entry -> Nat] /\ forefront[p] \in Seq(Entry)
  BY <1>1
<1> HIDE DEF h1, f1
<1>6. /\ h1 \in [Entry -> Nat] /\ f1 \in Seq(Entry)
      /\ TasksIn(h1, f1) = TasksIn(heap[p], forefront[p]) \cup TasksOf(S)
      /\ OnceIn(heap[p], forefront[p]) /\ Distinct(S) /\ TasksIn(heap[p], forefront[p]) \cap TasksOf(S) = {}
           => OnceIn(h1, f1)
  BY <1>3, <1>5, AddsFacts
<1>7. /\ heap'[p] \in [Entry -> Nat] /\ forefront'[p] \in Seq(Entry)
      /\ TasksIn(heap'[p], forefront'[p]) = TasksIn(h1, f1) \cup TasksOf(T)
      /\ OnceIn(h1, f1) /\ Distinct(T) /\ TasksIn(h1, f1) \cap TasksOf(T) = {}
           => OnceIn(heap'[p], forefront'[p])
  BY <1>4, <1>6, AddsFacts
<1>8. OthersKeep(p)
  BY <1>1, <1>2 DEF AddedBoth, OthersKeep
<1>9. heap' \in [Proc -> [Entry -> Nat]] /\ forefront' \in [Proc -> Seq(Entry)]
  BY <1>1, <1>2, <1>7 DEF AddedBoth
<1> QED BY <1>6, <1>7, <1>8, <1>9, QueuedTasksAre DEF OnceQueued

\* The queue of p is emptied.
Emptied(p) ==
    /\ heap' = [heap EXCEPT ![p] = EmptyHeap]
    /\ forefront' = [forefront EXCEPT ![p] = <<>>]

\* A queue that clear(), reset() or a crash has emptied.
LEMMA EmptiedFacts ==
    ASSUME TypeOK, NEW p \in Proc, Emptied(p)
    PROVE  /\ heap' \in [Proc -> [Entry -> Nat]]
           /\ forefront' \in [Proc -> Seq(Entry)]
           /\ OthersKeep(p)
           /\ QueuedTasks(p)' = {}
           /\ OnceQueued(p)'
<1>1. heap \in [Proc -> [Entry -> Nat]] /\ forefront \in [Proc -> Seq(Entry)]
  BY DEF TypeOK
<1>2. EmptyHeap \in [Entry -> Nat] /\ <<>> \in Seq(Entry)
  BY EmptySeq DEF EmptyHeap
<1>3. heap'[p] = EmptyHeap /\ forefront'[p] = <<>>
  BY <1>1 DEF Emptied
<1>4. HeapSet(EmptyHeap) = {} /\ Elements(<<>>) = {} /\ Len(<<>>) = 0
  BY EmptySeq DEF HeapSet, Elements, EmptyHeap
<1>5. TasksIn(EmptyHeap, <<>>) = {} /\ OnceIn(EmptyHeap, <<>>)
  BY <1>4 DEF TasksIn, TasksOf, OnceIn
<1>6. OthersKeep(p)
  BY <1>1 DEF Emptied, OthersKeep
<1>7. heap' \in [Proc -> [Entry -> Nat]] /\ forefront' \in [Proc -> Seq(Entry)]
  BY <1>1, <1>2 DEF Emptied
<1> QED BY <1>3, <1>5, <1>6, <1>7, QueuedTasksAre DEF OnceQueued

-----------------------------------------------------------------------------
(* Types.  A worker that holds or runs a task has its entry in hand. *)

HandsFull == \A w \in Worker : wpc[w] \in {"holding", "running"} => hand[w] \in Entry

TypeInv == TypeOK /\ HandsFull

\* Nobody gets or hands over anything; a worker may come to the end of a task.
SameHands ==
    \A w \in Worker :
        /\ wpc'[w] = "holding" <=> wpc[w] = "holding"
        /\ wpc'[w] = "running" => wpc[w] = "running"
        /\ wpc'[w] \in {"holding", "running"} => hand'[w] = hand[w]

\* Where no worker gets or hands over a task, the tasks in hand stay the same.
LEMMA HeldKept ==
    ASSUME SameHands
    PROVE  \A q : Holders(q)' = Holders(q) /\ HeldTasks(q)' = HeldTasks(q)
<1>1. \A q : Holders(q)' = Holders(q)
  BY DEF SameHands, Holders
<1>2. ASSUME NEW q PROVE HeldTasks(q)' = HeldTasks(q)
  <2>1. \A w \in Holders(q) : hand'[w] = hand[w]
    BY DEF SameHands, Holders
  <2> QED BY <1>1, <2>1 DEF HeldTasks
<1> QED BY <1>1, <1>2

\* Waking a thread changes nothing for those that have a task.
LEMMA HandsKept ==
    ASSUME TypeInv, OnlyWakes(wpc'), hand' = hand
    PROVE  SameHands /\ HandsFull' /\ wpc' \in [Worker -> States]
BY DEF TypeInv, HandsFull, OnlyWakes, SameHands

\* A worker that reports has nothing in hand any more.
LEMMA HandsEmptied ==
    ASSUME TypeInv, NEW w \in Worker, wpc[w] = "running", NEW pc, OnlyWakes(pc),
           wpc' = [pc EXCEPT ![w] = "idle"], hand' = [hand EXCEPT ![w] = None]
    PROVE  /\ SameHands /\ HandsFull' /\ wpc' \in [Worker -> States]
           /\ hand' \in [Worker -> Entry \cup {None}]
<1>1. hand \in [Worker -> Entry \cup {None}] /\ wpc \in [Worker -> States]
  BY DEF TypeInv, TypeOK, States
<1>2. /\ wpc' \in [Worker -> States] /\ wpc'[w] = "idle"
      /\ \A v \in Worker : v # w => wpc'[v] = wpc[v] \/ (wpc[v] = "sleeping" /\ wpc'[v] = "notified")
  BY DEF OnlyWakes, States
<1>3. /\ hand' \in [Worker -> Entry \cup {None}]
      /\ \A v \in Worker : v # w => hand'[v] = hand[v]
  BY <1>1
<1>4. SameHands
  BY <1>2, <1>3 DEF SameHands
<1>5. HandsFull'
  BY <1>2, <1>3, <1>4 DEF HandsFull, TypeInv, SameHands
<1> QED BY <1>2, <1>3, <1>4, <1>5

-----------------------------------------------------------------------------
(* What each method does, in terms of the tasks. *)

\* put and put_batch: what is accepted was new, and is queued now.
LEMMA PutFacts ==
    ASSUME TypeInv, NEW p \in Proc, NEW B \in SUBSET Task, Put(p, B), OnlyWakes(wpc')
    PROVE  /\ TypeInv' /\ SameHands /\ OthersKeep(p)
           /\ \E acc \in SUBSET B :
                /\ Accepts(p, B, acc)
                /\ \A t \in acc : fate[t] = "new"
                /\ QueuedTasks(p)' = QueuedTasks(p) \cup acc
                /\ OnceQueued(p) /\ QueuedTasks(p) \cap acc = {} => OnceQueued(p)'
                /\ fingerprints' = [fingerprints EXCEPT ![p] =
                                      @ \cup {Fingerprint[t] : t \in {u \in acc : Filtered(u)}}]
                /\ ~RedisMayFail => redisQueue' = redisQueue \cup acc
                /\ fate' = [t \in Task |-> IF t \in acc THEN "accepted" ELSE fate[t]]
<1>1. PICK acc \in SUBSET B :
        LET fresh == {[task |-> t, retry |-> 0] : t \in acc} IN
        /\ Accepts(p, B, acc)
        /\ heap' = [heap EXCEPT ![p] = Pushed(@, ForHeap(fresh))]
        /\ \E s \in SetToSeqs(ForFront(fresh)) : forefront' = [forefront EXCEPT ![p] = @ \o s]
        /\ fingerprints' = [fingerprints EXCEPT ![p] =
                              @ \cup {Fingerprint[t] : t \in {u \in acc : Filtered(u)}}]
        /\ \E ok \in Applied(acc) : redisQueue' = redisQueue \cup ok
        /\ fate' = [t \in Task |-> IF t \in acc THEN "accepted" ELSE fate[t]]
  BY DEF Put
<1>2. /\ \A t \in B : fate[t] = "new"
      /\ UNCHANGED <<active, shutdown, redisActive, hand, now, crashes, admin>>
  BY DEF Put
<1> DEFINE fresh == {[task |-> t, retry |-> 0] : t \in acc}
<1>3. MaxRetries \in Nat
  BY QueueAssumption DEF QueueAssumption
<1>4. /\ fresh \in SUBSET Entry /\ TasksOf(fresh) = acc /\ Distinct(fresh)
  <2>1. 0 \in 0..MaxRetries
    BY <1>3
  <2>2. \A t \in acc : [task |-> t, retry |-> 0] \in fresh /\ [task |-> t, retry |-> 0].task = t
    OBVIOUS
  <2>3. \A e \in fresh : e.task \in acc /\ e = [task |-> e.task, retry |-> 0]
    OBVIOUS
  <2>4. fresh \in SUBSET Entry
    BY <2>1 DEF Entry
  <2> HIDE DEF fresh
  <2>5. TasksOf(fresh) = acc
    BY <2>2, <2>3 DEF TasksOf
  <2>6. Distinct(fresh)
    BY <2>3 DEF Distinct
  <2> QED BY <2>4, <2>5, <2>6
<1>5. Added(p, fresh)
  BY <1>1 DEF Added
<1> HIDE DEF fresh
<1>6. /\ heap' \in [Proc -> [Entry -> Nat]]
      /\ forefront' \in [Proc -> Seq(Entry)]
      /\ OthersKeep(p)
      /\ QueuedTasks(p)' = QueuedTasks(p) \cup acc
      /\ OnceQueued(p) /\ QueuedTasks(p) \cap acc = {} => OnceQueued(p)'
  BY <1>4, <1>5, AddedFacts DEF TypeInv
<1>7. SameHands /\ HandsFull' /\ wpc' \in [Worker -> States]
  BY <1>2, HandsKept
<1>8. redisQueue' \subseteq Task /\ (~RedisMayFail => redisQueue' = redisQueue \cup acc)
  BY <1>1, AppliedFacts DEF TypeInv, TypeOK
<1>9. fate' \in [Task -> Fates]
  BY <1>1 DEF TypeInv, TypeOK, Fates
<1>10. fingerprints' \in [Proc -> SUBSET {Fingerprint[t] : t \in Task}]
  <2> DEFINE F == {Fingerprint[t] : t \in Task}
             N == {Fingerprint[t] : t \in {u \in acc : Filtered(u)}}
  <2>1. N \in SUBSET F
    OBVIOUS
  <2>2. fingerprints \in [Proc -> SUBSET F] /\ fingerprints' = [fingerprints EXCEPT ![p] = @ \cup N]
    BY <1>1 DEF TypeInv, TypeOK
  <2> HIDE DEF F, N
  <2>3. fingerprints' \in [Proc -> SUBSET F]
    BY <2>1, <2>2
  <2> QED BY <2>3 DEF F
<1>11. TypeOK'
  BY <1>2, <1>6, <1>7, <1>8, <1>9, <1>10 DEF TypeInv, TypeOK, States
<1>12. TypeInv'
  BY <1>7, <1>11 DEF TypeInv
<1> QED BY <1>1, <1>2, <1>6, <1>7, <1>8, <1>12

\* get takes one entry off the queue of its process.
LEMMA TakeRemoves ==
    ASSUME TypeOK, NEW w \in Worker, Home[w] \in Proc, NEW e, Take(w, e)
    PROVE  /\ Removes(heap[Home[w]], forefront[Home[w]], e, heap'[Home[w]], forefront'[Home[w]])
           /\ OthersKeep(Home[w])
<1> DEFINE p == Home[w]
<1>1. heap \in [Proc -> [Entry -> Nat]] /\ forefront \in [Proc -> Seq(Entry)]
  BY DEF TypeOK
<1>2. CASE forefront[p] # <<>>
  BY <1>1, <1>2 DEF Take, Deliverable, Removes, OthersKeep
<1>3. CASE forefront[p] = <<>>
  <2>1. e \in HeapSet(heap[p])
    BY <1>3 DEF Take, Deliverable, InHeap, HeapSet
  <2> QED BY <1>1, <1>3, <2>1 DEF Take, Removes, OthersKeep
<1> QED BY <1>2, <1>3

\* It goes from the queue to the worker's hand.
LEMMA TakeFacts ==
    ASSUME TypeInv, NEW w \in Worker, wpc[w] \in {"idle", "sleeping", "notified"}, NEW e, Take(w, e)
    PROVE  /\ TypeInv' /\ OthersKeep(Home[w]) /\ e \in Entry
           /\ Home[w] \in Proc
           /\ QueuedTasks(Home[w]) = QueuedTasks(Home[w])' \cup {e.task}
           /\ OnceQueued(Home[w]) => OnceQueued(Home[w])' /\ e.task \notin QueuedTasks(Home[w])'
           /\ ~RedisMayFail => redisQueue' = redisQueue \ {e.task}
           /\ \A q : Holders(q)' = IF q = Home[w] THEN Holders(q) \cup {w} ELSE Holders(q)
           /\ hand'[w] = e /\ \A v \in Worker : v # w => hand'[v] = hand[v] /\ wpc'[v] = wpc[v]
           /\ \A q : HeldTasks(q)' = IF q = Home[w] THEN HeldTasks(q) \cup {e.task} ELSE HeldTasks(q)
<1> DEFINE p == Home[w]
<1>1. p \in Proc
  BY QueueAssumption DEF QueueAssumption
<1>2. /\ heap \in [Proc -> [Entry -> Nat]] /\ forefront \in [Proc -> Seq(Entry)]
      /\ hand \in [Worker -> Entry \cup {None}] /\ wpc \in [Worker -> States]
  BY DEF TypeInv, TypeOK, States
<1>3. heap[p] \in [Entry -> Nat] /\ forefront[p] \in Seq(Entry)
  BY <1>1, <1>2
<1>4. Removes(heap[p], forefront[p], e, heap'[p], forefront'[p]) /\ OthersKeep(p)
  BY <1>1, TakeRemoves DEF TypeInv
<1>5. /\ e \in Entry
      /\ heap'[p] \in [Entry -> Nat] /\ forefront'[p] \in Seq(Entry)
      /\ TasksIn(heap[p], forefront[p]) = TasksIn(heap'[p], forefront'[p]) \cup {e.task}
      /\ OnceIn(heap[p], forefront[p]) =>
           OnceIn(heap'[p], forefront'[p]) /\ e.task \notin TasksIn(heap'[p], forefront'[p])
  BY <1>3, <1>4, RemovesFacts
<1>6. heap' \in [Proc -> [Entry -> Nat]] /\ forefront' \in [Proc -> Seq(Entry)]
  <2>1. CASE forefront[p] # <<>>
    BY <1>1, <1>2, <1>5, <2>1 DEF Take
  <2>2. CASE forefront[p] = <<>>
    BY <1>1, <1>2, <1>5, <2>2 DEF Take
  <2> QED BY <2>1, <2>2
<1>7. /\ wpc' = [wpc EXCEPT ![w] = "holding"] /\ hand' = [hand EXCEPT ![w] = e]
      /\ UNCHANGED <<active, fingerprints, shutdown, redisActive, now, fate, crashes, admin>>
  BY DEF Take
<1>8. redisQueue' \subseteq redisQueue /\ (~RedisMayFail => redisQueue' = redisQueue \ {e.task})
  <2>1. PICK gone \in Applied({e.task}) : redisQueue' = redisQueue \ gone
    BY DEF Take
  <2> QED BY <2>1, AppliedFacts
<1>9. /\ wpc' \in [Worker -> States] /\ hand' \in [Worker -> Entry \cup {None}]
      /\ wpc'[w] = "holding" /\ hand'[w] = e
      /\ \A v \in Worker : v # w => hand'[v] = hand[v] /\ wpc'[v] = wpc[v]
  BY <1>2, <1>5, <1>7 DEF States
<1>10. HandsFull'
  BY <1>5, <1>9 DEF TypeInv, HandsFull
<1>11. TypeOK'
  BY <1>6, <1>7, <1>8, <1>9 DEF TypeInv, TypeOK, States
<1>12. \A q : Holders(q)' = IF q = p THEN Holders(q) \cup {w} ELSE Holders(q)
  BY <1>9 DEF Holders
<1>13. ASSUME NEW q PROVE HeldTasks(q)' = IF q = p THEN HeldTasks(q) \cup {e.task} ELSE HeldTasks(q)
  <2>1. w \notin Holders(q)
    BY DEF Holders
  <2>2. \A v \in Holders(q) : hand'[v] = hand[v]
    BY <1>9, <2>1 DEF Holders
  <2>3. CASE q = p
    BY <1>9, <1>12, <2>2, <2>3 DEF HeldTasks
  <2>4. CASE q # p
    BY <1>12, <2>2, <2>4 DEF HeldTasks
  <2> QED BY <2>3, <2>4
<1> QED BY <1>1, <1>4, <1>5, <1>8, <1>9, <1>10, <1>11, <1>12, <1>13, QueuedTasksAre DEF TypeInv, OnceQueued

\* A worker goes to sleep, or gives up: no item and no key moves.
Waits(w) == GetBlocks(w) \/ GetSleepsAgain(w) \/ GetTimesOut(w)

\* A thread that goes to sleep, or gives up waiting, has found no entry.
LEMMA WaitsFacts ==
    ASSUME TypeInv, NEW w \in Worker, Waits(w)
    PROVE  /\ TypeInv' /\ SameHands
           /\ UNCHANGED <<memory, redis, hand, now, fate, crashes, admin>>
           /\ Deliverable(Home[w]) = {}
<1>1. \E pc \in {"sleeping", "idle"} : wpc' = [wpc EXCEPT ![w] = pc]
  BY DEF Waits, GetBlocks, GetSleepsAgain, GetTimesOut
<1>2. /\ UNCHANGED <<memory, redis, hand, now, fate, crashes, admin>>
      /\ Deliverable(Home[w]) = {}
      /\ wpc[w] \in {"idle", "notified", "sleeping"}
  BY DEF Waits, GetBlocks, GetSleepsAgain, GetTimesOut
<1>3. wpc \in [Worker -> States]
  BY DEF TypeInv, TypeOK, States
<1>4. wpc' \in [Worker -> States]
  BY <1>1, <1>3 DEF States
<1>5. SameHands /\ HandsFull'
  BY <1>1, <1>2, <1>3 DEF SameHands, HandsFull, TypeInv
<1>6. TypeOK'
  BY <1>2, <1>4 DEF TypeInv, TypeOK, States, memory, redis
<1> QED BY <1>2, <1>5, <1>6 DEF TypeInv

\* mark_active: from the worker's hand to _active, and to Redis.
LEMMA MarkActiveFacts ==
    ASSUME TypeInv, NEW w \in Worker, MarkActive(w)
    PROVE  /\ TypeInv'
           /\ hand[w] \in Entry /\ Home[w] \in Proc /\ w \in Holders(Home[w])
           /\ active'[Home[w]][hand[w].task] = [retry |-> hand[w].retry, started |-> now]
           /\ \A q \in Proc, t \in Task : q # Home[w] \/ t # hand[w].task => active'[q][t] = active[q][t]
           /\ ~RedisMayFail => redisActive' = [redisActive EXCEPT ![hand[w].task] =
                                                 [retry |-> hand[w].retry, started |-> now]]
           /\ [retry |-> hand[w].retry, started |-> now] \in Running
           /\ \A q : Holders(q)' = Holders(q) \ {w}
           /\ wpc'[w] = "running" /\ hand' = hand
           /\ \A v \in Worker : v # w => wpc'[v] = wpc[v]
           /\ \A q : q # Home[w] => HeldTasks(q)' = HeldTasks(q)
           /\ HeldTasks(Home[w]) = HeldTasks(Home[w])' \cup {hand[w].task}
           /\ UNCHANGED <<heap, forefront, fingerprints, shutdown, redisQueue, now, fate, crashes, admin>>
<1> DEFINE p == Home[w]
           t == hand[w].task
           item == [retry |-> hand[w].retry, started |-> now]
<1>1. p \in Proc
  BY QueueAssumption DEF QueueAssumption
<1>2. /\ wpc[w] = "holding" /\ wpc' = [wpc EXCEPT ![w] = "running"]
      /\ active' = [active EXCEPT ![p][t] = item]
      /\ \E ok \in Applied({t}) :
           redisActive' = IF t \in ok THEN [redisActive EXCEPT ![t] = item] ELSE redisActive
      /\ UNCHANGED <<heap, forefront, fingerprints, shutdown, redisQueue, hand, now, fate, crashes, admin>>
  BY DEF MarkActive
<1>3. hand[w] \in Entry
  BY <1>2 DEF TypeInv, HandsFull
<1>4. t \in Task /\ item \in Running
  BY <1>3 DEF Entry, Running, TypeInv, TypeOK
<1>5. /\ active \in [Proc -> [Task -> Running \cup {None}]] /\ wpc \in [Worker -> States]
      /\ redisActive \in [Task -> Running \cup {None}]
  BY DEF TypeInv, TypeOK, States
<1> HIDE DEF p, t, item
<1>6. /\ active' \in [Proc -> [Task -> Running \cup {None}]]
      /\ active'[p][t] = item
      /\ \A q \in Proc, u \in Task : q # p \/ u # t => active'[q][u] = active[q][u]
  BY <1>1, <1>2, <1>4, <1>5
<1>7. /\ redisActive' \in [Task -> Running \cup {None}]
      /\ ~RedisMayFail => redisActive' = [redisActive EXCEPT ![t] = item]
  BY <1>2, <1>4, <1>5, AppliedFacts
<1>8. /\ wpc' \in [Worker -> States] /\ wpc'[w] = "running"
      /\ \A v \in Worker : v # w => wpc'[v] = wpc[v]
  BY <1>2, <1>5 DEF States
<1>9. HandsFull'
  BY <1>2, <1>3, <1>8 DEF TypeInv, HandsFull
<1>10. TypeOK'
  BY <1>2, <1>6, <1>7, <1>8 DEF TypeInv, TypeOK, States
<1>11. /\ \A q : Holders(q)' = Holders(q) \ {w}
       /\ \A q : q # p => w \notin Holders(q)
       /\ w \in Holders(p)
  BY <1>2, <1>8 DEF Holders, p
<1>12. /\ \A q : q # p => HeldTasks(q)' = HeldTasks(q)
       /\ HeldTasks(p) = HeldTasks(p)' \cup {t}
  BY <1>2, <1>11 DEF HeldTasks, t
<1> QED BY <1>1, <1>2, <1>3, <1>4, <1>6, <1>7, <1>8, <1>9, <1>10, <1>11, <1>12 DEF TypeInv, p, t, item

\* _redis_remove_from_active: the task's entry goes, if the command works.
LEMMA RemoveFacts ==
    ASSUME TypeOK, NEW t \in Task, RemoveFromRedisActive(t)
    PROVE  /\ redisActive' \in [Task -> Running \cup {None}]
           /\ ~RedisMayFail => redisActive' = [redisActive EXCEPT ![t] = None]
BY AppliedFacts DEF TypeOK, RemoveFromRedisActive

\* mark_done of a task that is not in _active.
LEMMA MarkDoneUnknownFacts ==
    ASSUME TypeInv, NEW w \in Worker, NEW success \in BOOLEAN, MarkDoneUnknown(w, success)
    PROVE  /\ TypeInv' /\ SameHands
           /\ hand[w] \in Entry /\ Home[w] \in Proc
           /\ active[Home[w]][hand[w].task] = None
           /\ ~RedisMayFail => redisActive' = [redisActive EXCEPT ![hand[w].task] = None]
           /\ fate' = IF success THEN [fate EXCEPT ![hand[w].task] = "done"] ELSE fate
           /\ UNCHANGED <<memory, redisQueue, now, crashes, admin>>
<1>1. /\ wpc[w] = "running" /\ active[Home[w]][hand[w].task] = None
      /\ RemoveFromRedisActive(hand[w].task)
      /\ fate' = IF success THEN [fate EXCEPT ![hand[w].task] = "done"] ELSE fate
      /\ wpc' = [wpc EXCEPT ![w] = "idle"] /\ hand' = [hand EXCEPT ![w] = None]
      /\ UNCHANGED <<memory, redisQueue, now, crashes, admin>>
  BY DEF MarkDoneUnknown
<1>2. hand[w] \in Entry /\ hand[w].task \in Task /\ Home[w] \in Proc
  BY <1>1, QueueAssumption DEF TypeInv, HandsFull, Entry, QueueAssumption
<1>3. /\ SameHands /\ HandsFull' /\ wpc' \in [Worker -> States]
      /\ hand' \in [Worker -> Entry \cup {None}]
  BY <1>1, NotifyFacts, HandsEmptied DEF TypeInv
<1>4. /\ redisActive' \in [Task -> Running \cup {None}]
      /\ ~RedisMayFail => redisActive' = [redisActive EXCEPT ![hand[w].task] = None]
  BY <1>1, <1>2, RemoveFacts DEF TypeInv
<1>5. fate' \in [Task -> Fates]
  BY <1>1 DEF TypeInv, TypeOK, Fates
<1>6. TypeOK'
  BY <1>1, <1>3, <1>4, <1>5 DEF TypeInv, TypeOK, States, memory
<1> QED BY <1>1, <1>2, <1>3, <1>4, <1>6 DEF TypeInv

\* mark_done with success: the task leaves _active, Redis and _fingerprints.
LEMMA MarkDoneSuccessFacts ==
    ASSUME TypeInv, NEW w \in Worker, MarkDoneSuccess(w)
    PROVE  /\ TypeInv' /\ SameHands
           /\ hand[w] \in Entry /\ Home[w] \in Proc
           /\ active[Home[w]][hand[w].task] # None
           /\ active' = [active EXCEPT ![Home[w]][hand[w].task] = None]
           /\ ~RedisMayFail => redisActive' = [redisActive EXCEPT ![hand[w].task] = None]
           /\ fingerprints' = [fingerprints EXCEPT ![Home[w]] = Forgotten(@, {hand[w].task})]
           /\ fate' = [fate EXCEPT ![hand[w].task] = "done"]
           /\ UNCHANGED <<heap, forefront, shutdown, redisQueue, now, crashes, admin>>
<1> DEFINE t == hand[w].task
<1>1. /\ wpc[w] = "running" /\ active[Home[w]][t] # None
      /\ active' = [active EXCEPT ![Home[w]][t] = None]
      /\ RemoveFromRedisActive(t)
      /\ fingerprints' = [fingerprints EXCEPT ![Home[w]] = Forgotten(@, {t})]
      /\ fate' = [fate EXCEPT ![t] = "done"]
      /\ wpc' = [wpc EXCEPT ![w] = "idle"] /\ hand' = [hand EXCEPT ![w] = None]
      /\ UNCHANGED <<heap, forefront, shutdown, redisQueue, now, crashes, admin>>
  BY DEF MarkDoneSuccess
<1>2. hand[w] \in Entry /\ t \in Task /\ Home[w] \in Proc
  BY <1>1, QueueAssumption DEF TypeInv, HandsFull, Entry, QueueAssumption
<1>3. /\ SameHands /\ HandsFull' /\ wpc' \in [Worker -> States]
      /\ hand' \in [Worker -> Entry \cup {None}]
  BY <1>1, NotifyFacts, HandsEmptied DEF TypeInv
<1>4. /\ redisActive' \in [Task -> Running \cup {None}]
      /\ ~RedisMayFail => redisActive' = [redisActive EXCEPT ![t] = None]
  BY <1>1, <1>2, RemoveFacts DEF TypeInv
<1>5. fate' \in [Task -> Fates] /\ active' \in [Proc -> [Task -> Running \cup {None}]]
  BY <1>1, <1>2 DEF TypeInv, TypeOK, Fates
<1>6. fingerprints' \in [Proc -> SUBSET {Fingerprint[u] : u \in Task}]
  BY <1>1, <1>2 DEF TypeInv, TypeOK, Forgotten
<1>7. TypeOK'
  BY <1>1, <1>3, <1>4, <1>5, <1>6 DEF TypeInv, TypeOK, States
<1> QED BY <1>1, <1>2, <1>3, <1>4, <1>7 DEF TypeInv

\* mark_done without success: the task is queued again (R) or given up (G).
LEMMA MarkDoneFailureFacts ==
    ASSUME TypeInv, NEW w \in Worker, MarkDoneFailure(w)
    PROVE  /\ TypeInv' /\ SameHands /\ OthersKeep(Home[w])
           /\ hand[w] \in Entry /\ Home[w] \in Proc
           /\ active[Home[w]][hand[w].task] # None
           /\ active' = [active EXCEPT ![Home[w]][hand[w].task] = None]
           /\ ~RedisMayFail => redisActive' = [redisActive EXCEPT ![hand[w].task] = None]
           /\ \E R, G \in SUBSET {hand[w].task} :
                /\ R \cup G = {hand[w].task} /\ R \cap G = {}
                /\ QueuedTasks(Home[w])' = QueuedTasks(Home[w]) \cup R
                /\ OnceQueued(Home[w]) /\ hand[w].task \notin QueuedTasks(Home[w]) => OnceQueued(Home[w])'
                /\ ~RedisMayFail => redisQueue' = redisQueue \cup R
                /\ fingerprints' = [fingerprints EXCEPT ![Home[w]] = Forgotten(@, G)]
                /\ fate' = Dropped(G)
           /\ UNCHANGED <<shutdown, now, crashes, admin>>
<1> DEFINE t == hand[w].task
           p == Home[w]
           S == {[task |-> t, retry |-> active[p][t].retry]}
<1>1. /\ wpc[w] = "running" /\ active[p][t] # None
      /\ active' = [active EXCEPT ![p][t] = None]
      /\ RemoveFromRedisActive(t)
      /\ Added(p, Retried(S))
      /\ \E ok \in Applied({e.task : e \in Retried(S)}) : redisQueue' = redisQueue \cup ok
      /\ fingerprints' = [fingerprints EXCEPT ![p] = Forgotten(@, GivenUp(S))]
      /\ fate' = Dropped(GivenUp(S))
      /\ \E pc \in IF Retried(S) = {} THEN {wpc} ELSE NotifyOne(p) : wpc' = [pc EXCEPT ![w] = "idle"]
      /\ hand' = [hand EXCEPT ![w] = None]
      /\ UNCHANGED <<shutdown, now, crashes, admin>>
  BY DEF MarkDoneFailure, Added
<1>2. hand[w] \in Entry /\ t \in Task /\ p \in Proc
  BY <1>1, QueueAssumption DEF TypeInv, HandsFull, Entry, QueueAssumption
<1>3. S \in SUBSET Entry /\ TasksOf(S) = {t} /\ Distinct(S)
  <2>1. active[p][t] \in Running
    BY <1>1, <1>2 DEF TypeInv, TypeOK
  <2> QED BY <1>2, <2>1 DEF Entry, Running, TasksOf, Distinct
<1> HIDE DEF S, t, p
<1>4. /\ Retried(S) \in SUBSET Entry /\ GivenUp(S) \in SUBSET Task
      /\ {t} = TasksOf(Retried(S)) \cup GivenUp(S)
      /\ Distinct(Retried(S)) /\ TasksOf(Retried(S)) \cap GivenUp(S) = {}
  BY <1>3, RetriedFacts
<1>5. /\ heap' \in [Proc -> [Entry -> Nat]]
      /\ forefront' \in [Proc -> Seq(Entry)]
      /\ OthersKeep(p)
      /\ QueuedTasks(p)' = QueuedTasks(p) \cup TasksOf(Retried(S))
      /\ OnceQueued(p) /\ t \notin QueuedTasks(p) => OnceQueued(p)'
  BY <1>1, <1>2, <1>4, AddedFacts DEF TypeInv
<1>6. /\ SameHands /\ HandsFull' /\ wpc' \in [Worker -> States]
      /\ hand' \in [Worker -> Entry \cup {None}]
  <2>1. PICK pc \in IF Retried(S) = {} THEN {wpc} ELSE NotifyOne(p) : wpc' = [pc EXCEPT ![w] = "idle"]
    BY <1>1
  <2>2. OnlyWakes(pc)
    BY NotifyFacts DEF TypeInv
  <2> QED BY <1>1, <2>1, <2>2, HandsEmptied
<1>7. /\ redisActive' \in [Task -> Running \cup {None}]
      /\ ~RedisMayFail => redisActive' = [redisActive EXCEPT ![t] = None]
  BY <1>1, <1>2, RemoveFacts DEF TypeInv
<1>8. /\ redisQueue' \subseteq Task
      /\ ~RedisMayFail => redisQueue' = redisQueue \cup TasksOf(Retried(S))
  <2>1. PICK ok \in Applied(TasksOf(Retried(S))) : redisQueue' = redisQueue \cup ok
    BY <1>1 DEF TasksOf
  <2>2. TasksOf(Retried(S)) \subseteq Task
    BY <1>2, <1>4
  <2> QED BY <2>1, <2>2, AppliedFacts DEF TypeInv, TypeOK
<1>9. fate' \in [Task -> Fates]
  BY <1>1 DEF Dropped, TypeInv, TypeOK, Fates
<1>10. active' \in [Proc -> [Task -> Running \cup {None}]]
  BY <1>1, <1>2 DEF TypeInv, TypeOK
<1>11. fingerprints' \in [Proc -> SUBSET {Fingerprint[u] : u \in Task}]
  BY <1>1, <1>2 DEF TypeInv, TypeOK, Forgotten
<1>12. TypeOK'
  BY <1>1, <1>5, <1>6, <1>7, <1>8, <1>9, <1>10, <1>11 DEF TypeInv, TypeOK, States
<1>13. \E R, G \in SUBSET {t} :
         /\ R \cup G = {t} /\ R \cap G = {}
         /\ QueuedTasks(p)' = QueuedTasks(p) \cup R
         /\ OnceQueued(p) /\ t \notin QueuedTasks(p) => OnceQueued(p)'
         /\ ~RedisMayFail => redisQueue' = redisQueue \cup R
         /\ fingerprints' = [fingerprints EXCEPT ![p] = Forgotten(@, G)]
         /\ fate' = Dropped(G)
  <2>1. TasksOf(Retried(S)) \in SUBSET {t} /\ GivenUp(S) \in SUBSET {t}
    BY <1>4
  <2> QED BY <1>1, <1>4, <1>5, <1>8, <2>1
<1>14. TypeInv' /\ SameHands /\ OthersKeep(p)
  BY <1>5, <1>6, <1>12 DEF TypeInv
<1> QED BY <1>1, <1>2, <1>7, <1>13, <1>14 DEF t, p

\* Entries made of some running tasks, with the retries of their items.
LEMMA EntriesOfTasks ==
    ASSUME NEW S \in SUBSET Task, NEW items, \A t \in S : items[t].retry \in 0..MaxRetries
    PROVE  LET M == {[task |-> t, retry |-> items[t].retry] : t \in S}
           IN  M \in SUBSET Entry /\ TasksOf(M) = S /\ Distinct(M)
<1> DEFINE M == {[task |-> t, retry |-> items[t].retry] : t \in S}
           entry(t) == [task |-> t, retry |-> items[t].retry]
<1>1. \A t \in S : entry(t) \in Entry /\ entry(t).task = t /\ entry(t) \in M
  BY DEF Entry
<1>2. \A e \in M : e.task \in S /\ e = entry(e.task)
  OBVIOUS
<1>3. M \in SUBSET Entry
  BY DEF Entry
<1> HIDE DEF M, entry
<1>4. TasksOf(M) = S
  BY <1>1, <1>2 DEF TasksOf
<1>5. Distinct(M)
  BY <1>2 DEF Distinct
<1> QED BY <1>3, <1>4, <1>5 DEF M

\* reclaim_stale takes the stale tasks of _active, then the tasks "seen" in
\* Redis once "gone" are removed from it; R and Q of them go back, G do not.
Left(gone) == [t \in Task |-> IF t \in gone THEN None ELSE redisActive[t]]

Reclaims(p, gone, seen, gone2, R, Q, G) ==
    /\ gone \subseteq StaleHere(p) /\ seen \subseteq StaleInRedis(p, Left(gone)) /\ gone2 \subseteq seen
    /\ ~RedisMayFail => gone = StaleHere(p) /\ seen = StaleInRedis(p, Left(gone)) /\ gone2 = seen
    /\ R \subseteq StaleHere(p) /\ Q \subseteq seen /\ R \cup Q \cup G = StaleHere(p) \cup seen
    /\ StaleHere(p) \cap seen = {} => (R \cup Q) \cap G = {}
    /\ active' = [active EXCEPT ![p] = [t \in Task |-> IF t \in StaleHere(p) THEN None ELSE @[t]]]
    /\ redisActive' = [t \in Task |-> IF t \in gone2 THEN None ELSE Left(gone)[t]]
    /\ QueuedTasks(p)' = QueuedTasks(p) \cup R \cup Q
    /\ /\ OnceQueued(p) /\ QueuedTasks(p) \cap (StaleHere(p) \cup seen) = {}
       /\ StaleHere(p) \cap seen = {}
       => OnceQueued(p)'
    /\ ~RedisMayFail => redisQueue' = redisQueue \cup R \cup Q
    /\ fingerprints' = [fingerprints EXCEPT ![p] = Forgotten(@, G)]
    /\ fate' = Dropped(G)

\* reclaim_stale, with what it takes from memory and from Redis.
LEMMA ReclaimStaleFacts ==
    ASSUME TypeInv, NEW p \in Proc, ReclaimStale(p)
    PROVE  /\ TypeInv' /\ SameHands /\ OthersKeep(p)
           /\ wpc' = NotifyAll(p)
           /\ \E gone, seen, gone2, R, Q, G \in SUBSET Task : Reclaims(p, gone, seen, gone2, R, Q, G)
           /\ UNCHANGED <<shutdown, hand, now, crashes, admin>>
<1> DEFINE here == StaleHere(p)
           M == {[task |-> t, retry |-> active[p][t].retry] : t \in here}
           T(seen, left) == {[task |-> t, retry |-> left[t].retry] : t \in seen}
<1> DEFINE Does(gone, seen, gone2) ==
             LET N == T(seen, Left(gone)) IN
             /\ active' = [active EXCEPT ![p] = [t \in Task |-> IF t \in here THEN None ELSE @[t]]]
             /\ redisActive' = [t \in Task |-> IF t \in gone2 THEN None ELSE Left(gone)[t]]
             /\ AddedBoth(p, Retried(M), Retried(N))
             /\ \E ok \in Applied({e.task : e \in Retried(M) \cup Retried(N)}) : redisQueue' = redisQueue \cup ok
             /\ fingerprints' = [fingerprints EXCEPT ![p] = Forgotten(@, GivenUp(M) \cup GivenUp(N))]
             /\ fate' = Dropped(GivenUp(M) \cup GivenUp(N))
             /\ wpc' = NotifyAll(p)
             /\ UNCHANGED <<shutdown, hand, now, crashes, admin>>
<1>0. \E gone \in Applied(here) : \E seen \in Applied(StaleInRedis(p, Left(gone))) :
        \E gone2 \in Applied(seen) : Does(gone, seen, gone2)
  BY DEF ReclaimStale, AddedBoth, Left
<1> HIDE DEF Does
<1>gone. PICK gone \in Applied(here) : \E seen \in Applied(StaleInRedis(p, Left(gone))) :
        \E gone2 \in Applied(seen) : Does(gone, seen, gone2)
  BY <1>0
<1>seen. PICK seen \in Applied(StaleInRedis(p, Left(gone))) : \E gone2 \in Applied(seen) : Does(gone, seen, gone2)
  BY <1>gone
<1>gone2. PICK gone2 \in Applied(seen) : Does(gone, seen, gone2)
  BY <1>seen
<1>1. Does(gone, seen, gone2)
  BY <1>gone2
<1> USE DEF Does
<1> DEFINE left == Left(gone)
           N == T(seen, left)
<1>2. /\ active \in [Proc -> [Task -> Running \cup {None}]]
      /\ redisActive \in [Task -> Running \cup {None}]
  BY DEF TypeInv, TypeOK
<1>3. /\ gone \subseteq here /\ seen \subseteq StaleInRedis(p, left) /\ gone2 \subseteq seen
      /\ ~RedisMayFail => gone = here /\ seen = StaleInRedis(p, left) /\ gone2 = seen
  BY <1>1, AppliedFacts
<1>4. here \in SUBSET Task /\ \A t \in here : active[p][t] \in Running
  BY <1>2 DEF StaleHere, ActiveTasks
<1>5. /\ left \in [Task -> Running \cup {None}]
      /\ seen \in SUBSET Task /\ \A t \in seen : left[t] \in Running
  <2>1. left \in [Task -> Running \cup {None}]
    BY <1>2 DEF Left
  <2> HIDE DEF left
  <2> QED BY <1>3, <2>1 DEF StaleInRedis
<1> HIDE DEF here, left
<1>6. M \in SUBSET Entry /\ TasksOf(M) = here /\ Distinct(M)
  BY <1>4, EntriesOfTasks DEF Running
<1>7. N \in SUBSET Entry /\ TasksOf(N) = seen /\ Distinct(N)
  BY <1>5, EntriesOfTasks DEF Running
<1>8. /\ AddedBoth(p, Retried(M), Retried(N))
      /\ \E ok \in Applied(TasksOf(Retried(M) \cup Retried(N))) : redisQueue' = redisQueue \cup ok
      /\ fingerprints' = [fingerprints EXCEPT ![p] = Forgotten(@, GivenUp(M) \cup GivenUp(N))]
      /\ fate' = Dropped(GivenUp(M) \cup GivenUp(N))
  BY <1>1 DEF TasksOf, left
<1> HIDE DEF M, N
<1> DEFINE R == TasksOf(Retried(M))
           Q == TasksOf(Retried(N))
           G == GivenUp(M) \cup GivenUp(N)
<1>9. /\ Retried(M) \in SUBSET Entry /\ Retried(N) \in SUBSET Entry
      /\ here = R \cup GivenUp(M) /\ seen = Q \cup GivenUp(N)
      /\ Distinct(Retried(M)) /\ Distinct(Retried(N))
      /\ R \cap GivenUp(M) = {} /\ Q \cap GivenUp(N) = {}
  BY <1>6, <1>7, RetriedFacts
<1>10. /\ heap' \in [Proc -> [Entry -> Nat]]
       /\ forefront' \in [Proc -> Seq(Entry)]
       /\ OthersKeep(p)
       /\ QueuedTasks(p)' = QueuedTasks(p) \cup R \cup Q
       /\ OnceQueued(p) /\ QueuedTasks(p) \cap R = {} /\ (QueuedTasks(p) \cup R) \cap Q = {}
            => OnceQueued(p)'
  BY <1>8, <1>9, AddedBothFacts DEF TypeInv
<1>11. SameHands /\ HandsFull' /\ wpc' \in [Worker -> States]
  BY <1>1, NotifyFacts, HandsKept DEF TypeInv
<1>12. /\ redisActive' \in [Task -> Running \cup {None}]
       /\ active' \in [Proc -> [Task -> Running \cup {None}]]
  <2>1. redisActive' = [t \in Task |-> IF t \in gone2 THEN None ELSE left[t]]
    BY <1>1 DEF left
  <2>2. redisActive' \in [Task -> Running \cup {None}]
    BY <1>5, <2>1
  <2> QED BY <1>1, <1>2, <2>2
<1>13. redisQueue' \subseteq Task /\ (~RedisMayFail => redisQueue' = redisQueue \cup R \cup Q)
  <2>1. TasksOf(Retried(M) \cup Retried(N)) = R \cup Q /\ R \cup Q \subseteq Task
    BY <1>4, <1>5, <1>9 DEF TasksOf
  <2>2. PICK ok \in Applied(R \cup Q) : redisQueue' = redisQueue \cup ok
    BY <1>8, <2>1
  <2> HIDE DEF R, Q
  <2> QED BY <2>1, <2>2, AppliedFacts DEF TypeInv, TypeOK
<1>14. fate' \in [Task -> Fates]
  BY <1>8 DEF Dropped, TypeInv, TypeOK, Fates
<1>15. fingerprints' \in [Proc -> SUBSET {Fingerprint[u] : u \in Task}]
  BY <1>8 DEF TypeInv, TypeOK, Forgotten
<1>16. UNCHANGED <<shutdown, hand, now, crashes, admin>> /\ wpc' = NotifyAll(p)
  BY <1>1
<1>17. TypeOK'
  BY <1>10, <1>11, <1>12, <1>13, <1>14, <1>15, <1>16 DEF TypeInv, TypeOK, States
<1> HIDE DEF R, Q
<1>18. Reclaims(p, gone, seen, gone2, R, Q, G)
  <2>1. /\ active' = [active EXCEPT ![p] = [t \in Task |-> IF t \in here THEN None ELSE @[t]]]
        /\ redisActive' = [t \in Task |-> IF t \in gone2 THEN None ELSE left[t]]
    BY <1>1 DEF left
  <2>2. /\ R \subseteq here /\ Q \subseteq seen /\ R \cup Q \cup G = here \cup seen
        /\ here \cap seen = {} => (R \cup Q) \cap G = {}
    BY <1>9
  <2>3. /\ OnceQueued(p) /\ QueuedTasks(p) \cap (here \cup seen) = {} /\ here \cap seen = {}
        => OnceQueued(p)'
    BY <1>10, <2>2
  <2> HIDE DEF G
  <2> QED BY <1>3, <1>8, <1>10, <1>13, <2>1, <2>2, <2>3 DEF Reclaims, here, left, G
<1>19. /\ gone \in SUBSET Task /\ gone2 \in SUBSET Task /\ seen \in SUBSET Task
       /\ R \in SUBSET Task /\ Q \in SUBSET Task /\ G \in SUBSET Task
  BY <1>3, <1>4, <1>5, <1>9
<1> HIDE DEF G
<1>20. \E go, se, go2, r, q, g \in SUBSET Task : Reclaims(p, go, se, go2, r, q, g)
  BY <1>18, <1>19
<1>21. TypeInv'
  BY <1>11, <1>17 DEF TypeInv
<1> QED BY <1>10, <1>11, <1>16, <1>20, <1>21

\* clear: the queue, its Redis keys and the fingerprints are empty.
LEMMA ClearFacts ==
    ASSUME TypeInv, NEW p \in Proc, Clear(p)
    PROVE  /\ TypeInv' /\ SameHands /\ OthersKeep(p)
           /\ QueuedTasks(p)' = {} /\ OnceQueued(p)'
           /\ fingerprints' = [fingerprints EXCEPT ![p] = {}]
           /\ ~RedisMayFail => redisQueue' = {}
           /\ fate' = Cleared(QueuedTasks(p))
           /\ admin' = admin + 1
           /\ UNCHANGED <<active, shutdown, redisActive, worker, now, crashes>>
<1>1. /\ Emptied(p) /\ admin < MaxAdmin /\ admin' = admin + 1
      /\ fingerprints' = [fingerprints EXCEPT ![p] = {}]
      /\ \E gone \in Applied(Task) : redisQueue' = redisQueue \ gone
      /\ fate' = Cleared(QueuedTasks(p))
      /\ UNCHANGED <<active, shutdown, redisActive, worker, now, crashes>>
  BY DEF Clear, Emptied
<1>2. /\ heap' \in [Proc -> [Entry -> Nat]] /\ forefront' \in [Proc -> Seq(Entry)]
      /\ OthersKeep(p) /\ QueuedTasks(p)' = {} /\ OnceQueued(p)'
  BY <1>1, EmptiedFacts DEF TypeInv
<1>3. redisQueue' \subseteq Task /\ (~RedisMayFail => redisQueue' = {})
  BY <1>1, AppliedFacts DEF TypeInv, TypeOK
<1>4. fate' \in [Task -> Fates] /\ fingerprints' \in [Proc -> SUBSET {Fingerprint[u] : u \in Task}]
  BY <1>1 DEF Cleared, TypeInv, TypeOK, Fates
<1>5. admin' \in 0..MaxAdmin
  BY <1>1, QueueAssumption DEF TypeInv, TypeOK, QueueAssumption
<1>6. TypeOK'
  BY <1>1, <1>2, <1>3, <1>4, <1>5 DEF TypeInv, TypeOK, worker
<1>7. SameHands /\ HandsFull'
  BY <1>1 DEF TypeInv, HandsFull, SameHands, worker
<1> QED BY <1>1, <1>2, <1>3, <1>6, <1>7 DEF TypeInv

\* reset: _active is empty, too.
LEMMA ResetFacts ==
    ASSUME TypeInv, NEW p \in Proc, Reset(p)
    PROVE  /\ TypeInv' /\ SameHands /\ OthersKeep(p)
           /\ QueuedTasks(p)' = {} /\ OnceQueued(p)'
           /\ active' = [active EXCEPT ![p] = EmptyActive]
           /\ ~RedisMayFail => redisQueue' = {} /\ redisActive' = EmptyActive
           /\ fate' = Cleared(QueuedTasks(p) \cup {t \in Task : redisActive'[t] # redisActive[t]} \cup ActiveTasks(p))
           /\ redisActive' = redisActive \/ redisActive' = EmptyActive
           /\ admin' = admin + 1
           /\ UNCHANGED <<shutdown, worker, now, crashes>>
<1>1. /\ Emptied(p) /\ admin < MaxAdmin /\ admin' = admin + 1
      /\ active' = [active EXCEPT ![p] = EmptyActive]
      /\ fingerprints' = [fingerprints EXCEPT ![p] = {}]
      /\ fate' = Cleared(QueuedTasks(p) \cup {t \in Task : redisActive'[t] # redisActive[t]} \cup ActiveTasks(p))
      /\ UNCHANGED <<shutdown, worker, now, crashes>>
  BY DEF Reset, Emptied
<1>2. /\ heap' \in [Proc -> [Entry -> Nat]] /\ forefront' \in [Proc -> Seq(Entry)]
      /\ OthersKeep(p) /\ QueuedTasks(p)' = {} /\ OnceQueued(p)'
  BY <1>1, EmptiedFacts DEF TypeInv
<1>3. /\ redisActive' = redisActive \/ redisActive' = EmptyActive
      /\ redisQueue' = redisQueue \/ redisQueue' = {}
      /\ ~RedisMayFail => redisQueue' = {} /\ redisActive' = EmptyActive
  <2>1. PICK ok \in IF RedisMayFail THEN BOOLEAN ELSE {TRUE} :
          /\ redisQueue' = IF ok THEN {} ELSE redisQueue
          /\ redisActive' = IF ok THEN EmptyActive ELSE redisActive
    BY DEF Reset
  <2> QED BY <2>1
<1>4. EmptyActive \in [Task -> Running \cup {None}]
  BY DEF EmptyActive
<1>5. redisActive' \in [Task -> Running \cup {None}] /\ redisQueue' \subseteq Task
  BY <1>3, <1>4 DEF TypeInv, TypeOK
<1>6. active' \in [Proc -> [Task -> Running \cup {None}]]
  BY <1>1, <1>4 DEF TypeInv, TypeOK
<1>7. fate' \in [Task -> Fates] /\ fingerprints' \in [Proc -> SUBSET {Fingerprint[u] : u \in Task}]
  BY <1>1 DEF Cleared, TypeInv, TypeOK, Fates
<1>8. admin' \in 0..MaxAdmin
  BY <1>1, QueueAssumption DEF TypeInv, TypeOK, QueueAssumption
<1>9. TypeOK'
  BY <1>1, <1>2, <1>5, <1>6, <1>7, <1>8 DEF TypeInv, TypeOK, worker
<1>10. SameHands /\ HandsFull'
  BY <1>1 DEF TypeInv, HandsFull, SameHands, worker
<1> QED BY <1>1, <1>2, <1>3, <1>9, <1>10 DEF TypeInv

\* shutdown sets a flag and wakes everybody.
LEMMA ShutdownFacts ==
    ASSUME TypeInv, NEW p \in Proc, Shutdown(p)
    PROVE  /\ TypeInv' /\ SameHands
           /\ UNCHANGED <<heap, forefront, active, fingerprints, redis, hand, now, fate, crashes, admin>>
<1>1. /\ shutdown' = [shutdown EXCEPT ![p] = TRUE] /\ wpc' = NotifyAll(p)
      /\ UNCHANGED <<heap, forefront, active, fingerprints, redis, hand, now, fate, crashes, admin>>
  BY DEF Shutdown
<1>2. SameHands /\ HandsFull' /\ wpc' \in [Worker -> States]
  BY <1>1, NotifyFacts, HandsKept DEF TypeInv
<1>3. TypeOK'
  BY <1>1, <1>2 DEF TypeInv, TypeOK, States, redis
<1> QED BY <1>1, <1>2, <1>3 DEF TypeInv

\* A crash empties the process's memory and hands, and leaves Redis alone.
LEMMA CrashFacts ==
    ASSUME TypeInv, NEW p \in Proc, Crash(p)
    PROVE  /\ TypeInv' /\ OthersKeep(p)
           /\ QueuedTasks(p)' = {} /\ OnceQueued(p)'
           /\ active' = [active EXCEPT ![p] = EmptyActive]
           /\ \A w \in Worker : IF Home[w] = p THEN wpc'[w] = "idle"
                                ELSE wpc'[w] = wpc[w] /\ hand'[w] = hand[w]
           /\ Holders(p)' = {} /\ HeldTasks(p)' = {}
           /\ \A q : q # p => Holders(q)' = Holders(q) /\ HeldTasks(q)' = HeldTasks(q)
           /\ fate' = [t \in Task |-> IF t \in QueuedTasks(p) \cup HeldTasks(p) /\ fate[t] = "accepted"
                                      THEN "lost" ELSE fate[t]]
           /\ crashes < MaxCrashes
           /\ UNCHANGED <<redis, now, admin>>
<1>1. /\ Emptied(p) /\ crashes < MaxCrashes /\ crashes' = crashes + 1
      /\ active' = [active EXCEPT ![p] = EmptyActive]
      /\ fingerprints' = [fingerprints EXCEPT ![p] = {}]
      /\ shutdown' = [shutdown EXCEPT ![p] = FALSE]
      /\ wpc' = [w \in Worker |-> IF Home[w] = p THEN "idle" ELSE wpc[w]]
      /\ hand' = [w \in Worker |-> IF Home[w] = p THEN None ELSE hand[w]]
      /\ fate' = [t \in Task |-> IF t \in QueuedTasks(p) \cup HeldTasks(p) /\ fate[t] = "accepted"
                                 THEN "lost" ELSE fate[t]]
      /\ UNCHANGED <<redis, now, admin>>
  BY DEF Crash, Emptied
<1>2. /\ heap' \in [Proc -> [Entry -> Nat]] /\ forefront' \in [Proc -> Seq(Entry)]
      /\ OthersKeep(p) /\ QueuedTasks(p)' = {} /\ OnceQueued(p)'
  BY <1>1, EmptiedFacts DEF TypeInv
<1>3. EmptyActive \in [Task -> Running \cup {None}]
  BY DEF EmptyActive
<1>4. /\ active' \in [Proc -> [Task -> Running \cup {None}]]
      /\ fingerprints' \in [Proc -> SUBSET {Fingerprint[u] : u \in Task}]
      /\ shutdown' \in [Proc -> BOOLEAN]
      /\ crashes' \in 0..MaxCrashes
  BY <1>1, <1>3, QueueAssumption DEF TypeInv, TypeOK, QueueAssumption
<1>5. /\ wpc' \in [Worker -> States] /\ hand' \in [Worker -> Entry \cup {None}] /\ fate' \in [Task -> Fates]
  BY <1>1 DEF TypeInv, TypeOK, States, Fates
<1>6. TypeOK'
  BY <1>1, <1>2, <1>4, <1>5 DEF TypeInv, TypeOK, States, redis
<1>7. \A w \in Worker : IF Home[w] = p THEN wpc'[w] = "idle"
                        ELSE wpc'[w] = wpc[w] /\ hand'[w] = hand[w]
  BY <1>1
<1>8. HandsFull'
  BY <1>7 DEF TypeInv, HandsFull
<1>9. Holders(p)' = {} /\ \A q : q # p => Holders(q)' = Holders(q)
  BY <1>7 DEF Holders
<1>10. HeldTasks(p)' = {}
  BY <1>9 DEF HeldTasks
<1>11. ASSUME NEW q, q # p PROVE HeldTasks(q)' = HeldTasks(q)
  <2>1. \A w \in Holders(q) : hand'[w] = hand[w]
    BY <1>7, <1>11 DEF Holders
  <2> QED BY <1>9, <1>11, <2>1 DEF HeldTasks
<1> QED BY <1>1, <1>2, <1>6, <1>7, <1>8, <1>9, <1>10, <1>11 DEF TypeInv

\* Time passes, and that is all.
LEMMA TickFacts ==
    ASSUME TypeInv, Tick
    PROVE  /\ TypeInv' /\ SameHands
           /\ UNCHANGED <<memory, redis, worker, fate, crashes, admin>>
<1>1. now' \in 1..MaxTime /\ UNCHANGED <<memory, redis, worker, fate, crashes, admin>>
  BY QueueAssumption DEF Tick, TypeInv, TypeOK, QueueAssumption
<1>2. TypeOK'
  BY <1>1 DEF TypeInv, TypeOK, memory, redis, worker
<1>3. SameHands /\ HandsFull'
  BY <1>1 DEF TypeInv, HandsFull, SameHands, worker
<1> QED BY <1>1, <1>2, <1>3 DEF TypeInv

-----------------------------------------------------------------------------
(* Type correctness. *)

\* The initial state has the right types.
LEMMA TypeInit == Init => TypeInv
<1>1. SUFFICES ASSUME Init PROVE TypeOK /\ HandsFull
  BY DEF TypeInv
<1>2. HandsFull
  BY <1>1 DEF Init, HandsFull
<1>3. EmptyActive \in [Task -> Running \cup {None}] /\ EmptyHeap \in [Entry -> Nat] /\ <<>> \in Seq(Entry)
  BY EmptySeq DEF EmptyActive, EmptyHeap
<1>4. MaxTime \in Nat \ {0} /\ MaxCrashes \in Nat /\ MaxAdmin \in Nat
  BY QueueAssumption DEF QueueAssumption
<1>5. TypeOK
  BY <1>1, <1>3, <1>4 DEF Init, TypeOK, Fates
<1> QED BY <1>2, <1>5

\* Every step keeps them.
LEMMA TypeStep == TypeInv /\ [Next]_vars => TypeInv'
<1>1. SUFFICES ASSUME TypeInv, [Next]_vars PROVE TypeInv'
  OBVIOUS
<1>2. ASSUME NEW w \in Worker, WorkerNext(w) PROVE TypeInv'
  <2>1. ASSUME NEW e, wpc[w] \in {"idle", "sleeping", "notified"}, Take(w, e) PROVE TypeInv'
    BY <1>1, <2>1, TakeFacts
  <2>2. CASE Get(w) \/ GetWakes(w)
    BY <2>1, <2>2 DEF Get, GetWakes
  <2>3. CASE Waits(w)
    BY <1>1, <2>3, WaitsFacts
  <2>4. CASE MarkActive(w)
    BY <1>1, <2>4, MarkActiveFacts
  <2>5. CASE \E success \in BOOLEAN : MarkDoneUnknown(w, success)
    BY <1>1, <2>5, MarkDoneUnknownFacts
  <2>6. CASE MarkDoneSuccess(w)
    BY <1>1, <2>6, MarkDoneSuccessFacts
  <2>7. CASE MarkDoneFailure(w)
    BY <1>1, <2>7, MarkDoneFailureFacts
  <2> QED BY <1>2, <2>2, <2>3, <2>4, <2>5, <2>6, <2>7 DEF WorkerNext, Waits
<1>3. ASSUME NEW p \in Proc, ProcNext(p) PROVE TypeInv'
  <2>1. ASSUME NEW t \in Task, PutOne(p, t) PROVE TypeInv'
    <3>1. OnlyWakes(wpc')
      BY <1>1, <2>1, NotifyFacts DEF PutOne, TypeInv
    <3> QED BY <1>1, <2>1, <3>1, PutFacts DEF PutOne
  <2>2. ASSUME NEW B \in SUBSET Task, PutBatch(p, B) PROVE TypeInv'
    <3>1. OnlyWakes(wpc')
      BY <1>1, <2>2, NotifyFacts DEF PutBatch, TypeInv
    <3> QED BY <1>1, <2>2, <3>1, PutFacts DEF PutBatch
  <2>3. CASE ReclaimStale(p)
    BY <1>1, <2>3, ReclaimStaleFacts
  <2>4. CASE Clear(p)
    BY <1>1, <2>4, ClearFacts
  <2>5. CASE Reset(p)
    BY <1>1, <2>5, ResetFacts
  <2>6. CASE Shutdown(p)
    BY <1>1, <2>6, ShutdownFacts
  <2>7. CASE Crash(p)
    BY <1>1, <2>7, CrashFacts
  <2> QED BY <1>3, <2>1, <2>2, <2>3, <2>4, <2>5, <2>6, <2>7 DEF ProcNext
<1>4. CASE Tick
  BY <1>1, <1>4, TickFacts
<1>5. CASE UNCHANGED vars
  BY <1>1, <1>5 DEF TypeInv, TypeOK, HandsFull, vars, memory, redis, worker
<1> QED BY <1>1, <1>2, <1>3, <1>4, <1>5 DEF Next

\* Every variable of the queue keeps its type, and the entries of a worker
\* that holds or runs a task are there to be handed over and reported.
THEOREM TypeCorrect == Spec => [](TypeOK /\ HandsFull)
<1>1. Init => TypeInv
  BY TypeInit
<1>2. TypeInv /\ [Next]_vars => TypeInv'
  BY TypeStep
<1>3. TypeInv => TypeOK /\ HandsFull
  BY DEF TypeInv
<1> QED BY <1>1, <1>2, <1>3, PTL DEF Spec

-----------------------------------------------------------------------------
(* The size of a queue. *)

Copies(h)  == UNION {{e} \X (1..h[e]) : e \in Entry}
Size(h, f) == Cardinality(Copies(h)) + Len(f)

\* The size of a queue, as a function of its heap and its stack.
LEMMA QueueSizeIs ==
    \A p : /\ QueueSize(p) = Size(heap[p], forefront[p])
           /\ QueueSize(p)' = Size(heap'[p], forefront'[p])
BY DEF QueueSize, HeapCopies, Size, Copies

\* A heap holds finitely many copies of entries.
LEMMA CopiesFinite == ASSUME NEW h \in [Entry -> Nat] PROVE IsFiniteSet(Copies(h))
<1> DEFINE copies == [e \in Entry |-> {e} \X (1..h[e])]
           S == {copies[e] : e \in Entry}
<1>1. \A e \in Entry : IsFiniteSet(copies[e])
  <2>1. SUFFICES ASSUME NEW e \in Entry PROVE IsFiniteSet({e} \X (1..h[e]))
    OBVIOUS
  <2>2. h[e] \in Int /\ 1 \in Int
    OBVIOUS
  <2>3. IsFiniteSet(1..h[e]) /\ IsFiniteSet({e})
    BY <2>2, FS_Interval, FS_Singleton
  <2> QED BY <2>3, FS_Product
<1>2. IsFiniteSet(S)
  <2>1. copies \in Surjection(Entry, S)
    BY DEF Surjection
  <2> HIDE DEF copies, S
  <2> QED BY <2>1, EntriesFinite, FS_Surjection
<1>3. Copies(h) = UNION S
  BY DEF Copies
<1> HIDE DEF copies
<1>4. \A A \in S : IsFiniteSet(A)
  BY <1>1
<1> HIDE DEF S
<1> QED BY <1>2, <1>3, <1>4, FS_UNION

\* One copy more.
LEMMA OneMore ==
    ASSUME NEW h \in [Entry -> Nat], NEW e \in Entry
    PROVE  Cardinality(Copies([h EXCEPT ![e] = @ + 1])) = Cardinality(Copies(h)) + 1
<1> DEFINE h2 == [h EXCEPT ![e] = @ + 1]
           x == <<e, h[e] + 1>>
<1>1. h[e] \in Nat /\ 1..(h[e] + 1) = (1..h[e]) \cup {h[e] + 1}
  OBVIOUS
<1>2. /\ Copies(h) = {y \in Entry \X Nat : y[2] \in 1..h[y[1]]}
      /\ Copies(h2) = {y \in Entry \X Nat : y[2] \in 1..h2[y[1]]}
  <2>1. ASSUME NEW g \in [Entry -> Nat] PROVE Copies(g) = {y \in Entry \X Nat : y[2] \in 1..g[y[1]]}
    <3>1. \A d \in Entry : \A i \in 1..g[d] : i \in Nat
      OBVIOUS
    <3> QED BY <3>1 DEF Copies
  <2>2. h2 \in [Entry -> Nat]
    BY <1>1
  <2> QED BY <2>1, <2>2
<1>3. \A d \in Entry : h2[d] = IF d = e THEN h[e] + 1 ELSE h[d]
  OBVIOUS
<1>4. Copies(h2) = Copies(h) \cup {x} /\ x \notin Copies(h)
  <2>1. \A d \in Entry, i \in Nat : i \in 1..h2[d] <=> i \in 1..h[d] \/ <<d, i>> = x
    BY <1>1, <1>3
  <2>2. x \in Entry \X Nat /\ x[2] \notin 1..h[x[1]]
    BY <1>1
  <2>3. \A y \in Entry \X Nat : y = <<y[1], y[2]>>
    OBVIOUS
  <2> HIDE DEF h2, x
  <2> QED BY <1>2, <2>1, <2>2, <2>3
<1> HIDE DEF h2, x
<1>5. Cardinality(Copies(h) \cup {x}) = Cardinality(Copies(h)) + 1
  BY <1>4, CopiesFinite, FS_AddElement
<1> QED BY <1>4, <1>5 DEF h2

\* So its size is a number.
LEMMA SizeType ==
    ASSUME NEW h \in [Entry -> Nat], NEW f \in Seq(Entry)
    PROVE  Cardinality(Copies(h)) \in Nat /\ Len(f) \in Nat /\ Size(h, f) \in Nat
BY CopiesFinite, FS_CardinalityType, LenProperties DEF Size

\* One entry put, one entry taken, and the empty queue.
LEMMA SizeOfOneMore ==
    ASSUME NEW h \in [Entry -> Nat], NEW f \in Seq(Entry), NEW e \in Entry,
           NEW h2, NEW f2, Adds(h, f, {e}, h2, f2)
    PROVE  Size(h2, f2) = Size(h, f) + 1
<1>1. h2 = Pushed(h, ForHeap({e}))
  BY DEF Adds
<1>2. PICK s \in SetToSeqs(ForFront({e})) : f2 = f \o s
  BY DEF Adds
<1>3. ForFront({e}) \in SUBSET Entry
  BY DEF ForFront
<1>4. s \in Seq(Entry) /\ Len(s) = Cardinality(ForFront({e}))
  BY <1>2, <1>3, OrderedSet
<1>5. Len(f2) = Len(f) + Cardinality(ForFront({e}))
  BY <1>2, <1>4, ConcatProperties
<1>6. CASE e.task \in Jumps
  <2>1. ForFront({e}) = {e} /\ ForHeap({e}) = {}
    BY <1>6 DEF ForFront, ForHeap
  <2>2. h2 = h
    BY <1>1, <2>1 DEF Pushed
  <2>3. Cardinality(ForFront({e})) = 1
    BY <2>1, FS_Singleton
  <2>4. Cardinality(Copies(h)) \in Nat /\ Len(f) \in Nat
    BY SizeType
  <2>5. Len(f2) = Len(f) + 1
    BY <1>5, <2>3
  <2> QED BY <2>2, <2>4, <2>5 DEF Size
<1>7. CASE e.task \notin Jumps
  <2>1. ForFront({e}) = {} /\ ForHeap({e}) = {e}
    BY <1>7 DEF ForFront, ForHeap
  <2>2. h2 = [h EXCEPT ![e] = @ + 1]
    BY <1>1, <2>1 DEF Pushed
  <2>3. Cardinality(ForFront({e})) = 0
    BY <2>1, FS_EmptySet
  <2>4. Cardinality(Copies(h2)) = Cardinality(Copies(h)) + 1
    BY <2>2, OneMore
  <2> QED BY <1>5, <2>3, <2>4, SizeType DEF Size
<1> QED BY <1>6, <1>7

\* An entry that is taken makes a queue smaller by one.
LEMMA SizeOfOneLess ==
    ASSUME NEW h \in [Entry -> Nat], NEW f \in Seq(Entry), NEW e,
           NEW h2, NEW f2, Removes(h, f, e, h2, f2)
    PROVE  Size(h, f) = Size(h2, f2) + 1
<1>1. e \in Entry /\ h2 \in [Entry -> Nat] /\ f2 \in Seq(Entry)
  BY RemovesFacts
<1>2. CASE f # <<>>
  <2>1. Len(f) \in Nat /\ Len(f) >= 1
    BY <1>2, EmptySeq
  <2>2. Len(f2) = Len(f) - 1 /\ h2 = h
    BY <1>2, RemovesFacts DEF Removes
  <2>3. Cardinality(Copies(h)) \in Nat
    BY SizeType
  <2> QED BY <2>1, <2>2, <2>3 DEF Size
<1>3. CASE f = <<>>
  <2>1. h[e] > 0 /\ h2 = [h EXCEPT ![e] = @ - 1] /\ f2 = f
    BY <1>3 DEF Removes, HeapSet
  <2>2. h = [h2 EXCEPT ![e] = @ + 1]
    <3>1. h[e] \in Nat /\ h2[e] = h[e] - 1
      BY <1>1, <2>1
    <3>2. \A d \in Entry : d # e => h2[d] = h[d]
      BY <2>1
    <3>3. (h[e] - 1) + 1 = h[e]
      BY <3>1
    <3> DEFINE g == [h2 EXCEPT ![e] = @ + 1]
    <3>4. g[e] = h[e]
      BY <1>1, <3>1, <3>3
    <3>5. \A d \in Entry : d # e => g[d] = h[d]
      BY <1>1, <3>2
    <3>6. g \in [Entry -> Nat]
      BY <1>1
    <3> HIDE DEF g
    <3>7. g = h
      BY <3>4, <3>5, <3>6
    <3> QED BY <3>7 DEF g
  <2>3. Cardinality(Copies(h)) = Cardinality(Copies(h2)) + 1
    BY <1>1, <2>2, OneMore
  <2>4. Cardinality(Copies(h2)) \in Nat /\ Len(f) \in Nat
    BY <1>1, SizeType
  <2> QED BY <2>1, <2>3, <2>4 DEF Size
<1> QED BY <1>2, <1>3

\* An empty queue has size 0.
LEMMA SizeOfNothing ==
    ASSUME NEW h \in [Entry -> Nat], HeapSet(h) = {}
    PROVE  Size(h, <<>>) = 0
<1>1. \A e \in Entry : h[e] = 0
  BY DEF HeapSet
<1>2. Copies(h) = {}
  BY <1>1 DEF Copies
<1> QED BY <1>2, FS_EmptySet, EmptySeq DEF Size

\* get() returns nothing only from an empty queue.
LEMMA NothingToDeliver ==
    ASSUME TypeOK, NEW p \in Proc, Deliverable(p) = {}
    PROVE  QueueSize(p) = 0
<1>1. heap[p] \in [Entry -> Nat] /\ forefront[p] = <<>>
  BY DEF TypeOK, Deliverable
<1>2. HeapSet(heap[p]) = {}
  <2>1. SUFFICES ASSUME HeapSet(heap[p]) # {} PROVE FALSE
    OBVIOUS
  <2>2. \E e \in HeapSet(heap[p]) : Top(HeapSet(heap[p]), e)
    BY <2>1, HasTop DEF HeapSet
  <2> QED BY <1>1, <2>2 DEF Deliverable, InHeap, HeapSet, Top
<1> QED BY <1>1, <1>2, SizeOfNothing, QueueSizeIs

-----------------------------------------------------------------------------
(* No lost wakeup. *)

\* NoLostWakeup, for one process.
AwakeEnough(p) == Sleepers(p) # {} => QueueSize(p) <= Cardinality(Woken(p))

\* What NoLostWakeup compares are numbers.
LEMMA NumbersTyped ==
    ASSUME TypeOK, NEW p \in Proc
    PROVE  /\ QueueSize(p) \in Nat
           /\ IsFiniteSet(Woken(p)) /\ Cardinality(Woken(p)) \in Nat
<1>1. heap[p] \in [Entry -> Nat] /\ forefront[p] \in Seq(Entry)
  BY DEF TypeOK
<1>2. IsFiniteSet(Worker) /\ Woken(p) \subseteq Worker
  BY QueueAssumption DEF QueueAssumption, Woken
<1> QED BY <1>1, <1>2, SizeType, QueueSizeIs, FS_Subset, FS_CardinalityType

\* An entry that is added makes a queue larger by one.
LEMMA AddedSize ==
    ASSUME TypeOK, NEW p \in Proc, NEW e \in Entry, Added(p, {e})
    PROVE  QueueSize(p)' = QueueSize(p) + 1
<1>1. heap[p] \in [Entry -> Nat] /\ forefront[p] \in Seq(Entry)
  BY DEF TypeOK
<1>2. Adds(heap[p], forefront[p], {e}, heap'[p], forefront'[p])
  BY DEF TypeOK, Added, Adds
<1> QED BY <1>1, <1>2, SizeOfOneMore, QueueSizeIs

\* Adding no entries is no change.
LEMMA NothingAdded ==
    ASSUME TypeOK, NEW p \in Proc, Added(p, {})
    PROVE  heap'[p] = heap[p] /\ forefront'[p] = forefront[p]
<1>1. heap[p] \in [Entry -> Nat] /\ forefront[p] \in Seq(Entry)
  BY DEF TypeOK
<1>2. ForHeap({}) = {} /\ ForFront({}) = {}
  BY DEF ForHeap, ForFront
<1>3. heap'[p] = Pushed(heap[p], {}) /\ \E s \in SetToSeqs({}) : forefront'[p] = forefront[p] \o s
  BY <1>2 DEF TypeOK, Added
<1>4. Pushed(heap[p], {}) = heap[p]
  BY <1>1 DEF Pushed
<1>5. PICK s \in SetToSeqs({}) : forefront'[p] = forefront[p] \o s
  BY <1>3
<1>6. s \in Seq(Entry) /\ Len(s) = 0
  BY OrderedSet, FS_EmptySet
<1>7. s = <<>>
  BY <1>6, EmptySeq
<1> QED BY <1>1, <1>3, <1>4, <1>5, <1>7, ConcatEmptySeq

\* The threads and the queue of q are left alone, except that a thread may
\* come to the end of a task.
ThreadsKeep(q) ==
    \A v \in Worker : Home[v] = q => wpc'[v] = wpc[v] \/ (wpc[v] = "running" /\ wpc'[v] = "idle")
                                     \/ (wpc[v] = "holding" /\ wpc'[v] = "running")

\* A step that leaves the queue and the threads of a process alone.
LEMMA WakeKeep ==
    ASSUME NEW q, AwakeEnough(q), ThreadsKeep(q), heap'[q] = heap[q], forefront'[q] = forefront[q]
    PROVE  AwakeEnough(q)'
<1>1. Sleepers(q)' = Sleepers(q) /\ Woken(q)' = Woken(q)
  BY DEF ThreadsKeep, Sleepers, Woken
<1>2. QueueSize(q)' = QueueSize(q)
  BY QueueSizeIs
<1> QED BY <1>1, <1>2 DEF AwakeEnough

\* After notify_all there is no thread asleep.
LEMMA WakeAll ==
    ASSUME NEW p, TypeOK, wpc' = NotifyAll(p)
    PROVE  AwakeEnough(p)'
<1>1. \A v \in Worker : Home[v] = p => wpc'[v] # "sleeping"
  BY DEF NotifyAll, Notified, Sleepers
<1>2. Sleepers(p)' = {}
  BY <1>1 DEF Sleepers
<1> QED BY <1>2 DEF AwakeEnough

\* One entry more and one thread notified.
LEMMA WakeOne ==
    ASSUME TypeOK, NEW p \in Proc, AwakeEnough(p), NEW pc, pc \in NotifyOne(p),
           \A v \in Worker : wpc'[v] = pc[v] \/ (wpc[v] = "running" /\ wpc'[v] = "idle"),
           QueueSize(p)' = QueueSize(p) + 1
    PROVE  AwakeEnough(p)'
<1>1. CASE Sleepers(p) = {}
  <2>1. pc = wpc
    BY <1>1 DEF NotifyOne
  <2>2. Sleepers(p)' = {}
    BY <1>1, <2>1 DEF Sleepers
  <2> QED BY <2>2 DEF AwakeEnough
<1>2. CASE Sleepers(p) # {}
  <2>1. PICK v \in Sleepers(p) : pc = Notified({v})
    BY <1>2 DEF NotifyOne
  <2>2. /\ v \in Worker /\ Home[v] = p /\ wpc[v] = "sleeping"
        /\ pc[v] = "notified" /\ \A u \in Worker : u # v => pc[u] = wpc[u]
    BY <2>1 DEF Sleepers, Notified
  <2>3. Woken(p)' = Woken(p) \cup {v} /\ v \notin Woken(p)
    BY <2>2 DEF Woken
  <2>4. Cardinality(Woken(p)') = Cardinality(Woken(p)) + 1
    BY <2>3, NumbersTyped, FS_AddElement
  <2>5. QueueSize(p) <= Cardinality(Woken(p))
    BY <1>2 DEF AwakeEnough
  <2> HIDE DEF QueueSize
  <2>6. QueueSize(p)' <= Cardinality(Woken(p)')
    BY <2>4, <2>5, NumbersTyped
  <2> QED BY <2>6 DEF AwakeEnough
<1> QED BY <1>1, <1>2

\* A thread takes one entry.
LEMMA WakeTake ==
    ASSUME TypeInv, NEW w \in Worker, wpc[w] \in {"idle", "sleeping", "notified"}, NEW e, Take(w, e),
           AwakeEnough(Home[w])
    PROVE  AwakeEnough(Home[w])'
<1> DEFINE p == Home[w]
<1>1. /\ TypeInv' /\ p \in Proc /\ wpc'[w] = "holding"
      /\ \A v \in Worker : v # w => wpc'[v] = wpc[v]
  BY TakeFacts DEF Take, TypeInv, TypeOK
<1>2. heap[p] \in [Entry -> Nat] /\ forefront[p] \in Seq(Entry)
  BY <1>1 DEF TypeInv, TypeOK
<1>3. Removes(heap[p], forefront[p], e, heap'[p], forefront'[p])
  BY <1>1, TakeRemoves DEF TypeInv
<1>4. QueueSize(p) = QueueSize(p)' + 1
  BY <1>2, <1>3, SizeOfOneLess, QueueSizeIs
<1>5. /\ QueueSize(p) \in Nat /\ QueueSize(p)' \in Nat
      /\ IsFiniteSet(Woken(p)) /\ Cardinality(Woken(p)) \in Nat /\ Cardinality(Woken(p)') \in Nat
  <2>1. QueueSize(p)' \in Nat
    <3>1. heap'[p] \in [Entry -> Nat] /\ forefront'[p] \in Seq(Entry)
      BY <1>1 DEF TypeInv, TypeOK
    <3> QED BY <3>1, SizeType, QueueSizeIs
  <2>2. Cardinality(Woken(p)') \in Nat
    <3>1. Woken(p)' \subseteq Worker /\ IsFiniteSet(Worker)
      BY QueueAssumption DEF QueueAssumption, Woken
    <3> QED BY <3>1, FS_Subset, FS_CardinalityType
  <2> QED BY <1>1, <2>1, <2>2, NumbersTyped DEF TypeInv
<1>6. Sleepers(p)' \subseteq Sleepers(p) /\ Woken(p)' = Woken(p) \ {w}
  BY <1>1 DEF Sleepers, Woken
<1>7. Cardinality(Woken(p)') >= Cardinality(Woken(p)) - 1
  <2>1. Cardinality(Woken(p) \ {w}) = IF w \in Woken(p) THEN Cardinality(Woken(p)) - 1 ELSE Cardinality(Woken(p))
    BY <1>5, FS_RemoveElement
  <2> QED BY <1>5, <1>6, <2>1
<1> HIDE DEF p
<1>8. ASSUME Sleepers(p)' # {} PROVE QueueSize(p)' <= Cardinality(Woken(p)')
  <2>1. QueueSize(p) <= Cardinality(Woken(p))
    BY <1>6, <1>8 DEF AwakeEnough, p
  <2> HIDE DEF QueueSize
  <2> QED BY <1>4, <1>5, <1>7, <2>1
<1> QED BY <1>8 DEF AwakeEnough, p

\* put() notifies for the one entry it adds.
LEMMA WakePut ==
    ASSUME TypeInv, NEW p \in Proc, NEW t \in Task, PutOne(p, t), AwakeEnough(p)
    PROVE  AwakeEnough(p)'
<1>1. PICK acc \in SUBSET {t} :
        LET fresh == {[task |-> u, retry |-> 0] : u \in acc} IN acc # {} /\ Added(p, fresh)
  BY DEF PutOne, Put, Added
<1> DEFINE e == [task |-> t, retry |-> 0]
<1>2. {[task |-> u, retry |-> 0] : u \in acc} = {e}
  <2>1. acc = {t}
    BY <1>1
  <2> QED BY <2>1
<1>3. e \in Entry
  BY QueueAssumption DEF Entry, QueueAssumption
<1> HIDE DEF e
<1>4. QueueSize(p)' = QueueSize(p) + 1
  BY <1>1, <1>2, <1>3, AddedSize DEF TypeInv
<1>5. wpc' \in NotifyOne(p)
  BY DEF PutOne
<1> HIDE DEF QueueSize
<1> QED BY <1>4, <1>5, WakeOne DEF TypeInv

\* So does the retry of a failed task, for the one entry that goes back.
LEMMA WakeFailure ==
    ASSUME TypeInv, NEW w \in Worker, MarkDoneFailure(w), NEW q \in Proc, AwakeEnough(q)
    PROVE  AwakeEnough(q)'
<1> DEFINE p == Home[w]
           t == hand[w].task
           S == {[task |-> t, retry |-> active[p][t].retry]}
<1>1. /\ Added(p, Retried(S)) /\ wpc[w] = "running" /\ active[p][t] # None
      /\ \E pc \in IF Retried(S) = {} THEN {wpc} ELSE NotifyOne(p) : wpc' = [pc EXCEPT ![w] = "idle"]
  BY DEF MarkDoneFailure, Added
<1>2. PICK pc \in IF Retried(S) = {} THEN {wpc} ELSE NotifyOne(p) : wpc' = [pc EXCEPT ![w] = "idle"]
  BY <1>1
<1>3. /\ p \in Proc /\ OthersKeep(p) /\ hand[w] \in Entry
  BY MarkDoneFailureFacts
<1>4. S \in SUBSET Entry
  <2>1. active[p][t] \in Running /\ t \in Task
    BY <1>1, <1>3 DEF TypeInv, TypeOK, Entry
  <2> QED BY <2>1 DEF Entry, Running
<1>5. Retried(S) \in SUBSET Entry /\ \A c, d \in Retried(S) : c = d
  <2>1. Retried(S) \in SUBSET Entry
    BY <1>4, RetriedFacts
  <2>2. \A c, d \in S : c = d
    OBVIOUS
  <2> HIDE DEF S
  <2>3. \A c, d \in Retried(S) : c = d
    BY <2>2 DEF Retried
  <2> QED BY <2>1, <2>3
<1> HIDE DEF S, t
<1>6. OnlyWakes(pc) /\ \A v \in Worker : Home[v] # p => pc[v] = wpc[v]
  <2>1. \A v \in Worker : Home[v] # p => pc[v] = wpc[v]
    BY <1>2 DEF NotifyOne, Notified, Sleepers
  <2> QED BY <1>2, <2>1, NotifyFacts DEF TypeInv
<1>7. \A v \in Worker : wpc'[v] = pc[v] \/ (wpc[v] = "running" /\ wpc'[v] = "idle")
  BY <1>1, <1>2, <1>6 DEF OnlyWakes
<1> HIDE DEF p
<1>8. CASE q # p
  <2>1. ThreadsKeep(q)
    BY <1>6, <1>7, <1>8 DEF ThreadsKeep
  <2> QED BY <1>3, <1>8, <2>1, WakeKeep DEF OthersKeep
<1>9. CASE q = p /\ Retried(S) = {}
  <2>1. ThreadsKeep(q)
    BY <1>2, <1>7, <1>9 DEF ThreadsKeep
  <2>2. heap'[p] = heap[p] /\ forefront'[p] = forefront[p]
    BY <1>1, <1>3, <1>9, NothingAdded DEF TypeInv
  <2> QED BY <1>9, <2>1, <2>2, WakeKeep
<1>10. CASE q = p /\ Retried(S) # {}
  <2>1. PICK e \in Entry : Retried(S) = {e}
    BY <1>5, <1>10
  <2>2. QueueSize(p)' = QueueSize(p) + 1
    BY <1>1, <1>3, <2>1, AddedSize DEF TypeInv
  <2>3. pc \in NotifyOne(p)
    BY <1>2, <1>10
  <2> HIDE DEF QueueSize
  <2> QED BY <1>3, <1>7, <1>10, <2>2, <2>3, WakeOne DEF TypeInv
<1> QED BY <1>8, <1>9, <1>10

\* Only threads of p are woken.
OnlyWakesOf(p) == \A v \in Worker : Home[v] # p => wpc'[v] = wpc[v]

\* Every step keeps enough threads awake.
LEMMA WakeStep == TypeInv /\ NoLostWakeup /\ [Next]_vars => NoLostWakeup'
<1>1. SUFFICES ASSUME TypeInv, NoLostWakeup, [Next]_vars, NEW q \in Proc PROVE AwakeEnough(q)'
  BY DEF NoLostWakeup, AwakeEnough
<1>2. AwakeEnough(q)
  BY <1>1 DEF NoLostWakeup, AwakeEnough
<1>3. ASSUME NEW w \in Worker, WorkerNext(w) PROVE AwakeEnough(q)'
  <2>1. Home[w] \in Proc
    BY QueueAssumption DEF QueueAssumption
  <2>2. ASSUME NEW e, wpc[w] \in {"idle", "sleeping", "notified"}, Take(w, e) PROVE AwakeEnough(q)'
    <3>1. CASE q = Home[w]
      BY <1>1, <1>2, <2>2, <3>1, WakeTake
    <3>2. CASE q # Home[w]
      <4>1. ThreadsKeep(q) /\ heap'[q] = heap[q] /\ forefront'[q] = forefront[q]
        BY <1>1, <2>2, <3>2, TakeFacts DEF ThreadsKeep, OthersKeep
      <4> QED BY <1>2, <4>1, WakeKeep
    <3> QED BY <3>1, <3>2
  <2>3. CASE Get(w) \/ GetWakes(w)
    BY <2>2, <2>3 DEF Get, GetWakes
  <2>4. CASE Waits(w)
    <3>1. /\ heap'[q] = heap[q] /\ forefront'[q] = forefront[q]
          /\ Deliverable(Home[w]) = {}
          /\ \A v \in Worker : v # w => wpc'[v] = wpc[v]
      BY <1>1, <2>4, WaitsFacts DEF memory, Waits, GetBlocks, GetSleepsAgain, GetTimesOut, TypeInv, TypeOK
    <3>2. CASE q = Home[w]
      <4>1. QueueSize(q) = 0 /\ QueueSize(q)' = QueueSize(q)
        BY <1>1, <2>1, <3>1, <3>2, NothingToDeliver, QueueSizeIs DEF TypeInv
      <4>2. Cardinality(Woken(q)') \in Nat
        <5>1. Woken(q)' \subseteq Worker /\ IsFiniteSet(Worker)
          BY QueueAssumption DEF QueueAssumption, Woken
        <5> QED BY <5>1, FS_Subset, FS_CardinalityType
      <4>3. QueueSize(q)' <= Cardinality(Woken(q)')
        BY <4>1, <4>2
      <4> QED BY <4>3 DEF AwakeEnough
    <3>3. CASE q # Home[w]
      <4>1. ThreadsKeep(q)
        BY <3>1, <3>3 DEF ThreadsKeep
      <4> QED BY <1>2, <3>1, <4>1, WakeKeep
    <3> QED BY <3>2, <3>3
  <2>5. CASE MarkActive(w)
    <3>1. ThreadsKeep(q) /\ heap' = heap /\ forefront' = forefront
      BY <2>5, <1>1 DEF MarkActive, ThreadsKeep, TypeInv, TypeOK
    <3> QED BY <1>2, <3>1, WakeKeep
  <2>6. CASE MarkDoneSuccess(w) \/ \E success \in BOOLEAN : MarkDoneUnknown(w, success)
    <3>1. ThreadsKeep(q) /\ heap' = heap /\ forefront' = forefront
      BY <2>6, <1>1 DEF MarkDoneSuccess, MarkDoneUnknown, ThreadsKeep, TypeInv, TypeOK, memory
    <3> QED BY <1>2, <3>1, WakeKeep
  <2>7. CASE MarkDoneFailure(w)
    BY <1>1, <1>2, <2>1, <2>7, WakeFailure
  <2> QED BY <1>3, <2>3, <2>4, <2>5, <2>6, <2>7 DEF WorkerNext, Waits
<1>4. ASSUME NEW p \in Proc, ProcNext(p) PROVE AwakeEnough(q)'
  <2>1. ASSUME OthersKeep(p), q # p, OnlyWakesOf(p) PROVE AwakeEnough(q)'
    <3>1. ThreadsKeep(q)
      BY <2>1 DEF OnlyWakesOf, ThreadsKeep
    <3> QED BY <1>2, <2>1, <3>1, WakeKeep DEF OthersKeep
  <2>2. ASSUME wpc' \in NotifyOne(p) \/ wpc' = NotifyAll(p) PROVE OnlyWakes(wpc') /\ OnlyWakesOf(p)
    <3>1. OnlyWakesOf(p)
      BY <2>2 DEF NotifyOne, NotifyAll, Notified, Sleepers, OnlyWakesOf
    <3> QED BY <1>1, <2>2, <3>1, NotifyFacts DEF TypeInv
  <2>3. ASSUME NEW t \in Task, PutOne(p, t) PROVE AwakeEnough(q)'
    BY <1>1, <1>2, <2>1, <2>2, <2>3, WakePut, PutFacts DEF PutOne
  <2>4. ASSUME NEW B \in SUBSET Task, PutBatch(p, B) PROVE AwakeEnough(q)'
    BY <1>1, <2>1, <2>2, <2>4, WakeAll, PutFacts DEF PutBatch, TypeInv
  <2>5. CASE ReclaimStale(p)
    BY <1>1, <2>1, <2>2, <2>5, WakeAll, ReclaimStaleFacts DEF TypeInv
  <2>6. CASE Shutdown(p)
    <3>1. wpc' = NotifyAll(p) /\ OthersKeep(p)
      BY <2>6 DEF Shutdown, OthersKeep
    <3> QED BY <1>1, <2>1, <2>2, <3>1, WakeAll DEF TypeInv
  <2>7. ASSUME Emptied(p), \A v \in Worker : Home[v] # p => wpc'[v] = wpc[v] PROVE AwakeEnough(q)'
    <3>1. OthersKeep(p) /\ OnlyWakesOf(p)
      BY <1>1, <2>7, EmptiedFacts DEF OnlyWakesOf, TypeInv
    <3>2. CASE q = p
      <4>1. heap'[p] = EmptyHeap /\ forefront'[p] = <<>>
        BY <1>1, <2>7 DEF Emptied, TypeInv, TypeOK
      <4>2. EmptyHeap \in [Entry -> Nat] /\ HeapSet(EmptyHeap) = {}
        BY DEF EmptyHeap, HeapSet
      <4>3. QueueSize(q)' = 0
        BY <3>2, <4>1, <4>2, SizeOfNothing, QueueSizeIs
      <4>4. Cardinality(Woken(q)') \in Nat
        <5>1. Woken(q)' \subseteq Worker /\ IsFiniteSet(Worker)
          BY QueueAssumption DEF QueueAssumption, Woken
        <5> QED BY <5>1, FS_Subset, FS_CardinalityType
      <4>5. QueueSize(q)' <= Cardinality(Woken(q)')
        BY <4>3, <4>4
      <4> QED BY <4>5 DEF AwakeEnough
    <3> QED BY <2>1, <3>1, <3>2
  <2>8. CASE Clear(p)
    BY <2>7, <2>8 DEF Clear, Emptied, worker
  <2>9. CASE Reset(p)
    BY <2>7, <2>9 DEF Reset, Emptied, worker
  <2>10. CASE Crash(p)
    <3>1. Emptied(p) /\ \A v \in Worker : Home[v] # p => wpc'[v] = wpc[v]
      BY <2>10 DEF Crash, Emptied
    <3> QED BY <2>7, <3>1
  <2> QED BY <1>4, <2>3, <2>4, <2>5, <2>6, <2>8, <2>9, <2>10 DEF ProcNext
<1>5. CASE Tick \/ UNCHANGED vars
  <2>1. ThreadsKeep(q) /\ heap' = heap /\ forefront' = forefront
    BY <1>5 DEF Tick, ThreadsKeep, vars, memory, worker
  <2> QED BY <1>2, <2>1, WakeKeep
<1> QED BY <1>1, <1>3, <1>4, <1>5 DEF Next

\* No thread sleeps in get() while its queue holds more items than there are
\* threads awake to fetch them, though put() and a retry notify only one.
THEOREM WakeupsReach == Spec => []NoLostWakeup
<1>1. Init => NoLostWakeup
  <2>1. Init => \A p \in Proc : Sleepers(p) = {}
    BY DEF Init, Sleepers
  <2> QED BY <2>1 DEF NoLostWakeup
<1>2. Init => TypeInv
  BY TypeInit
<1>3. TypeInv /\ [Next]_vars => TypeInv'
  BY TypeStep
<1>4. TypeInv /\ NoLostWakeup /\ [Next]_vars => NoLostWakeup'
  BY WakeStep
<1> QED BY <1>1, <1>2, <1>3, <1>4, PTL DEF Spec

-----------------------------------------------------------------------------
(* Where a task is, while Redis works. *)

\* A task nobody has put is nowhere.
NewNowhere ==
    \A t \in Task : fate[t] = "new" => redisActive[t] = None /\ \A p \in Proc : t \notin Known(p)

\* A task a worker is running was put; while it is neither finished nor given
\* up, its process still knows it (if only as a retry of it).
RunningKnown ==
    \A w \in Worker : wpc[w] = "running" =>
        /\ fate[hand[w].task] # "new"
        /\ fate[hand[w].task] = "accepted" => hand[w].task \in Known(Home[w])

Placed == NewNowhere /\ RunningKnown

\* A step that hands nothing over, makes nothing new, and keeps known what is
\* accepted.
LEMMA PlacedKept ==
    ASSUME TypeInv, TypeInv', Placed, SameHands,
           \A t \in Task :
             /\ fate'[t] = "new" => fate[t] = "new" /\ redisActive'[t] \in {redisActive[t], None}
             /\ fate'[t] = "accepted" => fate[t] \in {"accepted", "new"}
             /\ \A q \in Proc : /\ fate'[t] = "new" /\ t \in Known(q)' => t \in Known(q)
                                /\ fate'[t] = "accepted" /\ t \in Known(q) => t \in Known(q)'
    PROVE  Placed'
<1>1. NewNowhere'
  BY DEF Placed, NewNowhere
<1>2. RunningKnown'
  <2>1. SUFFICES ASSUME NEW w \in Worker, wpc'[w] = "running"
                 PROVE  /\ fate'[hand'[w].task] # "new"
                        /\ fate'[hand'[w].task] = "accepted" => hand'[w].task \in Known(Home[w])'
    BY DEF RunningKnown
  <2>2. wpc[w] = "running" /\ hand'[w] = hand[w] /\ hand[w].task \in Task
    BY <2>1 DEF SameHands, TypeInv, HandsFull, Entry
  <2>3. Home[w] \in Proc
    BY QueueAssumption DEF QueueAssumption
  <2> QED BY <2>2, <2>3 DEF Placed, RunningKnown
<1> QED BY <1>1, <1>2 DEF Placed

\* Known in its three parts, before and after a step.
LEMMA KnownIs ==
    \A q : /\ Known(q) = QueuedTasks(q) \cup ActiveTasks(q) \cup HeldTasks(q)
           /\ Known(q)' = QueuedTasks(q)' \cup ActiveTasks(q)' \cup HeldTasks(q)'
           /\ ActiveTasks(q) = {t \in Task : active[q][t] # None}
           /\ ActiveTasks(q)' = {t \in Task : active'[q][t] # None}
BY DEF Known, ActiveTasks

\* A step that changes the queue and the running tasks of p alone.
LEMMA KnownElsewhere ==
    ASSUME NEW p, NEW q \in Proc, q # p, OthersKeep(p), SameHands, active'[q] = active[q]
    PROVE  QueuedTasks(q)' = QueuedTasks(q) /\ Known(q)' = Known(q)
BY KnownIs, HeldKept, QueuesKept DEF OthersKeep

\* A task a worker takes, or marks active, is known before and after.
LEMMA KnownTake ==
    ASSUME TypeInv, NEW w \in Worker, wpc[w] \in {"idle", "sleeping", "notified"}, NEW e, Take(w, e),
           NEW q \in Proc
    PROVE  Known(q)' = Known(q)
<1>1. /\ OthersKeep(Home[w])
      /\ QueuedTasks(Home[w]) = QueuedTasks(Home[w])' \cup {e.task}
      /\ \A r : HeldTasks(r)' = IF r = Home[w] THEN HeldTasks(r) \cup {e.task} ELSE HeldTasks(r)
  BY TakeFacts
<1>2. active' = active
  BY DEF Take
<1>3. CASE q = Home[w]
  BY <1>1, <1>2, <1>3, KnownIs
<1>4. CASE q # Home[w]
  <2>1. QueuedTasks(q)' = QueuedTasks(q)
    BY <1>1, <1>4, QueuesKept DEF OthersKeep
  <2> QED BY <1>1, <1>2, <1>4, <2>1, KnownIs
<1> QED BY <1>3, <1>4

\* mark_active moves a task within what its process knows.
LEMMA KnownMarkActive ==
    ASSUME TypeInv, NEW w \in Worker, MarkActive(w), NEW q \in Proc
    PROVE  QueuedTasks(q)' = QueuedTasks(q) /\ Known(q)' = Known(q)
<1> DEFINE t == hand[w].task
           p == Home[w]
           item == [retry |-> hand[w].retry, started |-> now]
<1>1. /\ hand[w] \in Entry /\ p \in Proc
      /\ active'[p][t] = item /\ item \in Running
      /\ \A r \in Proc, u \in Task : r # p \/ u # t => active'[r][u] = active[r][u]
      /\ \A r : r # p => HeldTasks(r)' = HeldTasks(r)
      /\ HeldTasks(p) = HeldTasks(p)' \cup {t}
      /\ heap' = heap /\ forefront' = forefront
  BY MarkActiveFacts
<1>2. t \in Task /\ item # None
  BY <1>1, QueueAssumption DEF Entry, QueueAssumption
<1> HIDE DEF t, p, item
<1>3. QueuedTasks(q)' = QueuedTasks(q)
  BY <1>1, QueuesKept
<1>4. CASE q = p
  <2>1. ActiveTasks(q)' = ActiveTasks(q) \cup {t}
    BY <1>1, <1>2, <1>4, KnownIs
  <2>2. HeldTasks(q) = HeldTasks(q)' \cup {t}
    BY <1>1, <1>4
  <2> QED BY <1>3, <2>1, <2>2, KnownIs
<1>5. CASE q # p
  <2>1. ActiveTasks(q)' = ActiveTasks(q)
    BY <1>1, <1>5, KnownIs
  <2> QED BY <1>1, <1>3, <1>5, <2>1, KnownIs
<1> QED BY <1>3, <1>4, <1>5

\* get moves a task within what its process knows.
LEMMA PlacedTake ==
    ASSUME TypeInv, Placed, NEW w \in Worker, wpc[w] \in {"idle", "sleeping", "notified"}, NEW e, Take(w, e)
    PROVE  Placed'
<1>1. /\ TypeInv' /\ OthersKeep(Home[w]) /\ e \in Entry /\ Home[w] \in Proc
      /\ QueuedTasks(Home[w]) = QueuedTasks(Home[w])' \cup {e.task}
      /\ \A q : HeldTasks(q)' = IF q = Home[w] THEN HeldTasks(q) \cup {e.task} ELSE HeldTasks(q)
      /\ hand'[w] = e /\ \A v \in Worker : v # w => hand'[v] = hand[v] /\ wpc'[v] = wpc[v]
  BY TakeFacts
<1>2. active' = active /\ redisActive' = redisActive /\ fate' = fate /\ wpc'[w] = "holding"
  BY DEF Take, TypeInv, TypeOK
<1>3. \A q \in Proc : Known(q)' = Known(q)
  BY KnownTake
<1>4. NewNowhere'
  BY <1>2, <1>3 DEF Placed, NewNowhere
<1>5. RunningKnown'
  <2>1. \A v \in Worker : wpc'[v] = "running" => wpc[v] = "running" /\ hand'[v] = hand[v] /\ Home[v] \in Proc
    BY <1>1, <1>2, QueueAssumption DEF QueueAssumption
  <2> QED BY <1>2, <1>3, <2>1 DEF Placed, RunningKnown
<1> QED BY <1>4, <1>5 DEF Placed

\* A worker that begins to run a task has it in _active.
LEMMA PlacedMarkActive ==
    ASSUME TypeInv, Placed, ~RedisMayFail, NEW w \in Worker, MarkActive(w)
    PROVE  Placed'
<1> DEFINE t == hand[w].task
           p == Home[w]
           item == [retry |-> hand[w].retry, started |-> now]
<1>1. /\ TypeInv' /\ hand[w] \in Entry /\ p \in Proc /\ w \in Holders(p)
      /\ active'[p][t] = item /\ item \in Running
      /\ \A q \in Proc, u \in Task : q # p \/ u # t => active'[q][u] = active[q][u]
      /\ redisActive' = [redisActive EXCEPT ![t] = item]
      /\ wpc'[w] = "running" /\ hand' = hand
      /\ \A v \in Worker : v # w => wpc'[v] = wpc[v]
      /\ \A q : q # p => HeldTasks(q)' = HeldTasks(q)
      /\ HeldTasks(p) = HeldTasks(p)' \cup {t}
      /\ heap' = heap /\ forefront' = forefront /\ fate' = fate
  BY MarkActiveFacts
<1>2. t \in Task /\ item # None
  BY <1>1, QueueAssumption DEF Entry, QueueAssumption
<1> HIDE DEF t, p, item
<1>3. \A q \in Proc : Known(q)' = Known(q)
  BY KnownMarkActive
<1>4. t \in Known(p) /\ fate[t] # "new"
  <2>1. t \in Known(p)
    BY <1>1, KnownIs
  <2> QED BY <1>1, <1>2, <2>1 DEF Placed, NewNowhere
<1>5. NewNowhere'
  BY <1>1, <1>2, <1>3, <1>4 DEF Placed, NewNowhere, TypeInv, TypeOK
<1>6. RunningKnown'
  <2>1. \A v \in Worker : wpc'[v] = "running" => v = w \/ wpc[v] = "running"
    BY <1>1
  <2>2. \A v \in Worker : Home[v] \in Proc
    BY QueueAssumption DEF QueueAssumption
  <2> QED BY <1>1, <1>3, <1>4, <2>1, <2>2 DEF Placed, RunningKnown, t, p
<1> QED BY <1>5, <1>6 DEF Placed

\* What is accepted is no longer new.
LEMMA PlacedPut ==
    ASSUME TypeInv, Placed, NEW p \in Proc, NEW B \in SUBSET Task, Put(p, B), OnlyWakes(wpc')
    PROVE  Placed'
<1>1. PICK acc \in SUBSET B :
        /\ \A t \in acc : fate[t] = "new"
        /\ QueuedTasks(p)' = QueuedTasks(p) \cup acc
        /\ fate' = [t \in Task |-> IF t \in acc THEN "accepted" ELSE fate[t]]
  BY PutFacts
<1>2. TypeInv' /\ SameHands /\ OthersKeep(p)
  BY PutFacts
<1>3. active' = active /\ redisActive' = redisActive
  BY DEF Put
<1>4. \A q \in Proc : Known(q)' = IF q = p THEN Known(q) \cup acc ELSE Known(q)
  <2>1. SUFFICES ASSUME NEW q \in Proc PROVE Known(q)' = IF q = p THEN Known(q) \cup acc ELSE Known(q)
    OBVIOUS
  <2>2. CASE q = p
    <3>1. QueuedTasks(q)' = QueuedTasks(q) \cup acc
      BY <1>1, <2>2
    <3>2. HeldTasks(q)' = HeldTasks(q)
      BY <1>2, HeldKept
    <3> QED BY <1>3, <2>2, <3>1, <3>2, KnownIs
  <2>3. CASE q # p
    BY <1>2, <1>3, <2>3, KnownElsewhere
  <2> QED BY <2>2, <2>3
<1>5. ASSUME NEW t \in Task
      PROVE  /\ fate'[t] = "new" => fate[t] = "new" /\ t \notin acc
             /\ fate'[t] = "accepted" => fate[t] \in {"accepted", "new"}
  BY <1>1
<1> QED BY <1>2, <1>3, <1>4, <1>5, PlacedKept

\* A report that ends a task settles it, and one of an unknown task keeps the
\* rest.
LEMMA PlacedReport ==
    ASSUME TypeInv, Placed, ~RedisMayFail, NEW w \in Worker,
           MarkDoneSuccess(w) \/ \E success \in BOOLEAN : MarkDoneUnknown(w, success)
    PROVE  Placed'
<1> DEFINE t == hand[w].task
           p == Home[w]
<1>1. /\ TypeInv' /\ SameHands /\ t \in Task /\ p \in Proc
      /\ heap' = heap /\ forefront' = forefront
      /\ redisActive' = [redisActive EXCEPT ![t] = None]
      /\ \/ active' = active /\ fate' = fate
         \/ active' = active /\ fate' = [fate EXCEPT ![t] = "done"]
         \/ active' = [active EXCEPT ![p][t] = None] /\ fate' = [fate EXCEPT ![t] = "done"]
  <2>1. CASE MarkDoneSuccess(w)
    BY <2>1, MarkDoneSuccessFacts DEF Entry
  <2>2. ASSUME NEW success \in BOOLEAN, MarkDoneUnknown(w, success)
        PROVE  /\ TypeInv' /\ SameHands /\ t \in Task /\ p \in Proc
               /\ heap' = heap /\ forefront' = forefront /\ active' = active
               /\ redisActive' = [redisActive EXCEPT ![t] = None]
               /\ fate' = fate \/ fate' = [fate EXCEPT ![t] = "done"]
    BY <2>2, MarkDoneUnknownFacts DEF Entry, memory
  <2> QED BY <2>1, <2>2
<1> HIDE DEF t, p
<1>2. ASSUME NEW q \in Proc
      PROVE  Known(q)' \subseteq Known(q) /\ \A u \in Known(q) : u \in Known(q)' \/ (u = t /\ fate'[t] = "done")
  <2>1. QueuedTasks(q)' = QueuedTasks(q) /\ HeldTasks(q)' = HeldTasks(q)
    BY <1>1, HeldKept, QueuesKept
  <2>2. /\ ActiveTasks(q)' \subseteq ActiveTasks(q)
        /\ \A u \in ActiveTasks(q) : u \in ActiveTasks(q)' \/ (u = t /\ fate'[t] = "done")
    BY <1>1, KnownIs DEF TypeInv, TypeOK
  <2> QED BY <2>1, <2>2, KnownIs
<1>3. ASSUME NEW u \in Task
      PROVE  /\ fate'[u] = fate[u] \/ (u = t /\ fate'[u] = "done")
             /\ redisActive'[u] \in {redisActive[u], None}
  BY <1>1 DEF TypeInv, TypeOK
<1>4. ASSUME NEW u \in Task
      PROVE  /\ fate'[u] = "new" => fate[u] = "new" /\ redisActive'[u] \in {redisActive[u], None}
             /\ fate'[u] = "accepted" => fate[u] \in {"accepted", "new"}
             /\ \A q \in Proc : /\ fate'[u] = "new" /\ u \in Known(q)' => u \in Known(q)
                                /\ fate'[u] = "accepted" /\ u \in Known(q) => u \in Known(q)'
  <2>1. "done" # "new" /\ "done" # "accepted"
    OBVIOUS
  <2> QED BY <1>2, <1>3, <2>1
<1> QED BY <1>1, <1>4, PlacedKept

\* A failed task is queued again or given up, whoever else runs it.
LEMMA PlacedFailure ==
    ASSUME TypeInv, Placed, ~RedisMayFail, NEW w \in Worker, MarkDoneFailure(w)
    PROVE  Placed'
<1> DEFINE t == hand[w].task
           p == Home[w]
<1>1. /\ TypeInv' /\ SameHands /\ OthersKeep(p)
      /\ hand[w] \in Entry /\ p \in Proc /\ active[p][t] # None
      /\ active' = [active EXCEPT ![p][t] = None]
      /\ redisActive' = [redisActive EXCEPT ![t] = None]
      /\ \E R, G \in SUBSET {t} :
           /\ R \cup G = {t}
           /\ QueuedTasks(p)' = QueuedTasks(p) \cup R
           /\ fate' = Dropped(G)
  BY MarkDoneFailureFacts
<1>2. PICK R \in SUBSET {t}, G \in SUBSET {t} :
           R \cup G = {t} /\ QueuedTasks(p)' = QueuedTasks(p) \cup R /\ fate' = Dropped(G)
  BY <1>1
<1>3. t \in Task /\ t \in Known(p)
  BY <1>1, KnownIs DEF Entry
<1>4. fate[t] # "new"
  BY <1>1, <1>3 DEF Placed, NewNowhere
<1> HIDE DEF t, p
<1>5. ASSUME NEW q \in Proc
      PROVE  Known(q)' \subseteq Known(q) /\ \A u \in Known(q) : u \in Known(q)' \/ u \in G
  <2>1. CASE q = p
    <3>1. HeldTasks(q)' = HeldTasks(q) /\ QueuedTasks(q)' = QueuedTasks(q) \cup R
      BY <1>1, <1>2, <2>1, HeldKept
    <3>2. ActiveTasks(q)' = ActiveTasks(q) \ {t}
      BY <1>1, <1>3, <2>1, KnownIs DEF TypeInv, TypeOK
    <3> QED BY <1>2, <1>3, <2>1, <3>1, <3>2, KnownIs
  <2>2. CASE q # p
    <3>1. active'[q] = active[q]
      BY <1>1, <2>2 DEF TypeInv, TypeOK
    <3> QED BY <1>1, <2>2, <3>1, KnownElsewhere
  <2> QED BY <2>1, <2>2
<1>6. ASSUME NEW u \in Task
      PROVE  /\ fate'[u] = IF u \in G /\ fate[u] # "done" THEN "dropped" ELSE fate[u]
             /\ redisActive'[u] \in {redisActive[u], None}
  BY <1>1, <1>2 DEF TypeInv, TypeOK, Dropped
<1>7. ASSUME NEW u \in Task
      PROVE  /\ fate'[u] = "new" => fate[u] = "new" /\ redisActive'[u] \in {redisActive[u], None}
             /\ fate'[u] = "accepted" => fate[u] \in {"accepted", "new"}
             /\ \A q \in Proc : /\ fate'[u] = "new" /\ u \in Known(q)' => u \in Known(q)
                                /\ fate'[u] = "accepted" /\ u \in Known(q) => u \in Known(q)'
  <2>1. "dropped" # "new" /\ "dropped" # "accepted" /\ "done" # "accepted"
    OBVIOUS
  <2> QED BY <1>5, <1>6, <2>1
<1> QED BY <1>1, <1>7, PlacedKept

\* The same for reclaimed tasks.
LEMMA PlacedReclaim ==
    ASSUME TypeInv, Placed, NEW p \in Proc, ReclaimStale(p)
    PROVE  Placed'
<1>1. TypeInv' /\ SameHands /\ OthersKeep(p)
  BY ReclaimStaleFacts
<1>2. PICK gone, seen, gone2, R, Q, G \in SUBSET Task : Reclaims(p, gone, seen, gone2, R, Q, G)
  BY ReclaimStaleFacts
<1> DEFINE here == StaleHere(p)
<1>3. /\ seen \subseteq StaleInRedis(p, Left(gone))
      /\ R \subseteq here /\ Q \subseteq seen /\ R \cup Q \cup G = here \cup seen
      /\ active' = [active EXCEPT ![p] = [t \in Task |-> IF t \in here THEN None ELSE @[t]]]
      /\ redisActive' = [t \in Task |-> IF t \in gone2 THEN None ELSE Left(gone)[t]]
      /\ QueuedTasks(p)' = QueuedTasks(p) \cup R \cup Q
      /\ fate' = Dropped(G)
  BY <1>2 DEF Reclaims
<1>4. here \subseteq ActiveTasks(p) /\ \A t \in seen : redisActive[t] # None
  BY <1>3 DEF StaleHere, StaleInRedis, Left
<1> HIDE DEF here
<1>5. \A t \in here \cup seen : fate[t] # "new"
  <2>1. \A t \in here : t \in Known(p) /\ t \in Task
    BY <1>4, KnownIs
  <2> QED BY <1>4, <2>1 DEF Placed, NewNowhere
<1>6. ASSUME NEW q \in Proc
      PROVE  \A u \in Task : /\ u \in Known(q)' => u \in Known(q) \/ u \in here \cup seen
                             /\ u \in Known(q) => u \in Known(q)' \/ u \in G
  <2>1. CASE q = p
    <3>1. HeldTasks(q)' = HeldTasks(q) /\ QueuedTasks(q)' = QueuedTasks(q) \cup R \cup Q
      BY <1>1, <1>3, <2>1, HeldKept
    <3>2. ActiveTasks(q)' = ActiveTasks(q) \ here
      <4>1. \A t \in Task : active'[p][t] = IF t \in here THEN None ELSE active[p][t]
        BY <1>3 DEF TypeInv, TypeOK
      <4> QED BY <2>1, <4>1, KnownIs
    <3> QED BY <1>3, <3>1, <3>2, KnownIs
  <2>2. CASE q # p
    <3>1. active'[q] = active[q]
      BY <1>3, <2>2 DEF TypeInv, TypeOK
    <3> QED BY <1>1, <2>2, <3>1, KnownElsewhere
  <2> QED BY <2>1, <2>2
<1>7. ASSUME NEW u \in Task
      PROVE  /\ fate'[u] = IF u \in G /\ fate[u] # "done" THEN "dropped" ELSE fate[u]
             /\ redisActive'[u] \in {redisActive[u], None}
  BY <1>3 DEF TypeInv, TypeOK, Dropped, Left
<1>8. ASSUME NEW u \in Task
      PROVE  /\ fate'[u] = "new" => fate[u] = "new" /\ redisActive'[u] \in {redisActive[u], None}
             /\ fate'[u] = "accepted" => fate[u] \in {"accepted", "new"}
             /\ \A q \in Proc : /\ fate'[u] = "new" /\ u \in Known(q)' => u \in Known(q)
                                /\ fate'[u] = "accepted" /\ u \in Known(q) => u \in Known(q)'
  <2>1. "dropped" # "new" /\ "dropped" # "accepted" /\ "done" # "accepted" /\ "done" # "new"
    OBVIOUS
  <2>2. fate'[u] = "new" => fate[u] = "new" /\ u \notin here \cup seen
    BY <1>5, <1>7, <2>1
  <2>3. fate'[u] = "accepted" => fate[u] = "accepted" /\ u \notin G
    BY <1>7, <2>1
  <2> QED BY <1>6, <1>7, <2>2, <2>3
<1> QED BY <1>1, <1>8, PlacedKept

\* clear and reset: what they remove is settled by them.
LEMMA PlacedAdmin ==
    ASSUME TypeInv, Placed, NEW p \in Proc, Clear(p) \/ Reset(p)
    PROVE  Placed'
<1>1. /\ TypeInv' /\ SameHands /\ OthersKeep(p) /\ QueuedTasks(p)' = {}
      /\ redisActive' = redisActive \/ redisActive' = EmptyActive
      /\ \/ active' = active /\ fate' = Cleared(QueuedTasks(p))
         \/ /\ active' = [active EXCEPT ![p] = EmptyActive]
            /\ fate' = Cleared(QueuedTasks(p) \cup {t \in Task : redisActive'[t] # redisActive[t]} \cup ActiveTasks(p))
  <2>1. CASE Clear(p)
    BY <2>1, ClearFacts
  <2>2. CASE Reset(p)
    BY <2>2, ResetFacts
  <2> QED BY <2>1, <2>2
<1>2. ASSUME NEW q \in Proc
      PROVE  \A u \in Task : /\ u \in Known(q)' => u \in Known(q)
                             /\ u \in Known(q) => u \in Known(q)' \/ fate'[u] # "accepted"
  <2>1. CASE q = p
    <3>1. HeldTasks(q)' = HeldTasks(q) /\ QueuedTasks(q)' = {}
      BY <1>1, <2>1, HeldKept
    <3>2. CASE active' = active /\ fate' = Cleared(QueuedTasks(p))
      <4>1. \A u \in Task : u \in QueuedTasks(p) => fate'[u] # "accepted"
        BY <3>2 DEF Cleared
      <4> QED BY <2>1, <3>1, <3>2, <4>1, KnownIs
    <3>3. CASE /\ active' = [active EXCEPT ![p] = EmptyActive]
               /\ fate' = Cleared(QueuedTasks(p) \cup {t \in Task : redisActive'[t] # redisActive[t]} \cup ActiveTasks(p))
      <4>1. \A u \in Task : u \in QueuedTasks(p) \cup ActiveTasks(p) => fate'[u] # "accepted"
        BY <3>3 DEF Cleared
      <4>2. ActiveTasks(p)' = {}
        <5>1. \A u \in Task : active'[p][u] = None
          BY <3>3 DEF TypeInv, TypeOK, EmptyActive
        <5> QED BY <5>1, KnownIs
      <4> QED BY <2>1, <3>1, <4>1, <4>2, KnownIs
    <3> QED BY <1>1, <3>2, <3>3
  <2>2. CASE q # p
    <3>1. active'[q] = active[q]
      BY <1>1, <2>2 DEF TypeInv, TypeOK
    <3> QED BY <1>1, <2>2, <3>1, KnownElsewhere
  <2> QED BY <2>1, <2>2
<1>3. ASSUME NEW u \in Task
      PROVE  /\ fate'[u] \in {fate[u], "cleared"}
             /\ redisActive'[u] \in {redisActive[u], None}
  BY <1>1 DEF TypeInv, TypeOK, Cleared, EmptyActive
<1>4. ASSUME NEW u \in Task
      PROVE  /\ fate'[u] = "new" => fate[u] = "new" /\ redisActive'[u] \in {redisActive[u], None}
             /\ fate'[u] = "accepted" => fate[u] \in {"accepted", "new"}
             /\ \A q \in Proc : /\ fate'[u] = "new" /\ u \in Known(q)' => u \in Known(q)
                                /\ fate'[u] = "accepted" /\ u \in Known(q) => u \in Known(q)'
  <2>1. "cleared" # "new" /\ "cleared" # "accepted"
    OBVIOUS
  <2> QED BY <1>2, <1>3, <2>1
<1> QED BY <1>1, <1>4, PlacedKept

\* A crash takes the workers that ran the tasks it forgets.
LEMMA PlacedCrash ==
    ASSUME TypeInv, Placed, NEW p \in Proc, Crash(p)
    PROVE  Placed'
<1>1. /\ TypeInv' /\ OthersKeep(p) /\ QueuedTasks(p)' = {}
      /\ active' = [active EXCEPT ![p] = EmptyActive]
      /\ \A w \in Worker : IF Home[w] = p THEN wpc'[w] = "idle"
                           ELSE wpc'[w] = wpc[w] /\ hand'[w] = hand[w]
      /\ HeldTasks(p)' = {} /\ \A q : q # p => HeldTasks(q)' = HeldTasks(q)
      /\ fate' = [t \in Task |-> IF t \in QueuedTasks(p) \cup HeldTasks(p) /\ fate[t] = "accepted"
                                 THEN "lost" ELSE fate[t]]
      /\ redisActive' = redisActive
  BY CrashFacts DEF redis
<1>2. \A q \in Proc : q # p => Known(q)' = Known(q)
  <2>1. SUFFICES ASSUME NEW q \in Proc, q # p PROVE Known(q)' = Known(q)
    OBVIOUS
  <2>2. QueuedTasks(q)' = QueuedTasks(q)
    BY <1>1, <2>1, QueuesKept DEF OthersKeep
  <2>3. active'[q] = active[q]
    BY <1>1, <2>1 DEF TypeInv, TypeOK
  <2> QED BY <1>1, <2>1, <2>2, <2>3, KnownIs
<1>3. \A u \in Task : u \notin Known(p)'
  <2>1. \A u \in Task : active'[p][u] = None
    BY <1>1 DEF TypeInv, TypeOK, EmptyActive
  <2> QED BY <1>1, <2>1, KnownIs
<1>4. \A u \in Task : fate'[u] \in {fate[u], "lost"}
  BY <1>1
<1>5. NewNowhere'
  BY <1>1, <1>2, <1>3, <1>4 DEF Placed, NewNowhere
<1>6. RunningKnown'
  <2>1. SUFFICES ASSUME NEW w \in Worker, wpc'[w] = "running"
                 PROVE  /\ fate'[hand'[w].task] # "new"
                        /\ fate'[hand'[w].task] = "accepted" => hand'[w].task \in Known(Home[w])'
    BY DEF RunningKnown
  <2>2. Home[w] # p /\ wpc[w] = "running" /\ hand'[w] = hand[w] /\ hand[w].task \in Task
    BY <1>1, <2>1 DEF TypeInv, HandsFull, Entry
  <2>3. Home[w] \in Proc
    BY QueueAssumption DEF QueueAssumption
  <2> QED BY <1>2, <1>4, <2>2, <2>3 DEF Placed, RunningKnown
<1> QED BY <1>5, <1>6 DEF Placed

\* Nothing is queued, run, given up or accepted.
Rests == UNCHANGED <<heap, forefront, active, fingerprints, redisQueue, redisActive, fate, admin>> /\ SameHands

\* Steps that neither move a task nor settle one.
LEMMA RestsFacts ==
    ASSUME Rests
    PROVE  \A q : /\ QueuedTasks(q)' = QueuedTasks(q) /\ HeldTasks(q)' = HeldTasks(q)
                  /\ Known(q)' = Known(q)
BY HeldKept, QueuesKept, KnownIs DEF Rests

\* They keep Placed.
LEMMA PlacedRests ==
    ASSUME TypeInv, TypeInv', Placed, Rests
    PROVE  Placed'
BY RestsFacts, PlacedKept DEF Rests

\* The steps that rest.
LEMMA RestingSteps ==
    ASSUME TypeInv, \/ \E w \in Worker : Waits(w)
                    \/ \E p \in Proc : Shutdown(p)
                    \/ Tick \/ UNCHANGED vars
    PROVE  Rests
<1>1. CASE \E w \in Worker : Waits(w)
  BY <1>1, WaitsFacts DEF Rests, memory, redis
<1>2. CASE \E p \in Proc : Shutdown(p)
  BY <1>2, ShutdownFacts DEF Rests, redis
<1>3. CASE Tick
  BY <1>3, TickFacts DEF Rests, memory, redis
<1>4. CASE UNCHANGED vars
  BY <1>4 DEF Rests, SameHands, vars, memory, redis, worker
<1> QED BY <1>1, <1>2, <1>3, <1>4

\* The steps of the system, as the proofs below distinguish them.
Puts    == \E p \in Proc, B \in SUBSET Task : Put(p, B) /\ OnlyWakes(wpc')
Takes   == \E w \in Worker : \E e : wpc[w] \in {"idle", "sleeping", "notified"} /\ Take(w, e)
Reports == \E w \in Worker : MarkDoneSuccess(w) \/ \E success \in BOOLEAN : MarkDoneUnknown(w, success)

\* Every step is of one of these kinds.
LEMMA Steps ==
    ASSUME TypeInv, [Next]_vars
    PROVE  \/ Puts \/ Takes \/ Reports \/ Rests
           \/ \E w \in Worker : MarkActive(w) \/ MarkDoneFailure(w)
           \/ \E p \in Proc : ReclaimStale(p) \/ Clear(p) \/ Reset(p) \/ Crash(p)
<1>1. ASSUME NEW w \in Worker, Get(w) \/ GetWakes(w) PROVE Takes
  <2>1. wpc[w] \in {"idle", "sleeping", "notified"} /\ \E e : Take(w, e)
    BY <1>1 DEF Get, GetWakes
  <2> QED BY <2>1 DEF Takes
<1>2. ASSUME NEW p \in Proc, (\E t \in Task : PutOne(p, t)) \/ (\E B \in SUBSET Task : PutBatch(p, B))
      PROVE  Puts
  <2>1. CASE \E t \in Task : PutOne(p, t)
    <3>1. PICK t \in Task : Put(p, {t}) /\ wpc' \in NotifyOne(p)
      BY <2>1 DEF PutOne
    <3>2. OnlyWakes(wpc') /\ {t} \in SUBSET Task
      BY <3>1, NotifyFacts DEF TypeInv
    <3> QED BY <3>1, <3>2 DEF Puts
  <2>2. CASE \E B \in SUBSET Task : PutBatch(p, B)
    <3>1. PICK B \in SUBSET Task : Put(p, B) /\ wpc' = NotifyAll(p)
      BY <2>2 DEF PutBatch
    <3>2. OnlyWakes(wpc')
      BY <3>1, NotifyFacts DEF TypeInv
    <3> QED BY <3>1, <3>2 DEF Puts
  <2> QED BY <1>2, <2>1, <2>2
<1>3. CASE \E w \in Worker : WorkerNext(w)
  BY <1>1, <1>3, RestingSteps DEF WorkerNext, Waits, Reports
<1>4. CASE \E p \in Proc : ProcNext(p)
  BY <1>2, <1>4, RestingSteps DEF ProcNext
<1> QED BY <1>3, <1>4, RestingSteps DEF Next

\* Every step keeps Placed, if Redis works.
LEMMA PlacedStep == ASSUME ~RedisMayFail PROVE TypeInv /\ Placed /\ [Next]_vars => Placed'
<1>1. SUFFICES ASSUME TypeInv, Placed, [Next]_vars PROVE Placed'
  OBVIOUS
<1>2. TypeInv'
  BY <1>1, TypeStep
<1>3. CASE Puts
  BY <1>1, <1>3, PlacedPut DEF Puts
<1>4. CASE Takes
  BY <1>1, <1>4, PlacedTake DEF Takes
<1>5. CASE Reports
  BY <1>1, <1>5, PlacedReport DEF Reports
<1>6. CASE Rests
  BY <1>1, <1>2, <1>6, PlacedRests
<1>7. CASE \E w \in Worker : MarkActive(w) \/ MarkDoneFailure(w)
  BY <1>1, <1>7, PlacedMarkActive, PlacedFailure
<1>8. CASE \E p \in Proc : ReclaimStale(p) \/ Clear(p) \/ Reset(p) \/ Crash(p)
  BY <1>1, <1>8, PlacedReclaim, PlacedAdmin, PlacedCrash
<1> QED BY <1>1, <1>3, <1>4, <1>5, <1>6, <1>7, <1>8, Steps

\* Nothing was put at first.
LEMMA PlacedInit == Init => Placed
<1>1. SUFFICES ASSUME Init PROVE Placed
  OBVIOUS
<1>2. \A p \in Proc : heap[p] = EmptyHeap /\ forefront[p] = <<>> /\ active[p] = EmptyActive
  BY <1>1 DEF Init
<1>3. Elements(<<>>) = {} /\ HeapSet(EmptyHeap) = {}
  BY EmptySeq DEF Elements, HeapSet, EmptyHeap
<1>4. \A p \in Proc : QueuedTasks(p) = {}
  BY <1>2, <1>3, QueuedTasksAre DEF TasksIn, TasksOf
<1>5. \A p \in Proc : HeldTasks(p) = {}
  BY <1>1 DEF Init, HeldTasks, Holders
<1>6. \A p \in Proc : ActiveTasks(p) = {}
  BY <1>2 DEF ActiveTasks, EmptyActive
<1>7. NewNowhere
  BY <1>1, <1>4, <1>5, <1>6, KnownIs DEF NewNowhere, Init, EmptyActive
<1>8. RunningKnown
  BY <1>1 DEF RunningKnown, Init
<1> QED BY <1>7, <1>8 DEF Placed

-----------------------------------------------------------------------------
(* Crash recovery. *)

Waiting(t) == \E p \in Proc : t \in QueuedTasks(p) \cup HeldTasks(p)

\* ActiveRecoverable by tasks that wait and tasks in Redis.
LEMMA RecoverableIs ==
    /\ ActiveRecoverable <=> \A t \in Task : fate[t] = "accepted" => redisActive[t] # None \/ Waiting(t)
    /\ ActiveRecoverable' <=> \A t \in Task : fate'[t] = "accepted" => redisActive'[t] # None \/ Waiting(t)'
BY DEF ActiveRecoverable, Waiting

\* A step of p under which tasks wait on, except those it settles.
LEMMA WaitOn ==
    ASSUME NEW p \in Proc, NEW S,
           \A q \in Proc : q # p => QueuedTasks(q)' = QueuedTasks(q) /\ HeldTasks(q)' = HeldTasks(q),
           \A t \in QueuedTasks(p) \cup HeldTasks(p) : t \in S \/ t \in QueuedTasks(p)' \cup HeldTasks(p)'
    PROVE  \A t : Waiting(t) => Waiting(t)' \/ t \in S
BY DEF Waiting

\* A step that takes no task out of a queue or a hand.
LEMMA AllWaitOn ==
    ASSUME NEW p \in Proc,
           \A q \in Proc : q # p => QueuedTasks(q)' = QueuedTasks(q) /\ HeldTasks(q)' = HeldTasks(q),
           QueuedTasks(p) \cup HeldTasks(p) \subseteq QueuedTasks(p)' \cup HeldTasks(p)'
    PROVE  \A t : Waiting(t) => Waiting(t)'
BY DEF Waiting

\* The queues of the other processes.
LEMMA OtherQueues ==
    ASSUME NEW p, OthersKeep(p)
    PROVE  \A q \in Proc : q # p => QueuedTasks(q)' = QueuedTasks(q)
BY QueuesKept DEF OthersKeep

\* What is accepted is queued.
LEMMA RecoverPut ==
    ASSUME TypeInv, ActiveRecoverable, NEW p \in Proc, NEW B \in SUBSET Task, Put(p, B), OnlyWakes(wpc')
    PROVE  ActiveRecoverable'
<1>1. PICK acc \in SUBSET B :
        /\ QueuedTasks(p)' = QueuedTasks(p) \cup acc
        /\ fate' = [t \in Task |-> IF t \in acc THEN "accepted" ELSE fate[t]]
  BY PutFacts
<1>2. SameHands /\ OthersKeep(p) /\ redisActive' = redisActive
  BY PutFacts DEF Put
<1>3. \A t : Waiting(t) => Waiting(t)'
  <2>1. \A q \in Proc : q # p => QueuedTasks(q)' = QueuedTasks(q) /\ HeldTasks(q)' = HeldTasks(q)
    BY <1>2, OtherQueues, HeldKept
  <2>2. QueuedTasks(p) \cup HeldTasks(p) \subseteq QueuedTasks(p)' \cup HeldTasks(p)'
    BY <1>1, <1>2, HeldKept
  <2> QED BY <2>1, <2>2, AllWaitOn
<1>4. \A t \in acc : Waiting(t)'
  BY <1>1 DEF Waiting
<1>5. \A t \in Task : fate'[t] = "accepted" => fate[t] = "accepted" \/ t \in acc
  BY <1>1
<1> QED BY <1>2, <1>3, <1>4, <1>5, RecoverableIs

\* What leaves the queue is in hand.
LEMMA RecoverTake ==
    ASSUME TypeInv, ActiveRecoverable, NEW w \in Worker, wpc[w] \in {"idle", "sleeping", "notified"}, NEW e, Take(w, e)
    PROVE  ActiveRecoverable'
<1>1. /\ OthersKeep(Home[w]) /\ Home[w] \in Proc
      /\ QueuedTasks(Home[w]) = QueuedTasks(Home[w])' \cup {e.task}
      /\ \A q : HeldTasks(q)' = IF q = Home[w] THEN HeldTasks(q) \cup {e.task} ELSE HeldTasks(q)
  BY TakeFacts
<1>2. redisActive' = redisActive /\ fate' = fate
  BY DEF Take
<1>3. \A t : Waiting(t) => Waiting(t)'
  <2>1. \A q \in Proc : q # Home[w] => QueuedTasks(q)' = QueuedTasks(q) /\ HeldTasks(q)' = HeldTasks(q)
    BY <1>1, OtherQueues
  <2>2. QueuedTasks(Home[w]) \cup HeldTasks(Home[w]) \subseteq QueuedTasks(Home[w])' \cup HeldTasks(Home[w])'
    BY <1>1
  <2> QED BY <1>1, <2>1, <2>2, AllWaitOn
<1> QED BY <1>2, <1>3, RecoverableIs

\* What leaves the hand is in Redis.
LEMMA RecoverMarkActive ==
    ASSUME ~RedisMayFail, TypeInv, ActiveRecoverable, NEW w \in Worker, MarkActive(w)
    PROVE  ActiveRecoverable'
<1> DEFINE p == Home[w]
           t == hand[w].task
           item == [retry |-> hand[w].retry, started |-> now]
<1>1. /\ hand[w] \in Entry /\ p \in Proc
      /\ redisActive' = [redisActive EXCEPT ![t] = item] /\ item \in Running
      /\ \A q : q # p => HeldTasks(q)' = HeldTasks(q)
      /\ HeldTasks(p) = HeldTasks(p)' \cup {t}
      /\ heap' = heap /\ forefront' = forefront /\ fate' = fate
  BY MarkActiveFacts
<1>2. t \in Task /\ item # None
  BY <1>1, QueueAssumption DEF Entry, QueueAssumption
<1> HIDE DEF p, t, item
<1>3. \A q : QueuedTasks(q)' = QueuedTasks(q)
  BY <1>1, QueuesKept
<1>4. \A u : Waiting(u) => Waiting(u)' \/ u \in {t}
  <2>1. \A q \in Proc : q # p => QueuedTasks(q)' = QueuedTasks(q) /\ HeldTasks(q)' = HeldTasks(q)
    BY <1>1, <1>3
  <2>2. \A u \in QueuedTasks(p) \cup HeldTasks(p) : u \in {t} \/ u \in QueuedTasks(p)' \cup HeldTasks(p)'
    BY <1>1, <1>3
  <2> QED BY <1>1, <2>1, <2>2, WaitOn
<1>5. \A u \in Task : redisActive'[u] = IF u = t THEN item ELSE redisActive[u]
  BY <1>1 DEF TypeInv, TypeOK
<1> QED BY <1>1, <1>2, <1>4, <1>5, RecoverableIs

\* Only mark_done of a task its process does not know any more needs Placed:
\* the entry it removes from Redis is not the task's last place.
LEMMA RecoverReport ==
    ASSUME ~RedisMayFail, TypeInv, Placed, ActiveRecoverable, NEW w \in Worker,
           MarkDoneSuccess(w) \/ \E success \in BOOLEAN : MarkDoneUnknown(w, success)
    PROVE  ActiveRecoverable'
<1> DEFINE t == hand[w].task
           p == Home[w]
<1>1. /\ SameHands /\ t \in Task /\ p \in Proc /\ wpc[w] = "running"
      /\ heap' = heap /\ forefront' = forefront
      /\ redisActive' = [redisActive EXCEPT ![t] = None]
      /\ \/ active[p][t] = None /\ fate' = fate
         \/ fate' = [fate EXCEPT ![t] = "done"]
  <2>1. CASE MarkDoneSuccess(w)
    BY <2>1, MarkDoneSuccessFacts DEF Entry, MarkDoneSuccess
  <2>2. ASSUME NEW success \in BOOLEAN, MarkDoneUnknown(w, success)
        PROVE  /\ SameHands /\ t \in Task /\ p \in Proc /\ wpc[w] = "running" /\ active[p][t] = None
               /\ heap' = heap /\ forefront' = forefront
               /\ redisActive' = [redisActive EXCEPT ![t] = None]
               /\ fate' = fate \/ fate' = [fate EXCEPT ![t] = "done"]
    BY <2>2, MarkDoneUnknownFacts DEF Entry, memory, MarkDoneUnknown
  <2> QED BY <2>1, <2>2
<1>2. active[p][t] = None /\ fate[t] = "accepted" => Waiting(t)
  <2>1. SUFFICES ASSUME active[p][t] = None, fate[t] = "accepted" PROVE Waiting(t)
    OBVIOUS
  <2>2. t \in Known(p)
    BY <1>1, <2>1 DEF Placed, RunningKnown
  <2> QED BY <1>1, <2>1, <2>2, KnownIs DEF Waiting
<1> HIDE DEF t, p
<1>3. \A u : Waiting(u) => Waiting(u)'
  <2>1. \A q : QueuedTasks(q)' = QueuedTasks(q) /\ HeldTasks(q)' = HeldTasks(q)
    BY <1>1, HeldKept, QueuesKept
  <2> QED BY <2>1 DEF Waiting
<1>4. ASSUME NEW u \in Task, fate'[u] = "accepted" PROVE redisActive'[u] # None \/ Waiting(u)'
  <2>1. CASE u = t
    <3>1. active[p][t] = None /\ fate[t] = "accepted"
      <4>1. "done" # "accepted"
        OBVIOUS
      <4> QED BY <1>1, <1>4, <2>1, <4>1 DEF TypeInv, TypeOK
    <3> QED BY <1>2, <1>3, <2>1, <3>1
  <2>2. CASE u # t
    <3>1. fate[u] = "accepted" /\ redisActive'[u] = redisActive[u]
      BY <1>1, <1>4, <2>2 DEF TypeInv, TypeOK
    <3> QED BY <1>3, <3>1, RecoverableIs
  <2> QED BY <2>1, <2>2
<1> QED BY <1>4, RecoverableIs

\* What leaves Redis with a failure is queued, or given up.
LEMMA RecoverFailure ==
    ASSUME ~RedisMayFail, TypeInv, ActiveRecoverable, NEW w \in Worker, MarkDoneFailure(w)
    PROVE  ActiveRecoverable'
<1> DEFINE t == hand[w].task
           p == Home[w]
<1>1. /\ SameHands /\ OthersKeep(p) /\ p \in Proc
      /\ redisActive' = [redisActive EXCEPT ![t] = None]
      /\ \E R, G \in SUBSET {t} :
           /\ R \cup G = {t}
           /\ QueuedTasks(p)' = QueuedTasks(p) \cup R
           /\ fate' = Dropped(G)
  BY MarkDoneFailureFacts
<1>2. PICK R \in SUBSET {t}, G \in SUBSET {t} :
           R \cup G = {t} /\ QueuedTasks(p)' = QueuedTasks(p) \cup R /\ fate' = Dropped(G)
  BY <1>1
<1> HIDE DEF t, p
<1>3. \A u : Waiting(u) => Waiting(u)'
  <2>1. \A q \in Proc : q # p => QueuedTasks(q)' = QueuedTasks(q) /\ HeldTasks(q)' = HeldTasks(q)
    BY <1>1, OtherQueues, HeldKept
  <2>2. QueuedTasks(p) \cup HeldTasks(p) \subseteq QueuedTasks(p)' \cup HeldTasks(p)'
    BY <1>1, <1>2, HeldKept
  <2> QED BY <1>1, <2>1, <2>2, AllWaitOn
<1>4. \A u \in R : Waiting(u)'
  BY <1>1, <1>2 DEF Waiting
<1>5. ASSUME NEW u \in Task
      PROVE  /\ fate'[u] = IF u \in G /\ fate[u] # "done" THEN "dropped" ELSE fate[u]
             /\ u # t => redisActive'[u] = redisActive[u]
  BY <1>1, <1>2 DEF TypeInv, TypeOK, Dropped
<1>6. \A u \in Task : fate'[u] = "accepted" => fate[u] = "accepted" /\ u \notin G
  <2>1. "dropped" # "accepted" /\ "done" # "accepted"
    OBVIOUS
  <2> QED BY <1>5, <2>1
<1> QED BY <1>2, <1>3, <1>4, <1>5, <1>6, RecoverableIs

\* So is what reclaim_stale takes out of Redis, whoever put it there.
LEMMA RecoverReclaim ==
    ASSUME TypeInv, ActiveRecoverable, NEW p \in Proc, ReclaimStale(p)
    PROVE  ActiveRecoverable'
<1>1. SameHands /\ OthersKeep(p)
  BY ReclaimStaleFacts
<1>2. PICK gone, seen, gone2, R, Q, G \in SUBSET Task : Reclaims(p, gone, seen, gone2, R, Q, G)
  BY ReclaimStaleFacts
<1>3. /\ gone \subseteq StaleHere(p) /\ gone2 \subseteq seen /\ R \cup Q \cup G = StaleHere(p) \cup seen
      /\ redisActive' = [t \in Task |-> IF t \in gone2 THEN None ELSE Left(gone)[t]]
      /\ QueuedTasks(p)' = QueuedTasks(p) \cup R \cup Q
      /\ fate' = Dropped(G)
  BY <1>2 DEF Reclaims
<1>4. \A u : Waiting(u) => Waiting(u)'
  <2>1. \A q \in Proc : q # p => QueuedTasks(q)' = QueuedTasks(q) /\ HeldTasks(q)' = HeldTasks(q)
    BY <1>1, OtherQueues, HeldKept
  <2>2. QueuedTasks(p) \cup HeldTasks(p) \subseteq QueuedTasks(p)' \cup HeldTasks(p)'
    BY <1>1, <1>3, HeldKept
  <2> QED BY <2>1, <2>2, AllWaitOn
<1>5. \A u \in R \cup Q : Waiting(u)'
  BY <1>3 DEF Waiting
<1>6. ASSUME NEW u \in Task
      PROVE  /\ fate'[u] = IF u \in G /\ fate[u] # "done" THEN "dropped" ELSE fate[u]
             /\ u \notin R \cup Q \cup G => redisActive'[u] = redisActive[u]
  BY <1>3 DEF Dropped, Left
<1>7. \A u \in Task : fate'[u] = "accepted" => fate[u] = "accepted" /\ u \notin G
  <2>1. "dropped" # "accepted" /\ "done" # "accepted"
    OBVIOUS
  <2> QED BY <1>6, <2>1
<1> QED BY <1>4, <1>5, <1>6, <1>7, RecoverableIs

\* What clear or reset forget is "cleared".
LEMMA RecoverAdmin ==
    ASSUME TypeInv, ActiveRecoverable, NEW p \in Proc, Clear(p) \/ Reset(p)
    PROVE  ActiveRecoverable'
<1>1. /\ SameHands /\ OthersKeep(p) /\ QueuedTasks(p)' = {}
      /\ \E S \in SUBSET Task : /\ fate' = Cleared(S)
                                /\ \A t \in Task : t \in S \/ redisActive'[t] = redisActive[t]
                                /\ \A t \in Task : t \in QueuedTasks(p) => t \in S
  <2>1. CASE Clear(p)
    <3>1. fate' = Cleared(QueuedTasks(p) \cap Task)
      BY <2>1, ClearFacts DEF Cleared
    <3> QED BY <2>1, <3>1, ClearFacts
  <2>2. CASE Reset(p)
    <3> DEFINE S == (QueuedTasks(p) \cup {t \in Task : redisActive'[t] # redisActive[t]} \cup ActiveTasks(p)) \cap Task
    <3>1. fate' = Cleared(S)
      BY <2>2, ResetFacts DEF Cleared
    <3>2. S \in SUBSET Task /\ \A t \in Task : (t \in S \/ redisActive'[t] = redisActive[t]) /\ (t \in QueuedTasks(p) => t \in S)
      OBVIOUS
    <3> HIDE DEF S
    <3>3. SameHands /\ OthersKeep(p) /\ QueuedTasks(p)' = {}
      BY <2>2, ResetFacts
    <3> QED BY <3>1, <3>2, <3>3
  <2> QED BY <2>1, <2>2
<1>2. PICK S \in SUBSET Task : /\ fate' = Cleared(S)
                               /\ \A t \in Task : t \in S \/ redisActive'[t] = redisActive[t]
                               /\ \A t \in Task : t \in QueuedTasks(p) => t \in S
  BY <1>1
<1>3. \A u : Waiting(u) => Waiting(u)' \/ u \in QueuedTasks(p)
  BY <1>1, OtherQueues, HeldKept, WaitOn
<1>4. \A u \in Task : fate'[u] = "accepted" => fate[u] = "accepted" /\ u \notin S
  BY <1>2 DEF Cleared
<1> QED BY <1>2, <1>3, <1>4, RecoverableIs

\* What a crash takes from queue or hand is "lost".
LEMMA RecoverCrash ==
    ASSUME TypeInv, ActiveRecoverable, NEW p \in Proc, Crash(p)
    PROVE  ActiveRecoverable'
<1>1. /\ OthersKeep(p)
      /\ \A q : q # p => HeldTasks(q)' = HeldTasks(q)
      /\ fate' = [t \in Task |-> IF t \in QueuedTasks(p) \cup HeldTasks(p) /\ fate[t] = "accepted"
                                 THEN "lost" ELSE fate[t]]
      /\ redisActive' = redisActive
  BY CrashFacts DEF redis
<1>2. \A u : Waiting(u) => Waiting(u)' \/ u \in QueuedTasks(p) \cup HeldTasks(p)
  BY <1>1, OtherQueues, WaitOn
<1>3. \A u \in Task : fate'[u] = "accepted" => fate[u] = "accepted" /\ u \notin QueuedTasks(p) \cup HeldTasks(p)
  BY <1>1
<1> QED BY <1>1, <1>2, <1>3, RecoverableIs

\* Every step keeps the tasks recoverable.
LEMMA RecoverStep ==
    ASSUME ~RedisMayFail
    PROVE  TypeInv /\ Placed /\ ActiveRecoverable /\ [Next]_vars => ActiveRecoverable'
<1>1. SUFFICES ASSUME TypeInv, Placed, ActiveRecoverable, [Next]_vars PROVE ActiveRecoverable'
  OBVIOUS
<1>2. CASE Puts
  BY <1>1, <1>2, RecoverPut DEF Puts
<1>3. CASE Takes
  BY <1>1, <1>3, RecoverTake DEF Takes
<1>4. CASE Reports
  BY <1>1, <1>4, RecoverReport DEF Reports
<1>5. CASE Rests
  <2>1. \A t : Waiting(t) => Waiting(t)'
    BY <1>5, RestsFacts DEF Waiting
  <2> QED BY <1>1, <1>5, <2>1, RecoverableIs DEF Rests
<1>6. CASE \E w \in Worker : MarkActive(w) \/ MarkDoneFailure(w)
  BY <1>1, <1>6, RecoverMarkActive, RecoverFailure
<1>7. CASE \E p \in Proc : ReclaimStale(p) \/ Clear(p) \/ Reset(p) \/ Crash(p)
  BY <1>1, <1>7, RecoverReclaim, RecoverAdmin, RecoverCrash
<1> QED BY <1>1, <1>2, <1>3, <1>4, <1>5, <1>6, <1>7, Steps

\* Where Redis works, a task that was accepted and is not settled is in a
\* queue or in hand or can be reclaimed from Redis, whatever processes crash,
\* reclaim each other's tasks, and report tasks that are no longer theirs.
THEOREM TasksRecoverable == ~RedisMayFail => (Spec => []ActiveRecoverable)
<1>1. SUFFICES ASSUME ~RedisMayFail PROVE Spec => []ActiveRecoverable
  OBVIOUS
<1>2. Init => TypeInv /\ Placed /\ ActiveRecoverable
  <2>1. Init => ActiveRecoverable
    BY DEF Init, ActiveRecoverable
  <2> QED BY <2>1, TypeInit, PlacedInit
<1>3. TypeInv /\ Placed /\ ActiveRecoverable /\ [Next]_vars => (TypeInv /\ Placed /\ ActiveRecoverable)'
  BY <1>1, TypeStep, PlacedStep, RecoverStep
<1> QED BY <1>2, <1>3, PTL DEF Spec

-----------------------------------------------------------------------------
(* One process has the Redis keys to itself, and Redis works. *)

Solitary == ~RedisMayFail /\ \A p, q \in Proc : p = q

\* No two workers hold the same task.
HoldersApart(p) == \A v, w \in Holders(p) : hand[v].task = hand[w].task => v = w

\* OneCopy, for one process.
OneCopyIn(p) ==
    /\ OnceQueued(p) /\ HoldersApart(p)
    /\ QueuedTasks(p) \cap HeldTasks(p) = {}
    /\ (QueuedTasks(p) \cup HeldTasks(p)) \cap ActiveTasks(p) = {}

\* OneCopy process by process.
LEMMA OneCopyIs == OneCopy <=> \A p \in Proc : OneCopyIn(p)
<1>1. ASSUME NEW p
      PROVE  OnceQueued(p) <=> /\ \A d, e \in InHeap(p) : d.task = e.task => d = e /\ heap[p][d] = 1
                               /\ \A i, j \in 1..Len(forefront[p]) : forefront[p][i].task = forefront[p][j].task => i = j
                               /\ HeapTasks(p) \cap FrontTasks(p) = {}
  <2>1. /\ InHeap(p) = HeapSet(heap[p])
        /\ HeapTasks(p) = TasksOf(HeapSet(heap[p])) /\ FrontTasks(p) = TasksOf(Elements(forefront[p]))
    BY DEF InHeap, HeapSet, HeapTasks, FrontTasks, InForefront, Elements, TasksOf
  <2> QED BY <2>1 DEF OnceQueued, OnceIn
<1> QED BY <1>1 DEF OneCopy, OneCopyIn, HoldersApart

\* What is queued or in hand is not listed as active in Redis, from where it
\* could be reclaimed.
RedisApart(p) == \A t \in QueuedTasks(p) \cup HeldTasks(p) : redisActive[t] = None

Apart(p) == OneCopyIn(p) /\ RedisApart(p)

\* A step under which no worker gets or hands over anything.
LEMMA ApartKept ==
    ASSUME NEW p, Apart(p), SameHands, OnceQueued(p)',
           QueuedTasks(p)' \cap HeldTasks(p) = {},
           (QueuedTasks(p)' \cup HeldTasks(p)) \cap ActiveTasks(p)' = {},
           \A t \in QueuedTasks(p)' \cup HeldTasks(p) : redisActive'[t] = None
    PROVE  Apart(p)'
<1>1. Holders(p)' = Holders(p) /\ HeldTasks(p)' = HeldTasks(p)
  BY HeldKept
<1>2. \A v \in Holders(p) : hand'[v] = hand[v]
  BY DEF SameHands, Holders
<1>3. HoldersApart(p)'
  BY <1>1, <1>2 DEF Apart, OneCopyIn, HoldersApart
<1> QED BY <1>1, <1>3 DEF Apart, OneCopyIn, RedisApart

\* What is queued or held is a task.
LEMMA TasksTyped ==
    ASSUME TypeInv, NEW p \in Proc
    PROVE  QueuedTasks(p) \subseteq Task /\ HeldTasks(p) \subseteq Task
<1>1. heap[p] \in [Entry -> Nat] /\ forefront[p] \in Seq(Entry)
  BY DEF TypeInv, TypeOK
<1>2. \A i \in 1..Len(forefront[p]) : forefront[p][i] \in Entry
  BY <1>1, ElementOfSeq
<1>3. \A e \in HeapSet(heap[p]) \cup Elements(forefront[p]) : e.task \in Task
  BY <1>2 DEF HeapSet, Elements, Entry
<1>4. \A w \in Holders(p) : hand[w].task \in Task
  BY DEF Holders, TypeInv, HandsFull, Entry
<1> QED BY <1>3, <1>4, QueuedTasksAre DEF TasksIn, TasksOf, HeldTasks

\* A new task is nowhere, so its entry is the first.
LEMMA ApartPut ==
    ASSUME TypeInv, Placed, NEW p \in Proc, Apart(p), NEW B \in SUBSET Task, Put(p, B), OnlyWakes(wpc')
    PROVE  Apart(p)'
<1>1. PICK acc \in SUBSET B :
        /\ \A t \in acc : fate[t] = "new"
        /\ QueuedTasks(p)' = QueuedTasks(p) \cup acc
        /\ OnceQueued(p) /\ QueuedTasks(p) \cap acc = {} => OnceQueued(p)'
  BY PutFacts
<1>2. SameHands /\ active' = active /\ redisActive' = redisActive
  BY PutFacts DEF Put
<1>3. \A t \in acc : redisActive[t] = None /\ t \notin Known(p)
  BY <1>1 DEF Placed, NewNowhere
<1>4. ActiveTasks(p)' = ActiveTasks(p)
  BY <1>2 DEF ActiveTasks
<1> QED BY <1>1, <1>2, <1>3, <1>4, KnownIs, ApartKept DEF Apart, OneCopyIn, RedisApart

\* An entry goes from the queue to one hand.
LEMMA ApartTake ==
    ASSUME TypeInv, NEW w \in Worker, wpc[w] \in {"idle", "sleeping", "notified"}, NEW e, Take(w, e),
           Apart(Home[w])
    PROVE  Apart(Home[w])'
<1> DEFINE p == Home[w]
<1>1. /\ QueuedTasks(p) = QueuedTasks(p)' \cup {e.task}
      /\ OnceQueued(p) => OnceQueued(p)' /\ e.task \notin QueuedTasks(p)'
      /\ Holders(p)' = Holders(p) \cup {w}
      /\ hand'[w] = e /\ \A v \in Worker : v # w => hand'[v] = hand[v]
      /\ HeldTasks(p)' = HeldTasks(p) \cup {e.task}
  BY TakeFacts
<1>2. active' = active /\ redisActive' = redisActive /\ ActiveTasks(p)' = ActiveTasks(p)
  BY DEF Take, ActiveTasks
<1>3. HoldersApart(p)'
  <2>1. \A v \in Holders(p) : v # w /\ v \in Worker /\ hand[v].task \in HeldTasks(p)
    BY DEF Holders, HeldTasks
  <2>2. \A v \in Holders(p) : hand'[v] = hand[v] /\ hand[v].task # e.task
    BY <1>1, <2>1 DEF Apart, OneCopyIn
  <2> QED BY <1>1, <2>2 DEF Apart, OneCopyIn, HoldersApart
<1> QED BY <1>1, <1>2, <1>3 DEF Apart, OneCopyIn, RedisApart

\* It goes from that hand to _active.
LEMMA ApartMarkActive ==
    ASSUME ~RedisMayFail, TypeInv, NEW w \in Worker, MarkActive(w), Apart(Home[w])
    PROVE  Apart(Home[w])'
<1> DEFINE p == Home[w]
           t == hand[w].task
           item == [retry |-> hand[w].retry, started |-> now]
<1>1. /\ hand[w] \in Entry /\ p \in Proc /\ w \in Holders(p)
      /\ \A q \in Proc, u \in Task : q # p \/ u # t => active'[q][u] = active[q][u]
      /\ redisActive' = [redisActive EXCEPT ![t] = item]
      /\ Holders(p)' = Holders(p) \ {w} /\ hand' = hand
      /\ heap' = heap /\ forefront' = forefront
  BY MarkActiveFacts
<1>2. OnceQueued(p)' = OnceQueued(p) /\ QueuedTasks(p)' = QueuedTasks(p)
  BY <1>1, QueuesKept
<1>3. HeldTasks(p)' \subseteq HeldTasks(p) \ {t}
  <2>1. \A v \in Holders(p) : v # w => hand[v].task # t
    BY <1>1 DEF Apart, OneCopyIn, HoldersApart
  <2> QED BY <1>1, <2>1 DEF HeldTasks
<1>4. t \in HeldTasks(p)
  BY <1>1 DEF HeldTasks
<1>5. ActiveTasks(p)' \subseteq ActiveTasks(p) \cup {t}
  BY <1>1 DEF ActiveTasks
<1>6. HoldersApart(p)'
  BY <1>1 DEF Apart, OneCopyIn, HoldersApart
<1> HIDE DEF t, p, item
<1>7. OneCopyIn(p)'
  BY <1>2, <1>3, <1>4, <1>5, <1>6 DEF Apart, OneCopyIn, p
<1>8. RedisApart(p)'
  <2>1. \A u : u # t => redisActive'[u] = redisActive[u]
    BY <1>1 DEF TypeInv, TypeOK
  <2> QED BY <1>2, <1>3, <1>4, <2>1 DEF Apart, OneCopyIn, RedisApart, p
<1> QED BY <1>7, <1>8 DEF Apart, p

\* A report takes a task from _active, or finds it gone.
LEMMA ApartReport ==
    ASSUME ~RedisMayFail, TypeInv, NEW w \in Worker, Apart(Home[w]),
           MarkDoneSuccess(w) \/ \E success \in BOOLEAN : MarkDoneUnknown(w, success)
    PROVE  Apart(Home[w])'
<1> DEFINE t == hand[w].task
           p == Home[w]
<1>1. /\ SameHands /\ t \in Task /\ p \in Proc
      /\ heap' = heap /\ forefront' = forefront
      /\ redisActive' = [redisActive EXCEPT ![t] = None]
      /\ active' = active \/ active' = [active EXCEPT ![p][t] = None]
  <2>1. CASE MarkDoneSuccess(w)
    BY <2>1, MarkDoneSuccessFacts DEF Entry
  <2>2. ASSUME NEW success \in BOOLEAN, MarkDoneUnknown(w, success)
        PROVE  /\ SameHands /\ t \in Task /\ p \in Proc
               /\ heap' = heap /\ forefront' = forefront /\ active' = active
               /\ redisActive' = [redisActive EXCEPT ![t] = None]
    BY <2>2, MarkDoneUnknownFacts DEF Entry, memory
  <2> QED BY <2>1, <2>2
<1> HIDE DEF t, p
<1>2. OnceQueued(p)' = OnceQueued(p) /\ QueuedTasks(p)' = QueuedTasks(p)
  BY <1>1, QueuesKept
<1>3. ActiveTasks(p)' \subseteq ActiveTasks(p)
  BY <1>1, KnownIs DEF TypeInv, TypeOK
<1>4. \A u : redisActive[u] = None => u \notin Task \/ redisActive'[u] = None
  BY <1>1 DEF TypeInv, TypeOK
<1>5. QueuedTasks(p) \cup HeldTasks(p) \subseteq Task
  BY <1>1, TasksTyped DEF p
<1> QED BY <1>1, <1>2, <1>3, <1>4, <1>5, ApartKept DEF Apart, OneCopyIn, RedisApart, p

\* A failed task was in _active only, and is in the queue only.
LEMMA ApartFailure ==
    ASSUME ~RedisMayFail, TypeInv, NEW w \in Worker, MarkDoneFailure(w), Apart(Home[w])
    PROVE  Apart(Home[w])'
<1> DEFINE t == hand[w].task
           p == Home[w]
<1>1. /\ SameHands /\ hand[w] \in Entry /\ p \in Proc /\ active[p][t] # None
      /\ active' = [active EXCEPT ![p][t] = None]
      /\ redisActive' = [redisActive EXCEPT ![t] = None]
      /\ \E R, G \in SUBSET {t} :
           /\ QueuedTasks(p)' = QueuedTasks(p) \cup R
           /\ OnceQueued(p) /\ t \notin QueuedTasks(p) => OnceQueued(p)'
  BY MarkDoneFailureFacts
<1>2. PICK R \in SUBSET {t} :
           /\ QueuedTasks(p)' = QueuedTasks(p) \cup R
           /\ OnceQueued(p) /\ t \notin QueuedTasks(p) => OnceQueued(p)'
  BY <1>1
<1>3. t \in ActiveTasks(p) /\ t \in Task
  BY <1>1 DEF ActiveTasks, Entry
<1> HIDE DEF t, p
<1>4. ActiveTasks(p)' = ActiveTasks(p) \ {t}
  BY <1>1, <1>3, KnownIs DEF TypeInv, TypeOK
<1>5. \A u : u # t => redisActive'[u] = redisActive[u]
  BY <1>1 DEF TypeInv, TypeOK
<1>6. redisActive'[t] = None
  BY <1>1, <1>3 DEF TypeInv, TypeOK
<1>7. t \notin QueuedTasks(p) \cup HeldTasks(p)
  BY <1>3 DEF Apart, OneCopyIn, p
<1>8. QueuedTasks(p)' \cap HeldTasks(p) = {} /\ (QueuedTasks(p)' \cup HeldTasks(p)) \cap ActiveTasks(p)' = {}
  BY <1>2, <1>4, <1>7 DEF Apart, OneCopyIn, p
<1>9. \A u \in QueuedTasks(p)' \cup HeldTasks(p) : redisActive'[u] = None
  BY <1>2, <1>5, <1>6 DEF Apart, RedisApart, p
<1> QED BY <1>1, <1>2, <1>7, <1>8, <1>9, ApartKept DEF Apart, OneCopyIn, p

\* Of the two steps of reclaim_stale the second finds nothing of the first's.
LEMMA ApartReclaim ==
    ASSUME ~RedisMayFail, TypeInv, NEW p \in Proc, ReclaimStale(p), Apart(p)
    PROVE  Apart(p)'
<1>1. SameHands
  BY ReclaimStaleFacts
<1>2. PICK gone, seen, gone2, R, Q, G \in SUBSET Task : Reclaims(p, gone, seen, gone2, R, Q, G)
  BY ReclaimStaleFacts
<1> DEFINE here == StaleHere(p)
<1>3. /\ gone = here /\ seen = StaleInRedis(p, Left(gone)) /\ gone2 = seen
      /\ R \subseteq here /\ Q \subseteq seen
      /\ active' = [active EXCEPT ![p] = [t \in Task |-> IF t \in here THEN None ELSE @[t]]]
      /\ redisActive' = [t \in Task |-> IF t \in gone2 THEN None ELSE Left(gone)[t]]
      /\ QueuedTasks(p)' = QueuedTasks(p) \cup R \cup Q
      /\ OnceQueued(p) /\ QueuedTasks(p) \cap (here \cup seen) = {} /\ here \cap seen = {} => OnceQueued(p)'
  BY <1>2 DEF Reclaims
<1>4. /\ here \subseteq ActiveTasks(p)
      /\ \A t \in seen : t \notin here /\ redisActive[t] # None /\ t \notin ActiveTasks(p)
  BY <1>3 DEF StaleHere, StaleInRedis, Left
<1>5. ActiveTasks(p)' = ActiveTasks(p) \ here
  <2>1. \A t \in Task : active'[p][t] = IF t \in here THEN None ELSE active[p][t]
    BY <1>3 DEF TypeInv, TypeOK
  <2> QED BY <2>1, KnownIs
<1>6. \A t \in Task : redisActive'[t] = IF t \in seen \cup here THEN None ELSE redisActive[t]
  BY <1>3 DEF Left
<1> HIDE DEF here
<1>7. (QueuedTasks(p) \cup HeldTasks(p)) \cap (here \cup seen) = {} /\ here \cap seen = {}
  BY <1>4 DEF Apart, OneCopyIn, RedisApart
<1>8. QueuedTasks(p)' \cap HeldTasks(p) = {} /\ (QueuedTasks(p)' \cup HeldTasks(p)) \cap ActiveTasks(p)' = {}
  BY <1>3, <1>4, <1>5, <1>7 DEF Apart, OneCopyIn
<1>9. \A u \in QueuedTasks(p)' \cup HeldTasks(p) : redisActive'[u] = None
  <2>1. QueuedTasks(p) \cup HeldTasks(p) \subseteq Task
    BY TasksTyped
  <2>2. R \cup Q \subseteq seen \cup here /\ R \cup Q \subseteq Task
    BY <1>2, <1>3
  <2> QED BY <1>3, <1>6, <2>1, <2>2 DEF Apart, RedisApart
<1> QED BY <1>1, <1>3, <1>7, <1>8, <1>9, ApartKept DEF Apart, OneCopyIn

\* Emptying a queue leaves no second copies.
LEMMA ApartAdmin ==
    ASSUME TypeInv, NEW p \in Proc, Clear(p) \/ Reset(p), Apart(p)
    PROVE  Apart(p)'
<1>1. /\ SameHands /\ QueuedTasks(p)' = {} /\ OnceQueued(p)'
      /\ redisActive' = redisActive \/ redisActive' = EmptyActive
      /\ active' = active \/ active' = [active EXCEPT ![p] = EmptyActive]
  <2>1. CASE Clear(p)
    BY <2>1, ClearFacts
  <2>2. CASE Reset(p)
    BY <2>2, ResetFacts
  <2> QED BY <2>1, <2>2
<1>2. ActiveTasks(p)' \subseteq ActiveTasks(p)
  BY <1>1, KnownIs DEF TypeInv, TypeOK, EmptyActive
<1>3. \A t \in HeldTasks(p) : redisActive'[t] = None
  BY <1>1, TasksTyped DEF Apart, RedisApart, EmptyActive
<1> QED BY <1>1, <1>2, <1>3, ApartKept DEF Apart, OneCopyIn

\* Nor does a crash; the tasks left in Redis are not queued.
LEMMA ApartCrash ==
    ASSUME TypeInv, NEW p \in Proc, Crash(p)
    PROVE  Apart(p)'
<1>1. QueuedTasks(p)' = {} /\ OnceQueued(p)' /\ Holders(p)' = {} /\ HeldTasks(p)' = {}
  BY CrashFacts
<1> QED BY <1>1 DEF Apart, OneCopyIn, RedisApart, HoldersApart

\* Every step of a solitary process keeps its tasks apart.
LEMMA ApartStep ==
    ASSUME Solitary, NEW p \in Proc
    PROVE  TypeInv /\ Placed /\ Apart(p) /\ [Next]_vars => Apart(p)'
<1>1. SUFFICES ASSUME TypeInv, Placed, Apart(p), [Next]_vars PROVE Apart(p)'
  OBVIOUS
<1>2. ~RedisMayFail /\ (\A q \in Proc : q = p) /\ (\A w \in Worker : Home[w] = p)
  BY QueueAssumption DEF Solitary, QueueAssumption
<1>3. CASE Puts
  BY <1>1, <1>2, <1>3, ApartPut DEF Puts
<1>4. CASE Takes
  BY <1>1, <1>2, <1>4, ApartTake DEF Takes
<1>5. CASE Reports
  BY <1>1, <1>2, <1>5, ApartReport DEF Reports
<1>6. CASE Rests
  <2>1. OnceQueued(p)' = OnceQueued(p) /\ QueuedTasks(p)' = QueuedTasks(p) /\ ActiveTasks(p)' = ActiveTasks(p)
    BY <1>6, QueuesKept DEF Rests, ActiveTasks
  <2> QED BY <1>1, <1>6, <2>1, ApartKept DEF Apart, OneCopyIn, RedisApart, Rests
<1>7. CASE \E w \in Worker : MarkActive(w) \/ MarkDoneFailure(w)
  BY <1>1, <1>2, <1>7, ApartMarkActive, ApartFailure
<1>8. CASE \E q \in Proc : ReclaimStale(q) \/ Clear(q) \/ Reset(q) \/ Crash(q)
  BY <1>1, <1>2, <1>8, ApartReclaim, ApartAdmin, ApartCrash
<1> QED BY <1>1, <1>3, <1>4, <1>5, <1>6, <1>7, <1>8, Steps

\* Empty queues hold nothing twice.
LEMMA ApartInit == ASSUME NEW p \in Proc PROVE Init => Apart(p)
<1>1. SUFFICES ASSUME Init PROVE Apart(p)
  OBVIOUS
<1>2. heap[p] = EmptyHeap /\ forefront[p] = <<>> /\ active[p] = EmptyActive
  BY <1>1 DEF Init
<1>3. Elements(<<>>) = {} /\ HeapSet(EmptyHeap) = {} /\ Len(<<>>) = 0
  BY EmptySeq DEF Elements, HeapSet, EmptyHeap
<1>4. QueuedTasks(p) = {} /\ OnceQueued(p)
  BY <1>2, <1>3, QueuedTasksAre DEF TasksIn, TasksOf, OnceQueued, OnceIn
<1>5. Holders(p) = {} /\ HeldTasks(p) = {}
  BY <1>1 DEF Init, HeldTasks, Holders
<1> QED BY <1>4, <1>5 DEF Apart, OneCopyIn, RedisApart, HoldersApart

\* Where one process uses the queue and Redis works, it never has two copies
\* of a task, through crashes, retries, reclaims, clear and reset, and
\* however late mark_done comes.
THEOREM NeverTwice == Solitary => (Spec => []OneCopy)
<1>1. SUFFICES ASSUME Solitary PROVE Spec => []OneCopy
  OBVIOUS
<1> DEFINE Inv == TypeInv /\ Placed /\ \A p \in Proc : Apart(p)
<1>2. Init => Inv
  BY TypeInit, PlacedInit, ApartInit
<1>3. Inv /\ [Next]_vars => Inv'
  <2>1. ~RedisMayFail
    BY <1>1 DEF Solitary
  <2> QED BY <1>1, <2>1, TypeStep, PlacedStep, ApartStep
<1>4. Inv => OneCopy
  BY OneCopyIs DEF Apart
<1> QED BY <1>2, <1>3, <1>4, PTL DEF Spec

-----------------------------------------------------------------------------
(* The mirror in Redis.  A process that crashes leaves its keys behind, so   *)
(* the mirror is exact as long as none does.                                 *)

Undisturbed == Solitary /\ MaxCrashes = 0

MirrorAt(p) == redisQueue = QueuedTasks(p) /\ redisActive = active[p]

\* MirrorExact process by process.
LEMMA MirrorIs == ASSUME TypeInv PROVE MirrorExact <=> \A p \in Proc : MirrorAt(p)
<1>1. \A p \in Proc : active[p] \in [Task -> Running \cup {None}]
  BY DEF TypeInv, TypeOK
<1>2. redisActive \in [Task -> Running \cup {None}]
  BY DEF TypeInv, TypeOK
<1>3. ASSUME NEW p \in Proc
      PROVE  redisActive = active[p] <=> /\ {t \in Task : redisActive[t] # None} = ActiveTasks(p)
                                         /\ \A t \in ActiveTasks(p) : redisActive[t] = active[p][t]
  <2>1. ASSUME {t \in Task : redisActive[t] # None} = ActiveTasks(p),
               \A t \in ActiveTasks(p) : redisActive[t] = active[p][t]
        PROVE  \A t \in Task : redisActive[t] = active[p][t]
    BY <2>1 DEF ActiveTasks
  <2>2. active[p] \in [Task -> Running \cup {None}]
    BY <1>1
  <2>3. redisActive = active[p] <=> \A t \in Task : redisActive[t] = active[p][t]
    BY <1>2, <2>2
  <2> QED BY <2>1, <2>3 DEF ActiveTasks
<1> QED BY <1>3 DEF MirrorExact, MirrorAt

\* Nothing of Redis is stale that the process does not list as active.
LEMMA NothingUnlisted ==
    ASSUME ~RedisMayFail, TypeInv, NEW p \in Proc, MirrorAt(p),
           NEW gone, NEW seen, NEW gone2, NEW R, NEW Q, NEW G,
           Reclaims(p, gone, seen, gone2, R, Q, G)
    PROVE  /\ seen = {} /\ Q = {} /\ R \cup G = StaleHere(p) /\ R \cap G = {}
           /\ redisActive' = [t \in Task |-> IF t \in StaleHere(p) THEN None ELSE redisActive[t]]
<1>1. /\ gone = StaleHere(p) /\ seen = StaleInRedis(p, Left(gone)) /\ gone2 = seen
      /\ Q \subseteq seen /\ R \cup Q \cup G = StaleHere(p) \cup seen
      /\ StaleHere(p) \cap seen = {} => (R \cup Q) \cap G = {}
      /\ redisActive' = [t \in Task |-> IF t \in gone2 THEN None ELSE Left(gone)[t]]
  BY DEF Reclaims
<1>2. seen = {}
  <2>1. \A t \in seen : t \in Task /\ Left(gone)[t] # None /\ t \notin ActiveTasks(p) \ StaleHere(p)
    BY <1>1 DEF StaleInRedis
  <2>2. \A t \in seen : t \notin StaleHere(p) /\ redisActive[t] # None
    BY <1>1, <2>1 DEF Left
  <2>3. \A t \in seen : t \in ActiveTasks(p)
    BY <2>1, <2>2 DEF MirrorAt, ActiveTasks
  <2> QED BY <2>1, <2>2, <2>3
<1> QED BY <1>1, <1>2 DEF Left

\* get takes the task from both queues.
LEMMA MirrorTake ==
    ASSUME ~RedisMayFail, TypeInv, NEW w \in Worker, wpc[w] \in {"idle", "sleeping", "notified"},
           NEW e, Take(w, e), Apart(Home[w]), MirrorAt(Home[w])
    PROVE  MirrorAt(Home[w])'
<1>1. /\ QueuedTasks(Home[w]) = QueuedTasks(Home[w])' \cup {e.task}
      /\ e.task \notin QueuedTasks(Home[w])'
      /\ redisQueue' = redisQueue \ {e.task}
  BY TakeFacts DEF Apart, OneCopyIn
<1>2. active' = active /\ redisActive' = redisActive
  BY DEF Take
<1> QED BY <1>1, <1>2 DEF MirrorAt

\* mark_active writes the same item twice.
LEMMA MirrorMarkActive ==
    ASSUME ~RedisMayFail, TypeInv, NEW w \in Worker, MarkActive(w), MirrorAt(Home[w])
    PROVE  MirrorAt(Home[w])'
<1> DEFINE p == Home[w]
           t == hand[w].task
           item == [retry |-> hand[w].retry, started |-> now]
<1>1. /\ TypeInv' /\ p \in Proc /\ hand[w] \in Entry
      /\ active'[p][t] = item
      /\ \A q \in Proc, u \in Task : q # p \/ u # t => active'[q][u] = active[q][u]
      /\ redisActive' = [redisActive EXCEPT ![t] = item]
      /\ heap' = heap /\ forefront' = forefront /\ redisQueue' = redisQueue
  BY MarkActiveFacts
<1>2. t \in Task
  BY <1>1 DEF Entry
<1>3. QueuedTasks(p)' = QueuedTasks(p)
  BY <1>1, QueuesKept
<1> HIDE DEF t, p, item
<1>4. redisActive' \in [Task -> Running \cup {None}] /\ active'[p] \in [Task -> Running \cup {None}]
  BY <1>1 DEF TypeInv, TypeOK
<1>5. \A u \in Task : redisActive'[u] = active'[p][u]
  BY <1>1, <1>2 DEF TypeInv, TypeOK, MirrorAt, p
<1>6. redisActive' = active'[p]
  BY <1>4, <1>5
<1> QED BY <1>1, <1>3, <1>6 DEF MirrorAt, p

\* A report removes the task from both; an unknown one is in neither.
LEMMA MirrorReport ==
    ASSUME ~RedisMayFail, TypeInv, NEW w \in Worker, MirrorAt(Home[w]),
           MarkDoneSuccess(w) \/ \E success \in BOOLEAN : MarkDoneUnknown(w, success)
    PROVE  MirrorAt(Home[w])'
<1> DEFINE t == hand[w].task
           p == Home[w]
<1>1. /\ t \in Task /\ p \in Proc
      /\ heap' = heap /\ forefront' = forefront /\ redisQueue' = redisQueue
      /\ redisActive' = [redisActive EXCEPT ![t] = None]
      /\ \/ active[p][t] = None /\ active' = active
         \/ active' = [active EXCEPT ![p][t] = None]
  <2>1. CASE MarkDoneSuccess(w)
    BY <2>1, MarkDoneSuccessFacts DEF Entry
  <2>2. ASSUME NEW success \in BOOLEAN, MarkDoneUnknown(w, success)
        PROVE  /\ t \in Task /\ p \in Proc
               /\ heap' = heap /\ forefront' = forefront /\ redisQueue' = redisQueue
               /\ active[p][t] = None /\ active' = active
               /\ redisActive' = [redisActive EXCEPT ![t] = None]
    BY <2>2, MarkDoneUnknownFacts DEF Entry, memory
  <2> QED BY <2>1, <2>2
<1> HIDE DEF t, p
<1>2. QueuedTasks(p)' = QueuedTasks(p)
  BY <1>1, QueuesKept
<1>3. active[p] \in [Task -> Running \cup {None}] /\ redisActive = active[p]
  BY <1>1 DEF TypeInv, TypeOK, MirrorAt, p
<1>4. active'[p] = [active[p] EXCEPT ![t] = None]
  BY <1>1, <1>3 DEF TypeInv, TypeOK
<1> QED BY <1>1, <1>2, <1>3, <1>4 DEF MirrorAt, p

\* A failure removes it from both and queues it in both.
LEMMA MirrorFailure ==
    ASSUME ~RedisMayFail, TypeInv, NEW w \in Worker, MirrorAt(Home[w]), MarkDoneFailure(w)
    PROVE  MirrorAt(Home[w])'
<1> DEFINE t == hand[w].task
           p == Home[w]
<1>1. /\ p \in Proc
      /\ active' = [active EXCEPT ![p][t] = None]
      /\ redisActive' = [redisActive EXCEPT ![t] = None]
      /\ \E R, G \in SUBSET {t} : QueuedTasks(p)' = QueuedTasks(p) \cup R /\ redisQueue' = redisQueue \cup R
  BY MarkDoneFailureFacts
<1> HIDE DEF t, p
<1>2. active'[p] = [active[p] EXCEPT ![t] = None]
  BY <1>1 DEF TypeInv, TypeOK
<1> QED BY <1>1, <1>2 DEF MirrorAt, p

\* reclaim_stale finds nothing in Redis that it has not found in memory.
LEMMA MirrorReclaim ==
    ASSUME ~RedisMayFail, TypeInv, NEW p \in Proc, ReclaimStale(p), MirrorAt(p)
    PROVE  MirrorAt(p)'
<1>1. PICK gone, seen, gone2, R, Q, G \in SUBSET Task : Reclaims(p, gone, seen, gone2, R, Q, G)
  BY ReclaimStaleFacts
<1>2. /\ active' = [active EXCEPT ![p] = [t \in Task |-> IF t \in StaleHere(p) THEN None ELSE @[t]]]
      /\ QueuedTasks(p)' = QueuedTasks(p) \cup R \cup Q
      /\ redisQueue' = redisQueue \cup R \cup Q
  BY <1>1 DEF Reclaims
<1>3. redisActive' = [t \in Task |-> IF t \in StaleHere(p) THEN None ELSE redisActive[t]]
  BY <1>1, NothingUnlisted
<1>4. active'[p] = [t \in Task |-> IF t \in StaleHere(p) THEN None ELSE active[p][t]]
  BY <1>2 DEF TypeInv, TypeOK
<1> QED BY <1>2, <1>3, <1>4 DEF MirrorAt

\* Every step keeps the mirror exact.
LEMMA MirrorStep ==
    ASSUME Undisturbed, NEW p \in Proc
    PROVE  TypeInv /\ Apart(p) /\ MirrorAt(p) /\ [Next]_vars => MirrorAt(p)'
<1>1. SUFFICES ASSUME TypeInv, Apart(p), MirrorAt(p), [Next]_vars PROVE MirrorAt(p)'
  OBVIOUS
<1>2. ~RedisMayFail /\ (\A q \in Proc : q = p) /\ (\A w \in Worker : Home[w] = p)
  BY QueueAssumption DEF Undisturbed, Solitary, QueueAssumption
<1>3. CASE Puts
  <2>1. PICK B \in SUBSET Task : Put(p, B) /\ OnlyWakes(wpc')
    BY <1>2, <1>3 DEF Puts
  <2>2. \E acc \in SUBSET B : QueuedTasks(p)' = QueuedTasks(p) \cup acc /\ redisQueue' = redisQueue \cup acc
    BY <1>1, <1>2, <2>1, PutFacts
  <2>3. active' = active /\ redisActive' = redisActive
    BY <2>1 DEF Put
  <2> QED BY <1>1, <2>2, <2>3 DEF MirrorAt
<1>4. CASE Takes
  BY <1>1, <1>2, <1>4, MirrorTake DEF Takes
<1>5. CASE Reports
  BY <1>1, <1>2, <1>5, MirrorReport DEF Reports
<1>6. CASE Rests
  BY <1>1, <1>6, QueuesKept DEF MirrorAt, Rests
<1>7. CASE \E w \in Worker : MarkActive(w) \/ MarkDoneFailure(w)
  BY <1>1, <1>2, <1>7, MirrorMarkActive, MirrorFailure
<1>8. CASE ReclaimStale(p)
  BY <1>1, <1>2, <1>8, MirrorReclaim
<1>9. CASE Clear(p)
  BY <1>1, <1>2, <1>9, ClearFacts DEF MirrorAt
<1>10. CASE Reset(p)
  <2>1. QueuedTasks(p)' = {} /\ redisQueue' = {} /\ redisActive' = EmptyActive
        /\ active' = [active EXCEPT ![p] = EmptyActive]
    BY <1>1, <1>2, <1>10, ResetFacts
  <2>2. active'[p] = EmptyActive
    BY <1>1, <2>1 DEF TypeInv, TypeOK
  <2> QED BY <2>1, <2>2 DEF MirrorAt
<1>11. CASE Crash(p)
  <2>1. crashes < MaxCrashes
    BY <1>1, <1>11, CrashFacts
  <2>2. MaxCrashes = 0 /\ crashes \in 0..MaxCrashes
    BY <1>1 DEF Undisturbed, TypeInv, TypeOK
  <2> QED BY <2>1, <2>2
<1> QED BY <1>1, <1>2, <1>3, <1>4, <1>5, <1>6, <1>7, <1>8, <1>9, <1>10, <1>11, Steps

\* Nothing mirrors nothing.
LEMMA MirrorInit == ASSUME NEW p \in Proc PROVE Init => MirrorAt(p)
<1>1. SUFFICES ASSUME Init PROVE MirrorAt(p)
  OBVIOUS
<1>2. /\ heap[p] = EmptyHeap /\ forefront[p] = <<>> /\ active[p] = EmptyActive
      /\ redisQueue = {} /\ redisActive = EmptyActive
  BY <1>1 DEF Init
<1>3. Elements(<<>>) = {} /\ HeapSet(EmptyHeap) = {}
  BY EmptySeq DEF Elements, HeapSet, EmptyHeap
<1>4. QueuedTasks(p) = {}
  BY <1>2, <1>3, QueuedTasksAre DEF TasksIn, TasksOf
<1> QED BY <1>2, <1>4 DEF MirrorAt

\* Where one process uses the queue, never dies, and Redis works, the two key
\* sets list exactly its queued and its active tasks (the mirror of lines
\* 18-19), through every retry, reclaim, clear and reset.
THEOREM MirrorStaysExact == Undisturbed => (Spec => []MirrorExact)
<1>1. SUFFICES ASSUME Undisturbed PROVE Spec => []MirrorExact
  OBVIOUS
<1> DEFINE Inv == TypeInv /\ Placed /\ \A p \in Proc : Apart(p) /\ MirrorAt(p)
<1>2. Init => Inv
  BY TypeInit, PlacedInit, ApartInit, MirrorInit
<1>3. Inv /\ [Next]_vars => Inv'
  <2>1. ~RedisMayFail /\ Solitary
    BY <1>1 DEF Undisturbed, Solitary
  <2> QED BY <1>1, <2>1, TypeStep, PlacedStep, ApartStep, MirrorStep
<1>4. Inv => MirrorExact
  BY MirrorIs
<1> QED BY <1>2, <1>3, <1>4, PTL DEF Spec

-----------------------------------------------------------------------------
(* Deduplication.  A task created with dont_filter is not checked, but when  *)
(* it ends its fingerprint is discarded like any other (lines 480, 505,      *)
(* 585): a task that is deduplicated must not share it.                      *)

OwnFingerprints == \A t \in DontFilter, u \in Task : Filtered(u) => Fingerprint[u] # Fingerprint[t]

\* The fingerprints of the tasks p knows are those it has written down, and
\* no two are the same.
Remembered(p) == \A t \in Known(p) : Filtered(t) => Fingerprint[t] \in fingerprints[p]

DistinctIn(p) ==
    \A t, u \in Known(p) : (t # u /\ Filtered(t) /\ Filtered(u)) => Fingerprint[t] # Fingerprint[u]

DedupAt(p) == admin = 0 => Remembered(p) /\ DistinctIn(p)

\* Tasks G leave p, and their fingerprints with them.
LEMMA DedupKept ==
    ASSUME OwnFingerprints, NEW p \in Proc, DedupAt(p), admin' = admin,
           NEW G, G \subseteq Task, G \subseteq Known(p),
           Known(p) \subseteq Task, Known(p)' \subseteq Known(p) \ G,
           fingerprints'[p] = Forgotten(fingerprints[p], G)
    PROVE  DedupAt(p)'
<1>1. SUFFICES ASSUME admin = 0 PROVE Remembered(p)' /\ DistinctIn(p)'
  BY DEF DedupAt
<1>2. Remembered(p) /\ DistinctIn(p)
  BY <1>1 DEF DedupAt
<1>3. ASSUME NEW t \in Known(p)', Filtered(t) PROVE Fingerprint[t] \in fingerprints'[p]
  <2>1. t \in Known(p) /\ t \in Task /\ t \notin G /\ Fingerprint[t] \in fingerprints[p]
    BY <1>2, <1>3 DEF Remembered
  <2>2. ASSUME NEW g \in G PROVE Fingerprint[g] # Fingerprint[t]
    <3>1. CASE Filtered(g)
      BY <1>2, <1>3, <2>1, <3>1 DEF DistinctIn
    <3>2. CASE ~Filtered(g)
      <4>1. Fingerprint[g] = None \/ g \in DontFilter
        BY <3>2 DEF Filtered
      <4>2. Fingerprint[t] # None
        BY <1>3 DEF Filtered
      <4> QED BY <1>3, <2>1, <4>1, <4>2 DEF OwnFingerprints
    <3> QED BY <3>1, <3>2
  <2> QED BY <2>1, <2>2 DEF Forgotten
<1>4. Remembered(p)'
  BY <1>3 DEF Remembered, Filtered
<1>5. DistinctIn(p)'
  BY <1>2 DEF DistinctIn, Filtered
<1> QED BY <1>4, <1>5

\* A step that neither adds nor removes a task.
LEMMA DedupRests ==
    ASSUME OwnFingerprints, TypeInv, NEW p \in Proc, DedupAt(p), admin' = admin,
           Known(p)' \subseteq Known(p), fingerprints'[p] = fingerprints[p]
    PROVE  DedupAt(p)'
<1>1. Known(p) \subseteq Task
  BY TasksTyped, KnownIs
<1>2. fingerprints'[p] = Forgotten(fingerprints[p], {})
  BY DEF Forgotten
<1> QED BY <1>1, <1>2, DedupKept

\* put accepts one task for each fingerprint that is not written down, and
\* writes it down.
LEMMA DedupPut ==
    ASSUME TypeInv, Placed, NEW p \in Proc, DedupAt(p), NEW B \in SUBSET Task, Put(p, B), OnlyWakes(wpc')
    PROVE  DedupAt(p)'
<1>1. PICK acc \in SUBSET B :
        /\ Accepts(p, B, acc)
        /\ QueuedTasks(p)' = QueuedTasks(p) \cup acc
        /\ fingerprints' = [fingerprints EXCEPT ![p] =
                              @ \cup {Fingerprint[t] : t \in {u \in acc : Filtered(u)}}]
  BY PutFacts
<1>2. active' = active /\ admin' = admin /\ SameHands
  BY PutFacts DEF Put
<1>3. Known(p)' = Known(p) \cup acc
  BY <1>1, <1>2, KnownIs, HeldKept
<1>4. fingerprints'[p] = fingerprints[p] \cup {Fingerprint[t] : t \in {u \in acc : Filtered(u)}}
  BY <1>1 DEF TypeInv, TypeOK
<1>5. SUFFICES ASSUME admin = 0 PROVE Remembered(p)' /\ DistinctIn(p)'
  BY <1>2 DEF DedupAt
<1>6. Remembered(p) /\ DistinctIn(p)
  BY <1>5 DEF DedupAt
<1>7. Remembered(p)'
  BY <1>3, <1>4, <1>6 DEF Remembered, Filtered
<1>8. ASSUME NEW t \in acc, NEW u \in Known(p) \cup acc, t # u, Filtered(t), Filtered(u)
      PROVE  Fingerprint[t] # Fingerprint[u]
  <2>1. Fingerprint[t] \notin fingerprints[p]
    BY <1>1, <1>8 DEF Accepts
  <2>2. CASE u \in Known(p)
    BY <1>6, <1>8, <2>1, <2>2 DEF Remembered
  <2>3. CASE u \in acc
    BY <1>1, <1>8, <2>3 DEF Accepts
  <2> QED BY <1>8, <2>2, <2>3
<1>9. DistinctIn(p)'
  <2>1. SUFFICES ASSUME NEW t \in Known(p) \cup acc, NEW u \in Known(p) \cup acc, t # u, Filtered(t), Filtered(u)
                 PROVE  Fingerprint[t] # Fingerprint[u]
    BY <1>3 DEF DistinctIn, Filtered
  <2>2. CASE t \in acc \/ u \in acc
    BY <1>8, <2>1, <2>2
  <2>3. CASE t \in Known(p) /\ u \in Known(p)
    BY <1>6, <2>1, <2>3 DEF DistinctIn
  <2> QED BY <2>1, <2>2, <2>3
<1> QED BY <1>7, <1>9

\* The end of a task discards its own fingerprint, and no one else's.
LEMMA DedupReport ==
    ASSUME OwnFingerprints, TypeInv, NEW w \in Worker, Apart(Home[w]), DedupAt(Home[w]),
           MarkDoneSuccess(w) \/ \E success \in BOOLEAN : MarkDoneUnknown(w, success)
    PROVE  DedupAt(Home[w])'
<1> DEFINE t == hand[w].task
           p == Home[w]
<1>1. CASE MarkDoneSuccess(w)
  <2>1. /\ SameHands /\ t \in Task /\ p \in Proc
        /\ active[p][t] # None /\ active' = [active EXCEPT ![p][t] = None]
        /\ fingerprints' = [fingerprints EXCEPT ![p] = Forgotten(@, {t})]
        /\ heap' = heap /\ forefront' = forefront /\ admin' = admin
    BY <1>1, MarkDoneSuccessFacts DEF Entry
  <2> HIDE DEF t, p
  <2>2. QueuedTasks(p)' = QueuedTasks(p) /\ HeldTasks(p)' = HeldTasks(p)
    BY <2>1, QueuesKept, HeldKept
  <2>3. t \in ActiveTasks(p) /\ ActiveTasks(p)' = ActiveTasks(p) \ {t}
    BY <2>1, KnownIs DEF TypeInv, TypeOK
  <2>4. t \notin QueuedTasks(p) \cup HeldTasks(p)
    BY <2>3 DEF Apart, OneCopyIn, p
  <2>5. t \in Known(p) /\ Known(p)' \subseteq Known(p) \ {t} /\ Known(p) \subseteq Task
    BY <2>1, <2>2, <2>3, <2>4, KnownIs, TasksTyped
  <2>6. fingerprints'[p] = Forgotten(fingerprints[p], {t})
    BY <2>1 DEF TypeInv, TypeOK
  <2>7. {t} \subseteq Task /\ {t} \subseteq Known(p)
    BY <2>1, <2>5
  <2> QED BY <2>1, <2>5, <2>6, <2>7, DedupKept DEF p
<1>2. CASE \E success \in BOOLEAN : MarkDoneUnknown(w, success)
  <2>1. /\ SameHands /\ p \in Proc
        /\ heap' = heap /\ forefront' = forefront /\ active' = active
        /\ fingerprints' = fingerprints /\ admin' = admin
    BY <1>2, MarkDoneUnknownFacts DEF memory
  <2>2. Known(p)' = Known(p)
    BY <2>1, QueuesKept, HeldKept, KnownIs
  <2> QED BY <2>1, <2>2, DedupRests
<1> QED BY <1>1, <1>2

\* So does a task that is given up; one that is tried again keeps it.
LEMMA DedupFailure ==
    ASSUME OwnFingerprints, TypeInv, NEW w \in Worker, MarkDoneFailure(w), Apart(Home[w]), DedupAt(Home[w])
    PROVE  DedupAt(Home[w])'
<1> DEFINE t == hand[w].task
           p == Home[w]
<1>1. /\ SameHands /\ hand[w] \in Entry /\ p \in Proc /\ active[p][t] # None
      /\ active' = [active EXCEPT ![p][t] = None] /\ admin' = admin
  BY MarkDoneFailureFacts
<1>typed. t \in Task
  BY <1>1 DEF Entry
<1>2. PICK R \in SUBSET {t}, G \in SUBSET {t} :
           /\ R \cup G = {t} /\ R \cap G = {}
           /\ QueuedTasks(p)' = QueuedTasks(p) \cup R
           /\ OnceQueued(p) /\ t \notin QueuedTasks(p) => OnceQueued(p)'
           /\ ~RedisMayFail => redisQueue' = redisQueue \cup R
           /\ fingerprints' = [fingerprints EXCEPT ![p] = Forgotten(@, G)]
           /\ fate' = Dropped(G)
  BY MarkDoneFailureFacts
<1> HIDE DEF t, p
<1>3. t \in ActiveTasks(p) /\ ActiveTasks(p)' = ActiveTasks(p) \ {t}
  BY <1>typed, <1>1, KnownIs DEF TypeInv, TypeOK
<1>4. t \notin QueuedTasks(p) \cup HeldTasks(p)
  BY <1>3 DEF Apart, OneCopyIn, p
<1>5. HeldTasks(p)' = HeldTasks(p)
  BY <1>1, HeldKept
<1>6. Known(p)' \subseteq Known(p) \ G
  BY <1>2, <1>3, <1>4, <1>5, KnownIs
<1>7. G \subseteq Task /\ G \subseteq Known(p) /\ Known(p) \subseteq Task
  BY <1>typed, <1>1, <1>2, <1>3, KnownIs, TasksTyped
<1>8. fingerprints'[p] = Forgotten(fingerprints[p], G)
  BY <1>1, <1>2 DEF TypeInv, TypeOK
<1> QED BY <1>1, <1>6, <1>7, <1>8, DedupKept DEF p

\* The same for reclaimed tasks.
LEMMA DedupReclaim ==
    ASSUME OwnFingerprints, ~RedisMayFail, TypeInv, NEW p \in Proc, ReclaimStale(p),
           Apart(p), MirrorAt(p), DedupAt(p)
    PROVE  DedupAt(p)'
<1>1. PICK gone, seen, gone2, R, Q, G \in SUBSET Task : Reclaims(p, gone, seen, gone2, R, Q, G)
  BY ReclaimStaleFacts
<1>2. /\ active' = [active EXCEPT ![p] = [t \in Task |-> IF t \in StaleHere(p) THEN None ELSE @[t]]]
      /\ QueuedTasks(p)' = QueuedTasks(p) \cup R \cup Q
      /\ fingerprints' = [fingerprints EXCEPT ![p] = Forgotten(@, G)]
  BY <1>1 DEF Reclaims
<1>3. Q = {} /\ R \cup G = StaleHere(p) /\ R \cap G = {}
  BY <1>1, NothingUnlisted
<1>4. StaleHere(p) \subseteq ActiveTasks(p) /\ StaleHere(p) \subseteq Task
  BY DEF StaleHere, ActiveTasks
<1>5. ActiveTasks(p)' = ActiveTasks(p) \ StaleHere(p)
  <2>1. \A t \in Task : active'[p][t] = IF t \in StaleHere(p) THEN None ELSE active[p][t]
    BY <1>2 DEF TypeInv, TypeOK
  <2> QED BY <2>1, KnownIs
<1>6. HeldTasks(p)' = HeldTasks(p) /\ admin' = admin
  BY ReclaimStaleFacts, HeldKept
<1>7. (QueuedTasks(p) \cup HeldTasks(p)) \cap StaleHere(p) = {}
  BY <1>4 DEF Apart, OneCopyIn
<1>8. Known(p)' \subseteq Known(p) \ G
  BY <1>2, <1>3, <1>4, <1>5, <1>6, <1>7, KnownIs
<1>9. G \subseteq Task /\ G \subseteq Known(p) /\ Known(p) \subseteq Task
  BY <1>3, <1>4, KnownIs, TasksTyped
<1>10. fingerprints'[p] = Forgotten(fingerprints[p], G)
  BY <1>2 DEF TypeInv, TypeOK
<1> QED BY <1>6, <1>8, <1>9, <1>10, DedupKept

\* Every step keeps the fingerprints of what the process knows.
LEMMA DedupStep ==
    ASSUME Undisturbed, OwnFingerprints, NEW p \in Proc
    PROVE  TypeInv /\ Placed /\ Apart(p) /\ MirrorAt(p) /\ DedupAt(p) /\ [Next]_vars => DedupAt(p)'
<1>1. SUFFICES ASSUME TypeInv, Placed, Apart(p), MirrorAt(p), DedupAt(p), [Next]_vars PROVE DedupAt(p)'
  OBVIOUS
<1>2. ~RedisMayFail /\ (\A q \in Proc : q = p) /\ (\A w \in Worker : Home[w] = p)
  BY QueueAssumption DEF Undisturbed, Solitary, QueueAssumption
<1>3. CASE Puts
  BY <1>1, <1>2, <1>3, DedupPut DEF Puts
<1>4. CASE Takes
  <2> PICK w \in Worker : \E e : wpc[w] \in {"idle", "sleeping", "notified"} /\ Take(w, e)
    BY <1>4 DEF Takes
  <2>1. PICK e : wpc[w] \in {"idle", "sleeping", "notified"} /\ Take(w, e)
    OBVIOUS
  <2>2. fingerprints' = fingerprints /\ admin' = admin
    BY <2>1 DEF Take
  <2>3. Known(p)' = Known(p)
    BY <1>1, <2>1, KnownTake
  <2> QED BY <1>1, <2>2, <2>3, DedupRests
<1>5. CASE Reports
  BY <1>1, <1>2, <1>5, DedupReport DEF Reports
<1>6. CASE Rests
  BY <1>1, <1>6, RestsFacts, DedupRests DEF Rests
<1>7. CASE \E w \in Worker : MarkActive(w)
  <2>1. Known(p)' = Known(p) /\ fingerprints' = fingerprints /\ admin' = admin
    BY <1>1, <1>7, KnownMarkActive DEF MarkActive
  <2> QED BY <1>1, <2>1, DedupRests
<1>8. CASE \E w \in Worker : MarkDoneFailure(w)
  BY <1>1, <1>2, <1>8, DedupFailure
<1>9. CASE ReclaimStale(p)
  BY <1>1, <1>2, <1>9, DedupReclaim
<1>10. CASE Clear(p) \/ Reset(p)
  <2>1. admin' = admin + 1
    BY <1>10 DEF Clear, Reset
  <2>2. admin \in Nat
    BY <1>1, QueueAssumption DEF TypeInv, TypeOK, QueueAssumption
  <2>3. admin' # 0
    BY <2>1, <2>2
  <2> QED BY <2>3 DEF DedupAt
<1>11. CASE Crash(p)
  <2>1. crashes < MaxCrashes
    BY <1>1, <1>11, CrashFacts
  <2>2. MaxCrashes = 0 /\ crashes \in 0..MaxCrashes
    BY <1>1 DEF Undisturbed, TypeInv, TypeOK
  <2> QED BY <2>1, <2>2
<1> QED BY <1>1, <1>2, <1>3, <1>4, <1>5, <1>6, <1>7, <1>8, <1>9, <1>10, <1>11, Steps

\* No task is known at first.
LEMMA DedupInit == ASSUME NEW p \in Proc PROVE Init => DedupAt(p)
<1>1. SUFFICES ASSUME Init PROVE DedupAt(p)
  OBVIOUS
<1>2. heap[p] = EmptyHeap /\ forefront[p] = <<>> /\ active[p] = EmptyActive
  BY <1>1 DEF Init
<1>3. Elements(<<>>) = {} /\ HeapSet(EmptyHeap) = {}
  BY EmptySeq DEF Elements, HeapSet, EmptyHeap
<1>4. QueuedTasks(p) = {}
  BY <1>2, <1>3, QueuedTasksAre DEF TasksIn, TasksOf
<1>5. HeldTasks(p) = {} /\ ActiveTasks(p) = {}
  BY <1>1, <1>2 DEF Init, HeldTasks, Holders, ActiveTasks, EmptyActive
<1>6. Known(p) = {}
  BY <1>4, <1>5, KnownIs
<1> QED BY <1>6 DEF DedupAt, Remembered, DistinctIn

\* Line 10, "相同 fingerprint 的任务不重复入队": where one process uses the
\* queue, never dies, and Redis works, it never knows two deduplicated tasks
\* of one fingerprint, provided that no task created with dont_filter shares
\* the fingerprint of one.  The fingerprint of a task is in _fingerprints
\* from put() until the task is finished or given up, and no longer.
THEOREM NoDuplicates == Undisturbed /\ OwnFingerprints => (Spec => []Dedup)
<1>1. SUFFICES ASSUME Undisturbed, OwnFingerprints PROVE Spec => []Dedup
  OBVIOUS
<1> DEFINE Inv == TypeInv /\ Placed /\ \A p \in Proc : Apart(p) /\ MirrorAt(p) /\ DedupAt(p)
<1>2. Init => Inv
  BY TypeInit, PlacedInit, ApartInit, MirrorInit, DedupInit
<1>3. Inv /\ [Next]_vars => Inv'
  <2>1. ~RedisMayFail /\ Solitary
    BY <1>1 DEF Undisturbed, Solitary
  <2> QED BY <1>1, <2>1, TypeStep, PlacedStep, ApartStep, MirrorStep, DedupStep
<1>4. Inv => Dedup
  BY DEF Dedup, DedupAt, DistinctIn
<1> QED BY <1>2, <1>3, <1>4, PTL DEF Spec
=============================================================================
