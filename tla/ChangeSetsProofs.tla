-------------------------- MODULE ChangeSetsProofs --------------------------
(***************************************************************************)
(* Theorems about ChangeSets, for any files, contents and bounds: a set is *)
(* applied or what the check saw is kept (AllOrNothing), latest.json names *)
(* a set that can be undone (LatestIsSaved), an undo gives back what the   *)
(* set was accepted over (UndoRestores), and nothing is overwritten that   *)
(* the client had not seen (NoBlindWrite).                                 *)
(***************************************************************************)
EXTENDS ChangeSets, TLAPS

USE ChangeSetsAssumption DEF ChangeSetsAssumption, Id

-----------------------------------------------------------------------------
(* The inductive invariant. *)

\* What the place the request is at says of the rest.
Where ==
    /\ pc = "apply" => next >= 1 /\ (undoing = None => accepted < MaxSets)
    /\ pc \in {"save", "point", "applied"} => next = Len(work) + 1
    /\ pc \in {"restore", "failed"} => next <= Len(work)
    /\ pc = "failed" => next = 0
    /\ pc \in {"save", "point"} => undoing = None /\ accepted \in Id
    /\ pc = "point" => saved[accepted] # None

\* The check found no conflict.
Checked ==
    pc # "idle" => \A i \in 1..Len(work) :
        /\ Creates(work[i]) => before[work[i].path] = Missing
        /\ Deletes(work[i]) => before[work[i].path] # Missing
        /\ Modifies(work[i]) => before[work[i].path] = work[i].old

\* Up to `next`, a file is what the last change of it has made.
Made ==
    pc \in {"apply", "save", "point", "applied"} =>
        \A f \in File \ edited :
            \/ file[f] = before[f] /\ \A i \in 1..Len(work) : i < next => work[i].path # f
            \/ \E i \in 1..Len(work) :
                  /\ i < next /\ work[i].path = f /\ file[f] = work[i].new
                  /\ \A j \in 1..Len(work) : j < next /\ work[j].path = f => j <= i

\* What is not restored yet was made by one of the changes up to `next`.
Unmade ==
    pc \in {"restore", "failed"} =>
        \A f \in File \ (edited \cup stuck) :
            \/ file[f] = before[f]
            \/ \E i \in 1..Len(work) : work[i].path = f /\ file[f] = work[i].old
            \/ \E i \in 1..Len(work) : i <= next /\ work[i].path = f /\ file[f] = work[i].new

\* What a set's creations and modifications were accepted over.
Over(changes, files) ==
    \A j \in 1..Len(changes) : ~Deletes(changes[j]) => changes[j].old = files[changes[j].path]

Journal ==
    /\ \A i \in Id : saved[i] # None => i <= accepted /\ Over(saved[i], origin[i])
    /\ pc = "save" => Over(work, origin[accepted])
    /\ undoing # None => saved[undoing] # None /\ work = Inverse(saved[undoing])

IInv == TypeOK /\ Where /\ Checked /\ Made /\ Unmade /\ Journal /\ LatestIsSaved

-----------------------------------------------------------------------------
(* Types. *)

\* The changes of an undo: the same files in the same order, old and new swapped.
LEMMA InverseType ==
    ASSUME NEW s \in Seq(Change)
    PROVE  /\ Inverse(s) \in Seq(Change) /\ Len(Inverse(s)) = Len(s)
           /\ \A i \in 1..Len(s) : /\ Inverse(s)[i].path = s[i].path
                                   /\ Inverse(s)[i].old = s[i].new
                                   /\ Inverse(s)[i].new = s[i].old
<1>1. Len(s) \in Nat /\ \A i \in 1..Len(s) : s[i] \in Change
  OBVIOUS
<1>2. \A i \in 1..Len(s) : [path |-> s[i].path, old |-> s[i].new, new |-> s[i].old] \in Change
  BY <1>1 DEF Change
<1> QED BY <1>1, <1>2 DEF Inverse

\* No work at all is a list of changes.
LEMMA EmptyWork == << >> \in Seq(Change) /\ Len(<< >>) = 0
OBVIOUS

\* The neighbours of a position.
LEMMA Near ==
    ASSUME NEW n \in Nat, NEW k \in 1..n, NEW m, m = k + 1 \/ m = k - 1
    PROVE  m \in 0 .. n + 1
OBVIOUS

\* The types of the workspace and the request.
RequestOK ==
    /\ file \in [File -> Seen] /\ before \in [File -> Seen]
    /\ work \in Seq(Change) /\ next \in 0 .. Len(work) + 1
    /\ pc \in {"idle", "apply", "restore", "save", "point", "applied", "failed"}
    /\ undoing \in Id \cup {None}
    /\ edited \subseteq File /\ stuck \subseteq File

\* What a request leaves behind when it is over.
LEMMA IdleOK == ASSUME Idle PROVE
    /\ work' = << >> /\ work' \in Seq(Change) /\ Len(work') = 0 /\ next' = 0 /\ pc' = "idle"
    /\ before' \in [File -> Seen] /\ edited' = {} /\ stuck' = {} /\ undoing' = None
BY EmptyWork DEF Idle, Seen

\* Every step keeps the types of the request at work.
LEMMA RequestType ==
    ASSUME TypeOK, Where, [Next]_vars
    PROVE  RequestOK'
<1> USE DEF TypeOK, RequestOK, request, history, Seen
<1>0. RequestOK
  OBVIOUS
<1>1. ASSUME NEW s \in Seq(Change), Check(s), undoing' \in Id \cup {None}, UNCHANGED file
      PROVE  RequestOK'
  <2>1. 1 \in 0 .. Len(s) + 1 /\ edited' = edited /\ stuck' = stuck
    BY <1>1 DEF Check
  <2>2. CASE pc' = "apply" /\ work' = s /\ next' = 1 /\ before' = file
    BY <1>1, <2>1, <2>2
  <2>3. CASE UNCHANGED <<pc, work, next, before>>
    BY <1>1, <2>1, <2>3
  <2> QED BY <1>1, <2>2, <2>3 DEF Check
<1>2. ASSUME NEW f, NEW new, Preview(f, new) PROVE RequestOK'
  BY <1>2 DEF Preview
<1>3. ASSUME NEW f \in File, Edit(f) PROVE RequestOK'
  BY <1>3, SMTT(30) DEF Edit
<1>4. CASE Accept
  BY <1>1, <1>4 DEF Accept
<1>5. ASSUME NEW i \in Id, Undo(i) PROVE RequestOK'
  <2>1. Inverse(saved[i]) \in Seq(Change)
    <3>1. saved[i] \in Seq(Change)
      BY <1>5 DEF Undo
    <3> QED BY <3>1, InverseType
  <2> QED BY <1>1, <1>5, <2>1 DEF Undo
<1>6. CASE ApplyOne
  <2>1. work[next] \in Change /\ next \in 1..Len(work)
    BY <1>6 DEF ApplyOne, Where
  <2>2. work[next].path \in File /\ work[next].new \in Seen
    BY <2>1 DEF Change
  <2>3. file' \in [File -> Seen] /\ stuck' \subseteq File
    BY <1>6, <2>2 DEF ApplyOne, Fault
  <2>4. (next' = next + 1 \/ next' = next - 1) /\ (pc' = pc \/ pc' = "restore")
    BY <1>6 DEF ApplyOne
  <2>5. next' \in 0 .. Len(work) + 1 /\ Len(work) \in Nat
    <3>1. work \in Seq(Change)
      OBVIOUS
    <3>2. Len(work) \in Nat
      BY <3>1
    <3> QED BY <2>1, <2>4, <3>2, Near
  <2> QED BY <1>6, <2>3, <2>4, <2>5 DEF ApplyOne
<1>7. CASE RestoreOne
  <2>1. work[next] \in Change /\ next \in 1..Len(work)
    BY <1>7 DEF RestoreOne, Where
  <2>2. work[next].path \in File /\ work[next].old \in Seen
    BY <2>1 DEF Change
  <2>3. file' \in [File -> Seen] /\ stuck' \subseteq File
    BY <1>7, <2>2 DEF RestoreOne, Fault
  <2>4. next' \in 0 .. Len(work) + 1
    BY <1>7, <2>1 DEF RestoreOne, Back
  <2> QED BY <1>7, <2>3, <2>4 DEF RestoreOne
<1>8. CASE Restored
  BY <1>8 DEF Restored
<1>9. CASE AllApplied
  BY <1>9 DEF AllApplied
<1>10. CASE SaveEntry \/ SaveLatest
  BY <1>10 DEF SaveEntry, SaveLatest
<1>11. CASE Answer
  BY <1>11, IdleOK, SMTT(30) DEF Answer
<1>12. CASE Crash
  <2>1. next \in 1..Len(work) => work[next] \in Change
    OBVIOUS
  <2>2. file' \in [File -> Seen]
    BY <1>12, <2>1 DEF Crash, Change
  <2> QED BY <1>12, <2>2, IdleOK, SMTT(30) DEF Crash
<1>13. CASE UNCHANGED vars
  BY <1>13 DEF vars
<1> QED BY <1>2, <1>3, <1>4, <1>5, <1>6, <1>7, <1>8, <1>9, <1>10, <1>11, <1>12, <1>13
        DEF Next, Request

\* Every step keeps the counters within their bounds.
LEMMA BoundsStep ==
    ASSUME TypeOK, [Next]_vars
    PROVE  /\ previews' \in 0..MaxPreviews /\ undos' \in 0..MaxUndos
           /\ edits' \in 0..MaxEdits /\ faults' \in 0..MaxFaults
<1>1. /\ MaxPreviews \in Nat /\ MaxUndos \in Nat /\ MaxEdits \in Nat /\ MaxFaults \in Nat
      /\ previews \in 0..MaxPreviews /\ undos \in 0..MaxUndos
      /\ edits \in 0..MaxEdits /\ faults \in 0..MaxFaults
  BY DEF TypeOK
<1>2. \/ UNCHANGED bounds
      \/ previews < MaxPreviews /\ previews' = previews + 1 /\ UNCHANGED <<undos, edits, faults>>
      \/ undos < MaxUndos /\ undos' = undos + 1 /\ UNCHANGED <<previews, edits, faults>>
      \/ edits < MaxEdits /\ edits' = edits + 1 /\ UNCHANGED <<previews, undos, faults>>
      \/ faults < MaxFaults /\ faults' = faults + 1 /\ UNCHANGED <<previews, undos, edits>>
  <2>1. ASSUME NEW f, NEW new, Preview(f, new)
        PROVE  previews < MaxPreviews /\ previews' = previews + 1 /\ UNCHANGED <<undos, edits, faults>>
    BY <2>1 DEF Preview
  <2>2. ASSUME NEW f, Edit(f)
        PROVE  edits < MaxEdits /\ edits' = edits + 1 /\ UNCHANGED <<previews, undos, faults>>
    BY <2>2 DEF Edit
  <2>3. ASSUME NEW i, Undo(i)
        PROVE  undos < MaxUndos /\ undos' = undos + 1 /\ UNCHANGED <<previews, edits, faults>>
    BY <2>3 DEF Undo
  <2>4. CASE Accept \/ Restored \/ Answer \/ UNCHANGED vars
    BY <2>4 DEF Accept, Restored, Answer, vars, bounds
  <2>5. CASE ApplyOne \/ RestoreOne \/ AllApplied \/ SaveEntry \/ SaveLatest \/ Crash
    BY <2>5 DEF ApplyOne, RestoreOne, AllApplied, SaveEntry, SaveLatest, Crash, Fault, bounds
  <2> QED BY <2>1, <2>2, <2>3, <2>4, <2>5 DEF Next, Request
<1> QED BY <1>1, <1>2 DEF bounds

\* Every step keeps the types.
LEMMA TypeStep ==
    ASSUME TypeOK, Where, [Next]_vars
    PROVE  TypeOK'
<1> USE DEF TypeOK, journal, bounds, Seen
<1>0. RequestOK'
  BY RequestType
<1>1. pending' \in Seq(Change)
  <2>1. << >> \in Seq(Change)
    OBVIOUS
  <2>2. ASSUME NEW f \in File, NEW new \in Content \cup {Missing}, Preview(f, new) PROVE pending' \in Seq(Change)
    <3>1. [path |-> f, old |-> file[f], new |-> new] \in Change
      BY DEF Change
    <3> QED BY <2>2, <3>1 DEF Preview
  <2> QED BY <2>1, <2>2 DEF Next, Request, Edit, Accept, Undo, ApplyOne, RestoreOne, Restored,
             AllApplied, SaveEntry, SaveLatest, Answer, Crash, vars
<1>2. saved' \in [Id -> Seq(Change) \cup {None}] /\ latest' \in Id \cup {None, Torn}
  <2>1. CASE SaveEntry
    <3>1. accepted \in Id /\ latest' = latest
      BY <2>1 DEF SaveEntry, Where
    <3>2. work \in Seq(Change) /\ saved' \in {saved, [saved EXCEPT ![accepted] = work]}
      BY <2>1 DEF SaveEntry
    <3> QED BY <3>1, <3>2
  <2>2. CASE SaveLatest
    BY <2>2 DEF SaveLatest, Newest, Where
  <2>3. CASE AllApplied \/ Crash
    BY <2>3 DEF AllApplied, Crash
  <2>4. CASE UNCHANGED journal
    BY <2>4 DEF journal
  <2> QED BY <2>1, <2>2, <2>3, <2>4 DEF Next, Request, Preview, Edit, Accept, Undo, ApplyOne,
             RestoreOne, Restored, Answer, journal, vars
<1>3. accepted' \in 0..MaxSets /\ origin' \in [Id -> [File -> Seen]]
  <2>1. CASE AllApplied /\ undoing = None
    <3>1. accepted + 1 \in Id /\ accepted' = accepted + 1
      BY <2>1, SMTT(30) DEF AllApplied, Where
    <3>2. [f \in File |-> IF Touches(f) # {} THEN before[f] ELSE origin[accepted + 1][f]] \in [File -> Seen]
      <4> SUFFICES ASSUME NEW f \in File
                   PROVE  (IF Touches(f) # {} THEN before[f] ELSE origin[accepted + 1][f]) \in Seen
        OBVIOUS
      <4> HIDE DEF Seen
      <4>1. before[f] \in Seen /\ origin[accepted + 1][f] \in Seen
        <5>1. before \in [File -> Seen] /\ origin \in [Id -> [File -> Seen]]
          BY DEF Seen
        <5>2. origin[accepted + 1] \in [File -> Seen]
          BY <3>1, <5>1
        <5> QED BY <5>1, <5>2
      <4> QED BY <4>1
    <3> HIDE DEF Seen
    <3>3. origin' = [origin EXCEPT ![accepted + 1] =
                        [f \in File |-> IF Touches(f) # {} THEN before[f] ELSE origin[accepted + 1][f]]]
      BY <2>1 DEF AllApplied
    <3> QED BY <3>1, <3>2, <3>3, SMTT(30)
  <2>2. CASE UNCHANGED <<accepted, origin>>
    BY <2>2
  <2> QED BY <2>1, <2>2 DEF Next, Request, Preview, Edit, Accept, Undo, ApplyOne, RestoreOne,
             Restored, AllApplied, SaveEntry, SaveLatest, Answer, Crash, vars
<1>4. /\ previews' \in 0..MaxPreviews /\ undos' \in 0..MaxUndos
      /\ edits' \in 0..MaxEdits /\ faults' \in 0..MaxFaults
  BY BoundsStep
<1> QED BY <1>0, <1>1, <1>2, <1>3, <1>4 DEF RequestOK

-----------------------------------------------------------------------------
(* The parts of the invariant, one after the other. *)

\* What the proofs below use of the types.
LEMMA Facts ==
    ASSUME TypeOK
    PROVE  /\ work \in Seq(Change) /\ Len(work) \in Nat /\ next \in 0 .. Len(work) + 1
           /\ \A i \in 1..Len(work) : work[i].path \in File
           /\ accepted \in 0..MaxSets /\ MaxSets \in Nat
           /\ work # None /\ DOMAIN saved = Id /\ DOMAIN file = File /\ DOMAIN origin = Id
           /\ \A i \in Id : saved[i] # None => saved[i] \in Seq(Change)
           /\ \A i \in Id : i # None /\ i # Torn
<1>1. work \in Seq(Change) /\ next \in 0 .. Len(work) + 1 /\ accepted \in 0..MaxSets
  BY DEF TypeOK
<1>2. \A i \in 1..Len(work) : work[i].path \in File
  <2>1. \A i \in 1..Len(work) : work[i] \in Change
    BY <1>1
  <2> QED BY <2>1 DEF Change
<1>3. \A i \in Id : saved[i] # None => saved[i] \in Seq(Change)
  BY DEF TypeOK
<1> QED BY <1>1, <1>2, <1>3, SMTT(30) DEF TypeOK

\* Every step keeps what the request's place says of its variables.
LEMMA WhereStep ==
    ASSUME TypeOK, Where, [Next]_vars
    PROVE  Where'
<1>0. /\ work \in Seq(Change) /\ Len(work) \in Nat /\ next \in 0 .. Len(work) + 1
      /\ accepted \in 0..MaxSets /\ MaxSets \in Nat /\ work # None /\ DOMAIN saved = Id
      /\ \A i \in Id : i # None
  BY Facts
<1> USE DEF request, journal, history, bounds
<1>1. CASE UNCHANGED <<pc, undoing, next, work, accepted, saved>>
  BY <1>1 DEF Where
<1>2. ASSUME NEW s \in Seq(Change), Check(s), pc = "idle", UNCHANGED <<accepted, saved>>,
             pc' = "apply" => (undoing' = None => accepted < MaxSets)
      PROVE  Where'
  BY <1>2 DEF Check, Where
<1>3. CASE Accept
  <2>1. pending \in Seq(Change)
    BY DEF TypeOK
  <2> QED BY <1>2, <1>3, <2>1 DEF Accept
<1>4. ASSUME NEW i \in Id, Undo(i) PROVE Where'
  <2>1. Inverse(saved[i]) \in Seq(Change) /\ i # None
    <3>1. saved[i] \in Seq(Change) /\ i # None
      BY <1>4, Facts DEF Undo
    <3> QED BY <3>1, InverseType
  <2>2. Check(Inverse(saved[i])) /\ pc = "idle" /\ UNCHANGED <<accepted, saved>>
        /\ (pc' = "apply" => undoing' = i)
    BY <1>4 DEF Undo
  <2> QED BY <1>2, <2>1, <2>2
<1>5. CASE ApplyOne
  BY <1>0, <1>5 DEF ApplyOne, Where
<1>6. CASE RestoreOne
  BY <1>0, <1>6 DEF RestoreOne, Where, Back
<1>7. CASE Restored
  BY <1>0, <1>7 DEF Restored, Where
<1>8. CASE AllApplied
  <2>1. next = Len(work) + 1
    BY <1>0, <1>8 DEF AllApplied
  <2>2. undoing = None => accepted + 1 \in Id
    BY <1>0, <1>8 DEF AllApplied, Where
  <2> QED BY <1>8, <2>1, <2>2 DEF AllApplied, Where
<1>9. CASE SaveEntry
  <2>1. accepted \in Id /\ undoing = None /\ next = Len(work) + 1
    BY <1>9 DEF SaveEntry, Where
  <2>2. pc' = "point" => saved'[accepted] # None
    BY <1>0, <1>9, <2>1 DEF SaveEntry
  <2>3. pc' \in {"point", "applied"} /\ UNCHANGED <<undoing, next, work, accepted>>
    BY <1>9 DEF SaveEntry
  <2> QED BY <2>1, <2>2, <2>3 DEF Where
<1>10. CASE SaveLatest
  BY <1>10 DEF SaveLatest, Where
<1>11. CASE Answer \/ Crash
  BY <1>11 DEF Answer, Crash, Idle, Where
<1> QED BY <1>1, <1>3, <1>4, <1>5, <1>6, <1>7, <1>8, <1>9, <1>10, <1>11
        DEF Next, Request, Preview, Edit, vars

\* Every step keeps the work free of conflicts with the files it began with.
LEMMA CheckedStep ==
    ASSUME TypeOK, Checked, [Next]_vars
    PROVE  Checked'
<1>1. ASSUME UNCHANGED <<work, before>>, pc # "idle" PROVE Checked'
  BY <1>1 DEF Checked, Creates, Deletes, Modifies
<1>2. ASSUME UNCHANGED <<work, before, pc>> PROVE Checked'
  BY <1>2 DEF Checked, Creates, Deletes, Modifies
<1>3. ASSUME pc' = "idle" PROVE Checked'
  BY <1>3 DEF Checked
<1>4. ASSUME NEW s, Check(s), pc = "idle", UNCHANGED file PROVE Checked'
  <2>1. CASE UNCHANGED <<pc, work, next, before>>
    BY <1>2, <2>1
  <2>2. CASE work' = s /\ before' = file /\ \A i \in 1..Len(s) : Fits(s[i])
    BY <2>2 DEF Fits, Checked, Creates, Deletes, Modifies
  <2> QED BY <1>4, <2>1, <2>2 DEF Check
<1>5. CASE Accept
  BY <1>4, <1>5 DEF Accept
<1>6. ASSUME NEW i \in Id, Undo(i) PROVE Checked'
  BY <1>4, <1>6 DEF Undo
<1>7. CASE Request
  BY <1>1, <1>3, <1>7 DEF Request, ApplyOne, RestoreOne, Restored, AllApplied, SaveEntry, SaveLatest,
     Answer, Idle, history
<1>8. CASE Crash
  BY <1>3, <1>8 DEF Crash, Idle
<1> QED BY <1>2, <1>5, <1>6, <1>7, <1>8 DEF Next, Preview, Edit, request, history, vars

\* After every step a file is what the last change of it so far has made.
LEMMA MadeStep ==
    ASSUME TypeOK, Where, Made, [Next]_vars
    PROVE  Made'
<1>0. /\ work \in Seq(Change) /\ Len(work) \in Nat /\ next \in 0 .. Len(work) + 1
      /\ DOMAIN file = File
  BY Facts
<1>1. ASSUME UNCHANGED <<file, before, work, next, edited>>, pc \in {"apply", "save", "point", "applied"}
      PROVE  Made'
  BY <1>1 DEF Made
<1>2. ASSUME UNCHANGED <<file, before, work, next, edited, pc>> PROVE Made'
  BY <1>2 DEF Made
<1>3. ASSUME pc' \in {"idle", "restore", "failed"} PROVE Made'
  BY <1>3 DEF Made
<1>4. ASSUME NEW s \in Seq(Change), Check(s), pc = "idle", UNCHANGED file PROVE Made'
  <2>1. CASE UNCHANGED <<pc, work, next, before>>
    BY <1>3, <1>4, <2>1
  <2>2. CASE work' = s /\ before' = file /\ next' = 1
    BY <1>4, <2>2 DEF Made
  <2> QED BY <1>4, <2>1, <2>2 DEF Check
<1>5. CASE Accept
  <2>1. pending \in Seq(Change)
    BY DEF TypeOK
  <2> QED BY <1>4, <1>5, <2>1 DEF Accept
<1>6. ASSUME NEW i \in Id, Undo(i) PROVE Made'
  <2>1. saved[i] \in Seq(Change)
    BY <1>6, Facts DEF Undo
  <2>2. Inverse(saved[i]) \in Seq(Change)
    BY <2>1, InverseType
  <2> QED BY <1>4, <1>6, <2>2 DEF Undo
<1>7. ASSUME NEW g \in File, Edit(g) PROVE Made'
  <2>1. CASE pc = "idle"
    BY <1>3, <1>7, <2>1 DEF Edit, request
  <2>2. CASE pc # "idle"
    <3>1. edited' = edited \cup {g} /\ UNCHANGED <<before, work, next, pc>>
          /\ \A f \in File \ {g} : file'[f] = file[f]
      BY <1>0, <1>7, <2>2 DEF Edit, request
    <3> QED BY <3>1 DEF Made
  <2> QED BY <2>1, <2>2
<1>8. CASE ApplyOne
  <2>1. CASE pc' = "restore"
    BY <1>3, <2>1
  <2>2. CASE pc' # "restore"
    <3>1. /\ pc = "apply" /\ pc' = pc /\ next \in 1..Len(work) /\ next' = next + 1
          /\ file' = [file EXCEPT ![work[next].path] = work[next].new]
          /\ UNCHANGED <<before, work, edited>>
      BY <1>0, <1>8, <2>2 DEF ApplyOne, Where
    <3>2. work[next].path \in File
      BY <3>1, Facts
    <3> SUFFICES ASSUME NEW f \in File \ edited
                 PROVE  \/ file'[f] = before[f] /\ \A i \in 1..Len(work) : i < next + 1 => work[i].path # f
                        \/ \E i \in 1..Len(work) :
                              /\ i < next + 1 /\ work[i].path = f /\ file'[f] = work[i].new
                              /\ \A j \in 1..Len(work) : j < next + 1 /\ work[j].path = f => j <= i
      BY <3>1 DEF Made
    <3>3. CASE work[next].path = f
      BY <1>0, <3>1, <3>2, <3>3
    <3>4. CASE work[next].path # f
      <4>1. file'[f] = file[f] /\ \A i \in 1..Len(work) : work[i].path = f => (i < next + 1 <=> i < next)
        BY <1>0, <3>1, <3>2, <3>4
      <4> QED BY <3>1, <4>1 DEF Made
    <3> QED BY <3>3, <3>4
  <2> QED BY <2>1, <2>2
<1>9. CASE RestoreOne \/ Restored \/ Answer \/ Crash
  BY <1>3, <1>9 DEF RestoreOne, Restored, Answer, Crash, Idle
<1>10. CASE AllApplied \/ SaveEntry \/ SaveLatest
  BY <1>1, <1>10 DEF AllApplied, SaveEntry, SaveLatest, history
<1> QED BY <1>2, <1>5, <1>6, <1>7, <1>8, <1>9, <1>10 DEF Next, Request, Preview, request, history, vars

\* While a failed apply is restored, only changes up to `next` are still made.
LEMMA UnmadeStep ==
    ASSUME TypeOK, Where, Made, Unmade, [Next]_vars
    PROVE  Unmade'
<1>0. /\ work \in Seq(Change) /\ Len(work) \in Nat /\ next \in 0 .. Len(work) + 1
      /\ DOMAIN file = File
  BY Facts
<1>2. ASSUME UNCHANGED <<file, before, work, next, edited, stuck>>, pc \in {"restore", "failed"} \/ pc' = pc
      PROVE  Unmade'
  BY <1>2 DEF Unmade
<1>3. ASSUME pc' \notin {"restore", "failed"} PROVE Unmade'
  BY <1>3 DEF Unmade
<1>4. CASE Accept \/ \E i \in Id : Undo(i)
  BY <1>3, <1>4 DEF Accept, Undo, Check
<1>5. ASSUME NEW g \in File, Edit(g) PROVE Unmade'
  <2>1. CASE pc = "idle"
    BY <1>3, <1>5, <2>1 DEF Edit, request
  <2>2. CASE pc # "idle"
    <3>1. edited' = edited \cup {g} /\ UNCHANGED <<before, work, next, pc, stuck>>
          /\ \A f \in File \ {g} : file'[f] = file[f]
      BY <1>0, <1>5, <2>2 DEF Edit, request
    <3> QED BY <3>1 DEF Unmade
  <2> QED BY <2>1, <2>2
<1>6. CASE ApplyOne
  <2>1. CASE pc' = "apply"
    BY <1>3, <2>1
  <2>2. CASE pc' # "apply"
    <3>1. /\ pc = "apply" /\ next \in 1..Len(work) /\ next' = next - 1
          /\ UNCHANGED <<before, work, edited>>
          /\ \A f \in File \ stuck' : file'[f] = file[f]
      <4>1. pc = "apply" /\ next \in 1..Len(work) /\ work[next].path \in File
        BY <1>0, <1>6, Facts DEF ApplyOne, Where
      <4> QED BY <1>0, <1>6, <2>2, <4>1 DEF ApplyOne, Fault
    <3> SUFFICES ASSUME NEW f \in File \ (edited \cup stuck')
                 PROVE  \/ file'[f] = before[f]
                        \/ \E i \in 1..Len(work) : i <= next - 1 /\ work[i].path = f /\ file'[f] = work[i].new
      BY <3>1 DEF Unmade
    <3>2. \A i \in 1..Len(work) : i < next => i <= next - 1
      BY <3>1
    <3> QED BY <3>1, <3>2 DEF Made
  <2> QED BY <2>1, <2>2
<1>7. CASE RestoreOne
  <2>1. /\ pc = "restore" /\ next \in 1..Len(work) /\ next' = next - 1
        /\ UNCHANGED <<before, work, edited>>
        /\ work[next].path \in File
    BY <1>0, <1>7, Facts DEF RestoreOne, Where, Back
  <2> SUFFICES ASSUME NEW f \in File \ (edited \cup stuck')
               PROVE  \/ file'[f] = before[f]
                      \/ \E i \in 1..Len(work) : work[i].path = f /\ file'[f] = work[i].old
                      \/ \E i \in 1..Len(work) : i <= next - 1 /\ work[i].path = f /\ file'[f] = work[i].new
    BY <2>1 DEF Unmade
  <2>2. CASE work[next].path = f
    <3>1. file'[f] = work[next].old
      BY <1>0, <1>7, <2>1, <2>2 DEF RestoreOne, Fault
    <3> QED BY <2>1, <2>2, <3>1
  <2>3. CASE work[next].path # f
    <3>1. file'[f] = file[f] /\ f \notin stuck
      BY <1>0, <1>7, <2>1, <2>3 DEF RestoreOne, Fault
    <3>2. \A i \in 1..Len(work) : i <= next /\ work[i].path = f => i <= next - 1
      BY <2>1, <2>3
    <3> QED BY <2>1, <3>1, <3>2 DEF Unmade
  <2> QED BY <2>2, <2>3
<1>8. CASE Restored
  BY <1>2, <1>8 DEF Restored, history
<1>9. CASE AllApplied \/ SaveEntry \/ SaveLatest \/ Answer \/ Crash
  BY <1>3, <1>9 DEF AllApplied, SaveEntry, SaveLatest, Answer, Crash, Idle
<1> QED BY <1>2, <1>4, <1>5, <1>6, <1>7, <1>8, <1>9 DEF Next, Request, Preview, request, history, vars

\* Every step keeps each saved set over the files it was accepted on.
LEMMA JournalStep ==
    ASSUME TypeOK, Where, Checked, Journal, [Next]_vars
    PROVE  Journal'
<1>0. /\ work \in Seq(Change) /\ Len(work) \in Nat
      /\ \A i \in 1..Len(work) : work[i].path \in File
      /\ accepted \in 0..MaxSets /\ MaxSets \in Nat
      /\ DOMAIN saved = Id /\ DOMAIN origin = Id
      /\ \A i \in Id : i # None
  BY Facts
<1>1. ASSUME UNCHANGED <<saved, accepted, origin>>, undoing' = None, pc' # "save" PROVE Journal'
  BY <1>1 DEF Journal
<1>2. ASSUME UNCHANGED <<saved, accepted, origin, undoing, work>>, pc' = pc \/ pc' # "save" PROVE Journal'
  BY <1>2 DEF Journal
<1>3. CASE Accept
  BY <1>1, <1>3 DEF Accept, Check, journal
<1>4. ASSUME NEW i \in Id, Undo(i) PROVE Journal'
  <2>1. CASE undoing' = None
    BY <1>1, <1>4, <2>1 DEF Undo, Check, journal
  <2>2. CASE undoing' # None
    <3>1. /\ pc' = "apply" /\ undoing' = i /\ work' = Inverse(saved[i]) /\ saved[i] # None
          /\ UNCHANGED <<saved, accepted, origin>>
      BY <1>4, <2>2 DEF Undo, Check, journal
    <3> QED BY <3>1 DEF Journal
  <2> QED BY <2>1, <2>2
<1>5. CASE ApplyOne \/ RestoreOne \/ Restored
  BY <1>2, <1>5 DEF ApplyOne, RestoreOne, Restored, journal
<1>6. CASE AllApplied
  <2>1. CASE undoing = None
    <3>1. /\ accepted + 1 \in Id /\ accepted' = accepted + 1 /\ pc' = "save"
          /\ UNCHANGED <<saved, undoing, work>>
      BY <1>0, <1>6, <2>1 DEF AllApplied, Where
    <3>2. origin' = [origin EXCEPT ![accepted + 1] =
                        [f \in File |-> IF Touches(f) # {} THEN before[f] ELSE origin[accepted + 1][f]]]
      BY <1>6, <2>1 DEF AllApplied
    <3>3. \A i \in Id : saved[i] # None => i <= accepted /\ Over(saved[i], origin[i])
      BY DEF Journal
    <3>4. \A i \in Id : i <= accepted => origin'[i] = origin[i] /\ i <= accepted + 1
      BY <1>0, <3>1, <3>2
    <3>5. \A i \in 1..Len(work) : origin'[accepted + 1][work[i].path] = before[work[i].path]
      <4> SUFFICES ASSUME NEW i \in 1..Len(work)
                   PROVE  origin'[accepted + 1][work[i].path] = before[work[i].path]
        OBVIOUS
      <4>1. Touches(work[i].path) # {} /\ work[i].path \in File
        BY <1>0 DEF Touches
      <4>2. origin'[accepted + 1] = [f \in File |-> IF Touches(f) # {} THEN before[f] ELSE origin[accepted + 1][f]]
        BY <1>0, <3>1, <3>2
      <4> QED BY <4>1, <4>2
    <3>6. \A i \in 1..Len(work) : ~Deletes(work[i]) => work[i].old = before[work[i].path]
      BY <1>6 DEF AllApplied, Checked, Creates, Deletes, Modifies
    <3>7. Over(work, origin'[accepted + 1])
      BY <3>5, <3>6 DEF Over
    <3>8. \A i \in Id : saved[i] # None => i <= accepted + 1 /\ Over(saved[i], origin'[i])
      BY <3>3, <3>4
    <3> QED BY <2>1, <3>1, <3>7, <3>8 DEF Journal
  <2>2. CASE undoing # None
    BY <1>2, <1>6, <2>2 DEF AllApplied
  <2> QED BY <2>1, <2>2
<1>7. CASE SaveEntry
  <2>1. /\ accepted \in Id /\ undoing = None /\ Over(work, origin[accepted])
        /\ UNCHANGED <<accepted, origin, undoing>> /\ pc' # "save"
    BY <1>7 DEF SaveEntry, Where, Journal, history
  <2>2. \A i \in Id : saved'[i] = saved[i] \/ (i = accepted /\ saved'[i] = work)
    <3>1. saved' = saved \/ saved' = [saved EXCEPT ![accepted] = work]
      BY <1>7 DEF SaveEntry
    <3> SUFFICES ASSUME NEW i \in Id PROVE saved'[i] = saved[i] \/ (i = accepted /\ saved'[i] = work)
      OBVIOUS
    <3>2. CASE saved' = saved
      BY <3>2
    <3>3. CASE saved' = [saved EXCEPT ![accepted] = work]
      BY <1>0, <2>1, <3>3
    <3> QED BY <3>1, <3>2, <3>3
  <2>3. \A i \in Id : saved'[i] # None => i <= accepted /\ Over(saved'[i], origin[i])
    BY <1>0, <2>1, <2>2 DEF Journal
  <2> QED BY <2>1, <2>3 DEF Journal
<1>8. CASE SaveLatest
  BY <1>2, <1>8 DEF SaveLatest
<1>9. CASE Answer \/ Crash
  BY <1>1, <1>9 DEF Answer, Crash, Idle, journal
<1> QED BY <1>2, <1>3, <1>4, <1>5, <1>6, <1>7, <1>8, <1>9
        DEF Next, Request, Preview, Edit, request, journal, vars

\* latest.json names a saved set, or none, after every step.
LEMMA LatestStep ==
    ASSUME TypeOK, Where, LatestIsSaved, [Next]_vars
    PROVE  LatestIsSaved'
<1>0. work # None /\ DOMAIN saved = Id /\ None \notin Id /\ Torn \notin Id
  BY Facts
<1>1. ASSUME latest' = latest \/ latest' \notin Id, UNCHANGED saved PROVE LatestIsSaved'
  BY <1>1 DEF LatestIsSaved
<1>2. CASE SaveEntry
  <2>1. \A i \in Id : saved[i] # None => saved'[i] # None
    BY <1>0, <1>2 DEF SaveEntry
  <2> QED BY <1>2, <2>1 DEF SaveEntry, LatestIsSaved
<1>3. CASE SaveLatest
  BY <1>0, <1>1, <1>3 DEF SaveLatest, Newest, Where, LatestIsSaved
<1>4. CASE AllApplied
  BY <1>0, <1>1, <1>4 DEF AllApplied
<1>5. CASE Crash
  BY <1>0, <1>1, <1>5 DEF Crash
<1> QED BY <1>1, <1>2, <1>3, <1>4, <1>5
        DEF Next, Request, Preview, Edit, Accept, Undo, ApplyOne, RestoreOne, Restored, Answer, journal, vars

\* The inductive invariant holds at first.
LEMMA Initially == Init => IInv
<1> SUFFICES ASSUME Init PROVE IInv
  OBVIOUS
<1>1. << >> \in Seq(Change) /\ Len(<< >>) = 0
  OBVIOUS
<1>2. TypeOK
  BY <1>1 DEF Init, TypeOK, Seen
<1> QED BY <1>1, <1>2 DEF Init, IInv, Where, Checked, Made, Unmade, Journal, LatestIsSaved

\* Every step keeps it.
LEMMA Inductive == IInv /\ [Next]_vars => IInv'
BY TypeStep, WhereStep, CheckedStep, MadeStep, UnmadeStep, JournalStep, LatestStep DEF IInv

\* So it holds in every reachable state.
LEMMA Always == Spec => []IInv
BY Initially, Inductive, PTL DEF Spec

-----------------------------------------------------------------------------
(* The theorems. *)

\* Every variable of the workspace, the journal and the request has its type.
THEOREM TypeCorrect == Spec => []TypeOK
<1>1. IInv => TypeOK
  BY DEF IInv
<1> QED BY Always, <1>1, PTL

\* After a success every file is what the last change of it made, after a
\* failure what the check saw (apply and its loop over `reversed(applied)`).
THEOREM AppliedOrKept == Spec => []AllOrNothing
<1>1. ASSUME IInv PROVE AllOrNothing
  <2>0. /\ Len(work) \in Nat /\ TypeOK /\ Where /\ Checked /\ Made /\ Unmade
    BY <1>1, Facts DEF IInv
  <2>1. ASSUME pc = "applied", NEW f \in File \ edited, Touches(f) # {} PROVE Applied(f)
    <3>1. next = Len(work) + 1 /\ \A i \in 1..Len(work) : i < next
      BY <2>0, <2>1 DEF Where
    <3>2. PICK k \in 1..Len(work) : work[k].path = f
      BY <2>1 DEF Touches
    <3>3. PICK i \in 1..Len(work) : /\ work[i].path = f /\ file[f] = work[i].new
                                   /\ \A j \in 1..Len(work) : work[j].path = f => j <= i
      BY <2>0, <2>1, <3>1, <3>2 DEF Made
    <3> QED BY <3>3 DEF Applied, Touches
  <2>2. ASSUME pc = "failed", NEW f \in File \ (edited \cup stuck) PROVE Kept(f)
    <3>1. next = 0 /\ \A i \in 1..Len(work) : ~(i <= next)
      BY <2>0, <2>2 DEF Where
    <3>2. CASE file[f] = before[f]
      BY <3>2 DEF Kept
    <3>3. ASSUME NEW i \in 1..Len(work), work[i].path = f, file[f] = work[i].old PROVE Kept(f)
      <4>1. CASE Deletes(work[i])
        BY <3>3, <4>1 DEF Kept, Touches
      <4>2. CASE ~Deletes(work[i])
        BY <2>0, <2>2, <3>3, <4>2 DEF Checked, Creates, Modifies, Kept
      <4> QED BY <4>1, <4>2
    <3> QED BY <2>0, <2>2, <3>1, <3>2, <3>3 DEF Unmade
  <2> QED BY <2>1, <2>2 DEF AllOrNothing
<1> QED BY Always, <1>1, PTL

\* latest.json never names a set that cannot be undone (save_changeset).
THEOREM LatestCanBeUndone == Spec => []LatestIsSaved
<1>1. IInv => LatestIsSaved
  BY DEF IInv
<1> QED BY Always, <1>1, PTL

\* An undo that succeeds gives back what the set was accepted over, also when
\* sets of other files were accepted in between (rollback_persisted_async).
THEOREM UndoGivesBack == Spec => []UndoRestores
<1>1. ASSUME IInv PROVE UndoRestores
  <2> SUFFICES ASSUME pc = "applied", undoing # None,
                      NEW i \in 1..Len(work), work[i].path \notin edited, ~Creates(work[i])
               PROVE  file[work[i].path] = origin[undoing][work[i].path]
    BY DEF UndoRestores
  <2>0. /\ Len(work) \in Nat /\ TypeOK /\ Where /\ Checked /\ Made /\ Journal
        /\ work[i].path \in File
    BY <1>1, Facts DEF IInv
  <2>1. PICK s \in Seq(Change) : s = saved[undoing] /\ work = Inverse(s) /\ Over(s, origin[undoing])
    BY <2>0, Facts DEF Journal, TypeOK
  <2>2. Len(s) = Len(work) /\ \A j \in 1..Len(work) :
            work[j].path = s[j].path /\ work[j].old = s[j].new /\ work[j].new = s[j].old
    BY <2>1, InverseType
  <2>3. before[work[i].path] # Missing
    <3>1. work[i].old # Missing
      BY DEF Creates
    <3> QED BY <2>0, <3>1 DEF Checked, Creates, Deletes, Modifies
  <2>4. next = Len(work) + 1 /\ \A j \in 1..Len(work) : j < next
    BY <2>0 DEF Where
  <2>5. PICK k \in 1..Len(work) : work[k].path = work[i].path /\ file[work[i].path] = work[k].new
    BY <2>0, <2>4 DEF Made
  <2>6. ~Creates(work[k])
    BY <2>0, <2>3, <2>5 DEF Checked
  <2>7. ~Deletes(s[k])
    BY <2>2, <2>6 DEF Creates, Deletes
  <2> QED BY <2>1, <2>2, <2>5, <2>7 DEF Over
<1> QED BY Always, <1>1, PTL

\* A modification overwrites only what the client saw, or what an earlier
\* change of its set has made (_check_conflict before the first write).
THEOREM NothingOverwrittenBlindly == Spec => NoBlindWrite
<1> DEFINE Seeing == \A i \in 1..Len(work) :
        (/\ pc = "apply" /\ next = i /\ next' = i + 1
         /\ Modifies(work[i]) /\ work[i].path \notin edited)
        => file[work[i].path] \in {work[i].old} \cup {work[j].new : j \in 1 .. i - 1}
<1>1. IInv => Seeing
  <2> SUFFICES ASSUME IInv, NEW i \in 1..Len(work), pc = "apply", next = i,
                      Modifies(work[i]), work[i].path \notin edited
               PROVE  file[work[i].path] \in {work[i].old} \cup {work[j].new : j \in 1 .. i - 1}
    OBVIOUS
  <2>1. Made /\ Checked /\ work[i].path \in File /\ Len(work) \in Nat
    BY Facts DEF IInv
  <2>2. CASE file[work[i].path] = before[work[i].path]
    BY <2>1, <2>2 DEF Checked
  <2>3. ASSUME NEW j \in 1..Len(work), j < next, file[work[i].path] = work[j].new
        PROVE  file[work[i].path] \in {work[k].new : k \in 1 .. i - 1}
    <3>1. j \in 1 .. i - 1
      BY <2>3
    <3> QED BY <2>3, <3>1
  <2> QED BY <2>1, <2>2, <2>3 DEF Made
<1>2. IInv /\ [Next]_vars => [Seeing]_vars
  BY <1>1
<1> QED BY Always, <1>2, PTL DEF Spec, NoBlindWrite
=============================================================================
