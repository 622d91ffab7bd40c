------------------------------ MODULE ChangeSets ------------------------------
(***************************************************************************)
(* core/code/diff.py and harness/changeset_journal.py with their routes in *)
(* api/routers/chat_agent.py: sets of file changes that a user has         *)
(* previewed are applied to the workspace, journaled, and undone.          *)
(*                                                                         *)
(* The server handles one such request at a time: no request awaits        *)
(* anything between its first and its last access to the disk.  The user's *)
(* editor writes the same files at any moment, an operation on a file may  *)
(* fail, and the server may die between or within two of them.             *)
(*                                                                         *)
(* Left out: paths outside of the workspace, diffs, the engine's own       *)
(* history (every request has a new engine; nothing calls its rollback()). *)
(***************************************************************************)
EXTENDS Integers, Sequences, FiniteSets

CONSTANTS
    File,         \* the files of the workspace
    Content,      \* what a file can say
    Missing,      \* no file
    Torn,         \* what a write that was cut short has left
    Original,     \* the files at first
    MaxPreviews,  \* bound of the changes that are previewed
    MaxSets,      \* bound of the sets that are accepted
    MaxUndos,     \* bound of the requests for an undo
    MaxEdits,     \* bound of the writes of the editor
    MaxFaults,    \* bound of the failures and crashes
    None          \* no change set

\* A change is a creation when it has no old content, a deletion when it has no
\* new one, else a modification.
Change == [path : File, old : Content \cup {Missing, Torn}, new : Content \cup {Missing, Torn}]

ASSUME ChangeSetsAssumption ==
    /\ Missing \notin Content /\ Torn \notin Content /\ Missing # Torn
    /\ Original \in [File -> Content \cup {Missing}]
    /\ {MaxPreviews, MaxSets, MaxUndos, MaxEdits, MaxFaults} \subseteq Nat
    /\ None \notin Nat \cup Seq(Change) /\ Torn \notin Nat

Id == 1..MaxSets

Creates(c) == c.old = Missing
Deletes(c) == ~Creates(c) /\ c.new = Missing
Modifies(c) == ~Creates(c) /\ ~Deletes(c)

VARIABLES
    file,      \* the workspace
    pending,   \* the changes the client has previewed and not yet accepted
    saved,     \* <id>.json, the changes of an accepted set, or None
    latest,    \* what latest.json says: an id, None without the file, or Torn
    pc,        \* where the request is
    undoing,   \* the set the request undoes, or None
    work,      \* the changes it applies
    next,      \* the change it is at
    accepted,  \* how many sets were applied for an accept, and given an id
    before,    \* history: the files as the conflict check has seen them
    edited,    \* history: the files the editor has written since
    stuck,     \* history: the files that could not be restored
    origin,    \* history: `before` of an accepted set
    previews, undos, edits, faults   \* how much of the bounds is used

request == <<pc, undoing, work, next>>
journal == <<saved, latest>>
history == <<before, edited, stuck>>
bounds == <<previews, undos, edits, faults>>
vars == <<file, pending, journal, request, accepted, history, origin, bounds>>

Seen == Content \cup {Missing, Torn}

TypeOK ==
    /\ file \in [File -> Seen]
    /\ pending \in Seq(Change)
    /\ saved \in [Id -> Seq(Change) \cup {None}]
    /\ latest \in Id \cup {None, Torn}
    /\ pc \in {"idle", "apply", "restore", "save", "point", "applied", "failed"}
    /\ undoing \in Id \cup {None}
    /\ work \in Seq(Change)
    /\ next \in 0 .. Len(work) + 1
    /\ accepted \in 0..MaxSets
    /\ before \in [File -> Seen] /\ origin \in [Id -> [File -> Seen]]
    /\ edited \subseteq File /\ stuck \subseteq File
    /\ previews \in 0..MaxPreviews /\ undos \in 0..MaxUndos
    /\ edits \in 0..MaxEdits /\ faults \in 0..MaxFaults

Init ==
    /\ file = Original
    /\ pending = <<>>
    /\ saved = [i \in Id |-> None] /\ latest = None
    /\ pc = "idle" /\ undoing = None /\ work = <<>> /\ next = 0
    /\ accepted = 0
    /\ before = Original /\ edited = {} /\ stuck = {}
    /\ origin = [i \in Id |-> Original]
    /\ previews = 0 /\ undos = 0 /\ edits = 0 /\ faults = 0

-----------------------------------------------------------------------------
(* The client and the editor. *)

\* A preview proposes to write or to delete a file as it is now.
Preview(f, new) ==
    /\ accepted < MaxSets /\ previews < MaxPreviews
    /\ previews' = previews + 1
    /\ new # file[f]
    /\ pending' = Append(pending, [path |-> f, old |-> file[f], new |-> new])
    /\ UNCHANGED <<file, journal, request, accepted, history, origin, undos, edits, faults>>

Edit(f) ==
    /\ edits < MaxEdits
    /\ edits' = edits + 1
    /\ \E c \in Content \cup {Missing} : c # file[f] /\ file' = [file EXCEPT ![f] = c]
    /\ edited' = IF pc = "idle" THEN {} ELSE edited \cup {f}
    /\ UNCHANGED <<pending, journal, request, accepted, before, stuck, origin, previews, undos, faults>>

-----------------------------------------------------------------------------
(* DiffEngine.apply *)

\* Mutant: the content is not compared.
FitsByName(c) == Creates(c) <=> file[c.path] = Missing

\* _check_conflict finds nothing.
Fits(c) ==
    /\ Creates(c)  => file[c.path] = Missing
    /\ Deletes(c)  => file[c.path] # Missing
    /\ Modifies(c) => file[c.path] = c.old

\* The check of all changes; no file is written if one has a conflict.
Check(changes) ==
    /\ UNCHANGED <<edited, stuck>>
    /\ IF \A i \in 1..Len(changes) : Fits(changes[i])
       THEN pc' = "apply" /\ work' = changes /\ next' = 1 /\ before' = file
       ELSE UNCHANGED <<pc, work, next, before>>

\* POST /agent/apply
Accept ==
    /\ pc = "idle" /\ pending # <<>> /\ accepted < MaxSets
    /\ Check(pending)
    /\ pending' = <<>> /\ undoing' = None
    /\ UNCHANGED <<file, journal, accepted, origin, bounds>>

\* Mutant: what is written is the content, not the old content.
InverseKeeps(changes) ==
    [i \in 1..Len(changes) |->
        [path |-> changes[i].path, old |-> changes[i].new, new |-> changes[i].new]]

\* rollback_persisted_async turns every change around and keeps their order.
Inverse(changes) ==
    [i \in 1..Len(changes) |->
        [path |-> changes[i].path, old |-> changes[i].new, new |-> changes[i].old]]

\* POST /agent/rollback, for an id that the client has or for the latest.
Undo(i) ==
    /\ pc = "idle" /\ undos < MaxUndos
    /\ undos' = undos + 1
    /\ i \in 1..accepted \cup ({latest} \cap Id)
    /\ saved[i] # None
    /\ Check(Inverse(saved[i]))
    /\ undoing' = IF pc' = "apply" THEN i ELSE None
    /\ UNCHANGED <<file, pending, journal, accepted, origin, previews, edits, faults>>

\* _apply_one and _rollback_one: what a write is to leave in the file.
CanWrite(f, new) == new = Missing => file[f] # Missing

\* A write that raises has changed nothing, or has emptied the file first.
Fault(f, new) ==
    /\ faults < MaxFaults
    /\ faults' = faults + 1
    /\ \/ UNCHANGED file
       \/ new # Missing /\ file' = [file EXCEPT ![f] = Torn]
    /\ stuck' = stuck \cup {f}

ApplyOne ==
    /\ pc = "apply" /\ next <= Len(work)
    /\ LET c == work[next] IN
       \/ /\ CanWrite(c.path, c.new)
          /\ file' = [file EXCEPT ![c.path] = c.new]
          /\ next' = next + 1
          /\ UNCHANGED <<pc, stuck, faults>>
       \/ /\ \/ ~CanWrite(c.path, c.new) /\ UNCHANGED <<file, stuck, faults>>
             \/ Fault(c.path, c.new)
          /\ pc' = "restore"
          /\ next' = next - 1
    /\ UNCHANGED <<pending, journal, undoing, work, accepted, before, edited, origin, previews, undos, edits>>

\* Mutant: the first change is not restored.
BackToSecond(n) == IF n = 2 THEN 0 ELSE n - 1

\* After the n-th change the one before it is restored.
Back(n) == n - 1

\* One round of the loop over `reversed(applied)`: an exception is passed over.
RestoreOne ==
    /\ pc = "restore" /\ next > 0
    /\ LET c == work[next] IN
       \/ /\ file' = [file EXCEPT ![c.path] = c.old]
          /\ stuck' = stuck \ {c.path}
          /\ UNCHANGED faults
       \/ Fault(c.path, c.old)
    /\ next' = Back(next)
    /\ UNCHANGED <<pending, journal, pc, undoing, work, accepted, before, edited, origin, previews, undos,
                   edits>>

\* The loop is over.
Restored ==
    /\ pc = "restore" /\ next = 0
    /\ pc' = "failed"
    /\ UNCHANGED <<file, pending, journal, undoing, work, next, accepted, history, origin, bounds>>

Touches(f) == {i \in 1..Len(work) : work[i].path = f}

\* All changes are made: an accepted set goes to the journal, after an undo
\* latest.json is removed, whatever set it names.
AllApplied ==
    /\ pc = "apply" /\ next > Len(work)
    /\ IF undoing = None
       THEN /\ accepted' = accepted + 1
            /\ origin' = [origin EXCEPT ![accepted + 1] = [f \in File |-> IF Touches(f) # {} THEN before[f] ELSE @[f]]]
            /\ pc' = "save"
            /\ UNCHANGED <<latest, faults>>
       ELSE /\ \/ latest' = None /\ UNCHANGED faults
               \/ faults < MaxFaults /\ faults' = faults + 1 /\ UNCHANGED latest
            /\ pc' = "applied"
            /\ UNCHANGED <<accepted, origin>>
    /\ UNCHANGED <<file, pending, saved, undoing, work, next, history, previews, undos, edits>>

-----------------------------------------------------------------------------
(* save_changeset *)

\* Mutant: latest.json is written also when <id>.json was not.
SaveEntryAnyway ==
    /\ pc = "save"
    /\ \/ /\ saved' = [saved EXCEPT ![accepted] = work]
          /\ UNCHANGED faults
       \/ /\ faults < MaxFaults
          /\ faults' = faults + 1
          /\ UNCHANGED saved
    /\ pc' = "point"
    /\ UNCHANGED <<file, pending, latest, undoing, work, next, accepted, history, origin, previews,
                   undos, edits>>

\* <id>.json is written next to its place and moved there; a failure anywhere
\* in save_changeset is passed over.
SaveEntry ==
    /\ pc = "save"
    /\ \/ /\ saved' = [saved EXCEPT ![accepted] = work]
          /\ pc' = "point"
          /\ UNCHANGED faults
       \/ /\ faults < MaxFaults
          /\ faults' = faults + 1
          /\ pc' = "applied"
          /\ UNCHANGED saved
    /\ UNCHANGED <<file, pending, latest, undoing, work, next, accepted, history, origin, previews, undos,
                   edits>>

Newest == accepted

\* latest.json is written in its place.
SaveLatest ==
    /\ pc = "point"
    /\ \/ latest' = Newest /\ UNCHANGED faults
       \/ /\ faults < MaxFaults
          /\ faults' = faults + 1
          /\ latest' \in {latest, Torn}
    /\ pc' = "applied"
    /\ UNCHANGED <<file, pending, saved, undoing, work, next, accepted, history, origin, previews, undos,
                   edits>>

Idle ==
    /\ pc' = "idle" /\ undoing' = None /\ work' = <<>> /\ next' = 0
    /\ before' = Original /\ edited' = {} /\ stuck' = {}

\* The client has its answer.
Answer ==
    /\ pc \in {"applied", "failed"}
    /\ Idle
    /\ UNCHANGED <<file, pending, journal, accepted, origin, bounds>>

\* The server dies, in the middle of a write if it is at one, and is started
\* again; nothing looks at what it was doing.
Crash ==
    /\ pc # "idle" /\ faults < MaxFaults
    /\ faults' = faults + 1
    /\ \/ UNCHANGED <<file, latest>>
       \/ /\ next \in 1..Len(work)
          /\ \/ pc = "apply" /\ ~Deletes(work[next])
             \/ pc = "restore" /\ ~Creates(work[next])
          /\ file' = [file EXCEPT ![work[next].path] = Torn]
          /\ UNCHANGED latest
       \/ pc = "point" /\ latest' = Torn /\ UNCHANGED file
    /\ Idle
    /\ UNCHANGED <<pending, saved, accepted, origin, previews, undos, edits>>

-----------------------------------------------------------------------------

Request ==
    ApplyOne \/ RestoreOne \/ Restored \/ AllApplied \/ SaveEntry \/ SaveLatest \/ Answer

Next ==
    \/ \E x \in File, new \in Content \cup {Missing} : Preview(x, new)
    \/ \E x \in File : Edit(x)
    \/ Accept
    \/ \E i \in Id : Undo(i)
    \/ Request
    \/ Crash

Spec == Init /\ [][Next]_vars

-----------------------------------------------------------------------------

\* What is said of all changes, or of none, at the end of a request: after a
\* success every file is what the last change of it made, after a failure what
\* the conflict check saw; except for what the editor has written meanwhile and
\* for files that could not be written.  A deletion is not compared with the
\* disk, and what is brought back is what was previewed.
Applied(f) == \E i \in Touches(f) : file[f] = work[i].new /\ \A j \in Touches(f) : j <= i

Kept(f) == file[f] = before[f] \/ \E i \in Touches(f) : Deletes(work[i]) /\ file[f] = work[i].old

AllOrNothing ==
    /\ pc = "applied" => \A f \in File \ edited : Touches(f) # {} => Applied(f)
    /\ pc = "failed" => \A f \in File \ (edited \cup stuck) : Touches(f) # {} => Kept(f)

\* latest.json never names a set whose changes are not there to undo, wherever
\* the server died.
LatestIsSaved == latest \in Id => saved[latest] # None

\* An undo that succeeds has given back every file the set has created or
\* modified as it was when the set was accepted, except for later edits.
UndoRestores ==
    (pc = "applied" /\ undoing # None) =>
        \A i \in 1..Len(work) :
            work[i].path \notin edited /\ ~Creates(work[i])
                => file[work[i].path] = origin[undoing][work[i].path]

\* A modification replaces only what the client has previewed, or what an
\* earlier change of the same set has made, unless the editor was faster than
\* the write that followed the check.
NoBlindWrite ==
    [][\A i \in 1..Len(work) :
          (/\ pc = "apply" /\ next = i /\ next' = i + 1
           /\ Modifies(work[i]) /\ work[i].path \notin edited)
          => file[work[i].path] \in {work[i].old} \cup {work[j].new : j \in 1 .. i - 1}]_vars

=============================================================================
