--------------------------- MODULE AgentLifecycle ---------------------------
(***************************************************************************)
(* What the agent scheduler of core/agent does with a process, seen from   *)
(* outside: in which of its collections a process is, and from which       *)
(* collection it may move to which.  "gone" is a process that the kernel   *)
(* still lists and no collection holds: the scheduler will not run, block, *)
(* suspend or terminate it again.                                          *)
(***************************************************************************)
CONSTANT Pid

VARIABLE place

Places == {"new", "admitting", "ready", "running", "blocked",
           "suspending", "suspended", "terminated", "gone"}

\* The moves of the scheduler's methods.  Only ready processes are run, only
\* running ones are blocked; "gone" and "terminated" are final, and so is
\* "admitting", a process whose spawn waits for the lock.
Moves(from) ==
    CASE from = "new"        -> {"admitting", "ready"}
      [] from = "ready"      -> {"running", "suspending", "terminated", "gone"}
      [] from = "running"    -> {"blocked", "suspending", "terminated", "gone"}
      [] from = "blocked"    -> {"ready", "terminated", "gone"}
      [] from = "suspending" -> {"suspended", "gone"}
      [] from = "suspended"  -> {"terminated", "gone"}
      [] OTHER               -> {}

Init == place = [p \in Pid |-> "new"]

\* A method may move several processes: a killed parent takes its children
\* along, a new process those it preempts.
Next ==
    /\ place' \in [Pid -> Places]
    /\ \A p \in Pid : place'[p] = place[p] \/ place'[p] \in Moves(place[p])

Spec == Init /\ [][Next]_place
=============================================================================
