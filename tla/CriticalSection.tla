--------------------------- MODULE CriticalSection ---------------------------
(***************************************************************************)
(* What AIStatefulTaskMutex_test.cxx is meant to show of the mutex: tasks  *)
(* that want the critical section enter it one at a time, none of them     *)
(* leaves it before all of them have asked for it (so that there is a      *)
(* queue to serve), and the program ends when all have been through.       *)
(* TaskMutexTest is shown to implement this.                               *)
(***************************************************************************)
CONSTANT Tasks

VARIABLES
  phase,     \* of each task: "before", "wants", "inside" or "after"
  ended

vars == <<phase, ended>>

Init == phase = [t \in Tasks |-> "before"] /\ ended = FALSE

Move(t, from, to) == phase[t] = from /\ phase' = [phase EXCEPT ![t] = to] /\ UNCHANGED ended

Want(t) == Move(t, "before", "wants")

Enter(t) == Move(t, "wants", "inside") /\ \A u \in Tasks : phase[u] # "inside"

Leave(t) == Move(t, "inside", "after") /\ \A u \in Tasks : phase[u] # "before"

End == ~ended /\ ended' = TRUE /\ (\A t \in Tasks : phase[t] = "after") /\ UNCHANGED phase

Next == End \/ \E t \in Tasks : Want(t) \/ Enter(t) \/ Leave(t)

Spec == Init /\ [][Next]_vars

=============================================================================
