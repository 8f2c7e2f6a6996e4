----------------------------- MODULE ObjectQueue -----------------------------
(***************************************************************************)
(* objectqueue.cxx: main() moves one function into and out of an           *)
(* AIObjectQueue, through a producer and a consumer access that it holds   *)
(* at the same time.  The queue is external: a ring of `capacity' places,  *)
(* from which nothing may be taken, when it is full, by who also holds the *)
(* producer access.  A function that was moved from is empty.              *)
(***************************************************************************)
EXTENDS Naturals, Sequences

CONSTANTS
  oq_capacity,     \* capacity, 2
  oq_loops         \* 5

VARIABLES
  oq_at, oq_i,     \* where main() is, and its loop counter
  object_queue,    \* what is in the queue: functions
  pa,              \* main() holds the producer access
  bf, bf2,         \* the functions of main(); "big" is the first one
  oq_failed        \* the ASSERTs that failed, and other things that may not be done

oqVars == <<oq_at, oq_i, object_queue, pa, bf, bf2, oq_failed>>

Init ==
  /\ oq_at = "reallocate" /\ oq_i = 0
  /\ object_queue = <<>>
  /\ pa = TRUE
  /\ bf = "empty" /\ bf2 = "empty"
  /\ oq_failed = {}

Goto(from, to) == oq_at = from /\ oq_at' = to

Check(what, holds) == oq_failed' = IF holds THEN oq_failed ELSE oq_failed \cup {what}

\* pa.move_in(f), and the ASSERTs on both lengths after it.
move_in(f, length) ==
  /\ object_queue' = Append(object_queue, f)
  /\ Check("move_in", pa /\ Len(object_queue) < oq_capacity /\ Len(object_queue') = length)

\* ca.move_out(): the ASSERTs on the length come after it.
may_move_out == object_queue # <<>> /\ ~(pa /\ Len(object_queue) = oq_capacity)

\* object_queue.reallocate(capacity) may throw; the ASSERT on the capacity then ends the
\* program.  clear() does nothing yet.
reallocate ==
  /\ oq_at = "reallocate"
  /\ oq_at' \in {"move function in", "aborted"}
  /\ UNCHANGED <<oq_i, object_queue, pa, bf, bf2, oq_failed>>

move_function_in ==
  /\ Goto("move function in", "move out to bf")
  /\ move_in("big", 1)
  /\ UNCHANGED <<oq_i, pa, bf, bf2>>

move_out_to_bf ==
  /\ Goto("move out to bf", "copy bf in")
  /\ bf' = Head(object_queue)
  /\ object_queue' = Tail(object_queue)
  /\ Check("move_out", may_move_out /\ object_queue' = <<>>)
  /\ UNCHANGED <<oq_i, pa, bf2>>

\* if (!bf) ... else pa.move_in(F(bf)), a copy.
copy_bf_in ==
  /\ oq_at = "copy bf in"
  /\ IF bf = "empty"
       THEN oq_at' = "destructed" /\ UNCHANGED <<object_queue, oq_failed>>
       ELSE oq_at' = "move bf in" /\ move_in(bf, 1)
  /\ UNCHANGED <<oq_i, pa, bf, bf2>>

move_bf_in ==
  /\ Goto("move bf in", "release") /\ oq_i < oq_loops
  /\ move_in(bf, 2)
  /\ bf' = "empty"
  /\ UNCHANGED <<oq_i, pa, bf2>>

Mutant_keep_access == Goto("release", "move out to bf2") /\ UNCHANGED <<oq_i, object_queue, pa, bf, bf2, oq_failed>>

\* pa.~ProducerAccess(), "HACK".
release ==
  /\ Goto("release", "move out to bf2")
  /\ pa' = FALSE
  /\ UNCHANGED <<oq_i, object_queue, bf, bf2, oq_failed>>

\* F bf2(ca.move_out()), and the producer access is taken again.
move_out_to_bf2 ==
  /\ Goto("move out to bf2", "execute")
  /\ bf2' = Head(object_queue)
  /\ object_queue' = Tail(object_queue)
  /\ Check("move_out", may_move_out /\ Len(object_queue') = 1)
  /\ pa' = TRUE
  /\ UNCHANGED <<oq_i, bf>>

\* bf2(); bf = std::move(bf2);
execute ==
  /\ Goto("execute", "move bf in")
  /\ Check("bad_function_call", bf2 # "empty")
  /\ bf' = bf2 /\ bf2' = "empty"
  /\ oq_i' = oq_i + 1
  /\ UNCHANGED <<object_queue, pa>>

\* The functions, both accesses and the queue, with the copy that is left in it, are destructed.
destruct ==
  /\ Goto("move bf in", "destructed") /\ oq_i = oq_loops
  /\ bf' = "empty" /\ object_queue' = <<>> /\ pa' = FALSE
  /\ UNCHANGED <<oq_i, bf2, oq_failed>>

Terminated == oq_at \in {"destructed", "aborted"} /\ UNCHANGED oqVars

Next ==
  \/ reallocate \/ move_function_in \/ move_out_to_bf \/ copy_bf_in \/ move_bf_in
  \/ release \/ move_out_to_bf2 \/ execute \/ destruct \/ Terminated

-----------------------------------------------------------------------------

\* The lengths are what main() ASSERTs, no function is called that was moved from, and nothing
\* is taken from the full queue while the producer access is held.
QueueUsedRight == oq_failed = {}

=============================================================================
