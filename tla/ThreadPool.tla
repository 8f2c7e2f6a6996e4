----------------------------- MODULE ThreadPool -----------------------------
(***************************************************************************)
(* threadpool.cxx: main() adds loop_size tasks to a queue of the thread    *)
(* pool, skipping one when the queue is full.  A task counts, and one in   *)
(* modulo of them asks to be executed once more.  Then main() adds a last  *)
(* task, which opens a gate, and waits at that gate.                       *)
(*                                                                         *)
(* The pool is external: a thread takes the task in front, and a task that *)
(* returned true is put at the back of the queue or, as the queue may be   *)
(* full, is executed again by the same thread.                             *)
(***************************************************************************)
EXTENDS Naturals, Sequences

CONSTANTS
  PoolThreads,   \* the threads of the pool, 6
  capacity,      \* 1300
  loop_size,     \* 1000000
  modulo         \* 5

VARIABLES
  main_at, n,    \* where main() is, and its loop counter
  queue,
  task,          \* what each thread of the pool executes
  count, full, empty,
  finished       \* the gate

vars == <<main_at, n, queue, task, count, full, empty, finished>>

Init ==
  /\ main_at = "add" /\ n = 0
  /\ queue = <<>>
  /\ task = [t \in PoolThreads |-> "none"]
  /\ count = 0 /\ full = 0 /\ empty = 0
  /\ finished = FALSE

\* One iteration of the loop: under the lock of the queue its length is read and the task is
\* moved in, after it notify_one() is called and the length is counted.
Add ==
  /\ main_at = "add" /\ n < loop_size
  /\ IF Len(queue) < capacity
       THEN queue' = Append(queue, "count") /\ UNCHANGED full
       ELSE full' = full + 1 /\ UNCHANGED queue
  /\ empty' = IF queue = <<>> THEN empty + 1 ELSE empty
  /\ n' = n + 1
  /\ UNCHANGED <<main_at, task, count, finished>>

\* The iteration of the second loop that finds room for the last task.
AddLast ==
  /\ main_at = "add" /\ n = loop_size
  /\ Len(queue) < capacity
  /\ queue' = Append(queue, "open gate")
  /\ main_at' = "wait"
  /\ UNCHANGED <<n, task, count, full, empty, finished>>

\* finished.wait()
PassGate ==
  /\ main_at = "wait" /\ finished
  /\ main_at' = "processed"
  /\ UNCHANGED <<n, queue, task, count, full, empty, finished>>

Main == Add \/ AddLast \/ PassGate

-----------------------------------------------------------------------------

Take(t) ==
  /\ task[t] = "none" /\ queue # <<>>
  /\ task' = [task EXCEPT ![t] = Head(queue)]
  /\ queue' = Tail(queue)
  /\ UNCHANGED <<main_at, n, count, full, empty, finished>>

\* The first lambda: int c = count++; return c % modulo == 0;
Count(t) ==
  /\ task[t] = "count"
  /\ count' = count + 1
  /\ task' = [task EXCEPT ![t] = IF count % modulo = 0 THEN "again" ELSE "none"]
  /\ UNCHANGED <<main_at, n, queue, full, empty, finished>>

\* The pool, when a task returned true.
Again(t) ==
  /\ task[t] = "again"
  /\ \/ /\ Len(queue) < capacity
        /\ queue' = Append(queue, "count")
        /\ task' = [task EXCEPT ![t] = "none"]
     \/ /\ task' = [task EXCEPT ![t] = "count"]
        /\ UNCHANGED queue
  /\ UNCHANGED <<main_at, n, count, full, empty, finished>>

\* The second lambda: finished.open(); return false;
Open(t) ==
  /\ task[t] = "open gate"
  /\ finished' = TRUE
  /\ task' = [task EXCEPT ![t] = "none"]
  /\ UNCHANGED <<main_at, n, queue, count, full, empty>>

Next == Main \/ \E t \in PoolThreads : Take(t) \/ Count(t) \/ Again(t) \/ Open(t)

Spec == Init /\ [][Next]_vars

-----------------------------------------------------------------------------

\* "Wait for the queue to be entirely processed.": when main() has passed the gate, no task
\* is left in the queue and none is being executed.
QueueProcessed ==
  main_at = "processed" => queue = <<>> /\ \A t \in PoolThreads : task[t] = "none"

=============================================================================
