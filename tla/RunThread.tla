------------------------------ MODULE RunThread ------------------------------
(***************************************************************************)
(* runthread.cxx: a task that has two functions executed by the thread     *)
(* pool, one after the other.  dispatch() of AIPackagedTask is external:   *)
(* it puts the function in the queue of the task, unless that is full, and *)
(* makes the task wait for a condition that is signalled when the function *)
(* has returned.  It returns the length the queue had.                     *)
(***************************************************************************)
EXTENDS TaskConditions, Naturals, Sequences, FiniteSets

CONSTANTS
  capacity,      \* of the queue; 2
  JobThreads     \* the number of threads of the pool

VARIABLES
  task_state,    \* mRunState
  task_cond,     \* condition word
  task_at,       \* in dispatch() of a function, or in multiplex_impl
  task_runs,     \* the task is being executed
  m_task_queue,
  jobs,          \* the functions that threads are executing
  returned,      \* the functions that have returned
  gate_open,
  was_full       \* dispatch() found the queue full

runVars == <<task_state, task_at, task_cond, task_runs, m_task_queue, jobs, returned, gate_open,
             was_full>>

condition(job) == IF job = "factorial" THEN 1 ELSE 2

Init ==
  /\ task_state = "start" /\ task_at = "multiplex" /\ task_cond = Fresh /\ task_runs = TRUE
  /\ m_task_queue = <<>> /\ jobs = {} /\ returned = {}
  /\ gate_open = FALSE /\ was_full = FALSE

\* dispatch() and set_state(next).  A full queue is recorded; the task would have to come back
\* here from yield_frame().
dispatch(job, next) ==
  /\ task_runs /\ task_at = "multiplex"
  /\ IF Len(m_task_queue) < capacity
       THEN /\ m_task_queue' = Append(m_task_queue, job)
            /\ task_state' = next /\ task_at' = job
            /\ UNCHANGED was_full
       ELSE was_full' = TRUE /\ UNCHANGED <<m_task_queue, task_state, task_at>>
  /\ UNCHANGED <<task_cond, task_runs, jobs, returned, gate_open>>

Mutant_dispatch_does_not_wait(job) ==
  /\ task_runs /\ task_at = job
  /\ task_at' = "multiplex"
  /\ UNCHANGED <<task_state, task_cond, task_runs, m_task_queue, jobs, returned, gate_open, was_full>>

\* dispatch(): the wait for the condition.  The function may have returned already.
dispatch_wait(job) ==
  /\ task_runs /\ task_at = job
  /\ task_cond' = wait(task_cond, {condition(job)})
  /\ task_runs' = ~waiting(task_cond')
  /\ task_at' = "multiplex"
  /\ UNCHANGED <<task_state, m_task_queue, jobs, returned, gate_open, was_full>>

\* case Task_start and case Task_dispatch_factorial.
dispatch_factorial == task_state = "start" /\ dispatch("factorial", "hello")

\* case Task_hello and case Task_dispatch_say_hello.
dispatch_say_hello == task_state = "hello" /\ dispatch("sayhello", "done")

\* case Task_done: get() and finish().
finish ==
  /\ task_runs /\ task_at = "multiplex" /\ task_state = "done"
  /\ task_state' = "finished" /\ task_runs' = FALSE
  /\ UNCHANGED <<task_at, task_cond, m_task_queue, jobs, returned, gate_open, was_full>>

\* A thread takes a function from the queue; the task itself is executed by one too.
take ==
  /\ m_task_queue # <<>>
  /\ Cardinality(jobs) + (IF task_runs THEN 1 ELSE 0) < JobThreads
  /\ jobs' = jobs \cup {Head(m_task_queue)}
  /\ m_task_queue' = Tail(m_task_queue)
  /\ UNCHANGED <<task_state, task_at, task_cond, task_runs, returned, gate_open, was_full>>

\* A function has returned and signals its condition.
job_returns(job) ==
  /\ jobs' = jobs \ {job}
  /\ returned' = returned \cup {job}
  /\ task_cond' = signal(task_cond, {condition(job)})
  /\ task_runs' = (task_runs \/ wakes(task_cond, {condition(job)}))
  /\ UNCHANGED <<task_state, task_at, m_task_queue, was_full>>

\* factorial() opens the gate.
factorial ==
  /\ "factorial" \in jobs
  /\ job_returns("factorial")
  /\ gate_open' = TRUE

\* sayhello() waits at the gate.
sayhello ==
  /\ "sayhello" \in jobs /\ gate_open
  /\ job_returns("sayhello")
  /\ UNCHANGED gate_open

work ==
  \/ dispatch_factorial \/ dispatch_say_hello
  \/ \E job \in {"factorial", "sayhello"} : dispatch_wait(job)
  \/ finish \/ take \/ factorial \/ sayhello

Terminated == task_state = "finished" /\ UNCHANGED runVars

Next == work \/ Terminated

-----------------------------------------------------------------------------

\* The task goes on when the function it dispatched has returned, and not before: get() has a
\* result and Hello was said when it finishes.  "This break is necessary!"
JobsInOrder ==
  task_runs /\ task_at = "multiplex" =>
    /\ task_state = "hello" => returned = {"factorial"}
    /\ task_state = "done" => returned = {"factorial", "sayhello"}

\* The queue has room for both functions, so the loop through yield_frame() is never needed.
QueueNeverFull == ~was_full

=============================================================================
