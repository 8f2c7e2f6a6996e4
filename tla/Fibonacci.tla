------------------------------ MODULE Fibonacci ------------------------------
(***************************************************************************)
(* fibonacci.cxx: a task for a number runs two tasks for the two numbers   *)
(* before it and waits until both are finished.  Both signal the same      *)
(* condition of their parent, so one wake-up may stand for one or for both *)
(* of them, and may be for a task that the parent found finished already.  *)
(* The tasks run on the threads of a pool, the first one in main().  The   *)
(* reference is the function of fiboquick.cxx.                             *)
(***************************************************************************)
EXTENDS TaskConditions, Naturals, Sequences, FiniteSets

CONSTANTS
  number,        \* which Fibonacci number is calculated; 10
  FibTasks,      \* the first task, and the two subtasks of every task whose number is at least two
  PoolThreads    \* how many tasks the pool executes at a time

VARIABLES
  fib_state,     \* mRunState; "new" before run(), "finished" from when finished() is true
  fib_at,        \* where in multiplex_impl a task is
  fib_cond,      \* condition word of each task
  fib_ready,     \* tasks that wait for a thread
  fib_executing,
  m_value,
  printed        \* what main() printed; 0 before

fibVars == <<fib_state, fib_at, fib_cond, fib_ready, fib_executing, m_value, printed>>

\* A task is known by the numbers of the tasks from the first one to itself.
flower == <<number>>

m_index(t)    == t[Len(t)]
m_largest(t)  == Append(t, m_index(t) - 1)
m_smallest(t) == Append(t, m_index(t) - 2)
parent(t)     == SubSeq(t, 1, Len(t) - 1)

\* fiboquick.cxx, without the table that keeps what was calculated before.
fibo[k \in 0 .. number] == IF k < 2 THEN 1 ELSE fibo[k - 1] + fibo[k - 2]

Init ==
  /\ fib_state = [t \in FibTasks |-> "new"]
  /\ fib_at = [t \in FibTasks |-> "multiplex"]
  /\ fib_cond = [t \in FibTasks |-> Fresh]
  /\ fib_ready = {} /\ fib_executing = {}
  /\ m_value = [t \in FibTasks |-> 0]
  /\ printed = 0

\* main(): flower->run(&engine);
run_flower ==
  /\ fib_state[flower] = "new"
  /\ fib_state' = [fib_state EXCEPT ![flower] = "start"]
  /\ fib_ready' = {flower}
  /\ UNCHANGED <<fib_at, fib_cond, fib_executing, m_value, printed>>

\* A thread of the pool, or engine.mainloop() for the first task, goes on with a task.
dispatch(t) ==
  /\ t \in fib_ready
  /\ t # flower => Cardinality(fib_executing \ {flower}) < PoolThreads
  /\ fib_ready' = fib_ready \ {t}
  /\ fib_executing' = fib_executing \cup {t}
  /\ UNCHANGED <<fib_state, fib_at, fib_cond, m_value, printed>>

at(t, p, s) == t \in fib_executing /\ fib_at[t] = p /\ fib_state[t] = s

\* case Fibonacci_start: of the first two numbers.
start_leaf(t) ==
  /\ at(t, "multiplex", "start") /\ m_index(t) < 2
  /\ m_value' = [m_value EXCEPT ![t] = 1]
  /\ fib_state' = [fib_state EXCEPT ![t] = "done"]
  /\ UNCHANGED <<fib_at, fib_cond, fib_ready, fib_executing, printed>>

\* case Fibonacci_start: create and run the two subtasks.
start(t) ==
  /\ at(t, "multiplex", "start") /\ m_index(t) >= 2
  /\ fib_state' = [fib_state EXCEPT ![m_largest(t)] = "start", ![m_smallest(t)] = "start",
                                    ![t] = "wait"]
  /\ fib_ready' = fib_ready \cup {m_largest(t), m_smallest(t)}
  /\ UNCHANGED <<fib_at, fib_cond, fib_executing, m_value, printed>>

finished(t) == fib_state[t] = "finished"

Mutant_one_finished(t) ==
  /\ at(t, "multiplex", "wait")
  /\ finished(m_largest(t)) \/ finished(m_smallest(t))
  /\ m_value' = [m_value EXCEPT ![t] = m_value[m_largest(t)] + m_value[m_smallest(t)]]
  /\ fib_state' = [fib_state EXCEPT ![t] = "done"]
  /\ UNCHANGED <<fib_at, fib_cond, fib_ready, fib_executing, printed>>

\* case Fibonacci_wait and, when both are finished, case Fibonacci_math.
math(t) ==
  /\ at(t, "multiplex", "wait")
  /\ finished(m_largest(t)) /\ finished(m_smallest(t))
  /\ m_value' = [m_value EXCEPT ![t] = m_value[m_largest(t)] + m_value[m_smallest(t)]]
  /\ fib_state' = [fib_state EXCEPT ![t] = "done"]
  /\ UNCHANGED <<fib_at, fib_cond, fib_ready, fib_executing, printed>>

\* case Fibonacci_wait: the test when one is not finished ...
wait_state(t) ==
  /\ at(t, "multiplex", "wait")
  /\ ~(finished(m_largest(t)) /\ finished(m_smallest(t)))
  /\ fib_at' = [fib_at EXCEPT ![t] = "wait"]
  /\ UNCHANGED <<fib_state, fib_cond, fib_ready, fib_executing, m_value, printed>>

\* ... and wait(1).
wait_1(t) ==
  /\ at(t, "wait", "wait")
  /\ fib_cond' = [fib_cond EXCEPT ![t] = wait(@, {1})]
  /\ fib_executing' = IF waiting(fib_cond'[t]) THEN fib_executing \ {t} ELSE fib_executing
  /\ fib_at' = [fib_at EXCEPT ![t] = "multiplex"]
  /\ UNCHANGED <<fib_state, fib_ready, m_value, printed>>

Mutant_finish_without_signal(t) ==
  /\ at(t, "multiplex", "done")
  /\ fib_state' = [fib_state EXCEPT ![t] = "finished"]
  /\ fib_executing' = fib_executing \ {t}
  /\ UNCHANGED <<fib_at, fib_cond, fib_ready, m_value, printed>>

\* case Fibonacci_done: finish(), after which finished() is true ...
finish(t) ==
  /\ at(t, "multiplex", "done")
  /\ fib_state' = [fib_state EXCEPT ![t] = "finished"]
  /\ UNCHANGED <<fib_at, fib_cond, fib_ready, fib_executing, m_value, printed>>

\* ... and, of a subtask, signal(1) of the parent that was passed to run().
signal_parent(t) ==
  /\ at(t, "multiplex", "finished")
  /\ fib_executing' = fib_executing \ {t}
  /\ IF t = flower THEN UNCHANGED <<fib_cond, fib_ready>>
     ELSE /\ fib_cond' = [fib_cond EXCEPT ![parent(t)] = signal(@, {1})]
          /\ fib_ready' = IF wakes(fib_cond[parent(t)], {1}) THEN fib_ready \cup {parent(t)} ELSE fib_ready
  /\ UNCHANGED <<fib_state, fib_at, m_value, printed>>

\* main(): the end of the loop.  The first task runs in main(), which only looks between two
\* calls of mainloop().
print ==
  /\ printed = 0 /\ flower \notin fib_executing /\ m_value[flower] # 0
  /\ printed' = m_value[flower]
  /\ UNCHANGED <<fib_state, fib_at, fib_cond, fib_ready, fib_executing, m_value>>

step(t) ==
  \/ start_leaf(t) \/ start(t) \/ math(t) \/ wait_state(t) \/ wait_1(t)
  \/ finish(t) \/ signal_parent(t)

main == run_flower \/ print

Terminated == printed # 0 /\ UNCHANGED fibVars

Next == (\E t \in FibTasks : dispatch(t) \/ step(t)) \/ main \/ Terminated

-----------------------------------------------------------------------------

\* A task that is finished, and that its parent therefore reads, has the right number, and
\* main() prints it; no parent went on with one of its subtasks still busy.
ValuesRight ==
  /\ \A t \in FibTasks : fib_state[t] = "finished" => m_value[t] = fibo[m_index(t)]
  /\ printed # 0 => printed = fibo[number]

\* A task only sleeps while one of its subtasks still has to signal it: both signals may come
\* between the test of finished() and wait(1), or be used up by one wait.
SomeoneWillSignal ==
  \A t \in FibTasks : waiting(fib_cond[t]) =>
    \E c \in {m_largest(t), m_smallest(t)} : ~finished(c) \/ c \in fib_executing

=============================================================================
