----------------------------- MODULE HelloWorld -----------------------------
(***************************************************************************)
(* helloworld.cxx: two tasks in a thread pool.  Bumper bumps HelloWorld     *)
(* and waits to be bumped; HelloWorld waits to be bumped, bumps Bumper and  *)
(* finishes.  bump() is called on a task from the thread that executes the  *)
(* other one, and its two statements, m_bumped = true and signal(1), are    *)
(* two steps.  A task is destructed as soon as it has finished, because     *)
(* main() keeps only raw pointers.  main() looks for tasks MaxLoops times   *)
(* and then leaves whether or not there are any: from then on the thread    *)
(* pool is being destructed, and nothing says that a task goes on.          *)
(***************************************************************************)
EXTENDS TaskConditions, Integers

CONSTANT MaxLoops    \* how often main() looks whether there are tasks left; 100

ASSUME MaxLoopsAssumption == MaxLoops \in Nat

VARIABLES
  state,        \* mRunState of each task
  pc,           \* where in multiplex_impl the task is
  cond,         \* condition word of each task
  m_bumped,
  executing,    \* the tasks that have been run() and do not sleep
  alive,        \* the tasks that are not destructed; number_of_tasks of them
  touched,      \* the tasks on which signal(1) was called after their destruction
  n             \* main(): -2, -1: run() calls left; 0 .. MaxLoops: rounds; MaxLoops + 1: left

vars == <<state, pc, cond, m_bumped, executing, alive, touched, n>>

Tasks == {"hello_world", "bumper"}

other(t) == IF t = "bumper" THEN "hello_world" ELSE "bumper"

Init ==
  /\ state = [t \in Tasks |-> "start"]
  /\ pc = [t \in Tasks |-> "multiplex"]
  /\ cond = [t \in Tasks |-> Fresh]
  /\ m_bumped = [t \in Tasks |-> FALSE]
  /\ executing = {}
  /\ alive = Tasks
  /\ touched = {}
  /\ n = -2

\* main() puts the tasks in the queue of the pool, hello_world first.
Run(t) ==
  /\ n = IF t = "hello_world" THEN -2 ELSE -1
  /\ n' = n + 1
  /\ executing' = executing \cup {t}
  /\ UNCHANGED <<state, pc, cond, m_bumped, alive, touched>>

\* One round of the loop at the end of main(), or its end, after which the engine and the thread pool
\* are destructed.
MainLoop ==
  /\ n >= 0 /\ n <= MaxLoops
  /\ n' = IF n < MaxLoops /\ alive # {} THEN n + 1 ELSE MaxLoops + 1
  /\ UNCHANGED <<state, pc, cond, m_bumped, executing, alive, touched>>

at(t, p) == t \in executing /\ pc[t] = p

Goto(t, p)      == pc' = [pc EXCEPT ![t] = p]
set_state(t, s) == state' = [state EXCEPT ![t] = s]

\* case HelloWorld_start, and case Bumper_start up to the call of bump().
start(t) ==
  /\ at(t, "multiplex") /\ state[t] = "start"
  /\ IF t = "hello_world" THEN set_state(t, "wait") /\ UNCHANGED pc
                          ELSE Goto(t, "bump") /\ UNCHANGED state
  /\ UNCHANGED <<cond, m_bumped, executing, alive, touched, n>>

\* case HelloWorld_wait and case Bumper_wait: the test of m_bumped ...
wait_state(t) ==
  /\ at(t, "multiplex") /\ state[t] = "wait"
  /\ IF m_bumped[t] THEN set_state(t, "done") /\ UNCHANGED pc
                    ELSE Goto(t, "wait") /\ UNCHANGED state
  /\ UNCHANGED <<cond, m_bumped, executing, alive, touched, n>>

\* ... and wait(1).
wait_1(t) ==
  /\ at(t, "wait")
  /\ cond' = [cond EXCEPT ![t] = wait(@, {1})]
  /\ executing' = IF waiting(cond'[t]) THEN executing \ {t} ELSE executing
  /\ Goto(t, "multiplex")
  /\ UNCHANGED <<state, m_bumped, alive, touched, n>>

touch(t) == touched' = IF t \in alive THEN touched ELSE touched \cup {t}

\* bump() of the other task, first statement: m_bumped = true;
bump(t) ==
  /\ at(t, "bump")
  /\ m_bumped' = [m_bumped EXCEPT ![other(t)] = TRUE]
  /\ touch(other(t))
  /\ Goto(t, "signal")
  /\ UNCHANGED <<state, cond, executing, alive, n>>

\* bump() of the other task, second statement: signal(1);  On a task that is no longer
\* there this is undefined behaviour, which is recorded and not followed any further.
Mutant_bump_signal_if_waiting(t) ==
  LET o == other(t)
  IN  /\ at(t, "signal")
      /\ touch(o)
      /\ cond' = [cond EXCEPT ![o] = IF waiting(@) THEN signal(@, {1}) ELSE @]
      /\ executing' = IF wakes(cond[o], {1}) THEN executing \cup {o} ELSE executing
      /\ Goto(t, "bumped")
      /\ UNCHANGED <<state, m_bumped, alive, n>>

bump_signal(t) ==
  LET o == other(t)
  IN  /\ at(t, "signal")
      /\ touch(o)
      /\ cond' = [cond EXCEPT ![o] = IF o \in alive THEN signal(@, {1}) ELSE @]
      /\ executing' = IF o \in alive /\ wakes(cond[o], {1}) THEN executing \cup {o} ELSE executing
      /\ Goto(t, "bumped")
      /\ UNCHANGED <<state, m_bumped, alive, n>>

\* case Bumper_start after bump(): set_state(Bumper_wait);
start_bumped(t) ==
  /\ at(t, "bumped") /\ state[t] = "start"
  /\ set_state(t, "wait")
  /\ Goto(t, "multiplex")
  /\ UNCHANGED <<cond, m_bumped, executing, alive, touched, n>>

\* finish(): the task is destructed at once.
finish(t) ==
  /\ set_state(t, "finished")
  /\ Goto(t, "multiplex")
  /\ executing' = executing \ {t}
  /\ alive' = alive \ {t}
  /\ UNCHANGED <<cond, m_bumped, touched, n>>

\* case HelloWorld_done: bumper->bump(); finish();  case Bumper_done: finish();
done(t) ==
  \/ /\ t = "hello_world" /\ at(t, "multiplex") /\ state[t] = "done"
     /\ Goto(t, "bump")
     /\ UNCHANGED <<state, cond, m_bumped, executing, alive, touched, n>>
  \/ t = "hello_world" /\ at(t, "bumped") /\ state[t] = "done" /\ finish(t)
  \/ t = "bumper" /\ at(t, "multiplex") /\ state[t] = "done" /\ finish(t)

multiplex_impl(t) ==
  \/ start(t) \/ wait_state(t) \/ wait_1(t) \/ bump(t) \/ bump_signal(t) \/ start_bumped(t)
  \/ done(t)

\* The process ends when main() has left and the threads of the pool have been joined.
Terminated == n = MaxLoops + 1 /\ UNCHANGED vars

Next ==
  \/ \E t \in Tasks : Run(t) \/ multiplex_impl(t)
  \/ MainLoop
  \/ Terminated

\* A thread of the pool executes a task, as long as there is a pool.
pool_runs(t) == n <= MaxLoops /\ multiplex_impl(t)

\* The main thread keeps being scheduled, and the threads of the pool until it is destructed.
Fairness ==
  /\ \A t \in Tasks : WF_vars(Run(t)) /\ WF_vars(pool_runs(t))
  /\ WF_vars(MainLoop)

Spec == Init /\ [][Next]_vars /\ Fairness

-----------------------------------------------------------------------------

\* A task that sleeps although m_bumped is set is about to be woken up: the thread that
\* set the flag has not called signal(1) yet.  And as long as a task is left, not all of
\* them sleep: main() only gives up on tasks that a thread has something to do for.
NoLostBump ==
  /\ \A t \in Tasks : waiting(cond[t]) /\ m_bumped[t] => pc[other(t)] = "signal"
  /\ n >= 0 /\ alive # {} => executing # {}

\* "do not use hello_world or bumper anymore": nobody calls a member function of a task
\* that has finished and was destructed.
NoUseAfterFinish == touched = {}

=============================================================================
