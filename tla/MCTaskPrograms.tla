---------------------------- MODULE MCTaskPrograms ----------------------------
(***************************************************************************)
(* The example programs with tasks, one at a time: a behaviour is a run of *)
(* one of them, and the variables of the others stay as they are.          *)
(***************************************************************************)
EXTENDS HelloWorld, Sequences

AllYieldCodes == 0 .. 63

CONSTANTS number, FibTasks, PoolThreads, capacity, JobThreads, YieldCodes

\* The tasks of fibonacci, level by level.
AllFibTasks ==
  LET Level[k \in 0 .. number] ==
        IF k = 0 THEN {<<number>>}
        ELSE UNION {{Append(t, t[k] - 1), Append(t, t[k] - 2)} : t \in {u \in Level[k - 1] : u[k] >= 2}}
  IN  UNION {Level[k] : k \in 0 .. number}

VARIABLES
  program,        \* which program was started
  fib_state, fib_at, fib_cond, fib_ready, fib_executing, m_value, printed,
  task_state, task_at, task_cond, task_runs, m_task_queue, jobs, returned, gate_open, was_full,
  m_yield_code, yt_state, yt_where, yt_handler, yt_aborted, m_timer, success, yt_failed

Fib == INSTANCE Fibonacci
Job == INSTANCE RunThread
Yt == INSTANCE YieldTest

\* FibTasks are the tasks that fibonacci creates: a task with a number of at least two creates two.
ASSUME FibonacciAssumption ==
  /\ number \in Nat /\ FibTasks \subseteq Seq(0 .. number) \ {<<>>}
  /\ Fib!flower \in FibTasks
  /\ \A t \in FibTasks : Fib!m_index(t) >= 2 => {Fib!m_largest(t), Fib!m_smallest(t)} \subseteq FibTasks
  /\ \A t \in FibTasks \ {Fib!flower} :
       /\ Fib!parent(t) \in FibTasks /\ Fib!m_index(Fib!parent(t)) >= 2
       /\ t \in {Fib!m_largest(Fib!parent(t)), Fib!m_smallest(Fib!parent(t))}

\* The queue of runthread has room for a function.
ASSUME CapacityAssumption == capacity \in Nat \ {0}

fibVars == <<fib_state, fib_at, fib_cond, fib_ready, fib_executing, m_value, printed>>
runVars == <<task_state, task_at, task_cond, task_runs, m_task_queue, jobs, returned, gate_open, was_full>>
ytVars == <<m_yield_code, yt_state, yt_where, yt_handler, yt_aborted, m_timer, success, yt_failed>>
allVars == <<program, vars, fibVars, runVars, ytVars>>

Start ==
  /\ program \in {"helloworld", "fibonacci", "runthread", "threadpool_yield_test"}
  /\ Init /\ Fib!Init /\ Job!Init
  /\ IF program = "threadpool_yield_test" THEN Yt!Init
     ELSE Yt!Init /\ m_yield_code = 0

InHelloWorld == program = "helloworld" /\ UNCHANGED <<program, fibVars, runVars, ytVars>>
InFibonacci == program = "fibonacci" /\ UNCHANGED <<program, vars, runVars, ytVars>>
InRunThread == program = "runthread" /\ UNCHANGED <<program, vars, fibVars, ytVars>>
InYieldTest == program = "threadpool_yield_test" /\ UNCHANGED <<program, vars, fibVars, runVars>>

HelloWorldStep == InHelloWorld /\ Next
FibonacciStep == InFibonacci /\ Fib!Next
RunThreadStep == InRunThread /\ Job!Next
YieldTestStep == InYieldTest /\ Yt!Next

Step == HelloWorldStep \/ FibonacciStep \/ RunThreadStep \/ YieldTestStep

\* main() and the threads of the pool keep being scheduled while there is a pool, and a thread of the pool takes
\* what is in its queues; the timer may expire, but need not.
FairPrograms ==
  /\ \A t \in Tasks : WF_allVars(InHelloWorld /\ Run(t)) /\ WF_allVars(InHelloWorld /\ pool_runs(t))
  /\ WF_allVars(InHelloWorld /\ MainLoop)
  /\ \A t \in FibTasks : WF_allVars(InFibonacci /\ Fib!step(t))
  /\ WF_allVars(InFibonacci /\ \E t \in FibTasks : Fib!dispatch(t))
  /\ WF_allVars(InFibonacci /\ Fib!main)
  /\ WF_allVars(InRunThread /\ Job!work)
  /\ WF_allVars(InYieldTest /\ Yt!work)

TaskPrograms == Start /\ [][Step]_allVars /\ FairPrograms

-----------------------------------------------------------------------------

\* In fibonacci, a task that is finished has the right number.
ValuesRight == Fib!ValuesRight

\* In fibonacci, a task only sleeps while one of its subtasks still has to signal it.
SomeoneWillSignal == Fib!SomeoneWillSignal

\* In runthread, the task goes on when the function that it dispatched has returned.
JobsInOrder == Job!JobsInOrder /\ Job!QueueNeverFull

\* In threadpool_yield_test, each state is executed by the handler the yield code stands for.
HandlersAgree == Yt!HandlersAgree

\* The tasks of the programs whose main() waits for them finish: no signal is lost and no task is
\* left in a queue.  (That of helloworld gives up after a number of rounds.)
AllFinish ==
  /\ program = "fibonacci" ~> printed # 0
  /\ program = "runthread" ~> task_state = "finished"
  /\ program = "threadpool_yield_test" ~> yt_where = "destructed"

=============================================================================
