------------------------- MODULE TaskProgramsProofs -------------------------
(***************************************************************************)
(* The safety of the example programs with tasks: for every interleaving   *)
(* of the threads of the pool, every yield code, every size of the pool    *)
(* and of its queue, and every Fibonacci number.                           *)
(***************************************************************************)
EXTENDS MCTaskPrograms, FiniteSetTheorems, SequenceTheorems, WellFoundedInduction, TLAPS

(* A step is a step of one of the programs; it leaves the variables of the   *)
(* others alone.                                                             *)
LEMMA ProgramStep ==
  [Step]_allVars => /\ Next \/ UNCHANGED vars
                    /\ Fib!Next \/ UNCHANGED fibVars
                    /\ Job!Next \/ UNCHANGED runVars
                    /\ Yt!Next \/ UNCHANGED ytVars
BY DEF Step, HelloWorldStep, FibonacciStep, RunThreadStep, YieldTestStep, InHelloWorld, InFibonacci,
       InRunThread, InYieldTest, allVars, vars, fibVars, runVars, ytVars

-----------------------------------------------------------------------------
(* helloworld                                                                *)

\* run() has not been called yet.
NotRun(t) == IF t = "hello_world" THEN n = -2 ELSE n < 0

\* Both statements of bump() of the task have been executed.
Bumped(t) == m_bumped[t] /\ pc[other(t)] # "signal"

TaskTypes ==
  /\ n \in Int
  /\ state \in [Tasks -> {"start", "wait", "done", "finished"}]
  /\ pc \in [Tasks -> {"multiplex", "wait", "bump", "signal", "bumped"}]
  /\ cond \in [Tasks -> ConditionWords({1})]
  /\ m_bumped \in [Tasks -> BOOLEAN]

\* A task that sleeps, that was destructed, or that was not run, is not executed.
NotExecuted ==
  \A t \in Tasks :
    /\ t \in executing => t \in alive /\ ~waiting(cond[t]) /\ ~NotRun(t)
    /\ t \notin executing => pc[t] = "multiplex"
    /\ NotRun(t) => t \in alive /\ ~waiting(cond[t])
    /\ t \notin alive => ~waiting(cond[t])

\* A task that has been bumped does not sleep, and its next wait(1) is skipped.
BumpArrives ==
  \A t \in Tasks :
    /\ pc[t] = "signal" => m_bumped[other(t)]
    /\ Bumped(t) => ~waiting(cond[t]) /\ (pc[t] = "wait" => 1 \in cond[t].skip)

\* How far the tasks have come: bumper is past its start, and hello_world has finished, only when they
\* have bumped the other one; and a task that is not executed sleeps.
Progress ==
  /\ \A t \in Tasks :
       /\ t \in alive <=> state[t] # "finished"
       /\ pc[t] \in {"signal", "bumped"} => m_bumped[other(t)]
       /\ pc[t] = "wait" \/ waiting(cond[t]) => state[t] = "wait"
       /\ t \in alive /\ ~NotRun(t) /\ t \notin executing => waiting(cond[t])
  /\ alive \subseteq Tasks
  /\ state["bumper"] # "start" => m_bumped["hello_world"]
  /\ state["hello_world"] = "finished" => m_bumped["bumper"]

HelloInv == TaskTypes /\ NotExecuted /\ BumpArrives /\ Progress

LEMMA HelloInit == Init => HelloInv
BY DEF Init, HelloInv, TaskTypes, NotExecuted, BumpArrives, Progress, Tasks, NotRun, Bumped, Fresh, ConditionWords, waiting, other

LEMMA HelloNext == HelloInv /\ (Next \/ UNCHANGED vars) => HelloInv'
<1> SUFFICES ASSUME HelloInv, Next \/ UNCHANGED vars PROVE HelloInv'
  OBVIOUS
<1> USE DEF HelloInv, TaskTypes, NotExecuted, BumpArrives, Progress, NotRun, Bumped, other, Tasks, waiting
<1>1. ASSUME NEW t \in Tasks, Run(t) PROVE HelloInv'
  <2>1. CASE t = "hello_world"
    <3>1. n = -2 /\ n' = -1
      BY <1>1, <2>1 DEF Run
    <3>2. NotRun("hello_world") /\ ~NotRun("hello_world")' /\ NotRun("bumper") /\ NotRun("bumper")'
      BY <3>1
    <3> HIDE DEF NotRun
    <3> QED BY <1>1, <2>1, <3>1, <3>2 DEF Run
  <2>2. CASE t = "bumper"
    <3>1. n = -1 /\ n' = 0
      BY <1>1, <2>2 DEF Run
    <3> QED BY <1>1, <2>2, <3>1 DEF Run
  <2> QED BY <2>1, <2>2
<1>2. CASE MainLoop
  BY <1>2, MaxLoopsAssumption DEF MainLoop
<1>3. ASSUME NEW t \in Tasks, start(t) \/ wait_state(t) PROVE HelloInv'
  <2>1. CASE start(t) /\ t = "hello_world"
    BY <2>1 DEF start, at, set_state
  <2>2. CASE start(t) /\ t = "bumper"
    BY <2>2 DEF start, at, Goto
  <2>3. CASE wait_state(t) /\ t = "hello_world"
    BY <2>3 DEF wait_state, at, Goto, set_state
  <2>4. CASE wait_state(t) /\ t = "bumper"
    BY <2>4 DEF wait_state, at, Goto, set_state
  <2> QED BY <1>3, <2>1, <2>2, <2>3, <2>4
<1>4. ASSUME NEW t \in Tasks, wait_1(t) PROVE HelloInv'
  BY <1>4 DEF wait_1, at, Goto, wait, ConditionWords
<1>5. ASSUME NEW t \in Tasks, bump(t) PROVE HelloInv'
  BY <1>5 DEF bump, at, Goto
<1>6. ASSUME NEW t \in Tasks, bump_signal(t) PROVE HelloInv'
  BY <1>6 DEF bump_signal, at, Goto, signal, wakes, ConditionWords
<1>7. ASSUME NEW t \in Tasks, start_bumped(t) PROVE HelloInv'
  BY <1>7 DEF start_bumped, at, Goto, set_state
<1>8. ASSUME NEW t \in Tasks, done(t) PROVE HelloInv'
  <2>1. CASE t = "hello_world" /\ pc[t] = "multiplex"
    BY <1>8, <2>1 DEF done, at, Goto
  <2>2. CASE finish(t) /\ t \in executing /\ (t = "hello_world" => pc[t] = "bumped")
                       /\ (t = "bumper" => state[t] = "done" /\ pc[t] = "multiplex")
    <3>1. /\ state' = [state EXCEPT ![t] = "finished"] /\ pc' = [pc EXCEPT ![t] = "multiplex"]
          /\ executing' = executing \ {t} /\ alive' = alive \ {t} /\ UNCHANGED <<cond, m_bumped, n>>
      BY <2>2 DEF finish, set_state, Goto
    <3>2. ~waiting(cond[t]) /\ ~NotRun(t) /\ pc[t] # "signal"
      BY <2>2
    <3>3. \A x \in Tasks : NotRun(x)' = NotRun(x)
      BY <3>1
    <3>4. TaskTypes'
      BY <3>1
    <3>5. NotExecuted'
      <4> HIDE DEF NotRun, BumpArrives, Progress
      <4> QED BY <2>2, <3>1, <3>2, <3>3
    <3>6. BumpArrives'
      <4> HIDE DEF NotExecuted, Progress, NotRun
      <4> QED BY <2>2, <3>1, <3>2
    <3>7. Progress'
      <4>1. \A x \in Tasks : x \in alive' <=> state'[x] # "finished"
        BY <3>1
      <4>2. \A x \in Tasks : /\ pc'[x] \in {"signal", "bumped"} => m_bumped'[other(x)]
                             /\ pc'[x] = "wait" \/ waiting(cond'[x]) => state'[x] = "wait"
        BY <3>1, <3>2
      <4>3. \A x \in Tasks : x \in alive' /\ ~NotRun(x)' /\ x \notin executing' => waiting(cond'[x])
        BY <3>1, <3>3
      <4>4. /\ alive' \subseteq Tasks
            /\ state'["bumper"] # "start" => m_bumped'["hello_world"]
            /\ state'["hello_world"] = "finished" => m_bumped'["bumper"]
        BY <2>2, <3>1
      <4> QED BY <4>1, <4>2, <4>3, <4>4
    <3> QED BY <3>4, <3>5, <3>6, <3>7
  <2> QED BY <1>8, <2>1, <2>2 DEF done, at
<1>9. CASE UNCHANGED vars
  BY <1>9 DEF vars
<1> QED BY <1>1, <1>2, <1>3, <1>4, <1>5, <1>6, <1>7, <1>8, <1>9 DEF Next, multiplex_impl, Terminated

LEMMA HelloSafe == HelloInv => NoLostBump
<1> SUFFICES ASSUME HelloInv PROVE NoLostBump
  OBVIOUS
<1> USE DEF HelloInv, Tasks, other
<1>1. \A t \in Tasks : waiting(cond[t]) /\ m_bumped[t] => pc[other(t)] = "signal"
  BY DEF BumpArrives, Bumped
<1>2. ASSUME n >= 0, alive # {}, executing = {} PROVE FALSE
  <2>1. \A t \in Tasks : ~NotRun(t) /\ pc[t] = "multiplex"
    BY <1>2 DEF NotRun, NotExecuted, TaskTypes
  <2>2. \A t \in Tasks : t \in alive => waiting(cond[t]) /\ state[t] = "wait" /\ ~m_bumped[t]
    BY <1>1, <1>2, <2>1 DEF Progress
  <2>3. "hello_world" \in alive => FALSE
    BY <2>2 DEF Progress
  <2>4. "bumper" \in alive => FALSE
    BY <2>2, <2>3 DEF Progress
  <2> QED BY <1>2, <2>3, <2>4 DEF Progress
<1> QED BY <1>1, <1>2 DEF NoLostBump

\* No bump is lost: a task that sleeps although m_bumped is set has a signal coming, and the two tasks
\* never both sleep.
THEOREM BumpsArrive == TaskPrograms => []NoLostBump
<1>1. HelloInv => NoLostBump
  BY HelloSafe
<1>2. Start => HelloInv
  BY HelloInit DEF Start
<1>3. HelloInv /\ [Step]_allVars => HelloInv'
  BY ProgramStep, HelloNext
<1> QED BY <1>1, <1>2, <1>3, PTL DEF TaskPrograms

-----------------------------------------------------------------------------
(* threadpool_yield_test                                                     *)

\* yield() without a handler is asked for where the task runs immediately.
AsksForAbort == Yt!run_handler = Yt!immediate /\ Yt!Bits(2) = Yt!immediate

\* The handler that should execute the state.
Expected ==
  CASE yt_state = "start" -> Yt!run_handler
    [] yt_state = "print" -> Yt!start_handler
    [] yt_state = "done"  -> Yt!print_handler

YieldInv ==
  /\ yt_failed = {}
  /\ yt_state \in {"start", "print", "done"}
  /\ yt_where \in {"created", "queued", "busy", "finished", "destructed"}
  /\ yt_where = "created" => yt_state = "start" /\ m_timer = "off" /\ ~yt_aborted
  /\ yt_where \in {"created", "queued", "busy"} => success = {}
  /\ success \in {{}, {TRUE}, {FALSE}}
  /\ ~yt_aborted /\ yt_where # "created" => yt_handler = Expected
  /\ ~yt_aborted /\ yt_state # "start" => ~AsksForAbort
  /\ yt_aborted \/ FALSE \in success => m_timer = "expired" \/ AsksForAbort

\* What the yield code stands for does not change.
LEMMA SameCode ==
  ASSUME m_yield_code' = m_yield_code
  PROVE  /\ Yt!Bits(2)' = Yt!Bits(2) /\ Yt!Bits(4)' = Yt!Bits(4)
         /\ Yt!run_handler' = Yt!run_handler /\ Yt!start_handler' = Yt!start_handler
         /\ Yt!print_handler' = Yt!print_handler
BY DEF Yt!Bits, Yt!run_handler, Yt!start_handler, Yt!print_handler

LEMMA YieldNext == YieldInv /\ (Yt!Next \/ UNCHANGED ytVars) => YieldInv'
<1> SUFFICES ASSUME YieldInv, Yt!Next \/ UNCHANGED ytVars PROVE YieldInv'
  OBVIOUS
<1> USE DEF YieldInv, AsksForAbort, Expected
<1>0. m_yield_code' = m_yield_code
  BY DEF Yt!Next, Yt!work, Yt!run, Yt!execute, Yt!start, Yt!print, Yt!done, Yt!aborted, Yt!timed_out, Yt!next_round,
         Yt!Terminated, Yt!ytVars, ytVars
<1>1. CASE Yt!run
  BY <1>0, <1>1, SameCode DEF Yt!run
<1>7. CASE Yt!execute
  BY <1>0, <1>7, SameCode DEF Yt!execute
<1>2. CASE Yt!start
  BY <1>0, <1>2, SameCode DEF Yt!start, Yt!assert, Yt!yield, Yt!start_handler
<1>3. CASE Yt!print
  BY <1>0, <1>3, SameCode DEF Yt!print, Yt!assert, Yt!yield, Yt!start_handler, Yt!print_handler
<1>4. CASE Yt!done
  BY <1>0, <1>4, SameCode DEF Yt!done, Yt!assert, Yt!finish
<1>5. CASE Yt!aborted \/ Yt!timed_out
  BY <1>0, <1>5, SameCode DEF Yt!aborted, Yt!timed_out, Yt!finish
<1>6. CASE UNCHANGED ytVars
  BY <1>0, <1>6, SameCode DEF ytVars
<1>8. CASE Yt!next_round
  BY <1>0, <1>8, SameCode DEF Yt!next_round
<1> QED BY <1>1, <1>2, <1>3, <1>4, <1>5, <1>6, <1>7, <1>8 DEF Yt!Next, Yt!work, Yt!Terminated, Yt!ytVars, ytVars

\* For every yield code the ASSERTs hold: each state is executed by the handler the code stands for, and
\* a task only fails by the timer or because its code asks for a yield() that is not allowed; and the
\* callback is called with one result, whenever the timer expires.
THEOREM HandlersAlwaysAgree == TaskPrograms => []HandlersAgree
<1>1. YieldInv => HandlersAgree
  BY DEF YieldInv, HandlersAgree, Yt!HandlersAgree, AsksForAbort
<1>2. Start => YieldInv
  BY DEF Start, Yt!Init, YieldInv
<1>3. YieldInv /\ [Step]_allVars => YieldInv'
  BY ProgramStep, YieldNext
<1> QED BY <1>1, <1>2, <1>3, PTL DEF TaskPrograms

-----------------------------------------------------------------------------
(* runthread                                                                 *)

\* Where a function is: in the queue, executed by a thread, or returned.
InQueue(job)  == m_task_queue = <<job>> /\ jobs = {} /\ job \notin returned
Executed(job) == m_task_queue = <<>> /\ jobs = {job} /\ job \notin returned
Returned(job) == m_task_queue = <<>> /\ jobs = {} /\ job \in returned

\* The task dispatched the function and did not go on: it is about to wait or sleeps; a signal
\* that came before the wait is remembered.
Dispatched(job) ==
  /\ InQueue(job) \/ Executed(job) \/ Returned(job)
  /\ \/ /\ task_runs /\ task_at = job
        /\ task_cond = [idle |-> {}, skip |-> IF job \in returned THEN {Job!condition(job)} ELSE {}]
     \/ /\ ~task_runs /\ task_at = "multiplex" /\ job \notin returned
        /\ task_cond = [idle |-> {Job!condition(job)}, skip |-> {}]

\* The task is about to go on.
GoesOn == m_task_queue = <<>> /\ jobs = {} /\ task_runs /\ task_at = "multiplex" /\ task_cond = Job!Fresh

JobInv ==
  /\ was_full = FALSE /\ task_runs \in BOOLEAN
  /\ \/ task_state = "start" /\ returned = {} /\ GoesOn
     \/ /\ task_state = "hello" /\ returned \subseteq {"factorial"}
        /\ Dispatched("factorial") \/ (returned = {"factorial"} /\ GoesOn)
     \/ /\ task_state = "done" /\ {"factorial"} \subseteq returned /\ returned \subseteq {"factorial", "sayhello"}
        /\ Dispatched("sayhello") \/ (returned = {"factorial", "sayhello"} /\ GoesOn)
     \/ task_state = "finished" /\ m_task_queue = <<>> /\ jobs = {} /\ ~task_runs

\* A signal for a task that waits for it wakes the task up, any other one is remembered.
LEMMA SignalOfJob ==
  ASSUME NEW c
  PROVE  /\ Job!signal(Job!Fresh, {c}) = [idle |-> {}, skip |-> {c}]
         /\ Job!signal([idle |-> {c}, skip |-> {}], {c}) = Job!Fresh
         /\ Job!wakes([idle |-> {c}, skip |-> {}], {c})
BY DEF Job!signal, Job!wakes, Job!Fresh

LEMMA JobNext == JobInv /\ (Job!Next \/ UNCHANGED runVars) => JobInv'
<1> SUFFICES ASSUME JobInv, Job!Next \/ UNCHANGED runVars PROVE JobInv'
  OBVIOUS
<1> USE DEF JobInv, Dispatched, GoesOn, InQueue, Executed, Returned
<1>1. CASE Job!dispatch_factorial \/ Job!dispatch_say_hello
  <2>1. GoesOn /\ ((task_state = "start" /\ returned = {}) \/ (task_state = "hello" /\ returned = {"factorial"}))
    BY <1>1 DEF Job!dispatch_factorial, Job!dispatch_say_hello, Job!dispatch
  <2>2. Len(m_task_queue) < capacity /\ \A job : Append(m_task_queue, job) = <<job>>
    BY <2>1, CapacityAssumption
  <2>3. CASE Job!dispatch_factorial
    <3>1. Dispatched("factorial")' /\ task_state' = "hello" /\ returned' = {} /\ was_full' = FALSE /\ task_runs' \in BOOLEAN
      BY <2>1, <2>2, <2>3 DEF Job!dispatch_factorial, Job!dispatch, Job!Fresh
    <3> QED BY <3>1
  <2>4. CASE Job!dispatch_say_hello
    <3>1. Dispatched("sayhello")' /\ task_state' = "done" /\ returned' = {"factorial"} /\ was_full' = FALSE /\ task_runs' \in BOOLEAN
      BY <2>1, <2>2, <2>4 DEF Job!dispatch_say_hello, Job!dispatch, Job!Fresh
    <3> QED BY <3>1
  <2> QED BY <1>1, <2>3, <2>4
<1>2. ASSUME NEW job \in {"factorial", "sayhello"}, Job!dispatch_wait(job) PROVE JobInv'
  <2>1. /\ Dispatched(job) /\ task_runs /\ task_at = job
        /\ task_cond = [idle |-> {}, skip |-> IF job \in returned THEN {Job!condition(job)} ELSE {}]
    BY <1>2 DEF Job!dispatch_wait
  <2>2. CASE job \in returned
    <3>1. task_cond' = Job!Fresh /\ task_runs' = TRUE
      BY <1>2, <2>1, <2>2 DEF Job!Fresh, Job!condition, Job!dispatch_wait, Job!wait, Job!waiting
    <3> QED BY <1>2, <2>1, <2>2, <3>1 DEF Job!dispatch_wait
  <2>3. CASE job \notin returned
    <3>1. task_cond' = [idle |-> {Job!condition(job)}, skip |-> {}] /\ task_runs' = FALSE
      BY <1>2, <2>1, <2>3 DEF Job!dispatch_wait, Job!wait, Job!waiting
    <3> QED BY <1>2, <2>1, <2>3, <3>1 DEF Job!dispatch_wait
  <2> QED BY <2>2, <2>3
<1>3. CASE Job!finish
  BY <1>3 DEF Job!finish
<1>4. CASE Job!take
  <2>1. ASSUME NEW job, m_task_queue = <<job>> PROVE Head(m_task_queue) = job /\ Tail(m_task_queue) = <<>>
    BY <2>1
  <2> QED BY <1>4, <2>1 DEF Job!take
<1>5. ASSUME NEW job \in {"factorial", "sayhello"}, job \in jobs, Job!job_returns(job) PROVE JobInv'
  <2>1. /\ Dispatched(job) /\ Executed(job)
        /\ \/ job = "factorial" /\ task_state = "hello" /\ returned = {}
           \/ job = "sayhello" /\ task_state = "done" /\ returned = {"factorial"}
    BY <1>5
  <2>2. /\ Returned(job)' /\ jobs' = {} /\ m_task_queue' = <<>> /\ was_full' = was_full
        /\ returned' = returned \cup {job} /\ task_state' = task_state /\ task_at' = task_at
    BY <1>5, <2>1 DEF Job!job_returns
  <2>3. CASE task_runs
    <3>1. task_at = job /\ task_cond = Job!Fresh
      BY <2>1, <2>3 DEF Job!Fresh
    <3>2. task_runs' = TRUE /\ task_cond' = [idle |-> {}, skip |-> {Job!condition(job)}]
      BY <1>5, <2>3, <3>1, SignalOfJob DEF Job!job_returns
    <3> QED BY <2>1, <2>2, <3>1, <3>2
  <2>4. CASE ~task_runs
    <3>1. task_at = "multiplex" /\ task_cond = [idle |-> {Job!condition(job)}, skip |-> {}]
      BY <2>1, <2>4
    <3>2. task_runs' = TRUE /\ task_cond' = Job!Fresh
      BY <1>5, <3>1, SignalOfJob DEF Job!job_returns
    <3> QED BY <2>1, <2>2, <3>1, <3>2
  <2> QED BY <2>3, <2>4
<1>6. CASE UNCHANGED runVars
  BY <1>6 DEF runVars
<1> QED BY <1>1, <1>2, <1>3, <1>4, <1>5, <1>6 DEF Job!Next, Job!work, Job!factorial, Job!sayhello, Job!Terminated, Job!runVars, runVars

\* The task of runthread goes on when the function it dispatched has returned, also when the function
\* returns between dispatch() and the wait; the queue is never full.
THEOREM JobsAreInOrder == TaskPrograms => []JobsInOrder
<1>1. JobInv => JobsInOrder
  BY DEF JobInv, Dispatched, GoesOn, JobsInOrder, Job!JobsInOrder, Job!QueueNeverFull
<1>2. Start => JobInv
  BY DEF Start, Job!Init, JobInv, GoesOn
<1>3. JobInv /\ [Step]_allVars => JobInv'
  BY ProgramStep, JobNext
<1> QED BY <1>1, <1>2, <1>3, PTL DEF TaskPrograms

-----------------------------------------------------------------------------
(* fibonacci: the tree of tasks                                              *)

\* The operators of the tree, and nothing more than this, are used below.
LEMMA Tree ==
  /\ Fib!flower \in FibTasks /\ Fib!m_index(Fib!flower) = number
  /\ \A t \in FibTasks : Fib!m_index(t) \in 0 .. number
  /\ \A t \in FibTasks : Fib!m_index(t) >= 2 =>
       /\ Fib!m_largest(t) \in FibTasks /\ Fib!m_smallest(t) \in FibTasks
       /\ Fib!m_largest(t) # Fib!flower /\ Fib!m_smallest(t) # Fib!flower
       /\ Fib!m_index(Fib!m_largest(t)) = Fib!m_index(t) - 1
       /\ Fib!m_index(Fib!m_smallest(t)) = Fib!m_index(t) - 2
       /\ Fib!parent(Fib!m_largest(t)) = t /\ Fib!parent(Fib!m_smallest(t)) = t
  /\ \A t \in FibTasks \ {Fib!flower} :
       /\ Fib!parent(t) \in FibTasks /\ Fib!m_index(Fib!parent(t)) >= 2
       /\ t \in {Fib!m_largest(Fib!parent(t)), Fib!m_smallest(Fib!parent(t))}
<1>1. /\ number \in Nat
      /\ \A t \in FibTasks : t \in Seq(0 .. number) /\ Len(t) \in Nat \ {0}
  BY FibonacciAssumption
<1>2. Fib!flower \in FibTasks /\ Fib!m_index(Fib!flower) = number
  BY <1>1, FibonacciAssumption DEF Fib!flower, Fib!m_index
<1>3. \A t \in FibTasks : Fib!m_index(t) \in 0 .. number
  BY <1>1 DEF Fib!m_index
<1>4. ASSUME NEW t \in FibTasks, Fib!m_index(t) >= 2
      PROVE  /\ Fib!m_largest(t) \in FibTasks /\ Fib!m_smallest(t) \in FibTasks
             /\ Fib!m_largest(t) # Fib!flower /\ Fib!m_smallest(t) # Fib!flower
             /\ Fib!m_index(Fib!m_largest(t)) = Fib!m_index(t) - 1
             /\ Fib!m_index(Fib!m_smallest(t)) = Fib!m_index(t) - 2
             /\ Fib!parent(Fib!m_largest(t)) = t /\ Fib!parent(Fib!m_smallest(t)) = t
  <2>1. Fib!m_largest(t) \in FibTasks /\ Fib!m_smallest(t) \in FibTasks
    BY <1>4, FibonacciAssumption
  <2>2. Fib!m_index(t) \in 0 .. number /\ t \in Seq(Nat) /\ Len(t) \in Nat \ {0} /\ number \in Nat
    BY <1>1, <1>3, FibonacciAssumption
  <2>3. ASSUME NEW i \in Nat
        PROVE  /\ Fib!m_index(Append(t, i)) = i /\ Fib!parent(Append(t, i)) = t
               /\ Len(Append(t, i)) # 1
    BY <2>2 DEF Fib!m_index, Fib!parent
  <2>4. Fib!m_index(t) - 1 \in Nat /\ Fib!m_index(t) - 2 \in Nat
    BY <1>4, <2>2
  <2>5. Len(Fib!flower) = 1
    BY DEF Fib!flower
  <2> QED BY <2>1, <2>3, <2>4, <2>5 DEF Fib!m_largest, Fib!m_smallest
<1> QED BY <1>2, <1>3, <1>4, FibonacciAssumption

-----------------------------------------------------------------------------
(* fibonacci: the signals                                                    *)

FibTypes ==
  /\ fib_state \in [FibTasks -> {"new", "start", "wait", "done", "finished"}]
  /\ fib_at \in [FibTasks -> {"multiplex", "wait"}]
  /\ fib_cond \in [FibTasks -> [idle : SUBSET {1}, skip : SUBSET {1}]]
  /\ DOMAIN m_value = FibTasks

\* A task that is new or about to create its subtasks has none yet; a task that sleeps is in its
\* third state and nowhere else.
FibControl(t) ==
  /\ fib_state[t] = "new" => t \notin fib_executing \cup fib_ready
  /\ fib_state[t] \in {"new", "start"} /\ Fib!m_index(t) >= 2 =>
       fib_state[Fib!m_largest(t)] = "new" /\ fib_state[Fib!m_smallest(t)] = "new"
  /\ fib_state[t] = "wait" => Fib!m_index(t) >= 2
  /\ fib_at[t] = "wait" => fib_state[t] = "wait"
  /\ Fib!waiting(fib_cond[t]) =>
       fib_state[t] = "wait" /\ fib_at[t] = "multiplex" /\ t \notin fib_executing \cup fib_ready
  /\ ~(t \in fib_executing /\ t \in fib_ready)

\* A subtask that still has to signal.
Signals(c) == ~Fib!finished(c) \/ c \in fib_executing

\* Between the test of finished() and wait(1) a signal is remembered.
FibSignals(t) ==
  /\ fib_at[t] = "wait" =>
       Signals(Fib!m_largest(t)) \/ Signals(Fib!m_smallest(t)) \/ fib_cond[t].skip = {1}
  /\ Fib!waiting(fib_cond[t]) => Signals(Fib!m_largest(t)) \/ Signals(Fib!m_smallest(t))

FibInv == FibTypes /\ \A t \in FibTasks : FibControl(t) /\ FibSignals(t)

LEMMA FibInit == Fib!Init => FibInv
BY Tree DEF Fib!Init, Fib!Fresh, Fib!waiting, FibInv, FibTypes, FibControl, FibSignals

\* Only signal_parent ends that a subtask has to signal, and it signals.
LEMMA FibNext == FibInv /\ (Fib!Next \/ UNCHANGED fibVars) => FibInv'
<1> SUFFICES ASSUME FibInv, Fib!Next \/ UNCHANGED fibVars PROVE FibInv'
  OBVIOUS
<1> USE DEF FibInv
<1>1. CASE Fib!run_flower
  <2>1. FibTypes'
    BY <1>1, Tree DEF Fib!run_flower, FibTypes
  <2>2. ASSUME NEW t \in FibTasks PROVE FibControl(t)'
    BY <1>1, <2>2, Tree DEF Fib!run_flower, FibTypes, FibControl, Fib!waiting
  <2>3. ASSUME NEW t \in FibTasks PROVE FibSignals(t)'
    BY <1>1, <2>3, Tree DEF Fib!run_flower, FibTypes, FibControl, FibSignals, Signals, Fib!finished, Fib!waiting
  <2> QED BY <2>1, <2>2, <2>3
<1>2. ASSUME NEW u \in FibTasks, Fib!dispatch(u) PROVE FibInv'
  <2>1. FibTypes'
    BY <1>2 DEF Fib!dispatch, FibTypes
  <2>2. ASSUME NEW t \in FibTasks PROVE FibControl(t)'
    BY <1>2, <2>2 DEF Fib!dispatch, FibTypes, FibControl, Fib!waiting
  <2>3. ASSUME NEW t \in FibTasks PROVE FibSignals(t)'
    BY <1>2, <2>3 DEF Fib!dispatch, FibTypes, FibSignals, Signals, Fib!finished, Fib!waiting
  <2> QED BY <2>1, <2>2, <2>3
<1>3. ASSUME NEW u \in FibTasks, Fib!start_leaf(u) \/ Fib!math(u) PROVE FibInv'
  <2> USE <1>3, Tree DEF Fib!start_leaf, Fib!math, Fib!at
  <2>1. FibTypes'
    BY DEF FibTypes
  <2>2. ASSUME NEW t \in FibTasks PROVE FibControl(t)'
    BY <2>2 DEF FibTypes, FibControl, Fib!waiting
  <2>3. ASSUME NEW t \in FibTasks PROVE FibSignals(t)'
    BY <2>3 DEF FibTypes, FibControl, FibSignals, Signals, Fib!finished, Fib!waiting
  <2> QED BY <2>1, <2>2, <2>3
<1>4. ASSUME NEW u \in FibTasks, Fib!start(u) PROVE FibInv'
  <2> USE <1>4 DEF Fib!start, Fib!at
  <2>1. FibTypes'
    BY Tree DEF FibTypes
  <2>2. /\ Fib!m_largest(u) \in FibTasks /\ Fib!m_smallest(u) \in FibTasks
        /\ u # Fib!m_largest(u) /\ u # Fib!m_smallest(u) /\ Fib!m_largest(u) # Fib!m_smallest(u)
    BY Tree
  <2>3. ASSUME NEW t \in FibTasks
        PROVE  fib_state'[t] = IF t = u THEN "wait"
                               ELSE IF t \in {Fib!m_largest(u), Fib!m_smallest(u)} THEN "start"
                               ELSE fib_state[t]
    BY <2>2, <2>3 DEF FibTypes
  <2>4. fib_state[Fib!m_largest(u)] = "new" /\ fib_state[Fib!m_smallest(u)] = "new"
    BY DEF FibControl
  <2>5. ASSUME NEW t \in FibTasks PROVE FibControl(t)'
    <3>1. CASE t = u
      BY <2>2, <2>3, <2>4, <3>1 DEF FibControl, FibTypes, Fib!waiting
    <3>2. CASE t \in {Fib!m_largest(u), Fib!m_smallest(u)}
      <4>1. Fib!m_index(t) >= 2 =>
              /\ Fib!m_largest(t) \in FibTasks /\ Fib!m_smallest(t) \in FibTasks
              /\ u \notin {Fib!m_largest(t), Fib!m_smallest(t)}
              /\ {Fib!m_largest(u), Fib!m_smallest(u)} \cap {Fib!m_largest(t), Fib!m_smallest(t)} = {}
        BY <2>2, <2>5, <3>2, Tree
      <4> QED BY <2>2, <2>3, <2>4, <2>5, <3>2, <4>1 DEF FibControl, FibTypes, Fib!waiting
    <3>3. CASE t # u /\ t \notin {Fib!m_largest(u), Fib!m_smallest(u)}
      <4>1. Fib!m_index(t) >= 2 =>
              /\ Fib!m_largest(t) \in FibTasks /\ Fib!m_smallest(t) \in FibTasks
              /\ {Fib!m_largest(u), Fib!m_smallest(u)} \cap {Fib!m_largest(t), Fib!m_smallest(t)} = {}
        BY <2>2, <2>5, <3>3, Tree
      <4> QED BY <2>2, <2>3, <2>4, <2>5, <3>3, <4>1 DEF FibControl, FibTypes, Fib!waiting
    <3> QED BY <3>1, <3>2, <3>3
  <2>6. ASSUME NEW t \in FibTasks PROVE FibSignals(t)'
    <3>1. Fib!m_index(t) >= 2 => Fib!m_largest(t) \in FibTasks /\ Fib!m_smallest(t) \in FibTasks
      BY <2>6, Tree
    <3> QED BY <2>3, <2>6, <3>1 DEF FibTypes, FibControl, FibSignals, Signals, Fib!finished, Fib!waiting
  <2> QED BY <2>1, <2>5, <2>6
<1>5. ASSUME NEW u \in FibTasks, Fib!wait_state(u) PROVE FibInv'
  <2> USE <1>5 DEF Fib!wait_state, Fib!at
  <2>1. FibTypes'
    BY DEF FibTypes
  <2>2. ASSUME NEW t \in FibTasks PROVE FibControl(t)'
    BY <2>2 DEF FibTypes, FibControl, Fib!waiting
  <2>3. ASSUME NEW t \in FibTasks PROVE FibSignals(t)'
    BY <2>3 DEF FibTypes, FibControl, FibSignals, Signals, Fib!finished, Fib!waiting
  <2> QED BY <2>1, <2>2, <2>3
<1>6. ASSUME NEW u \in FibTasks, Fib!wait_1(u) PROVE FibInv'
  <2>1. fib_cond'[u] = [idle |-> IF fib_cond[u].skip = {1} THEN {} ELSE {1}, skip |-> {}]
    <3>1. fib_cond[u].skip \in SUBSET {1}
      BY DEF FibTypes
    <3>2. /\ fib_cond[u].skip \cap {1} = {} <=> fib_cond[u].skip # {1}
          /\ fib_cond[u].skip \ {1} = {}
      BY <3>1
    <3>3. fib_cond'[u] = Fib!wait(fib_cond[u], {1})
      BY <1>6 DEF Fib!wait_1, FibTypes
    <3> QED BY <3>2, <3>3 DEF Fib!wait
  <2>2. \A t \in FibTasks \ {u} : fib_cond'[t] = fib_cond[t]
    BY <1>6 DEF Fib!wait_1, FibTypes
  <2>3. FibTypes'
    BY <1>6, <2>1, <2>2 DEF Fib!wait_1, FibTypes
  <2> USE <1>6 DEF Fib!wait_1, Fib!at
  <2>4. ASSUME NEW t \in FibTasks PROVE FibControl(t)'
    <3>1. CASE t = u
      BY <2>1, <3>1 DEF FibTypes, FibControl, Fib!waiting
    <3>2. CASE t # u
      BY <2>2, <2>4, <3>2 DEF FibTypes, FibControl, Fib!waiting
    <3> QED BY <3>1, <3>2
  <2>5. ASSUME NEW t \in FibTasks, Fib!m_index(t) >= 2, Signals(Fib!m_largest(t)) \/ Signals(Fib!m_smallest(t))
        PROVE  (Signals(Fib!m_largest(t)) \/ Signals(Fib!m_smallest(t)))'
    BY <2>5, Tree DEF Signals, Fib!finished
  <2>6. ASSUME NEW t \in FibTasks PROVE FibSignals(t)'
    <3>1. CASE t = u
      BY <2>1, <2>5, <3>1 DEF FibTypes, FibControl, FibSignals, Fib!waiting
    <3>2. CASE t # u
      BY <2>2, <2>5, <2>6, <3>2 DEF FibTypes, FibControl, FibSignals, Fib!waiting
    <3> QED BY <3>1, <3>2
  <2> QED BY <2>3, <2>4, <2>6
<1>7. ASSUME NEW u \in FibTasks, Fib!finish(u) PROVE FibInv'
  <2> USE <1>7, Tree DEF Fib!finish, Fib!at
  <2>1. FibTypes'
    BY DEF FibTypes
  <2>2. ASSUME NEW t \in FibTasks PROVE FibControl(t)'
    BY <2>2 DEF FibTypes, FibControl, Fib!waiting
  <2>3. ASSUME NEW t \in FibTasks PROVE FibSignals(t)'
    BY <2>3 DEF FibTypes, FibControl, FibSignals, Signals, Fib!finished, Fib!waiting
  <2> QED BY <2>1, <2>2, <2>3
<1>8. ASSUME NEW u \in FibTasks, Fib!signal_parent(u), u = Fib!flower PROVE FibInv'
  <2> USE <1>8, Tree DEF Fib!signal_parent, Fib!at
  <2>1. FibTypes'
    BY DEF FibTypes
  <2>2. ASSUME NEW t \in FibTasks PROVE FibControl(t)'
    BY <2>2 DEF FibTypes, FibControl, Fib!waiting
  <2>3. ASSUME NEW t \in FibTasks PROVE FibSignals(t)'
    BY <2>3 DEF FibTypes, FibControl, FibSignals, Signals, Fib!finished, Fib!waiting
  <2> QED BY <2>1, <2>2, <2>3
<1>9. ASSUME NEW u \in FibTasks, Fib!signal_parent(u), u # Fib!flower PROVE FibInv'
  <2> DEFINE p == Fib!parent(u)
  <2>0. p \in FibTasks
    BY <1>9, Tree
  <2>1. fib_cond'[p] = IF fib_cond[p].idle = {1} THEN [idle |-> {}, skip |-> fib_cond[p].skip]
                       ELSE [idle |-> {}, skip |-> {1}]
    BY <1>9, <2>0 DEF Fib!signal_parent, Fib!signal, Fib!wakes, FibTypes
  <2>2. \A t \in FibTasks \ {p} : fib_cond'[t] = fib_cond[t]
    BY <1>9, <2>0 DEF Fib!signal_parent, FibTypes
  <2>3. FibTypes'
    BY <1>9, <2>0, <2>1, <2>2 DEF Fib!signal_parent, FibTypes
  <2>4. fib_ready' = IF fib_cond[p].idle = {1} THEN fib_ready \cup {p} ELSE fib_ready
    BY <1>9, <2>0 DEF Fib!signal_parent, Fib!wakes, FibTypes
  <2>5. /\ fib_executing' = fib_executing \ {u} /\ fib_state' = fib_state /\ fib_at' = fib_at
        /\ fib_state[u] = "finished"
    BY <1>9 DEF Fib!signal_parent, Fib!at
  <2> HIDE DEF p
  <2>6. ASSUME NEW t \in FibTasks PROVE FibControl(t)'
    <3>1. CASE t = p
      BY <2>1, <2>4, <2>5, <2>6, <3>1 DEF FibTypes, FibControl, Fib!waiting
    <3>2. CASE t # p
      BY <2>2, <2>4, <2>5, <2>6, <3>2 DEF FibTypes, FibControl, Fib!waiting
    <3> QED BY <3>1, <3>2
  <2>7. ASSUME NEW t \in FibTasks PROVE FibSignals(t)'
    <3>1. CASE t = p
      <4>1. fib_cond[p].idle = {1} => fib_at[p] = "multiplex"
        BY <2>0 DEF FibControl, Fib!waiting
      <4>2. ~Fib!waiting(fib_cond'[p]) /\ (fib_at[p] = "wait" => fib_cond'[p].skip = {1})
        BY <2>1, <4>1 DEF Fib!waiting
      <4> QED BY <2>5, <3>1, <4>2 DEF FibSignals
    <3>2. CASE t # p
      <4>1. Fib!m_index(t) >= 2 => u \notin {Fib!m_largest(t), Fib!m_smallest(t)}
        BY <2>7, <3>2, Tree DEF p
      <4> QED BY <2>2, <2>5, <2>7, <3>2, <4>1 DEF FibTypes, FibControl, FibSignals, Signals, Fib!finished, Fib!waiting
    <3> QED BY <3>1, <3>2
  <2> QED BY <2>3, <2>6, <2>7
<1>10. CASE Fib!print \/ UNCHANGED fibVars
  BY <1>10 DEF Fib!print, fibVars, FibTypes, FibControl, FibSignals, Signals, Fib!finished, Fib!waiting
<1> QED BY <1>1, <1>2, <1>3, <1>4, <1>5, <1>6, <1>7, <1>8, <1>9, <1>10
        DEF Fib!Next, Fib!step, Fib!main, Fib!Terminated, Fib!fibVars, fibVars

\* A task of fibonacci only sleeps while a subtask still has to signal it, although both signal the
\* same condition and may do so between the test of finished() and wait(1).
THEOREM SubtasksWillSignal == TaskPrograms => []SomeoneWillSignal
<1>1. FibInv => SomeoneWillSignal
  BY DEF FibInv, FibSignals, Signals, SomeoneWillSignal, Fib!SomeoneWillSignal
<1>2. Start => FibInv
  BY FibInit DEF Start
<1>3. FibInv /\ [Step]_allVars => FibInv'
  BY ProgramStep, FibNext
<1> QED BY <1>1, <1>2, <1>3, PTL DEF TaskPrograms

-----------------------------------------------------------------------------
(* fibonacci: the values                                                     *)

LEMMA LeastNumber ==
  ASSUME NEW T \in SUBSET Nat, T # {}
  PROVE  \E x \in T : \A y \in T : x <= y
<1> DEFINE U == {0 .. x : x \in T}
<1>1. U # {} /\ U \subseteq FiniteSubsetsOf(Nat)
  <2>1. \A x \in T : 0 .. x \in SUBSET Nat /\ IsFiniteSet(0 .. x)
    BY FS_Interval
  <2> QED BY <2>1 DEF FiniteSubsetsOf
<1>2. PICK X \in U : \A Y \in U : ~ (<<Y, X>> \in StrictSubsetOrdering(Nat))
  <2> HIDE DEF U
  <2> QED BY <1>1, FS_StrictSubsetOrderingWellFounded, WFMin
<1>3. PICK x \in T : X = 0 .. x
  BY <1>2
<1>4. ASSUME NEW y \in T, y < x PROVE FALSE
  <2>1. 0 .. y \in U /\ 0 .. y \subseteq 0 .. x /\ x \in 0 .. x /\ x \notin 0 .. y
    BY <1>3, <1>4
  <2>2. <<0 .. y, 0 .. x>> \in StrictSubsetOrdering(Nat)
    <3>1. 0 .. y \in SUBSET Nat /\ 0 .. x \in SUBSET Nat /\ 0 .. y # 0 .. x
      BY <1>3, <2>1
    <3> QED BY <2>1, <3>1 DEF StrictSubsetOrdering
  <2> QED BY <1>2, <1>3, <2>1, <2>2
<1> QED BY <1>3, <1>4

\* The recursive definition of fibo is one of a function.
FiboUpTo(g, k) == g = [i \in 0 .. k |-> IF i < 2 THEN 1 ELSE g[i - 1] + g[i - 2]]

LEMMA FiboExists == \A k \in Nat : \E g : FiboUpTo(g, k)
<1> DEFINE T == {k \in Nat : ~ \E g : FiboUpTo(g, k)}
<1>1. SUFFICES ASSUME T # {} PROVE FALSE
  OBVIOUS
<1>2. PICK x \in T : \A y \in T : x <= y
  BY <1>1, LeastNumber
<1>3. x # 0
  <2>1. FiboUpTo([i \in 0 .. 0 |-> 1], 0)
    BY DEF FiboUpTo
  <2> QED BY <1>2, <2>1
<1>4. PICK g : FiboUpTo(g, x - 1)
  BY <1>2, <1>3
<1> DEFINE h == [i \in 0 .. x |-> IF i < 2 THEN 1 ELSE g[i - 1] + g[i - 2]]
<1>5. \A i \in 0 .. x - 1 : h[i] = g[i]
  BY <1>2, <1>4 DEF FiboUpTo
<1>6. \A i \in 0 .. x : ~(i < 2) => i - 1 \in 0 .. x - 1 /\ i - 2 \in 0 .. x - 1
  BY <1>2
<1>7. \A i \in 0 .. x : h[i] = IF i < 2 THEN 1 ELSE h[i - 1] + h[i - 2]
  BY <1>5, <1>6
<1>8. FiboUpTo(h, x)
  BY <1>7 DEF FiboUpTo
<1> QED BY <1>2, <1>8

LEMMA FiboUnfolds ==
  \A k \in 0 .. number : Fib!fibo[k] = IF k < 2 THEN 1 ELSE Fib!fibo[k - 1] + Fib!fibo[k - 2]
<1>1. \E g : FiboUpTo(g, number)
  BY FiboExists, FibonacciAssumption
<1>2. Fib!fibo = [k \in 0 .. number |-> IF k < 2 THEN 1 ELSE Fib!fibo[k - 1] + Fib!fibo[k - 2]]
  BY <1>1 DEF Fib!fibo, FiboUpTo
<1> QED BY <1>2

FibValues ==
  /\ \A t \in FibTasks :
       m_value[t] = IF fib_state[t] \in {"done", "finished"} THEN Fib!fibo[Fib!m_index(t)] ELSE 0
  /\ printed \in {0, Fib!fibo[number]}

LEMMA FibValuesNext == FibInv /\ FibValues /\ (Fib!Next \/ UNCHANGED fibVars) => FibValues'
<1> SUFFICES ASSUME FibInv, FibValues, Fib!Next \/ UNCHANGED fibVars PROVE FibValues'
  OBVIOUS
<1>0. FibTypes /\ FibTypes' /\ \A t \in FibTasks : FibControl(t)
  BY FibNext DEF FibInv
<1>1. CASE Fib!run_flower
  BY <1>0, <1>1, Tree DEF Fib!run_flower, FibValues, FibTypes
<1>2. ASSUME NEW u \in FibTasks, Fib!start_leaf(u) PROVE FibValues'
  <2>1. Fib!m_index(u) \in 0 .. number /\ Fib!fibo[Fib!m_index(u)] = 1
    <3>1. Fib!m_index(u) \in 0 .. number /\ Fib!m_index(u) < 2
      BY <1>2, Tree DEF Fib!start_leaf
    <3> QED BY <3>1, FiboUnfolds
  <2> QED BY <1>0, <1>2, <2>1 DEF Fib!start_leaf, Fib!at, FibValues, FibTypes
<1>3. ASSUME NEW u \in FibTasks, Fib!start(u) PROVE FibValues'
  <2>1. /\ Fib!m_largest(u) \in FibTasks /\ Fib!m_smallest(u) \in FibTasks
        /\ fib_state[Fib!m_largest(u)] = "new" /\ fib_state[Fib!m_smallest(u)] = "new"
    BY <1>0, <1>3, Tree DEF Fib!start, Fib!at, FibControl
  <2>2. ASSUME NEW t \in FibTasks
        PROVE  fib_state'[t] \in {"done", "finished"} <=> fib_state[t] \in {"done", "finished"}
    BY <1>0, <1>3, <2>1, <2>2 DEF Fib!start, Fib!at, FibTypes
  <2> QED BY <1>3, <2>2 DEF Fib!start, FibValues
<1>4. ASSUME NEW u \in FibTasks, Fib!math(u) PROVE FibValues'
  <2>1. Fib!m_index(u) \in 0 .. number /\ Fib!m_index(u) >= 2
    BY <1>0, <1>4, Tree DEF Fib!math, Fib!at, FibControl
  <2>2. /\ m_value[Fib!m_largest(u)] = Fib!fibo[Fib!m_index(u) - 1]
        /\ m_value[Fib!m_smallest(u)] = Fib!fibo[Fib!m_index(u) - 2]
    BY <1>4, <2>1, Tree DEF Fib!math, Fib!finished, FibValues
  <2>3. Fib!fibo[Fib!m_index(u)] = m_value[Fib!m_largest(u)] + m_value[Fib!m_smallest(u)]
    <3> DEFINE i == Fib!m_index(u)
    <3>1. ~(i < 2)
      BY <2>1, FibonacciAssumption
    <3> HIDE DEF i
    <3> QED BY <2>1, <2>2, <3>1, FiboUnfolds DEF i
  <2> QED BY <1>0, <1>4, <2>3 DEF Fib!math, Fib!at, FibValues, FibTypes
<1>5. ASSUME NEW u \in FibTasks, Fib!finish(u) PROVE FibValues'
  BY <1>0, <1>5 DEF Fib!finish, Fib!at, FibValues, FibTypes
<1>6. CASE Fib!print
  BY <1>6, Tree DEF Fib!print, FibValues
<1>7. CASE UNCHANGED <<fib_state, m_value, printed>>
  BY <1>7 DEF FibValues
<1> QED BY <1>1, <1>2, <1>3, <1>4, <1>5, <1>6, <1>7
        DEF Fib!Next, Fib!step, Fib!main, Fib!dispatch, Fib!wait_state, Fib!wait_1, Fib!signal_parent,
            Fib!Terminated, Fib!fibVars, fibVars

\* A task of fibonacci that is finished, which its parent may see before it has been signalled, has the
\* right number, and that is what main() prints.
THEOREM ValuesAreRight == TaskPrograms => []ValuesRight
<1>1. FibInv /\ FibValues => ValuesRight
  BY DEF FibInv, FibValues, ValuesRight, Fib!ValuesRight
<1>2. Start => FibInv /\ FibValues
  BY FibInit DEF Start, Fib!Init, FibValues
<1>3. FibInv /\ FibValues /\ [Step]_allVars => FibInv' /\ FibValues'
  BY ProgramStep, FibNext, FibValuesNext
<1> QED BY <1>1, <1>2, <1>3, PTL DEF TaskPrograms

=============================================================================
