---------------------------- MODULE TaskMutexTest ----------------------------
(***************************************************************************)
(* AIStatefulTaskMutex_test.cxx: MyTask tasks run in a thread pool, lock    *)
(* one AIStatefulTaskMutex, pass the critical area, unlock and finish.      *)
(* A task that does not get the mutex at once gives its thread back with    *)
(* wait(1) and is signalled when the mutex is handed to it.  That signal    *)
(* can come at any moment after lock() put the task in the list of waiters, *)
(* also before the task has called wait(1).                                 *)
(*                                                                          *)
(* AIStatefulTaskMutex, the thread pool and the engine loop of a task are   *)
(* in submodules.  The code here does not depend on the order in which the  *)
(* mutex serves its waiters or the pool its queue: both are sets.           *)
(***************************************************************************)
EXTENDS TaskConditions, Integers, FiniteSets

CONSTANTS
  Tasks,      \* the MyTask objects; number_of_tasks of them
  Threads,    \* how many threads the pool has
  NoTask

\* The busy wait of the first task in the critical area keeps one thread occupied
\* until every other task has called lock().
ASSUME TasksAssumption   == IsFiniteSet(Tasks) /\ Tasks # {} /\ NoTask \notin Tasks
ASSUME ThreadsAssumption == Threads \in Nat /\ Threads >= 2

number_of_tasks == Cardinality(Tasks)

VARIABLES
  state,             \* mRunState of each task
  pc,                \* where in multiplex_impl the task is
  cond,              \* condition word of each task
  started,           \* tasks on which main() has called run()
  ready,             \* tasks in the queue of the thread pool
  executing,         \* tasks that occupy a thread of the pool
  owner, waiters,    \* the AIStatefulTaskMutex
  m_locked, m_inside_critical_area, first, finished_counter,
  test_finished,     \* the gate is open
  left,              \* main() has passed the gate and its ASSERTs
  failed             \* the ASSERTs that failed

mutex    == <<owner, waiters>>
pool     == <<started, ready, executing>>
mainVars == <<finished_counter, test_finished, left>>
vars == <<state, pc, cond, pool, mutex, m_locked, m_inside_critical_area, first, mainVars, failed>>

States == {"call_lock", "locked", "critical_area", "done", "finished"}
PCs == {"multiplex", "lock", "wait", "enter", "unlock", "unlocked"}

Assert(name, holds) == failed' = IF holds THEN failed ELSE failed \cup {name}

-----------------------------------------------------------------------------

Init ==
  /\ state = [t \in Tasks |-> "call_lock"]
  /\ pc = [t \in Tasks |-> "multiplex"]
  /\ cond = [t \in Tasks |-> Fresh]
  /\ started = {} /\ ready = {} /\ executing = {}
  /\ owner = NoTask /\ waiters = {}
  /\ m_locked = 0
  /\ m_inside_critical_area = 0
  /\ first = TRUE
  /\ finished_counter = 0
  /\ test_finished = FALSE
  /\ left = FALSE
  /\ failed = {}

\* main(): tasks[i]->run(handler, callback) puts the task in the queue.
Run(t) ==
  /\ t \notin started
  /\ started' = started \cup {t}
  /\ ready' = ready \cup {t}
  /\ UNCHANGED <<state, pc, cond, executing, mutex, m_locked, m_inside_critical_area, first, mainVars, failed>>

\* A thread of the pool takes a task from the queue and calls multiplex_impl.
Dispatch(t) ==
  /\ t \in ready
  /\ Cardinality(executing) < Threads
  /\ ready' = ready \ {t}
  /\ executing' = executing \cup {t}
  /\ UNCHANGED <<state, pc, cond, started, mutex, m_locked, m_inside_critical_area, first, mainVars, failed>>

at(t, p, s) == t \in executing /\ pc[t] = p /\ state[t] = s

\* case MyTask_call_lock: set_state(MyTask_locked); m_locked++;
call_lock(t) ==
  /\ at(t, "multiplex", "call_lock")
  /\ state' = [state EXCEPT ![t] = "locked"]
  /\ m_locked' = m_locked + 1
  /\ pc' = [pc EXCEPT ![t] = "lock"]
  /\ UNCHANGED <<cond, pool, mutex, m_inside_critical_area, first, mainVars, failed>>

Mutant_lock_not_queued(t) ==
  /\ t \in executing /\ pc[t] = "lock"
  /\ IF owner = NoTask
       THEN owner' = t /\ pc' = [pc EXCEPT ![t] = "enter"]
       ELSE pc' = [pc EXCEPT ![t] = "wait"] /\ UNCHANGED owner
  /\ UNCHANGED <<waiters, state, cond, pool, m_locked, m_inside_critical_area, first, mainVars, failed>>

\* mutex.lock(this, 1)
lock(t) ==
  /\ t \in executing /\ pc[t] = "lock"
  /\ IF owner = NoTask
       THEN owner' = t /\ pc' = [pc EXCEPT ![t] = "enter"] /\ UNCHANGED waiters
       ELSE waiters' = waiters \cup {t} /\ pc' = [pc EXCEPT ![t] = "wait"] /\ UNCHANGED owner
  /\ UNCHANGED <<state, cond, pool, m_locked, m_inside_critical_area, first, mainVars, failed>>

Mutant_no_break(t) ==
  /\ t \in executing /\ pc[t] = "wait"
  /\ pc' = [pc EXCEPT ![t] = "enter"]
  /\ UNCHANGED <<state, cond, pool, mutex, m_locked, m_inside_critical_area, first, mainVars, failed>>

\* wait(1); break;  A task that is idle now gives its thread back, another one runs on.
wait_1(t) ==
  /\ t \in executing /\ pc[t] = "wait"
  /\ cond' = [cond EXCEPT ![t] = wait(@, {1})]
  /\ executing' = IF waiting(cond'[t]) THEN executing \ {t} ELSE executing
  /\ pc' = [pc EXCEPT ![t] = "multiplex"]
  /\ UNCHANGED <<state, started, ready, mutex, m_locked, m_inside_critical_area, first, mainVars, failed>>

\* case MyTask_locked, from the fallthrough or after a wait:
\* ASSERT(m_inside_critical_area++ == 0); set_state(MyTask_critical_area);
locked(t) ==
  /\ at(t, "enter", "locked") \/ at(t, "multiplex", "locked")
  /\ Assert("entering", m_inside_critical_area = 0)
  /\ m_inside_critical_area' = m_inside_critical_area + 1
  /\ state' = [state EXCEPT ![t] = "critical_area"]
  /\ pc' = [pc EXCEPT ![t] = "multiplex"]
  /\ UNCHANGED <<cond, pool, mutex, m_locked, first, mainVars>>

Mutant_all_but_me(t) ==
  /\ at(t, "multiplex", "critical_area")
  /\ first => m_locked > number_of_tasks
  /\ first' = FALSE
  /\ Assert("leaving", m_inside_critical_area = 1)
  /\ m_inside_critical_area' = m_inside_critical_area - 1
  /\ pc' = [pc EXCEPT ![t] = "unlock"]
  /\ UNCHANGED <<state, cond, pool, mutex, m_locked, mainVars>>

Mutant_one_missing(t) ==
  /\ at(t, "multiplex", "critical_area")
  /\ first => m_locked >= number_of_tasks - 1
  /\ first' = FALSE
  /\ Assert("leaving", m_inside_critical_area = 1)
  /\ m_inside_critical_area' = m_inside_critical_area - 1
  /\ pc' = [pc EXCEPT ![t] = "unlock"]
  /\ UNCHANGED <<state, cond, pool, mutex, m_locked, mainVars>>

Mutant_stay_inside(t) ==
  /\ at(t, "multiplex", "critical_area")
  /\ first => m_locked >= number_of_tasks
  /\ first' = FALSE
  /\ Assert("leaving", m_inside_critical_area = 1)
  /\ pc' = [pc EXCEPT ![t] = "unlock"]
  /\ UNCHANGED <<state, cond, pool, mutex, m_locked, m_inside_critical_area, mainVars>>

\* case MyTask_critical_area: the first task waits here until all tasks called lock().
critical_area(t) ==
  /\ at(t, "multiplex", "critical_area")
  /\ first => m_locked >= number_of_tasks
  /\ first' = FALSE
  /\ Assert("leaving", m_inside_critical_area = 1)
  /\ m_inside_critical_area' = m_inside_critical_area - 1
  /\ pc' = [pc EXCEPT ![t] = "unlock"]
  /\ UNCHANGED <<state, cond, pool, mutex, m_locked, mainVars>>

\* mutex.unlock(): the mutex goes to one of the waiters, which is signalled.
hand_over(t) ==
  \E w \in waiters :
    /\ owner' = w
    /\ waiters' = waiters \ {w}
    /\ cond' = [cond EXCEPT ![w] = signal(@, {1})]
    /\ ready' = IF wakes(cond[w], {1}) THEN ready \cup {w} ELSE ready

unlock(t) ==
  /\ t \in executing /\ pc[t] = "unlock"
  /\ \/ waiters = {} /\ owner' = NoTask /\ UNCHANGED <<waiters, cond, ready>>
     \/ hand_over(t)
  /\ pc' = [pc EXCEPT ![t] = "unlocked"]
  /\ UNCHANGED <<state, started, executing, m_locked, m_inside_critical_area, first, mainVars, failed>>

\* m_locked--; set_state(MyTask_done);
unlocked(t) ==
  /\ t \in executing /\ pc[t] = "unlocked"
  /\ m_locked' = m_locked - 1
  /\ state' = [state EXCEPT ![t] = "done"]
  /\ pc' = [pc EXCEPT ![t] = "multiplex"]
  /\ UNCHANGED <<cond, pool, mutex, m_inside_critical_area, first, mainVars, failed>>

\* case MyTask_done: finish() calls the callback that main() passed to run().
done(t) ==
  /\ at(t, "multiplex", "done")
  /\ state' = [state EXCEPT ![t] = "finished"]
  /\ executing' = executing \ {t}
  /\ finished_counter' = finished_counter + 1
  /\ test_finished' = (test_finished \/ finished_counter = number_of_tasks - 1)
  /\ UNCHANGED <<pc, cond, started, ready, mutex, m_locked, m_inside_critical_area, first, left, failed>>

\* main(): test_finished.wait(); and the two ASSERTs.
leave ==
  /\ test_finished /\ ~left
  /\ left' = TRUE
  /\ failed' = failed \cup (IF m_inside_critical_area = 0 THEN {} ELSE {"inside"})
                      \cup (IF m_locked = 0 THEN {} ELSE {"m_locked"})
  /\ UNCHANGED <<state, pc, cond, pool, mutex, m_locked, m_inside_critical_area, first, finished_counter, test_finished>>

Terminated == left /\ UNCHANGED vars

multiplex_impl(t) ==
  \/ call_lock(t) \/ lock(t) \/ wait_1(t) \/ locked(t)
  \/ critical_area(t) \/ unlock(t) \/ unlocked(t) \/ done(t)

Next ==
  \/ \E t \in Tasks : Run(t) \/ Dispatch(t) \/ multiplex_impl(t)
  \/ leave
  \/ Terminated

\* Every thread of the pool and the main thread keep being scheduled.
Fairness ==
  /\ \A t \in Tasks : WF_vars(Run(t)) /\ WF_vars(Dispatch(t)) /\ WF_vars(multiplex_impl(t))
  /\ WF_vars(leave)

Spec == Init /\ [][Next]_vars

FairSpec == Spec /\ Fairness

-----------------------------------------------------------------------------

\* The values the variables can have.
TypeOK ==
  /\ state \in [Tasks -> States]
  /\ pc \in [Tasks -> PCs]
  /\ cond \in [Tasks -> ConditionWords({1})]
  /\ started \in SUBSET Tasks /\ ready \in SUBSET Tasks /\ executing \in SUBSET Tasks
  /\ owner \in Tasks \cup {NoTask}
  /\ waiters \in SUBSET Tasks
  /\ m_locked \in Int /\ m_inside_critical_area \in Int /\ finished_counter \in Int
  /\ first \in BOOLEAN /\ test_finished \in BOOLEAN /\ left \in BOOLEAN
  /\ failed \in SUBSET {"entering", "leaving", "inside", "m_locked"}

\* The tasks between the two ASSERTs of the critical area.
Inside == {t \in Tasks : state[t] = "critical_area" /\ pc[t] = "multiplex"}

\* Two tasks are never in the critical area together, and the counter that the
\* ASSERTs of multiplex_impl look at tells whether there is one.
MutualExclusion ==
  /\ \A t, u \in Inside : t = u
  /\ m_inside_critical_area = IF Inside = {} THEN 0 ELSE 1

\* None of the four ASSERTs of the program fails.
AssertsHold == failed = {}

\* A task that sleeps is in the list of the mutex, and a task to which the mutex was
\* handed is awake or finds its signal when it calls wait(1): no wakeup is lost.
NoLostWakeup ==
  \A t \in Tasks :
    /\ waiting(cond[t]) => t \in waiters
    /\ owner = t => t \in ready \cup executing
    /\ owner = t /\ pc[t] = "wait" => cond[t].skip = {1}

\* Where a task can be: for each point of multiplex_impl, what the mutex, the pool and
\* the condition word of the task are.  A task that waits for the mutex is in one of
\* four places: about to call wait(1) or past it, and handed the mutex or not.
Outside(t)    == owner # t /\ t \notin waiters /\ cond[t] = Fresh
Queued(t)     == owner # t /\ t \in waiters
Holding(t)    == owner = t /\ t \notin waiters
Executing(t)  == t \in executing /\ t \notin ready
Asleep(t)     == t \notin executing /\ t \notin ready /\ cond[t] = [idle |-> {1}, skip |-> {}]
Unsignalled(t) == cond[t] = Fresh
Signalled(t)  == cond[t] = [idle |-> {}, skip |-> {1}]

Place(t) ==
  \/ state[t] = "call_lock" /\ pc[t] = "multiplex" /\ Outside(t)
  \/ state[t] = "locked" /\ pc[t] = "lock" /\ Outside(t) /\ Executing(t)
  \/ state[t] = "locked" /\ pc[t] = "wait" /\ Executing(t) /\ Queued(t) /\ Unsignalled(t)
  \/ state[t] = "locked" /\ pc[t] = "wait" /\ Executing(t) /\ Holding(t) /\ Signalled(t)
  \/ state[t] = "locked" /\ pc[t] = "multiplex" /\ Asleep(t) /\ Queued(t)
  \/ state[t] = "locked" /\ pc[t] \in {"multiplex", "enter"}
       /\ t \in ready \cup executing /\ Holding(t) /\ Unsignalled(t)
  \/ state[t] = "critical_area" /\ pc[t] \in {"multiplex", "unlock"}
       /\ t \in executing /\ Holding(t) /\ Unsignalled(t)
  \/ state[t] = "critical_area" /\ pc[t] = "unlocked" /\ Outside(t)
  \/ state[t] \in {"done", "finished"} /\ pc[t] = "multiplex" /\ Outside(t)

\* Every task is in one of those places, and the queue and the threads of the pool
\* hold different tasks, all of them started.
PlaceInv ==
  /\ \A t \in Tasks : Place(t)
  /\ \A t \in Tasks : t \notin started => state[t] = "call_lock"
  /\ ready \cap executing = {}
  /\ ready \cup executing \subseteq started

\* Where a task is with respect to the critical section.
phase_of(s, p) ==
  CASE s = "call_lock"                           -> "before"
    [] s = "locked"                              -> "wants"
    [] s = "critical_area" /\ p = "multiplex"    -> "inside"
    [] OTHER                                     -> "after"

phase == [t \in Tasks |-> phase_of(state[t], pc[t])]

Abstract == INSTANCE CriticalSection WITH ended <- left

\* The tasks, main() and the mutex together do what CriticalSection says: one task inside
\* at a time, the first one stays until all have called lock(), and main() leaves when the
\* last one has been through.
ImplementsCriticalSection == Abstract!Spec

\* Every task gets through the mutex and main() leaves.
EventuallyLeft == <>left

=============================================================================
