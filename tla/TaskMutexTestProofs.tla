------------------------- MODULE TaskMutexTestProofs -------------------------
(***************************************************************************)
(* Mutual exclusion and the absence of lost wakeups for any number of      *)
(* tasks and threads.  The inductive invariant says where each task can be *)
(* (Place) and what m_inside_critical_area counts.                         *)
(*                                                                         *)
(* The second part is about counting: m_locked and finished_counter count  *)
(* what they are meant to, and a counter that reached number_of_tasks has  *)
(* counted every task.  With that all four ASSERTs of the program hold, and *)
(* the program implements CriticalSection.                                 *)
(***************************************************************************)
EXTENDS TaskMutexTest, FiniteSetTheorems, TLAPS

CriticalInv ==
  /\ MutualExclusion
  /\ failed \cap {"entering", "leaving"} = {}

IInv == TypeOK /\ PlaceInv /\ CriticalInv

\* The condition words of this program: what wait(1) and signal(1) make of them.
LEMMA ConditionSteps ==
  LET sleeping == [idle |-> {1}, skip |-> {}]
      signalled == [idle |-> {}, skip |-> {1}]
  IN  /\ wait(Fresh, {1}) = sleeping
      /\ wait(signalled, {1}) = Fresh
      /\ wakes(sleeping, {1}) /\ signal(sleeping, {1}) = Fresh
      /\ ~wakes(Fresh, {1}) /\ signal(Fresh, {1}) = signalled
      /\ waiting(sleeping) /\ ~waiting(Fresh) /\ ~waiting(signalled)
BY DEF Fresh, waiting, wait, wakes, signal

USE DEF Fresh, waiting, wait, wakes, signal

LEMMA InitInv == Init => IInv
<1> SUFFICES ASSUME Init PROVE IInv
  OBVIOUS
<1> USE TasksAssumption DEF Init
<1>1. TypeOK
  <2>1. Fresh \in ConditionWords({1})
    BY DEF ConditionWords
  <2>2. cond \in [Tasks -> ConditionWords({1})]
    BY <2>1
  <2>3. first \in BOOLEAN /\ test_finished \in BOOLEAN /\ left \in BOOLEAN
    BY Zenon
  <2>4. state \in [Tasks -> States] /\ pc \in [Tasks -> PCs]
    BY DEF States, PCs
  <2> QED BY <2>2, <2>3, <2>4 DEF TypeOK
<1>2. PlaceInv
  BY DEF PlaceInv, Place, Outside
<1>3. CriticalInv
  <2>1. Inside = {}
    BY DEF Inside
  <2> QED BY <2>1 DEF CriticalInv, MutualExclusion
<1> QED BY <1>1, <1>2, <1>3 DEF IInv

LEMMA TypeInv == TypeOK /\ [Next]_vars => TypeOK'
<1> SUFFICES ASSUME TypeOK, [Next]_vars PROVE TypeOK'
  OBVIOUS
<1> USE TasksAssumption DEF TypeOK, States, PCs, ConditionWords, pool, mutex, mainVars
<1>1. ASSUME NEW t \in Tasks, Run(t) PROVE TypeOK'
  BY <1>1 DEF Run
<1>2. ASSUME NEW t \in Tasks, Dispatch(t) PROVE TypeOK'
  BY <1>2 DEF Dispatch
<1>3. ASSUME NEW t \in Tasks, call_lock(t) PROVE TypeOK'
  BY <1>3 DEF call_lock, at
<1>4. ASSUME NEW t \in Tasks, lock(t) PROVE TypeOK'
  BY <1>4 DEF lock
<1>5. ASSUME NEW t \in Tasks, wait_1(t) PROVE TypeOK'
  BY <1>5 DEF wait_1
<1>6. ASSUME NEW t \in Tasks, locked(t) PROVE TypeOK'
  BY <1>6 DEF locked, at, Assert
<1>7. ASSUME NEW t \in Tasks, critical_area(t) PROVE TypeOK'
  <2>1. failed' \in SUBSET {"entering", "leaving", "inside", "m_locked"}
    BY <1>7 DEF critical_area, Assert
  <2>2. m_inside_critical_area' \in Int
    BY <1>7 DEF critical_area
  <2>4. first' \in BOOLEAN
    BY <1>7, Zenon DEF critical_area
  <2>3. pc' \in [Tasks -> PCs]
    BY <1>7 DEF critical_area
  <2> QED BY <1>7, <2>1, <2>2, <2>3, <2>4 DEF critical_area
<1>8. ASSUME NEW t \in Tasks, unlock(t) PROVE TypeOK'
  <2>1. CASE waiters = {} /\ UNCHANGED <<waiters, cond, ready>> /\ owner' = NoTask
    BY <1>8, <2>1 DEF unlock
  <2>2. CASE hand_over(t)
    <3>1. PICK w \in waiters : /\ owner' = w
                               /\ cond' = [cond EXCEPT ![w] = signal(@, {1})]
      BY <2>2 DEF hand_over
    <3>2. signal(cond[w], {1}) \in [idle : SUBSET {1}, skip : SUBSET {1}]
      OBVIOUS
    <3>3. cond' \in [Tasks -> ConditionWords({1})]
      BY <3>1, <3>2
    <3> QED BY <1>8, <2>2, <3>1, <3>3 DEF unlock, hand_over
  <2> QED BY <1>8, <2>1, <2>2 DEF unlock
<1>9. ASSUME NEW t \in Tasks, unlocked(t) PROVE TypeOK'
  BY <1>9 DEF unlocked
<1>10. ASSUME NEW t \in Tasks, done(t) PROVE TypeOK'
  BY <1>10 DEF done, at
<1>11. CASE leave
  BY <1>11 DEF leave
<1>12. CASE UNCHANGED vars
  BY <1>12 DEF vars
<1> QED BY <1>1, <1>2, <1>3, <1>4, <1>5, <1>6, <1>7, <1>8, <1>9, <1>10, <1>11, <1>12
        DEF Next, multiplex_impl, Terminated

LEMMA PlaceStep == TypeOK /\ PlaceInv /\ [Next]_vars => PlaceInv'
<1> SUFFICES ASSUME TypeOK, PlaceInv, [Next]_vars PROVE PlaceInv'
  OBVIOUS
<1> USE TasksAssumption
    DEF TypeOK, PlaceInv, Place, Outside, Queued, Holding, Executing, Asleep, Unsignalled, Signalled,
        pool, mutex, mainVars
<1>1. ASSUME NEW t \in Tasks, Run(t) PROVE PlaceInv'
  BY <1>1 DEF Run
<1>2. ASSUME NEW t \in Tasks, Dispatch(t) PROVE PlaceInv'
  BY <1>2 DEF Dispatch
<1>3. ASSUME NEW t \in Tasks, call_lock(t) PROVE PlaceInv'
  BY <1>3 DEF call_lock, at
<1>4. ASSUME NEW t \in Tasks, lock(t) PROVE PlaceInv'
  BY <1>4 DEF lock
<1>5. ASSUME NEW t \in Tasks, wait_1(t) PROVE PlaceInv'
  <2>1. t \in executing /\ pc[t] = "wait" /\ state[t] = "locked" /\ t \notin ready
    BY <1>5 DEF wait_1
  <2>2. CASE Queued(t) /\ Unsignalled(t)
    <3>1. cond'[t] = [idle |-> {1}, skip |-> {}] /\ executing' = executing \ {t}
      BY <1>5, <2>2 DEF wait_1
    <3>2. Place(t)'
      BY <1>5, <2>1, <2>2, <3>1 DEF wait_1
    <3>3. ASSUME NEW u \in Tasks, u # t PROVE Place(u)'
      BY <1>5, <3>1, <3>3 DEF wait_1
    <3> QED BY <1>5, <3>1, <3>2, <3>3 DEF wait_1
  <2>3. CASE Holding(t) /\ Signalled(t)
    <3>1. cond'[t] = Fresh /\ executing' = executing
      <4>1. cond'[t] = wait(cond[t], {1})
        BY <1>5 DEF wait_1
      <4>2. cond'[t] = Fresh
        BY <4>1, <2>3, ConditionSteps
      <4> QED BY <1>5, <4>2, ConditionSteps DEF wait_1
    <3>2. Place(t)'
      BY <1>5, <2>1, <2>3, <3>1 DEF wait_1
    <3>3. ASSUME NEW u \in Tasks, u # t PROVE Place(u)'
      BY <1>5, <3>1, <3>3 DEF wait_1
    <3>4. UNCHANGED <<state, started, ready>>
      BY <1>5 DEF wait_1
    <3> HIDE DEF Place
    <3> QED BY <3>1, <3>2, <3>3, <3>4
  <2> QED BY <2>1, <2>2, <2>3
<1>6. ASSUME NEW t \in Tasks, locked(t) PROVE PlaceInv'
  BY <1>6 DEF locked, at, Assert
<1>7. ASSUME NEW t \in Tasks, critical_area(t) PROVE PlaceInv'
  BY <1>7 DEF critical_area, at, Assert
<1>8. ASSUME NEW t \in Tasks, unlock(t) PROVE PlaceInv'
  <2>1. /\ state[t] = "critical_area" /\ t \in executing /\ Holding(t) /\ Unsignalled(t)
        /\ pc' = [pc EXCEPT ![t] = "unlocked"]
        /\ UNCHANGED <<state, started, executing>>
    BY <1>8 DEF unlock
  <2>2. CASE waiters = {} /\ owner' = NoTask /\ UNCHANGED <<waiters, cond, ready>>
    BY <2>1, <2>2
  <2>3. CASE hand_over(t)
    <3>1. PICK w \in waiters : /\ owner' = w
                               /\ waiters' = waiters \ {w}
                               /\ cond' = [cond EXCEPT ![w] = signal(@, {1})]
                               /\ ready' = IF wakes(cond[w], {1}) THEN ready \cup {w} ELSE ready
      BY <2>3 DEF hand_over
    <3>2. w \in Tasks /\ w # t /\ state[w] = "locked" /\ w \in started
      BY <2>1, <3>1
    <3>3. ASSUME NEW u \in Tasks, u # w, u # t PROVE Place(u)'
      BY <2>1, <3>1, <3>3
    <3>4. Place(t)'
      BY <2>1, <3>1, <3>2
    <3>5. CASE Executing(w) /\ Unsignalled(w) /\ pc[w] = "wait"
      <4>1. cond'[w] = [idle |-> {}, skip |-> {1}] /\ ready' = ready
        <5>1. cond'[w] = signal(cond[w], {1}) /\ cond[w] = Fresh
          BY <3>1, <3>2, <3>5
        <5> HIDE DEF Fresh, wakes, signal
        <5> QED BY <5>1, <3>1, ConditionSteps
      <4>2. Place(w)'
        BY <2>1, <3>1, <3>2, <3>5, <4>1
      <4> QED BY <2>1, <3>3, <3>4, <4>1, <4>2
    <3>6. CASE Asleep(w) /\ pc[w] = "multiplex"
      <4>1. cond'[w] = Fresh /\ ready' = ready \cup {w}
        <5>1. cond'[w] = signal(cond[w], {1}) /\ cond[w] = [idle |-> {1}, skip |-> {}]
          BY <3>1, <3>2, <3>6
        <5> HIDE DEF Fresh, wakes, signal
        <5> QED BY <5>1, <3>1, ConditionSteps
      <4>2. Place(w)'
        BY <2>1, <3>1, <3>2, <3>6, <4>1
      <4> QED BY <2>1, <3>2, <3>3, <3>4, <3>6, <4>1, <4>2
    <3> QED BY <3>1, <3>2, <3>5, <3>6
  <2> QED BY <1>8, <2>2, <2>3 DEF unlock
<1>9. ASSUME NEW t \in Tasks, unlocked(t) PROVE PlaceInv'
  BY <1>9 DEF unlocked
<1>10. ASSUME NEW t \in Tasks, done(t) PROVE PlaceInv'
  BY <1>10 DEF done, at
<1>11. CASE leave
  BY <1>11 DEF leave
<1>12. CASE UNCHANGED vars
  BY <1>12 DEF vars
<1> QED BY <1>1, <1>2, <1>3, <1>4, <1>5, <1>6, <1>7, <1>8, <1>9, <1>10, <1>11, <1>12
        DEF Next, multiplex_impl, Terminated

LEMMA CriticalStep == TypeOK /\ PlaceInv /\ CriticalInv /\ [Next]_vars => CriticalInv'
<1> SUFFICES ASSUME TypeOK, PlaceInv, CriticalInv, [Next]_vars PROVE CriticalInv'
  OBVIOUS
<1> USE TasksAssumption DEF CriticalInv, MutualExclusion, pool, mutex, mainVars
<1>1. ASSUME NEW t \in Inside PROVE owner = t
  BY DEF PlaceInv, Place, Holding, Inside
<1>2. ASSUME UNCHANGED <<failed, m_inside_critical_area>>, Inside' = Inside PROVE CriticalInv'
  BY <1>2
<1>3. ASSUME NEW t \in Tasks, Run(t) \/ Dispatch(t) PROVE CriticalInv'
  <2>1. Inside' = Inside
    BY <1>3 DEF Run, Dispatch, Inside
  <2> QED BY <2>1, <1>2, <1>3 DEF Run, Dispatch
<1>4. ASSUME NEW t \in Tasks, call_lock(t) \/ lock(t) \/ wait_1(t) PROVE CriticalInv'
  <2>1. state[t] # "critical_area" /\ state'[t] # "critical_area"
    BY <1>4 DEF call_lock, lock, wait_1, at, TypeOK, PlaceInv, Place
  <2>2. Inside' = Inside
    BY <1>4, <2>1 DEF call_lock, lock, wait_1, at, Inside, TypeOK
  <2> QED BY <2>2, <1>2, <1>4 DEF call_lock, lock, wait_1
<1>5. ASSUME NEW t \in Tasks, locked(t) PROVE CriticalInv'
  <2>1. owner = t /\ t \notin Inside
    BY <1>5 DEF locked, at, PlaceInv, Place, Holding, Asleep, Inside
  <2>2. Inside = {} /\ m_inside_critical_area = 0
    BY <2>1, <1>1
  <2>3. Inside' = {t}
    BY <2>2, <1>5 DEF locked, Inside, TypeOK
  <2> QED BY <2>2, <2>3, <1>5 DEF locked, Assert
<1>6. ASSUME NEW t \in Tasks, critical_area(t) PROVE CriticalInv'
  <2>1. Inside = {t} /\ m_inside_critical_area = 1
    BY <1>1, <1>6 DEF critical_area, at, Inside
  <2>2. Inside' = {}
    BY <2>1, <1>6 DEF critical_area, Inside, TypeOK
  <2> QED BY <2>1, <2>2, <1>6 DEF critical_area, Assert
<1>7. ASSUME NEW t \in Tasks, unlock(t) \/ unlocked(t) \/ done(t) PROVE CriticalInv'
  <2>1. Inside' = Inside
    BY <1>7 DEF unlock, unlocked, done, at, Inside, TypeOK
  <2> QED BY <2>1, <1>2, <1>7 DEF unlock, unlocked, done
<1>8. CASE leave
  <2>1. Inside' = Inside
    BY <1>8 DEF leave, Inside
  <2> QED BY <2>1, <1>8 DEF leave
<1>9. CASE UNCHANGED vars
  <2>1. Inside' = Inside
    BY <1>9 DEF vars, Inside
  <2> QED BY <2>1, <1>2, <1>9 DEF vars
<1> QED BY <1>3, <1>4, <1>5, <1>6, <1>7, <1>8, <1>9 DEF Next, multiplex_impl, Terminated

LEMMA Inductive == Spec => []IInv
<1>1. IInv /\ [Next]_vars => IInv'
  BY TypeInv, PlaceStep, CriticalStep DEF IInv
<1> QED BY InitInv, <1>1, PTL DEF Spec

\* The variables of MyTask and of the mutex keep their types.
THEOREM TypeCorrect == Spec => []TypeOK
BY Inductive, PTL DEF IInv

\* MyTask::multiplex_impl: at most one task is between the ASSERTs of the critical area,
\* and m_inside_critical_area tells whether there is one, for any number of tasks.
THEOREM MutexIsExclusive == Spec => []MutualExclusion
BY Inductive, PTL DEF IInv, CriticalInv

\* The two ASSERTs of MyTask::multiplex_impl never fail.
THEOREM CriticalAssertsHold == Spec => [](failed \cap {"entering", "leaving"} = {})
BY Inductive, PTL DEF IInv, CriticalInv

\* mutex.lock, mutex.unlock and wait(1): a task that was handed the mutex is awake, or
\* will not fall asleep because its signal is remembered, in whatever order the three
\* happen.
THEOREM WakeupsArrive == Spec => []NoLostWakeup
<1>1. IInv => NoLostWakeup
  <2> SUFFICES ASSUME PlaceInv, NEW t \in Tasks
               PROVE  /\ waiting(cond[t]) => t \in waiters
                      /\ owner = t => t \in ready \cup executing
                      /\ owner = t /\ pc[t] = "wait" => cond[t].skip = {1}
    BY DEF IInv, NoLostWakeup
  <2> QED BY DEF PlaceInv, Place, Outside, Queued, Holding, Executing, Asleep, Unsignalled, Signalled
<1> QED BY <1>1, Inductive, PTL

-----------------------------------------------------------------------------
(* Counting, and the abstract critical section                               *)

HIDE DEF Fresh, waiting, wait, wakes, signal

\* What m_locked counts (the busy wait of the first task relies on it), and what
\* finished_counter counts (main() does).
Locked   == {t \in Tasks : state[t] \in {"locked", "critical_area"}}
Finished == {t \in Tasks : state[t] = "finished"}

CountInv ==
  /\ m_locked = Cardinality(Locked)
  /\ finished_counter = Cardinality(Finished)
  /\ first \/ \A t \in Tasks : state[t] # "call_lock"
  /\ test_finished => Finished = Tasks
  /\ left => test_finished
  /\ failed = {}

\* A counter that counted as many tasks as there are has counted all of them.
LEMMA AllCounted ==
  ASSUME NEW S \in SUBSET Tasks, Cardinality(S) >= number_of_tasks
  PROVE  S = Tasks
<1>1. /\ IsFiniteSet(S)
      /\ Cardinality(S) <= Cardinality(Tasks)
      /\ Cardinality(Tasks) = Cardinality(S) => Tasks = S
  BY TasksAssumption, FS_Subset
<1>2. Cardinality(S) \in Nat /\ Cardinality(Tasks) \in Nat
  BY <1>1, TasksAssumption, FS_CardinalityType
<1> QED BY <1>1, <1>2 DEF number_of_tasks

\* The counters after a task was added to, or removed from, what they count.
LEMMA Counting ==
  ASSUME NEW S \in SUBSET Tasks, NEW t \in Tasks
  PROVE  /\ IsFiniteSet(S) /\ Cardinality(S) \in Nat
         /\ t \notin S => Cardinality(S \cup {t}) = Cardinality(S) + 1
         /\ t \in S => Cardinality(S \ {t}) = Cardinality(S) - 1
<1>1. IsFiniteSet(S)
  BY TasksAssumption, FS_Subset
<1> QED BY <1>1, FS_AddElement, FS_RemoveElement, FS_CardinalityType

LEMMA CountInit == Init => CountInv
<1> SUFFICES ASSUME Init PROVE CountInv
  OBVIOUS
<1>1. Locked = {} /\ Finished = {}
  BY DEF Init, Locked, Finished
<1>2. first = TRUE /\ test_finished = FALSE /\ left = FALSE /\ failed = {} /\ m_locked = 0 /\ finished_counter = 0
  BY DEF Init
<1> QED BY <1>1, <1>2, FS_EmptySet DEF CountInv

LEMMA CountStep == IInv /\ CountInv /\ [Next]_vars => CountInv'
<1> SUFFICES ASSUME IInv, CountInv, [Next]_vars PROVE CountInv'
  OBVIOUS
<1> USE DEF CountInv, pool, mutex, mainVars
<1>0. TypeOK /\ PlaceInv /\ MutualExclusion /\ state \in [Tasks -> States]
  BY DEF IInv, TypeOK, CriticalInv
<1>a. ASSUME UNCHANGED <<state, m_locked, mainVars, first, failed>> PROVE CountInv'
  <2>1. Locked' = Locked /\ Finished' = Finished
    BY <1>a DEF Locked, Finished
  <2> QED BY <1>a, <2>1
<1>b. failed' \cap {"entering", "leaving"} = {}
  BY <1>0, CriticalStep DEF IInv, CriticalInv
<1>1. ASSUME NEW t \in Tasks, Run(t) \/ Dispatch(t) \/ lock(t) \/ wait_1(t) \/ unlock(t) PROVE CountInv'
  BY <1>a, <1>1 DEF Run, Dispatch, lock, wait_1, unlock
<1>2. ASSUME NEW t \in Tasks, call_lock(t) PROVE CountInv'
  <2>1. /\ state[t] = "call_lock" /\ state' = [state EXCEPT ![t] = "locked"]
        /\ m_locked' = m_locked + 1
        /\ UNCHANGED <<first, finished_counter, test_finished, left, failed>>
    BY <1>2 DEF call_lock, at
  <2>2. Locked' = Locked \cup {t} /\ t \notin Locked /\ Finished' = Finished
    BY <2>1, <1>0 DEF Locked, Finished
  <2>3. m_locked' = Cardinality(Locked')
    BY <2>1, <2>2, Counting DEF Locked
  <2>4. first \/ \A u \in Tasks : state'[u] # "call_lock"
    BY <2>1, <1>0
  <2> QED BY <2>1, <2>2, <2>3, <2>4
<1>3. ASSUME NEW t \in Tasks, locked(t) PROVE CountInv'
  <2>1. /\ state[t] = "locked" /\ state' = [state EXCEPT ![t] = "critical_area"]
        /\ UNCHANGED <<first, m_locked, finished_counter, test_finished, left>>
    BY <1>3 DEF locked, at
  <2>2. Locked' = Locked /\ Finished' = Finished
    BY <2>1, <1>0 DEF Locked, Finished
  <2>3. failed' = {}
    BY <1>b, <1>3 DEF locked, Assert
  <2>4. first \/ \A u \in Tasks : state'[u] # "call_lock"
    BY <2>1, <1>0
  <2> QED BY <2>1, <2>2, <2>3, <2>4
<1>4. ASSUME NEW t \in Tasks, critical_area(t) PROVE CountInv'
  <2>1. /\ first => m_locked >= number_of_tasks
        /\ UNCHANGED <<state, m_locked, finished_counter, test_finished, left>>
    BY <1>4 DEF critical_area, at
  <2>2. Locked' = Locked /\ Finished' = Finished
    BY <2>1 DEF Locked, Finished
  <2>3. failed' = {}
    BY <1>b, <1>4 DEF critical_area, Assert
  <2>4. \A u \in Tasks : state[u] # "call_lock"
    <3>1. CASE first
      <4>1. Locked = Tasks
        BY <3>1, <2>1, AllCounted DEF Locked
      <4> QED BY <4>1 DEF Locked
    <3>2. CASE ~first
      BY <3>2
    <3> QED BY <3>1, <3>2
  <2> QED BY <2>1, <2>2, <2>3, <2>4
<1>5. ASSUME NEW t \in Tasks, unlocked(t) PROVE CountInv'
  <2>1. /\ state[t] = "critical_area" /\ state' = [state EXCEPT ![t] = "done"]
        /\ m_locked' = m_locked - 1
        /\ UNCHANGED <<first, finished_counter, test_finished, left, failed>>
    BY <1>5, <1>0 DEF unlocked, PlaceInv, Place
  <2>2. Locked' = Locked \ {t} /\ t \in Locked /\ Finished' = Finished
    BY <2>1, <1>0 DEF Locked, Finished
  <2>3. m_locked' = Cardinality(Locked')
    BY <2>1, <2>2, Counting DEF Locked
  <2>4. first \/ \A u \in Tasks : state'[u] # "call_lock"
    BY <2>1, <1>0
  <2> QED BY <2>1, <2>2, <2>3, <2>4
<1>6. ASSUME NEW t \in Tasks, done(t) PROVE CountInv'
  <2>1. /\ state[t] = "done" /\ state' = [state EXCEPT ![t] = "finished"]
        /\ finished_counter' = finished_counter + 1
        /\ test_finished' = (test_finished \/ finished_counter = number_of_tasks - 1)
        /\ UNCHANGED <<first, m_locked, left, failed>>
    BY <1>6 DEF done, at
  <2>2. Finished' = Finished \cup {t} /\ t \notin Finished /\ Locked' = Locked
    BY <2>1, <1>0 DEF Locked, Finished
  <2>3. finished_counter' = Cardinality(Finished')
    BY <2>1, <2>2, Counting DEF Finished
  <2>4. ~test_finished
    BY <2>2
  <2>5. test_finished' => Finished' = Tasks
    <3> SUFFICES ASSUME finished_counter = number_of_tasks - 1 PROVE Finished' = Tasks
      BY <2>1, <2>4
    <3>1. number_of_tasks \in Nat
      BY TasksAssumption, FS_CardinalityType DEF number_of_tasks
    <3>2. Cardinality(Finished') = number_of_tasks
      BY <2>1, <2>3, <3>1
    <3>3. Cardinality(Finished') >= number_of_tasks /\ Finished' \in SUBSET Tasks
      BY <3>1, <3>2 DEF Finished
    <3> QED BY <3>3, AllCounted
  <2>6. first \/ \A u \in Tasks : state'[u] # "call_lock"
    BY <2>1, <1>0
  <2>7. left' => test_finished'
    BY <2>1, <2>4
  <2> QED BY <2>1, <2>2, <2>3, <2>5, <2>6, <2>7
<1>7. CASE leave
  <2>1. test_finished /\ UNCHANGED <<state, m_locked, finished_counter, test_finished, first>>
    BY <1>7 DEF leave
  <2>2. Locked' = Locked /\ Finished' = Finished
    BY <2>1 DEF Locked, Finished
  <2>3. Locked = {} /\ Inside = {}
    BY <2>1 DEF Locked, Finished, Inside
  <2>4. m_locked = 0 /\ m_inside_critical_area = 0
    BY <2>3, <1>0, FS_EmptySet DEF MutualExclusion
  <2>5. failed' = {}
    BY <2>4, <1>7 DEF leave
  <2> QED BY <2>1, <2>2, <2>5
<1>8. CASE UNCHANGED vars
  BY <1>a, <1>8 DEF vars
<1> QED BY <1>1, <1>2, <1>3, <1>4, <1>5, <1>6, <1>7, <1>8 DEF Next, multiplex_impl, Terminated

LEMMA CountInductive == Spec => [](IInv /\ CountInv)
<1>1. (IInv /\ CountInv) /\ IInv' /\ [Next]_vars => (IInv /\ CountInv)'
  BY CountStep
<1> QED BY Inductive, CountInit, <1>1, PTL DEF Spec

\* None of the four ASSERTs of AIStatefulTaskMutex_test.cxx fails: not those around the
\* critical area, and not those of main() on the counters when all tasks have finished.
THEOREM AllAssertsHold == Spec => []AssertsHold
BY CountInductive, PTL DEF CountInv, AssertsHold

\* What phase_of gives for the states of a task.
LEMMA Phases ==
  ASSUME NEW s, NEW p
  PROVE  /\ phase_of("call_lock", p) = "before"
         /\ phase_of("locked", p) = "wants"
         /\ phase_of("critical_area", "multiplex") = "inside"
         /\ p # "multiplex" => phase_of("critical_area", p) = "after"
         /\ s \in {"done", "finished"} => phase_of(s, p) = "after"
         /\ phase_of(s, p) = "before" => s = "call_lock"
         /\ phase_of(s, p) = "inside" => s = "critical_area" /\ p = "multiplex"
BY DEF phase_of

\* A step that leaves the phase of every other task alone changes phase as Move says.
LEMMA OnePhaseMoves ==
  ASSUME NEW t \in Tasks, NEW to,
         \A u \in Tasks \ {t} : phase_of(state[u], pc[u])' = phase_of(state[u], pc[u]),
         phase_of(state[t], pc[t])' = to
  PROVE  phase' = [phase EXCEPT ![t] = to]
BY DEF phase

LEMMA AbstractInit == Init => Abstract!Init
<1> SUFFICES ASSUME Init PROVE Abstract!Init
  OBVIOUS
<1>1. \A t \in Tasks : phase_of(state[t], pc[t]) = "before"
  BY Phases DEF Init
<1>2. left = FALSE
  BY DEF Init
<1> QED BY <1>1, <1>2 DEF phase, Abstract!Init

LEMMA AbstractStep == IInv /\ CountInv /\ IInv' /\ CountInv' /\ [Next]_vars => [Abstract!Next]_(Abstract!vars)
<1> SUFFICES ASSUME IInv, CountInv, CountInv', [Next]_vars PROVE [Abstract!Next]_(Abstract!vars)
  OBVIOUS
<1> USE DEF Abstract!vars, Abstract!Next, Abstract!Move, pool, mutex, mainVars
<1>0. TypeOK /\ PlaceInv /\ state \in [Tasks -> States] /\ pc \in [Tasks -> PCs]
  BY DEF IInv, TypeOK
<1>1. ASSUME NEW t \in Tasks, Run(t) \/ Dispatch(t) PROVE UNCHANGED <<phase, left>>
  BY <1>1 DEF Run, Dispatch, phase
<1>2. ASSUME NEW t \in Tasks, lock(t) \/ wait_1(t) \/ unlock(t) \/ unlocked(t) \/ done(t)
      PROVE  UNCHANGED <<phase, left>>
  <2>1. \A u \in Tasks \ {t} : state'[u] = state[u] /\ pc'[u] = pc[u]
    BY <1>0, <1>2 DEF lock, wait_1, unlock, unlocked, done, at
  <2>2. phase_of(state'[t], pc'[t]) = phase_of(state[t], pc[t])
    <3>1. CASE lock(t) \/ wait_1(t)
      BY <1>0, <3>1, Phases DEF lock, wait_1, PlaceInv, Place
    <3>2. CASE unlock(t)
      BY <1>0, <3>2, Phases DEF unlock, PlaceInv, Place
    <3>3. CASE unlocked(t)
      BY <1>0, <3>3, Phases DEF unlocked, PlaceInv, Place
    <3>4. CASE done(t)
      BY <1>0, <3>4, Phases DEF done, at
    <3> QED BY <1>2, <3>1, <3>2, <3>3, <3>4
  <2>3. phase' = phase
    BY <2>1, <2>2 DEF phase
  <2> QED BY <1>2, <2>3 DEF lock, wait_1, unlock, unlocked, done
<1>3. ASSUME NEW t \in Tasks, call_lock(t) PROVE Abstract!Want(t)
  <2>1. /\ state[t] = "call_lock" /\ state'[t] = "locked" /\ left' = left
        /\ \A u \in Tasks \ {t} : state'[u] = state[u] /\ pc'[u] = pc[u]
    BY <1>0, <1>3 DEF call_lock, at
  <2>2. phase' = [phase EXCEPT ![t] = "wants"]
    BY <2>1, Phases, OnePhaseMoves
  <2>3. phase[t] = "before"
    BY <2>1, Phases DEF phase
  <2> QED BY <2>1, <2>2, <2>3 DEF Abstract!Want
<1>4. ASSUME NEW t \in Tasks, locked(t) PROVE Abstract!Enter(t)
  <2>1. /\ state[t] = "locked" /\ state'[t] = "critical_area" /\ pc'[t] = "multiplex" /\ left' = left
        /\ \A u \in Tasks \ {t} : state'[u] = state[u] /\ pc'[u] = pc[u]
    BY <1>0, <1>4 DEF locked, at
  <2>2. phase' = [phase EXCEPT ![t] = "inside"]
    BY <2>1, Phases, OnePhaseMoves
  <2>3. phase[t] = "wants"
    BY <2>1, Phases DEF phase
  <2>4. Inside = {}
    <3>1. owner = t /\ t \notin Inside
      BY <1>4, <1>0 DEF locked, at, PlaceInv, Place, Holding, Asleep, Inside
    <3>2. ASSUME NEW u \in Inside PROVE owner = u
      BY <1>0, <3>2 DEF PlaceInv, Place, Holding, Inside
    <3> QED BY <3>1, <3>2
  <2>5. \A u \in Tasks : phase[u] # "inside"
    BY <2>4, Phases DEF phase, Inside
  <2> QED BY <2>1, <2>2, <2>3, <2>5 DEF Abstract!Enter
<1>5. ASSUME NEW t \in Tasks, critical_area(t) PROVE Abstract!Leave(t)
  <2>1. /\ state[t] = "critical_area" /\ pc[t] = "multiplex" /\ pc'[t] = "unlock" /\ first' = FALSE
        /\ UNCHANGED <<state, left>> /\ \A u \in Tasks \ {t} : pc'[u] = pc[u]
    BY <1>0, <1>5 DEF critical_area, at
  <2>2. phase' = [phase EXCEPT ![t] = "after"]
    BY <2>1, Phases, OnePhaseMoves
  <2>3. phase[t] = "inside"
    BY <2>1, Phases DEF phase
  <2>4. \A u \in Tasks : state[u] # "call_lock"
    BY <2>1 DEF CountInv
  <2>5. \A u \in Tasks : phase[u] # "before"
    BY <2>4, Phases DEF phase
  <2> QED BY <2>1, <2>2, <2>3, <2>5 DEF Abstract!Leave
<1>6. CASE leave
  <2>1. /\ test_finished /\ ~left /\ left' = TRUE /\ UNCHANGED <<state, pc>>
    BY <1>6 DEF leave
  <2>2. \A t \in Tasks : state[t] = "finished"
    BY <2>1 DEF CountInv, Finished
  <2>3. \A t \in Tasks : phase[t] = "after"
    BY <2>2, Phases DEF phase
  <2>4. phase' = phase
    BY <2>1 DEF phase
  <2> QED BY <2>1, <2>3, <2>4 DEF Abstract!End
<1>7. CASE UNCHANGED vars
  BY <1>7 DEF vars, phase
<1> QED BY <1>1, <1>2, <1>3, <1>4, <1>5, <1>6, <1>7 DEF Next, multiplex_impl, Terminated

\* AIStatefulTaskMutex_test.cxx implements CriticalSection: whatever the pool does and
\* whenever a signal comes, tasks enter one at a time, the first one leaves after all have
\* called lock(), and main() passes the gate after the last one.
THEOREM Implements == Spec => ImplementsCriticalSection
BY CountInductive, AbstractInit, AbstractStep, PTL DEF Spec, ImplementsCriticalSection, Abstract!Spec

=============================================================================
