---------------------- MODULE SequentialProgramsProofs ----------------------
(***************************************************************************)
(* The programs of MCSequentialPrograms, one part for each.                *)
(*                                                                         *)
(* wait_signal_test2: that the task runs iff its wait is satisfied is not  *)
(* inductive; whether a signal wakes the task depends on the counters, so  *)
(* the invariant also says what each counter holds (CountersTell).         *)
(* objectqueue: what is in the queue and in each function, point by point. *)
(* benchmark: the histograms are those of the data points counted so far,  *)
(* and the targets do not move once a sample was used.                     *)
(* tsc_kmod: what each loop computes, by induction over its turns, and     *)
(* that no word overflows as long as the squares fit.                      *)
(***************************************************************************)
EXTENDS MCSequentialPrograms, FiniteSetTheorems, SequenceTheorems, WellFoundedInduction, TLAPS

-----------------------------------------------------------------------------
(* wait_signal_test2                                                         *)

IInv == TypeOK /\ RunsIffSatisfied /\ CountersTell

LEMMA InitInv == Init => IInv
BY RequiredAssumption
   DEF Init, IInv, TypeOK, RunsIffSatisfied, CountersTell, StillWaitedFor, SignalledEarly,
       Satisfied, pending, reset, Normal

\* What the invariant says of a running task, which is when wait is called.
LEMMA RunningCounters ==
  ASSUME IInv, running
  PROVE  /\ m_counters \in [Conditions -> 0 .. 2]
         /\ pending \subseteq Conditions
         /\ \A i \in Conditions : m_counters[i] # 0 /\ (m_counters[i] = 2 <=> i \in pending)
BY DEF IInv, TypeOK, CountersTell, StillWaitedFor, SignalledEarly, pending

LEMMA WaitInv ==
  ASSUME IInv, NEW mask \in Masks, Wait(mask)
  PROVE  IInv'
<1> USE RequiredAssumption
<1> DEFINE c2 == wait_counters(m_counters, mask)
           OR == OR_counter_woke_up(m_counters, mask, 2)
           next == after_wait(m_counters, mask)
           met == mask \cap Required \subseteq pending
<1>1. /\ running
      /\ mask \subseteq Conditions
      /\ mask # {}
  BY DEF Wait, Masks
<1>2. /\ c2 \in [Conditions -> 0 .. 2]
      /\ \A i \in Conditions : /\ c2[i] = 0 <=> i \in mask \ pending
                               /\ c2[i] = 2 <=> i \in pending \ mask
  BY <1>1, RunningCounters DEF wait_counters
<1>3. OR <=> mask \cap Normal \cap pending # {}
  BY <1>1, RunningCounters DEF OR_counter_woke_up, Normal
<1>4. required_is_idle(c2) <=> ~met
  BY <1>1, <1>2 DEF required_is_idle
<1>5. next = IF met /\ OR THEN reset ELSE IF OR THEN reset_OR_counters(c2) ELSE c2
  BY <1>4 DEF after_wait
<1>6. /\ waited' = mask
      /\ signalled' = pending
      /\ running' = ~has_idle_counter(next)
      /\ m_counters' = IF running' THEN reset ELSE next
  BY DEF Wait
<1>7. Satisfied' <=> met /\ (mask \cap Normal # {} => OR)
  BY <1>3, <1>6 DEF Satisfied, Normal
<1> HIDE DEF c2, OR, next, met
<1>8. CASE met /\ OR
  <2>1. next = reset /\ ~has_idle_counter(next)
    BY <1>8, <1>5 DEF reset, has_idle_counter
  <2>2. running' = TRUE /\ m_counters' = reset /\ Satisfied'
    BY <2>1, <1>6, <1>7, <1>8
  <2> QED BY <2>2, <1>1, <1>6, RunningCounters
          DEF IInv, TypeOK, RunsIffSatisfied, CountersTell, StillWaitedFor, SignalledEarly,
              pending, reset
<1>9. CASE met /\ ~OR
  <2>1. next = c2
    BY <1>9, <1>5
  <2>2. has_idle_counter(c2) <=> mask \cap Normal # {}
    <3>1. ASSUME NEW i \in Conditions, c2[i] = 0 PROVE i \in mask \cap Normal
      BY <3>1, <1>2, <1>9 DEF met, Normal
    <3>2. ASSUME NEW i \in mask \cap Normal PROVE c2[i] = 0
      BY <3>2, <1>1, <1>2, <1>3, <1>9
    <3> QED BY <3>1, <3>2, <1>1 DEF has_idle_counter
  <2>3. CASE mask \cap Normal = {}
    <3>1. running' = TRUE /\ m_counters' = reset /\ Satisfied'
      BY <2>1, <2>2, <2>3, <1>6, <1>7, <1>9
    <3> QED BY <3>1, <1>1, <1>6, RunningCounters
            DEF IInv, TypeOK, RunsIffSatisfied, CountersTell, StillWaitedFor, SignalledEarly,
                pending, reset
  <2>4. CASE mask \cap Normal # {}
    <3>1. running' = FALSE /\ m_counters' = c2 /\ ~Satisfied'
      BY <2>1, <2>2, <2>4, <1>6, <1>7, <1>9
    <3>2. ~NormalSignalled'
      BY <1>3, <1>6, <1>9 DEF NormalSignalled, Normal
    <3>3. CountersTell'
      BY <3>1, <3>2, <1>2, <1>6 DEF CountersTell, StillWaitedFor, SignalledEarly, pending
    <3> QED BY <3>1, <3>3, <1>1, <1>2, <1>6, RunningCounters DEF IInv, TypeOK, RunsIffSatisfied
  <2> QED BY <2>3, <2>4
<1>10. CASE ~met
  <2>1. next = IF OR THEN reset_OR_counters(c2) ELSE c2
    BY <1>10, <1>5
  <2>2. /\ next \in [Conditions -> 0 .. 2]
        /\ \A i \in Conditions : /\ next[i] = 0 <=> i \in mask \ pending /\ (i \in Normal => ~OR)
                                 /\ next[i] = 2 <=> i \in pending \ mask
    <3>1. CASE OR
      BY <3>1, <2>1, <1>2 DEF reset_OR_counters, Normal
    <3>2. CASE ~OR
      BY <3>2, <2>1, <1>2
    <3> QED BY <3>1, <3>2
  <2>3. has_idle_counter(next)
    <3>1. PICK i \in Required : i \in mask \ pending
      BY <1>10 DEF met
    <3> QED BY <3>1, <2>2 DEF has_idle_counter, Normal
  <2>4. running' = FALSE /\ m_counters' = next /\ ~Satisfied'
    BY <2>3, <1>6, <1>7, <1>10
  <2>5. NormalSignalled' <=> OR
    BY <1>3, <1>6 DEF NormalSignalled, Normal
  <2>6. CountersTell'
    BY <2>2, <2>4, <2>5, <1>6 DEF CountersTell, StillWaitedFor, SignalledEarly, pending, Normal
  <2> QED BY <2>2, <2>4, <2>6, <1>1, <1>6, RunningCounters DEF IInv, TypeOK, RunsIffSatisfied
<1> QED BY <1>8, <1>9, <1>10

LEMMA SignalRunningInv ==
  ASSUME IInv, NEW mask \in Masks, Signal(mask), running
  PROVE  IInv'
<1>1. mask \subseteq Conditions
  BY DEF Masks
<1>2. ~has_idle_counter(m_counters) /\ ~OR_counter_woke_up(m_counters, mask, 0)
  BY <1>1, RunningCounters DEF has_idle_counter, OR_counter_woke_up
<1>3. m_counters' = signal_counters(m_counters, mask)
  BY <1>2 DEF Signal, after_signal
<1>4. /\ m_counters' \in [Conditions -> 0 .. 2]
      /\ \A i \in Conditions :
           m_counters'[i] # 0 /\ (m_counters'[i] = 2 <=> i \in pending \cup mask)
  BY <1>3, RunningCounters DEF signal_counters
<1>5. running' = TRUE /\ waited' = {} /\ signalled' = pending \cup mask
  BY <1>4 DEF Signal, has_idle_counter
<1>6. TypeOK' /\ RunsIffSatisfied'
  BY <1>1, <1>4, <1>5, RunningCounters DEF TypeOK, RunsIffSatisfied, Satisfied
<1>7. CountersTell'
  BY <1>4, <1>5 DEF CountersTell, StillWaitedFor, SignalledEarly, pending
<1> QED BY <1>6, <1>7 DEF IInv

LEMMA SignalWaitingInv ==
  ASSUME IInv, NEW mask \in Masks, Signal(mask), ~running
  PROVE  IInv'
<1> USE RequiredAssumption
<1> DEFINE c2 == signal_counters(m_counters, mask)
           OR == OR_counter_woke_up(m_counters, mask, 0)
           met == waited \cap Required \subseteq signalled \cup mask
<1>1. /\ mask \subseteq Conditions
      /\ mask # {}
      /\ waited \subseteq Conditions
      /\ signalled \subseteq Conditions
      /\ m_counters \in [Conditions -> 0 .. 2]
      /\ pending = signalled
      /\ \A i \in Conditions :
           /\ m_counters[i] = 0 <=> i \in waited \ signalled /\ (i \in Normal => ~NormalSignalled)
           /\ m_counters[i] = 2 <=> i \in signalled \ waited
  BY DEF IInv, TypeOK, CountersTell, StillWaitedFor, SignalledEarly, Masks, pending
<1>2. ~Satisfied
  BY DEF IInv, RunsIffSatisfied
<1>3. has_idle_counter(m_counters)
  <2>1. CASE ~(waited \cap Required \subseteq signalled)
    BY <2>1, <1>1 DEF has_idle_counter, Normal
  <2>2. CASE waited \cap Normal # {} /\ ~NormalSignalled
    <3>1. PICK i \in waited \cap Normal : TRUE
      BY <2>2
    <3>2. i \notin signalled
      BY <3>1, <2>2 DEF NormalSignalled
    <3> QED BY <3>1, <3>2, <2>2, <1>1 DEF has_idle_counter
  <2> QED BY <2>1, <2>2, <1>2 DEF Satisfied, NormalSignalled
<1>4. \A i \in mask : m_counters[i] = 0
  BY <1>3 DEF Signal, signal_allowed
<1>5. \A i \in mask : i \in waited \ signalled /\ (i \in Normal => ~NormalSignalled)
  BY <1>1, <1>4
<1>6. OR <=> mask \cap Normal # {}
  BY <1>1, <1>4 DEF OR_counter_woke_up, Normal
<1>7. /\ waited' = waited
      /\ signalled' = signalled \cup mask
  BY <1>1 DEF Signal
<1>8. NormalSignalled' <=> NormalSignalled \/ OR
  BY <1>5, <1>6, <1>7 DEF NormalSignalled, Normal
<1>9. OR => ~NormalSignalled
  BY <1>5, <1>6
<1>10. /\ c2 \in [Conditions -> 0 .. 2]
       /\ \A i \in Conditions :
            /\ c2[i] = 0 <=> /\ i \in waited \ (signalled \cup mask)
                             /\ i \in Normal => ~NormalSignalled
            /\ c2[i] = 2 <=> i \in signalled \ waited
  <2>1. c2 \in [Conditions -> 0 .. 2]
    BY <1>1 DEF signal_counters
  <2>2. ASSUME NEW i \in Conditions
        PROVE  c2[i] = IF i \in mask THEN 1 ELSE m_counters[i]
    BY <1>4 DEF signal_counters
  <2> QED BY <2>1, <2>2, <1>1, <1>5
<1>11. required_is_idle(c2) <=> ~met
  BY <1>1, <1>10 DEF required_is_idle, Normal
<1>12. /\ running' = ~has_idle_counter(m_counters')
       /\ m_counters' = IF met /\ (OR \/ ~has_idle_counter(c2)) THEN reset
                        ELSE IF OR THEN reset_OR_counters(c2) ELSE c2
  BY <1>3, <1>11 DEF Signal, after_signal
<1>13. Satisfied' <=> met /\ (waited \cap Normal # {} => NormalSignalled \/ OR)
  BY <1>7, <1>8 DEF Satisfied, NormalSignalled, Normal
<1> HIDE DEF c2, OR, met
<1>14. Satisfied' <=> met /\ (OR \/ ~has_idle_counter(c2))
  <2>1. CASE OR \/ ~met
    BY <2>1, <1>13
  <2>2. CASE met /\ ~OR /\ NormalSignalled
    <3>1. ASSUME NEW i \in Conditions, c2[i] = 0 PROVE FALSE
      BY <3>1, <2>2, <1>10 DEF met, Normal
    <3> QED BY <3>1, <2>2, <1>13 DEF has_idle_counter
  <2>3. CASE met /\ ~OR /\ ~NormalSignalled
    <3>1. ASSUME NEW i \in Conditions, c2[i] = 0 PROVE i \in waited \cap Normal
      BY <3>1, <2>3, <1>10 DEF met, Normal
    <3>2. ASSUME NEW i \in waited \cap Normal PROVE c2[i] = 0
      <4>1. i \notin mask /\ i \notin signalled
        BY <2>3, <1>6 DEF NormalSignalled
      <4> QED BY <4>1, <2>3, <1>1, <1>10
    <3> QED BY <3>1, <3>2, <2>3, <1>1, <1>13 DEF has_idle_counter
  <2> QED BY <2>1, <2>2, <2>3
<1>15. CASE Satisfied'
  <2>1. m_counters' = reset
    BY <1>15, <1>12, <1>14
  <2>2. running' = TRUE
    <3>1. ~has_idle_counter(m_counters')
      BY <2>1 DEF reset, has_idle_counter
    <3> QED BY <3>1, <1>12
  <2>3. waited # {}
    BY <1>2 DEF Satisfied
  <2>4. TypeOK'
    BY <2>1, <2>2, <1>1, <1>7 DEF TypeOK, reset
  <2>5. CountersTell'
    BY <2>1, <2>2, <2>3, <1>7 DEF CountersTell, StillWaitedFor, SignalledEarly, pending, reset
  <2> QED BY <2>2, <2>4, <2>5, <1>15 DEF IInv, RunsIffSatisfied
<1>16. CASE ~Satisfied'
  <2>1. m_counters' = IF OR THEN reset_OR_counters(c2) ELSE c2
    BY <1>16, <1>12, <1>14
  <2>2. /\ m_counters' \in [Conditions -> 0 .. 2]
        /\ \A i \in Conditions :
             /\ m_counters'[i] = 0 <=> /\ i \in waited \ (signalled \cup mask)
                                       /\ i \in Normal => ~(NormalSignalled \/ OR)
             /\ m_counters'[i] = 2 <=> i \in signalled \ waited
    <3>1. CASE OR
      BY <3>1, <2>1, <1>9, <1>10 DEF reset_OR_counters, Normal
    <3>2. CASE ~OR
      BY <3>2, <2>1, <1>10
    <3> QED BY <3>1, <3>2
  <2>3. has_idle_counter(m_counters')
    <3>1. CASE ~met
      BY <3>1, <2>2, <1>1 DEF has_idle_counter, Normal, met
    <3>2. CASE waited \cap Normal # {} /\ ~NormalSignalled /\ ~OR
      <4>1. PICK i \in waited \cap Normal : TRUE
        BY <3>2
      <4>2. i \notin signalled \cup mask
        BY <4>1, <3>2, <1>6 DEF NormalSignalled
      <4> QED BY <4>1, <4>2, <3>2, <2>2, <1>1 DEF has_idle_counter
    <3> QED BY <3>1, <3>2, <1>13, <1>16
  <2>4. running' = FALSE
    BY <2>3, <1>12
  <2>5. TypeOK'
    BY <2>2, <2>4, <1>1, <1>7 DEF TypeOK
  <2>6. CountersTell'
    BY <2>2, <2>4, <1>5, <1>7, <1>8
       DEF CountersTell, StillWaitedFor, SignalledEarly, pending, Normal
  <2> QED BY <2>4, <2>5, <2>6, <1>16 DEF IInv, RunsIffSatisfied
<1> QED BY <1>15, <1>16

LEMMA StutterInv ==
  ASSUME IInv, UNCHANGED vars
  PROVE  IInv'
BY DEF IInv, vars, TypeOK, RunsIffSatisfied, Satisfied, CountersTell, StillWaitedFor,
       SignalledEarly, NormalSignalled, pending

LEMMA Inductive == Spec => []IInv
<1>1. IInv /\ [Next]_vars => IInv'
  BY WaitInv, SignalRunningInv, SignalWaitingInv, StutterInv DEF Next
<1> QED BY InitInv, <1>1, PTL DEF Spec

\* Counter::wait and Counter::signal keep every counter in 0 .. 2, for any number of
\* conditions.
THEOREM TypeCorrect == Spec => []TypeOK
BY Inductive, PTL DEF IInv

\* Task::wait and Task::signal: the task runs exactly when its latest wait is
\* satisfied, for any set of conditions and any choice of the required ones.
THEOREM WakesCorrectly == Spec => []RunsIffSatisfied
BY Inductive, PTL DEF IInv

\* The counters are a faithful record of the wait and the signals: what each value means holds for
\* any set of conditions, so no operation leaves a counter behind that a later one misreads.
THEOREM CountersAreRight == Spec => []CountersTell
BY Inductive, PTL DEF IInv

-----------------------------------------------------------------------------
(* A step is a step of one of the programs; it leaves the variables of the   *)
(* others alone.                                                             *)
LEMMA ProgramStep ==
  [Step]_allVars => /\ Kmod!Next \/ UNCHANGED kmodVars
                    /\ Bm!Next \/ UNCHANGED calVars
                    /\ Queue!Next \/ UNCHANGED oqVars
BY DEF Step, ScriptsStep, CountersStep, KmodStep, BenchmarkStep, QueueStep, allVars, kmodVars, calVars, oqVars

-----------------------------------------------------------------------------
(* objectqueue                                                               *)

\* What main() knows at each point: what is in the queue, and where the function is.
QueueAt ==
  /\ oq_at \in {"reallocate", "move function in"} => object_queue = <<>> /\ pa
  /\ oq_at = "move out to bf" => object_queue = <<"big">> /\ pa
  /\ oq_at = "copy bf in" => object_queue = <<>> /\ pa /\ bf = "big"
  /\ oq_at = "move bf in" => object_queue = <<"big">> /\ pa /\ bf = "big"
  /\ oq_at = "release" => object_queue = <<"big", "big">>
  /\ oq_at = "move out to bf2" => object_queue = <<"big", "big">> /\ ~pa
  /\ oq_at = "execute" => object_queue = <<"big">> /\ pa /\ bf2 = "big"

QueueInv == oq_failed = {} /\ QueueAt

LEMMA AppendSecond ==
  ASSUME NEW x, NEW y
  PROVE  Append(<<x>>, y) = <<x, y>>
<1>1. <<x>> \in Seq({x, y}) /\ <<x, y>> \in Seq({x, y}) /\ Len(<<x>>) = 1 /\ Len(<<x, y>>) = 2 /\ <<x>>[1] = x
  OBVIOUS
<1>2. /\ Append(<<x>>, y) \in Seq({x, y}) /\ Len(Append(<<x>>, y)) = 2
      /\ Append(<<x>>, y)[1] = x /\ Append(<<x>>, y)[2] = y
  BY <1>1, AppendProperties
<1>3. \A i \in 1 .. 2 : Append(<<x>>, y)[i] = <<x, y>>[i]
  BY <1>2
<1> QED BY <1>1, <1>2, <1>3, SeqEqual

LEMMA QueueOperations ==
  /\ Append(<<>>, "big") = <<"big">> /\ Append(<<"big">>, "big") = <<"big", "big">>
  /\ Head(<<"big">>) = "big" /\ Head(<<"big", "big">>) = "big"
  /\ Tail(<<"big">>) = <<>> /\ Tail(<<"big", "big">>) = <<"big">>
  /\ \A q : /\ q = <<>> => Len(q) = 0
            /\ q = <<"big">> => Len(q) = 1 /\ q # <<>>
            /\ q = <<"big", "big">> => Len(q) = 2 /\ q # <<>>
BY AppendSecond

LEMMA QueueHasRoom == \A length \in {0, 1} : length < oq_capacity /\ length # oq_capacity
BY QueueAssumption

LEMMA QueueStepInv == QueueInv /\ (Queue!Next \/ UNCHANGED oqVars) => QueueInv'
<1> SUFFICES ASSUME QueueInv, Queue!Next \/ UNCHANGED oqVars PROVE QueueInv'
  OBVIOUS
<1> USE DEF QueueInv, QueueAt, Queue!Goto
<1>1. CASE Queue!reallocate
  BY <1>1 DEF Queue!reallocate
<1>2. CASE Queue!move_function_in
  <2>1. pa /\ object_queue = <<>>
    BY <1>2 DEF Queue!move_function_in
  <2>2. object_queue' = <<"big">>
    BY <1>2, <2>1, QueueOperations DEF Queue!move_function_in, Queue!move_in
  <2>3. Len(object_queue) = 0 /\ Len(object_queue') = 1
    BY <2>1, <2>2, QueueOperations
  <2>4. pa /\ Len(object_queue) < oq_capacity /\ Len(object_queue') = 1
    BY <2>1, <2>3, QueueHasRoom DEF Queue!may_move_out
  <2>5. oq_failed' = {}
    BY <1>2, <2>1, <2>2, <2>4 DEF Queue!move_function_in, Queue!move_in, Queue!Check
  <2> QED BY <1>2, <2>1, <2>2, <2>5 DEF Queue!move_function_in
<1>3. CASE Queue!move_out_to_bf
  <2>1. pa /\ object_queue = <<"big">>
    BY <1>3 DEF Queue!move_out_to_bf
  <2>2. object_queue' = <<>> /\ bf' = "big"
    BY <1>3, <2>1, QueueOperations DEF Queue!move_out_to_bf, Queue!move_in
  <2>3. Len(object_queue) = 1 /\ object_queue # <<>>
    BY <2>1, <2>2, QueueOperations
  <2>4. Queue!may_move_out
    BY <2>1, <2>3, QueueHasRoom DEF Queue!may_move_out
  <2>5. oq_failed' = {}
    BY <1>3, <2>1, <2>2, <2>4 DEF Queue!move_out_to_bf, Queue!move_in, Queue!Check
  <2> QED BY <1>3, <2>1, <2>2, <2>5 DEF Queue!move_out_to_bf
<1>4. CASE Queue!copy_bf_in
  <2>1. pa /\ object_queue = <<>> /\ bf = "big"
    BY <1>4 DEF Queue!copy_bf_in
  <2>2. object_queue' = <<"big">> /\ oq_at' = "move bf in"
    BY <1>4, <2>1, QueueOperations DEF Queue!copy_bf_in, Queue!move_in
  <2>3. Len(object_queue) = 0 /\ Len(object_queue') = 1
    BY <2>1, <2>2, QueueOperations
  <2>4. pa /\ Len(object_queue) < oq_capacity /\ Len(object_queue') = 1
    BY <2>1, <2>3, QueueHasRoom DEF Queue!may_move_out
  <2>5. oq_failed' = {}
    BY <1>4, <2>1, <2>2, <2>4 DEF Queue!copy_bf_in, Queue!move_in, Queue!Check
  <2> QED BY <1>4, <2>1, <2>2, <2>5 DEF Queue!copy_bf_in
<1>5. CASE Queue!move_bf_in
  <2>1. pa /\ object_queue = <<"big">> /\ bf = "big"
    BY <1>5 DEF Queue!move_bf_in
  <2>2. object_queue' = <<"big", "big">>
    BY <1>5, <2>1, QueueOperations DEF Queue!move_bf_in, Queue!move_in
  <2>3. Len(object_queue) = 1 /\ Len(object_queue') = 2
    BY <2>1, <2>2, QueueOperations
  <2>4. pa /\ Len(object_queue) < oq_capacity /\ Len(object_queue') = 2
    BY <2>1, <2>3, QueueHasRoom DEF Queue!may_move_out
  <2>5. oq_failed' = {}
    BY <1>5, <2>1, <2>2, <2>4 DEF Queue!move_bf_in, Queue!move_in, Queue!Check
  <2> QED BY <1>5, <2>1, <2>2, <2>5 DEF Queue!move_bf_in
<1>6. CASE Queue!release
  BY <1>6 DEF Queue!release
<1>7. CASE Queue!move_out_to_bf2
  <2>1. ~pa /\ object_queue = <<"big", "big">>
    BY <1>7 DEF Queue!move_out_to_bf2
  <2>2. object_queue' = <<"big">> /\ bf2' = "big" /\ pa'
    BY <1>7, <2>1, QueueOperations DEF Queue!move_out_to_bf2, Queue!move_in
  <2>3. Len(object_queue') = 1 /\ object_queue # <<>>
    BY <2>1, <2>2, QueueOperations
  <2>4. Queue!may_move_out /\ Len(object_queue') = 1
    BY <2>1, <2>3, QueueHasRoom DEF Queue!may_move_out
  <2>5. oq_failed' = {}
    BY <1>7, <2>1, <2>2, <2>4 DEF Queue!move_out_to_bf2, Queue!move_in, Queue!Check
  <2> QED BY <1>7, <2>1, <2>2, <2>5 DEF Queue!move_out_to_bf2
<1>8. CASE Queue!execute
  BY <1>8 DEF Queue!execute, Queue!Check
<1>9. CASE Queue!destruct
  BY <1>9 DEF Queue!destruct
<1>10. CASE UNCHANGED oqVars
  BY <1>10 DEF oqVars
<1> QED BY <1>1, <1>2, <1>3, <1>4, <1>5, <1>6, <1>7, <1>8, <1>9, <1>10
        DEF Queue!Next, Queue!Terminated, Queue!oqVars, oqVars

\* objectqueue keeps the rules of the queue for any capacity from two and any number of rounds: the
\* lengths are as asserted, no moved-from function is called, and nothing is taken from a full queue
\* while the producer access is held.
THEOREM QueueIsUsedRight == SequentialPrograms => []QueueUsedRight
<1>1. Start => QueueInv
  BY DEF Start, Queue!Init, QueueInv, QueueAt
<1>2. QueueInv /\ [Step]_allVars => QueueInv'
  BY ProgramStep, QueueStepInv
<1>3. QueueInv => QueueUsedRight
  BY DEF QueueInv, QueueUsedRight, Queue!QueueUsedRight
<1> QED BY <1>1, <1>2, <1>3, PTL DEF SequentialPrograms

-----------------------------------------------------------------------------
(* benchmark: calibrate_delta()                                              *)

Points == Deltas \X Deltas

\* Where a value is among the first m data points.
Seen(s, i, x, m) == {j \in 1 .. m : s[j][i] = x}
Tally(s, i, x, m) == Cardinality(Seen(s, i, x, m))

\* The values of a column that have been counted so far.
Histogram(i) == cal_count = [x \in Deltas |-> IF x < max_delta THEN Tally(data, i, x, k - 1) ELSE 0]

Most1 ==
  /\ \A x \in Deltas : cal_count[x] <= max_count
  /\ max_count > 0 => best_delta1 \in Deltas /\ cal_count[best_delta1] = max_count /\ best_delta1 < max_delta

\* The maximum of the second loop is not one, but never more than what it is said to be the count of.
Many2 == max_count > 0 => best_delta2 \in Deltas /\ max_count <= cal_count[best_delta2] /\ best_delta2 < max_delta

Frequent(i, y, min) == y \in Deltas /\ y < max_delta /\ Tally(data, i, y, Len(data)) >= min

MostFrequent1(y) ==
  /\ Frequent(1, y, min_count1)
  /\ \A x \in Deltas : x < max_delta => Tally(data, 1, x, Len(data)) <= Tally(data, 1, y, Len(data))

DeltaInv ==
  /\ data \in Seq(Points) /\ max_count \in Nat
  /\ cal_at \notin {"histogram1", "histogram2"} => k = 1 /\ cal_count = Bm!NoCount(Deltas) /\ max_count = 0
  /\ cal_at = "histogram1" => k \in 1 .. Len(data) + 1 /\ Histogram(1) /\ Most1
  /\ cal_at = "histogram2" => k \in 1 .. Len(data) + 1 /\ Histogram(2) /\ Many2 /\ MostFrequent1(best_delta1)
  /\ cal_at = "accepted" => MostFrequent1(m_delta) /\ Frequent(2, m_delta, min_count2)

LEMMA SameCardinality == \A S : Bm!Cardinality(S) = Cardinality(S)
BY DEF Bm!Cardinality, Cardinality, Bm!IsFiniteSet, IsFiniteSet

LEMMA TallyType ==
  ASSUME NEW s, NEW i, NEW x, NEW m \in Nat
  PROVE  IsFiniteSet(Seen(s, i, x, m)) /\ Tally(s, i, x, m) \in Nat
<1>1. IsFiniteSet(1 .. m)
  BY FS_Interval
<1>2. Seen(s, i, x, m) \subseteq 1 .. m
  BY DEF Seen
<1> QED BY <1>1, <1>2, FS_Subset, FS_CardinalityType DEF Tally

LEMMA TallyNone ==
  ASSUME NEW s, NEW i, NEW x
  PROVE  Tally(s, i, x, 0) = 0
<1>1. Seen(s, i, x, 0) = {}
  BY DEF Seen
<1> QED BY <1>1, FS_EmptySet DEF Tally

LEMMA TallyNext ==
  ASSUME NEW s, NEW i, NEW x, NEW m \in Nat \ {0}
  PROVE  Tally(s, i, x, m) = Tally(s, i, x, m - 1) + (IF s[m][i] = x THEN 1 ELSE 0)
<1>1. IsFiniteSet(Seen(s, i, x, m - 1)) /\ Tally(s, i, x, m - 1) \in Nat /\ m \notin Seen(s, i, x, m - 1)
  BY TallyType DEF Seen
<1>2. CASE s[m][i] = x
  <2>1. Seen(s, i, x, m) = Seen(s, i, x, m - 1) \cup {m}
    BY <1>2 DEF Seen
  <2> QED BY <1>1, <1>2, <2>1, FS_AddElement DEF Tally
<1>3. CASE s[m][i] # x
  <2>1. Seen(s, i, x, m) = Seen(s, i, x, m - 1)
    BY <1>3 DEF Seen
  <2> QED BY <1>1, <1>3, <2>1 DEF Tally
<1> QED BY <1>2, <1>3

\* One turn of either loop: a value below max_delta gets one more.
LEMMA HistogramStep ==
  ASSUME NEW i \in {1, 2}, DeltaInv, Histogram(i), k \in 1 .. Len(data), k' = k + 1, data' = data,
         cal_count' = IF data[k][i] < max_delta THEN [cal_count EXCEPT ![data[k][i]] = @ + 1] ELSE cal_count
  PROVE  /\ data[k][i] \in Deltas /\ k' \in 1 .. Len(data) + 1
         /\ Histogram(i)'
         /\ cal_count \in [Deltas -> Nat]
<1> DEFINE y == data[k][i]
<1>1. /\ Deltas \subseteq Nat /\ max_delta \in Nat /\ Len(data) \in Nat /\ k \in Nat \ {0}
      /\ data[k] \in Points /\ y \in Deltas
  BY CalibrationAssumption DEF DeltaInv, Points
<1>2. \A x \in Deltas : Tally(data, i, x, k - 1) \in Nat
  BY <1>1, TallyType
<1>3. \A x \in Deltas : Tally(data, i, x, k) = Tally(data, i, x, k - 1) + (IF y = x THEN 1 ELSE 0)
  BY <1>1, TallyNext
<1>4. k' - 1 = k /\ k' \in 1 .. Len(data) + 1
  BY <1>1
<1>5. cal_count \in [Deltas -> Nat]
  BY <1>1, <1>2 DEF Histogram
<1>6. cal_count' = [x \in Deltas |-> IF x < max_delta THEN Tally(data, i, x, k) ELSE 0]
  <2>1. \A x \in Deltas : cal_count[x] = IF x < max_delta THEN Tally(data, i, x, k - 1) ELSE 0
    BY DEF Histogram
  <2>2. cal_count' \in [Deltas -> Nat]
    <3>1. cal_count' = cal_count \/ cal_count' = [cal_count EXCEPT ![y] = @ + 1]
      OBVIOUS
    <3>2. y \in Deltas /\ cal_count[y] + 1 \in Nat
      BY <1>1, <1>5
    <3> HIDE DEF y
    <3>3. [cal_count EXCEPT ![y] = @ + 1] \in [Deltas -> Nat]
      BY <3>2, <1>5
    <3> QED BY <3>1, <3>3, <1>5
  <2>3. \A x \in Deltas : cal_count'[x] = cal_count[x] + (IF x = y /\ y < max_delta THEN 1 ELSE 0)
    <3>1. CASE y < max_delta
      <4>1. cal_count' = [cal_count EXCEPT ![y] = @ + 1]
        BY <3>1
      <4> HIDE DEF y
      <4> QED BY <3>1, <4>1, <1>1, <1>5
    <3>2. CASE ~(y < max_delta)
      <4>1. cal_count' = cal_count
        BY <3>2
      <4> HIDE DEF y
      <4> QED BY <3>2, <4>1, <1>1, <1>5
    <3> QED BY <3>1, <3>2
  <2>4. \A x \in Deltas : cal_count'[x] = IF x < max_delta THEN Tally(data, i, x, k) ELSE 0
    <3> HIDE DEF y
    <3> QED BY <1>1, <1>2, <1>3, <2>1, <2>3
  <2> QED BY <2>2, <2>4
<1>7. Histogram(i)'
  BY <1>4, <1>6 DEF Histogram
<1> QED BY <1>1, <1>4, <1>5, <1>7

\* At the beginning of either loop nothing was counted.
LEMMA HistogramNone ==
  ASSUME k = 1, cal_count = Bm!NoCount(Deltas), NEW i
  PROVE  Histogram(i)
<1>1. \A x \in Deltas : Tally(data, i, x, 0) = 0
  BY TallyNone
<1> QED BY <1>1 DEF Histogram, Bm!NoCount

LEMMA DeltaStep == DeltaInv /\ (Bm!Next \/ UNCHANGED calVars) => DeltaInv'
<1> SUFFICES ASSUME DeltaInv, Bm!Next \/ UNCHANGED calVars PROVE DeltaInv'
  OBVIOUS
<1> USE DEF Bm!deltaVars, Bm!nowVars, Bm!cycleVars
<1>1. Deltas \subseteq Nat /\ max_delta \in Nat /\ min_count1 \in Nat \ {0} /\ min_count2 \in Nat \ {0}
  BY CalibrationAssumption
\* The steps outside the two loops.
<1>2. ASSUME UNCHANGED Bm!deltaVars, {cal_at, cal_at'} \cap {"histogram1", "histogram2", "accepted"} = {}
      PROVE  DeltaInv'
  BY <1>2 DEF DeltaInv
<1>3. CASE Bm!begin
  <2>1. cal_at = "begin" /\ cal_at' \in {"now_offset", "delta", "cycles_per_ns", "end"}
    BY <1>3 DEF Bm!begin
  <2> QED BY <1>2, <1>3, <2>1 DEF Bm!begin
<1>4. ASSUME NEW nsi \in Nsi, Bm!measure_now(nsi) PROVE DeltaInv'
  <2>1. cal_at = "now_offset" /\ cal_at' \in {"now_offset", "begin"}
    BY <1>4 DEF Bm!measure_now, Bm!finished
  <2> QED BY <1>2, <1>4, <2>1 DEF Bm!measure_now
<1>5. ASSUME NEW delta1 \in Deltas, NEW delta2 \in Deltas, Bm!measure_delta(delta1, delta2) PROVE DeltaInv'
  <2>1. /\ cal_at = "delta" /\ cal_at' \in {"histogram1", "delta"}
        /\ data' = Append(data, <<delta1, delta2>>)
        /\ UNCHANGED <<k, cal_count, max_count, best_delta1, best_delta2, m_delta>>
    BY <1>5 DEF Bm!measure_delta
  <2>2. data' \in Seq(Points) /\ Len(data') \in Nat
    BY <2>1 DEF DeltaInv, Points
  <2>3. k = 1 /\ k' = 1 /\ cal_count' = Bm!NoCount(Deltas) /\ max_count' = 0
    BY <2>1 DEF DeltaInv
  <2>4. Histogram(1)'
    <3>1. \A x \in Deltas : Tally(data', 1, x, 0) = 0
      BY TallyNone
    <3> QED BY <2>3, <3>1 DEF Histogram, Bm!NoCount
  <2>5. Most1'
    BY <2>3 DEF Most1, Bm!NoCount
  <2> QED BY <2>1, <2>2, <2>3, <2>4, <2>5 DEF DeltaInv
<1>6. CASE Bm!histogram1
  <2> DEFINE x == data[k][1]
  <2>1. /\ cal_at = "histogram1" /\ cal_at' = cal_at /\ k <= Len(data) /\ k' = k + 1 /\ data' = data
        /\ cal_count' = IF x < max_delta THEN [cal_count EXCEPT ![x] = @ + 1] ELSE cal_count
        /\ IF x < max_delta /\ cal_count'[x] > max_count
             THEN max_count' = cal_count'[x] /\ best_delta1' = x
             ELSE UNCHANGED <<max_count, best_delta1>>
    BY <1>6 DEF Bm!histogram1
  <2>2. Histogram(1) /\ k \in 1 .. Len(data) /\ Most1 /\ max_count \in Nat
    BY <2>1 DEF DeltaInv
  <2>3. x \in Deltas /\ k' \in 1 .. Len(data) + 1 /\ Histogram(1)' /\ cal_count \in [Deltas -> Nat]
    BY <2>1, <2>2, HistogramStep
  <2> HIDE DEF x
  <2>4. CASE x < max_delta
    <3>1. /\ cal_count'[x] = cal_count[x] + 1
          /\ \A y \in Deltas : y # x => cal_count'[y] = cal_count[y]
      BY <2>1, <2>3, <2>4
    <3>2. Most1' /\ max_count' \in Nat
      BY <3>1, <2>1, <2>2, <2>3, <2>4 DEF Most1
    <3> QED BY <3>2, <2>1, <2>3 DEF DeltaInv
  <2>5. CASE ~(x < max_delta)
    BY <2>1, <2>2, <2>3, <2>5 DEF DeltaInv, Most1
  <2> QED BY <2>4, <2>5
<1>7. ASSUME Bm!retry, k' = 1 /\ cal_count' = Bm!NoCount(Deltas) /\ max_count' = 0 PROVE DeltaInv'
  BY <1>7 DEF Bm!retry, DeltaInv
<1>8. CASE Bm!check1
  <2>1. cal_at = "histogram1" /\ k = Len(data) + 1 /\ k' = 1 /\ cal_count' = Bm!NoCount(Deltas) /\ max_count' = 0
    BY <1>8 DEF Bm!check1
  <2>2. CASE max_count < min_count1
    BY <1>7, <1>8, <2>1, <2>2 DEF Bm!check1
  <2>3. CASE ~(max_count < min_count1)
    <3>1. cal_at' = "histogram2" /\ UNCHANGED <<data, best_delta1, m_delta>>
      BY <1>8, <2>3 DEF Bm!check1
    <3>2. Histogram(1) /\ Most1 /\ max_count \in Nat /\ Len(data) \in Nat /\ data \in Seq(Points)
      BY <2>1 DEF DeltaInv
    <3>3. \A x \in Deltas : x < max_delta => cal_count[x] = Tally(data, 1, x, Len(data))
      <4>1. k - 1 = Len(data)
        BY <2>1, <3>2
      <4> QED BY <3>2, <4>1 DEF Histogram
    <3>4. MostFrequent1(best_delta1)
      <4>1. max_count > 0 /\ max_count >= min_count1
        BY <1>1, <2>3, <3>2
      <4>2. /\ best_delta1 \in Deltas /\ best_delta1 < max_delta /\ max_count = Tally(data, 1, best_delta1, Len(data))
            /\ \A x \in Deltas : x < max_delta => Tally(data, 1, x, Len(data)) <= max_count
        BY <3>2, <3>3, <4>1 DEF Most1
      <4> QED BY <4>1, <4>2 DEF MostFrequent1, Frequent
    <3>5. MostFrequent1(best_delta1)'
      BY <3>1, <3>4 DEF MostFrequent1, Frequent
    <3>6. Histogram(2)'
      <4>1. \A x \in Deltas : Tally(data', 2, x, 0) = 0
        BY TallyNone
      <4> QED BY <2>1, <4>1 DEF Histogram, Bm!NoCount
    <3>7. Many2'
      BY <2>1 DEF Many2
    <3> QED BY <2>1, <3>1, <3>2, <3>5, <3>6, <3>7 DEF DeltaInv
  <2> QED BY <2>2, <2>3
<1>9. CASE Bm!histogram2
  <2> DEFINE y == data[k][2]
  <2>1. /\ cal_at = "histogram2" /\ cal_at' = cal_at /\ k <= Len(data) /\ k' = k + 1 /\ data' = data
        /\ cal_count' = IF y < max_delta THEN [cal_count EXCEPT ![y] = @ + 1] ELSE cal_count
        /\ \/ y < max_delta /\ max_count' = cal_count'[y] /\ best_delta2' = y
           \/ UNCHANGED <<max_count, best_delta2>>
        /\ UNCHANGED best_delta1
    BY <1>9 DEF Bm!histogram2
  <2>2. Histogram(2) /\ k \in 1 .. Len(data) /\ Many2 /\ max_count \in Nat /\ MostFrequent1(best_delta1)
    BY <2>1 DEF DeltaInv
  <2>3. y \in Deltas /\ k' \in 1 .. Len(data) + 1 /\ Histogram(2)' /\ cal_count \in [Deltas -> Nat]
    BY <2>1, <2>2, HistogramStep
  <2>4. MostFrequent1(best_delta1)'
    BY <2>1, <2>2 DEF MostFrequent1, Frequent
  <2> HIDE DEF y
  <2>5. /\ \A x \in Deltas : cal_count'[x] \in Nat /\ cal_count[x] \in Nat /\ cal_count[x] <= cal_count'[x]
        /\ y < max_delta => cal_count'[y] > 0
    <3>1. CASE y < max_delta
      <4>1. cal_count' = [cal_count EXCEPT ![y] = @ + 1]
        BY <2>1, <3>1
      <4> QED BY <4>1, <2>3
    <3>2. CASE ~(y < max_delta)
      BY <2>1, <2>3, <3>2
    <3> QED BY <3>1, <3>2
  <2>6. Many2' /\ max_count' \in Nat
    <3>1. CASE y < max_delta /\ max_count' = cal_count'[y] /\ best_delta2' = y
      BY <3>1, <2>3, <2>5 DEF Many2
    <3>2. CASE UNCHANGED <<max_count, best_delta2>>
      BY <3>2, <2>2, <2>5 DEF Many2
    <3> QED BY <2>1, <3>1, <3>2
  <2> QED BY <2>1, <2>3, <2>4, <2>6 DEF DeltaInv
<1>10. CASE Bm!check2
  <2>1. cal_at = "histogram2" /\ k = Len(data) + 1 /\ k' = 1 /\ cal_count' = Bm!NoCount(Deltas) /\ max_count' = 0
    BY <1>10 DEF Bm!check2
  <2>2. CASE max_count < min_count2 \/ best_delta2 # best_delta1
    BY <1>7, <1>10, <2>1, <2>2 DEF Bm!check2
  <2>3. CASE ~(max_count < min_count2 \/ best_delta2 # best_delta1)
    <3>1. cal_at' = "accepted" /\ m_delta' = best_delta1 /\ data' = data
      BY <1>10, <2>3 DEF Bm!check2
    <3>2. Histogram(2) /\ Many2 /\ max_count \in Nat /\ Len(data) \in Nat /\ data \in Seq(Points) /\ MostFrequent1(best_delta1)
      BY <2>1 DEF DeltaInv
    <3>3. \A x \in Deltas : x < max_delta => cal_count[x] = Tally(data, 2, x, Len(data))
      <4>1. k - 1 = Len(data)
        BY <2>1, <3>2
      <4> QED BY <3>2, <4>1 DEF Histogram
    <3>4. Tally(data, 2, best_delta2, Len(data)) \in Nat
      BY <3>2, TallyType
    <3>5. Frequent(2, best_delta2, min_count2)
      <4>1. max_count > 0 /\ max_count >= min_count2
        BY <1>1, <2>3, <3>2
      <4>2. best_delta2 \in Deltas /\ best_delta2 < max_delta /\ max_count <= Tally(data, 2, best_delta2, Len(data))
        BY <3>2, <3>3, <4>1 DEF Many2
      <4>3. Tally(data, 2, best_delta2, Len(data)) >= min_count2
        BY <1>1, <3>2, <3>4, <4>1, <4>2
      <4> QED BY <4>2, <4>3 DEF Frequent
    <3>6. MostFrequent1(m_delta)' /\ Frequent(2, m_delta, min_count2)'
      BY <2>3, <3>1, <3>2, <3>5 DEF MostFrequent1, Frequent
    <3> QED BY <2>1, <3>1, <3>2, <3>6 DEF DeltaInv
  <2> QED BY <2>2, <2>3
<1>11. CASE Bm!accepted
  BY <1>11 DEF Bm!accepted, Bm!finished, DeltaInv
<1>12. ASSUME NEW delta \in Deltas \X Deltas, Bm!use_sample(delta) \/ Bm!count_sample(delta) PROVE DeltaInv'
  <2>1. cal_at = "cycles_per_ns" /\ cal_at' \in {"cycles_per_ns", "enough", "crashed"}
    BY <1>12 DEF Bm!use_sample, Bm!count_sample
  <2> QED BY <1>2, <1>12, <2>1 DEF Bm!use_sample, Bm!count_sample
<1>13. CASE Bm!cycles_done
  BY <1>2, <1>13 DEF Bm!cycles_done, Bm!finished
<1>14. CASE UNCHANGED calVars
  BY <1>14 DEF calVars, DeltaInv, Histogram, Most1, Many2, MostFrequent1, Frequent
<1> QED BY <1>3, <1>4, <1>5, <1>6, <1>8, <1>9, <1>10, <1>11, <1>12, <1>13, <1>14
        DEF Bm!Next, Bm!Terminated, Bm!calVars, calVars

\* The delta that calibrate_delta() accepts was the most frequent value of the first column and frequent
\* in the second, for any data, limits and numbers of points, and whatever lies behind the vector.
THEOREM AcceptedIsFrequent == SequentialPrograms => []DeltaIsFrequent
<1>1. Start => DeltaInv
  BY DEF Start, Bm!Init, DeltaInv, Points
<1>2. DeltaInv /\ [Step]_allVars => DeltaInv'
  BY ProgramStep, DeltaStep
<1>3. DeltaInv => DeltaIsFrequent
  BY SameCardinality
     DEF DeltaInv, DeltaIsFrequent, Bm!DeltaIsFrequent, Bm!Count, MostFrequent1, Frequent, Tally, Seen
<1> QED BY <1>1, <1>2, <1>3, PTL DEF SequentialPrograms

-----------------------------------------------------------------------------
(* benchmark, calibrate_cycles_per_ns().                                     *)

\* A target is a value that was counted often enough, unless it does not fit in an int and was taken for
\* a small one.
Earned(i, target) ==
  target \in Deltas /\ (delta_count[i][target] >= target_count \/ target > Bm!AsInt(target))

\* A target is earned, and once a measurement was used there are two targets, which it is near.
SamplesInv ==
  /\ m_delta \in Nat
  /\ delta_count \in [{1, 2} -> [Deltas -> Nat]]
  /\ target_delta \in [{1, 2} -> Nat]
  /\ \A i \in {1, 2} : target_delta[i] # 0 => Earned(i, target_delta[i])
  /\ \A s \in samples : \A i \in {1, 2} :
       target_delta[i] # 0 /\ Bm!Distance(s[2][i], target_delta[i]) <= 1

\* In unsigned arithmetic no delta is near a target of 0.
LEMMA NearTarget ==
  ASSUME NEW target \in Nat, target = 0 \/ target \in Deltas, NEW delta \in Deltas, Bm!near(target, delta)
  PROVE  target # 0 /\ Bm!Distance(delta, target) <= 1
<1> DEFINE B == 2^w64
<1>1. B \in Nat /\ B > 2 /\ \A x \in Deltas : x \in 0 .. B - 1
  BY CalibrationAssumption
<1>2. (target + B - 1) % B <= delta /\ delta <= target + 1
  BY DEF Bm!near
<1> HIDE DEF B
<1>3. \A r \in 0 .. B - 1 : r % B = r /\ (r + B) % B = r
  BY <1>1
<1>4. target # 0
  <2>1. ASSUME target = 0 PROVE FALSE
    <3>1. (target + B - 1) % B = B - 1
      BY <1>1, <1>3, <2>1
    <3> QED BY <1>1, <1>2, <2>1, <3>1
  <2> QED BY <2>1
<1>5. target - 1 \in 0 .. B - 1 /\ target + B - 1 = (target - 1) + B
  BY <1>1, <1>4
<1>6. (target + B - 1) % B = target - 1
  BY <1>3, <1>5
<1>7. delta \in Nat /\ target - 1 <= delta /\ delta <= target + 1
  BY <1>1, <1>2, <1>6
<1> QED BY <1>4, <1>7 DEF Bm!Distance

LEMMA DeltasAreNumbers == Deltas \subseteq Nat
<1> DEFINE B == 2^w64
<1>1. B \in Nat /\ Deltas \subseteq 0 .. B - 1
  BY CalibrationAssumption
<1> HIDE DEF B
<1> QED BY <1>1

LEMMA GivenDelta == Start => m_delta \in Nat
<1> SUFFICES ASSUME Start PROVE m_delta \in Nat
  OBVIOUS
<1>1. m_delta = 0 \/ m_delta \in Deltas
  BY DEF Start, Bm!Init
<1>2. m_delta \in Deltas => m_delta \in Nat
  BY DeltasAreNumbers
<1>3. m_delta = 0 => m_delta \in Nat
  OBVIOUS
<1> QED BY <1>1, <1>2, <1>3

\* A delta that passes the test although the vector does not have it does not fit in an int.
LEMMA WildIsWide ==
  ASSUME m_delta \in Nat, NEW y \in Deltas, Bm!wild(y)
  PROVE  y > Bm!AsInt(y)
<1> DEFINE M == 2^w32
           low == y % M
<1>1. M \in Nat \ {0} /\ y \in Nat
  BY CalibrationAssumption
<1>2. low \in Int
  <2> HIDE DEF M
  <2> QED BY <1>1
<1>3. Bm!AsInt(y) \in Int
  <2>1. Bm!AsInt(y) = low \/ Bm!AsInt(y) = low - M
    BY DEF Bm!AsInt
  <2> HIDE DEF low, M
  <2> QED BY <1>1, <1>2, <2>1
<1>4. Bm!AsInt(y) < 2 * m_delta /\ ~(y < 2 * m_delta)
  BY DEF Bm!wild, Bm!small, Bm!in_vector
<1> QED BY <1>1, <1>3, <1>4

\* One column of count_sample: a target that is set was counted often enough or does not fit in an int.
LEMMA CountedTarget ==
  ASSUME SamplesInv, NEW i \in {1, 2}, NEW y \in Deltas, NEW target \in Bm!new_targets(i, y)
  PROVE  /\ Bm!counted(i, y) \in [Deltas -> Nat]
         /\ target \in Nat
         /\ target # 0 => target \in Deltas
         /\ target # 0 => Bm!counted(i, y)[target] >= target_count \/ target > Bm!AsInt(target)
<1> DEFINE cnt == delta_count[i]
           inside == Bm!small(y) /\ Bm!in_vector(y)
           new == Bm!counted(i, y)
<1>1. /\ cnt \in [Deltas -> Nat] /\ target_delta[i] \in Nat
      /\ target_delta[i] # 0 => /\ target_delta[i] \in Deltas
                                /\ cnt[target_delta[i]] >= target_count \/ target_delta[i] > Bm!AsInt(target_delta[i])
  BY DEF SamplesInv, Earned
<1>2. Deltas \subseteq Nat /\ target_count \in Nat
  BY CalibrationAssumption
<1>3. new = IF inside /\ cnt[y] < target_count THEN [cnt EXCEPT ![y] = @ + 1] ELSE cnt
  BY DEF Bm!counted
<1>4. \/ target = target_delta[i] /\ ~(inside /\ cnt[y] + 1 = target_count)
      \/ target = y /\ inside /\ cnt[y] + 1 = target_count
      \/ target = y /\ ~inside /\ Bm!wild(y)
  BY DEF Bm!new_targets, Bm!wild
<1> HIDE DEF cnt, inside, new
<1>5. cnt[y] \in Nat /\ cnt[y] + 1 \in Nat
  BY <1>1
<1>6. /\ new \in [Deltas -> Nat]
      /\ inside /\ cnt[y] < target_count => new[y] = cnt[y] + 1
      /\ \A x \in Deltas : cnt[x] >= target_count => new[x] >= target_count
  <2>1. CASE inside /\ cnt[y] < target_count
    <3>1. new = [cnt EXCEPT ![y] = @ + 1]
      BY <1>3, <2>1
    <3>2. new \in [Deltas -> Nat] /\ new[y] = cnt[y] + 1 /\ \A x \in Deltas : x # y => new[x] = cnt[x]
      BY <1>1, <1>5, <3>1
    <3>3. \A x \in Deltas : cnt[x] >= target_count => x # y
      BY <1>2, <1>5, <2>1
    <3> QED BY <3>2, <3>3
  <2>2. CASE ~(inside /\ cnt[y] < target_count)
    BY <1>1, <1>3, <2>2
  <2> QED BY <2>1, <2>2
<1>7. CASE target = target_delta[i]
  BY <1>1, <1>6, <1>7 DEF new
<1>8. CASE target = y /\ inside /\ cnt[y] + 1 = target_count
  <2>1. new[y] = target_count
    BY <1>2, <1>5, <1>6, <1>8
  <2> QED BY <1>2, <1>6, <1>8, <2>1 DEF new
<1>9. CASE target = y /\ Bm!wild(y)
  <2>1. y > Bm!AsInt(y)
    BY <1>9, WildIsWide DEF SamplesInv
  <2> QED BY <1>2, <1>6, <1>9, <2>1 DEF new
<1> QED BY <1>4, <1>7, <1>8, <1>9

LEMMA SamplesStep == DeltaInv /\ SamplesInv /\ (Bm!Next \/ UNCHANGED calVars) => SamplesInv'
<1> SUFFICES ASSUME DeltaInv, SamplesInv, Bm!Next \/ UNCHANGED calVars PROVE SamplesInv'
  OBVIOUS
<1>1. CASE UNCHANGED Bm!cycleVars /\ m_delta' \in Nat
  BY <1>1 DEF SamplesInv, Earned, Bm!cycleVars
<1>2. ASSUME NEW delta \in Deltas \X Deltas, Bm!use_sample(delta) PROVE SamplesInv'
  <2>1. UNCHANGED <<target_delta, delta_count, m_delta>>
    BY <1>2 DEF Bm!use_sample
  <2>2. PICK n : samples' = samples \cup {<<n, delta>>}
    BY <1>2 DEF Bm!use_sample
  <2>3. \A i \in {1, 2} : delta[i] \in Deltas /\ Bm!near(target_delta[i], delta[i])
    BY <1>2 DEF Bm!use_sample
  <2>4. \A i \in {1, 2} : target_delta[i] # 0 /\ Bm!Distance(delta[i], target_delta[i]) <= 1
    BY <2>3, NearTarget DEF SamplesInv, Earned
  <2>5. \A s \in samples' : s \in samples \/ s[2] = delta
    BY <2>2
  <2> QED BY <2>1, <2>4, <2>5 DEF SamplesInv, Earned
<1>3. ASSUME NEW delta \in Deltas \X Deltas, Bm!count_sample(delta) PROVE SamplesInv'
  <2>1. samples' = {} /\ m_delta' = m_delta
    BY <1>3 DEF Bm!count_sample, SamplesInv
  <2>2. /\ delta_count' = <<Bm!counted(1, delta[1]), Bm!counted(2, delta[2])>>
        /\ target_delta' \in Bm!new_targets(1, delta[1]) \X Bm!new_targets(2, delta[2])
        /\ delta[1] \in Deltas /\ delta[2] \in Deltas
    BY <1>3 DEF Bm!count_sample
  <2>3. \A i \in {1, 2} : delta_count'[i] = Bm!counted(i, delta[i]) /\ target_delta'[i] \in Bm!new_targets(i, delta[i])
    BY <2>2
  <2>4. \A i \in {1, 2} :
          /\ delta_count'[i] \in [Deltas -> Nat]
          /\ target_delta'[i] \in Nat
          /\ target_delta'[i] # 0 =>
               /\ target_delta'[i] \in Deltas
               /\ delta_count'[i][target_delta'[i]] >= target_count \/ target_delta'[i] > Bm!AsInt(target_delta'[i])
    BY <2>2, <2>3, CountedTarget
  <2>5. delta_count' \in [{1, 2} -> [Deltas -> Nat]] /\ target_delta' \in [{1, 2} -> Nat]
    BY <2>2, <2>4
  <2> QED BY <2>1, <2>4, <2>5 DEF SamplesInv, Earned, Bm!AsInt
<1>4. CASE Bm!cycles_done
  BY <1>4 DEF Bm!cycles_done, SamplesInv, Earned, Bm!NoCount
<1>5. CASE Bm!Next
  <2> USE DEF Bm!deltaVars, Bm!nowVars
  <2>1. Bm!begin \/ Bm!histogram1 \/ Bm!histogram2 \/ Bm!accepted => UNCHANGED <<Bm!cycleVars, m_delta>>
    BY DEF Bm!begin, Bm!histogram1, Bm!histogram2, Bm!accepted
  <2>2. Bm!check1 \/ Bm!Terminated => UNCHANGED <<Bm!cycleVars, m_delta>>
    BY DEF Bm!check1, Bm!retry, Bm!Terminated, Bm!calVars, Bm!cycleVars
  <2>3. Bm!check2 => UNCHANGED Bm!cycleVars /\ m_delta' \in {m_delta, best_delta1} /\ cal_at = "histogram2"
    BY DEF Bm!check2, Bm!retry
  <2>4. cal_at = "histogram2" => best_delta1 \in Nat
    BY DeltasAreNumbers DEF DeltaInv, MostFrequent1, Frequent
  <2>5. \A nsi \in Nsi : Bm!measure_now(nsi) => UNCHANGED <<Bm!cycleVars, m_delta>>
    BY DEF Bm!measure_now
  <2>6. \A delta1, delta2 \in Deltas : Bm!measure_delta(delta1, delta2) => UNCHANGED <<Bm!cycleVars, m_delta>>
    BY DEF Bm!measure_delta
  <2>7. UNCHANGED <<Bm!cycleVars, m_delta>> => SamplesInv'
    BY <1>1 DEF SamplesInv
  <2>8. Bm!check2 => SamplesInv'
    BY <1>1, <2>3, <2>4 DEF SamplesInv
  <2> QED BY <1>2, <1>3, <1>4, <1>5, <2>1, <2>2, <2>5, <2>6, <2>7, <2>8 DEF Bm!Next
<1>6. CASE UNCHANGED calVars
  BY <1>1, <1>6 DEF calVars, Bm!cycleVars, SamplesInv
<1> QED BY <1>5, <1>6

\* All measurements that calibrate_cycles_per_ns() averages are near one pair of targets, each of which was
\* measured target_count times or does not fit in an int, for any widths of int and uint64_t, any
\* deltas, any number of samples and whatever lies outside of the vectors.
THEOREM AveragedSamplesAgree == SequentialPrograms => []SamplesAgree
<1>1. Start => DeltaInv /\ SamplesInv
  BY GivenDelta DEF Start, Bm!Init, DeltaInv, Points, SamplesInv, Earned, Bm!NoCount
<1>2. DeltaInv /\ SamplesInv /\ [Step]_allVars => (DeltaInv /\ SamplesInv)'
  BY ProgramStep, DeltaStep, SamplesStep
<1>3. SamplesInv => SamplesAgree
  BY DEF SamplesInv, Earned, SamplesAgree, Bm!SamplesAgree
<1> QED BY <1>1, <1>2, <1>3, PTL DEF SequentialPrograms

-----------------------------------------------------------------------------
(* tsc_kmod: the loops                                                       *)

LEMMA LeastNumber ==
  ASSUME NEW T \in SUBSET Nat, T # {}
  PROVE  \E x \in T : \A y \in T : x <= y
<1> DEFINE U == {0 .. x : x \in T}
<1>1. U # {} /\ U \subseteq FiniteSubsetsOf(Nat)
  <2>1. \A x \in T : 0 .. x \in SUBSET Nat /\ IsFiniteSet(0 .. x)
    BY FS_Interval
  <2> QED BY <2>1 DEF FiniteSubsetsOf
<1>2. PICK X \in U : \A Y \in U : ~ (<<Y, X>> \in StrictSubsetOrdering(Nat))
  <2> HIDE DEF U
  <2> QED BY <1>1, FS_StrictSubsetOrderingWellFounded, WFMin
<1>3. PICK x \in T : X = 0 .. x
  BY <1>2
<1>4. ASSUME NEW y \in T, y < x PROVE FALSE
  <2>1. 0 .. y \in U /\ 0 .. y \subseteq 0 .. x /\ x \in 0 .. x /\ x \notin 0 .. y
    BY <1>3, <1>4
  <2>2. <<0 .. y, 0 .. x>> \in StrictSubsetOrdering(Nat)
    <3>1. 0 .. y \in SUBSET Nat /\ 0 .. x \in SUBSET Nat /\ 0 .. y # 0 .. x
      BY <1>3, <2>1
    <3> QED BY <2>1, <3>1 DEF StrictSubsetOrdering
  <2> QED BY <1>2, <1>3, <2>1, <2>2
<1> QED BY <1>3, <1>4

\* Induction for a set of numbers up to n.
LEMMA UpTo ==
  ASSUME NEW n \in Nat, NEW S, 0 \in S, \A i \in 1 .. n : i - 1 \in S => i \in S
  PROVE  \A i \in 0 .. n : i \in S
<1> DEFINE T == {i \in 0 .. n : i \notin S}
<1>1. SUFFICES ASSUME T # {} PROVE FALSE
  OBVIOUS
<1>2. T \in SUBSET Nat
  OBVIOUS
<1>3. PICK x \in T : \A y \in T : x <= y
  <2> HIDE DEF T
  <2> QED BY <1>1, <1>2, LeastNumber
<1>4. x \in 1 .. n /\ x \notin S
  BY <1>3
<1>5. x - 1 \in 0 .. n /\ ~(x <= x - 1)
  BY <1>4
<1>6. x - 1 \notin T
  <2> HIDE DEF T
  <2> QED BY <1>3, <1>5
<1> QED BY <1>4, <1>5, <1>6

\* A loop whose turn i makes F[<<i, x>>] of x has a value after each turn.
Loop(g, F, n) == g = [i \in 0 .. n |-> IF i = 0 THEN 0 ELSE F[<<i, g[i - 1]>>]]

LEMMA LoopExists ==
  ASSUME NEW n \in Nat, NEW F
  PROVE  \E g : Loop(g, F, n)
<1> DEFINE S == {m \in 0 .. n : \E g : Loop(g, F, m)}
<1>1. 0 \in S
  <2>1. Loop([i \in 0 .. 0 |-> 0], F, 0)
    BY DEF Loop
  <2> QED BY <2>1
<1>2. ASSUME NEW x \in 1 .. n, x - 1 \in S PROVE x \in S
  <2>1. PICK g : Loop(g, F, x - 1)
    BY <1>2
  <2> DEFINE h == [i \in 0 .. x |-> IF i = 0 THEN 0 ELSE F[<<i, g[i - 1]>>]]
  <2>2. \A i \in 0 .. x - 1 : h[i] = g[i]
    BY <2>1 DEF Loop
  <2>3. \A i \in 0 .. x : i # 0 => i - 1 \in 0 .. x - 1
    BY <1>2
  <2>4. \A i \in 0 .. x : h[i] = IF i = 0 THEN 0 ELSE F[<<i, h[i - 1]>>]
    BY <2>2, <2>3
  <2>5. Loop(h, F, x)
    BY <2>4 DEF Loop
  <2> QED BY <1>2, <2>5
<1>3. \A i \in 0 .. n : i \in S
  <2> HIDE DEF S
  <2> QED BY <1>1, <1>2, UpTo
<1>4. n \in S
  <2> HIDE DEF S
  <2> QED BY <1>3
<1> QED BY <1>4

\* Its values are numbers if those that it makes are.
LEMMA LoopType ==
  ASSUME NEW n \in Nat, NEW F \in [(1 .. n) \X Nat -> Nat], NEW g, Loop(g, F, n)
  PROVE  g \in [0 .. n -> Nat]
<1> DEFINE S == {m \in 0 .. n : g[m] \in Nat}
<1>1. \A i \in 0 .. n : g[i] = IF i = 0 THEN 0 ELSE F[<<i, g[i - 1]>>]
  BY DEF Loop
<1>2. 0 \in S
  <2>1. 0 \in 0 .. n
    OBVIOUS
  <2>2. g[0] = 0
    BY <2>1, <1>1
  <2> QED BY <2>1, <2>2
<1>3. ASSUME NEW x \in 1 .. n, x - 1 \in S PROVE x \in S
  <2>1. <<x, g[x - 1]>> \in (1 .. n) \X Nat /\ x \in 0 .. n /\ x # 0
    BY <1>3
  <2>2. F[<<x, g[x - 1]>>] \in Nat
    BY <2>1
  <2> QED BY <1>1, <2>1, <2>2
<1>4. \A i \in 0 .. n : i \in S
  <2> HIDE DEF S
  <2> QED BY <1>2, <1>3, UpTo
<1>5. \A i \in 0 .. n : g[i] \in Nat
  BY <1>4
<1>6. g = [i \in 0 .. n |-> g[i]]
  BY DEF Loop
<1> QED BY <1>5, <1>6

Row(s, n) == n \in Nat /\ s \in [1 .. n -> Nat]

LEMMA RowLength ==
  ASSUME NEW s, NEW n, Row(s, n)
  PROVE  n \in Nat /\ s \in Seq(Nat) /\ Len(s) = n /\ Kmod!squares(s) = [i \in 1 .. n |-> s[i] * s[i]]
         /\ Row(Kmod!squares(s), n)
<1>1. s \in Seq(Nat) /\ Len(s) = n
  BY DEF Row
<1>2. Kmod!squares(s) = [i \in 1 .. n |-> s[i] * s[i]]
  BY <1>1 DEF Kmod!squares
<1>3. \A i \in 1 .. n : s[i] \in Nat
  BY DEF Row
<1>4. \A x \in Nat : x * x \in Nat
  OBVIOUS
<1>5. [i \in 1 .. n |-> s[i] * s[i]] \in [1 .. n -> Nat]
  BY <1>3, <1>4
<1> QED BY <1>1, <1>2, <1>5 DEF Row

WordLoop(g, s, n) == g = [i \in 0 .. n |-> IF i = 0 THEN 0 ELSE (g[i - 1] + s[i]) % 2^width]

\* The variables of the loops after each turn, and what is left of them.
LEMMA SumsAre ==
  ASSUME NEW s, NEW n, Row(s, n)
  PROVE  \E g \in [0 .. n -> Nat] :
            /\ g[0] = 0 /\ \A i \in 1 .. n : g[i] = (g[i - 1] + s[i]) % 2^width
            /\ Kmod!sums(s) = g
<1> DEFINE F == [q \in (1 .. n) \X Nat |-> (q[2] + s[q[1]]) % 2^width]
<1>1. n \in Nat /\ Len(s) = n /\ \A i \in 1 .. n : s[i] \in Nat
  BY RowLength DEF Row
<1>2. \A x, y \in Nat : (x + y) % 2^width \in Nat
  BY KmodAssumption
<1>3. F \in [(1 .. n) \X Nat -> Nat]
  <2>1. \A q \in (1 .. n) \X Nat : (q[2] + s[q[1]]) % 2^width \in Nat
    BY <1>1, <1>2
  <2> QED BY <2>1
<1>4. \E g : WordLoop(g, s, n)
  <2>1. PICK g : Loop(g, F, n)
    <3> HIDE DEF F
    <3> QED BY <1>1, LoopExists
  <2>2. g \in [0 .. n -> Nat]
    <3> HIDE DEF F
    <3> QED BY <1>1, <1>3, <2>1, LoopType
  <2>3. \A i \in 0 .. n : i # 0 => <<i, g[i - 1]>> \in (1 .. n) \X Nat
    BY <1>1, <2>2
  <2>4. \A i \in 0 .. n : i # 0 => F[<<i, g[i - 1]>>] = (g[i - 1] + s[i]) % 2^width
    BY <2>3
  <2>5. \A i \in 0 .. n : g[i] = IF i = 0 THEN 0 ELSE F[<<i, g[i - 1]>>]
    BY <2>1 DEF Loop
  <2>6. \A i \in 0 .. n : g[i] = IF i = 0 THEN 0 ELSE (g[i - 1] + s[i]) % 2^width
    <3> HIDE DEF F
    <3> QED BY <2>4, <2>5
  <2>7. WordLoop(g, s, n)
    BY <2>2, <2>6 DEF WordLoop
  <2> QED BY <2>7
<1> DEFINE g == CHOOSE h : WordLoop(h, s, n)
<1>5. WordLoop(g, s, n)
  BY <1>4
<1>6. Kmod!sums(s) = g
  BY <1>1 DEF Kmod!sums, Kmod!Word, WordLoop
<1> HIDE DEF g
<1>7. g[0] = 0 /\ \A i \in 1 .. n : g[i] = (g[i - 1] + s[i]) % 2^width
  BY <1>1, <1>5 DEF WordLoop
<1>8. g \in [0 .. n -> Nat]
  <2> DEFINE S == {m \in 0 .. n : g[m] \in Nat}
  <2>1. 0 \in S
    BY <1>1, <1>7
  <2>2. ASSUME NEW i \in 1 .. n, i - 1 \in S PROVE i \in S
    <3>1. g[i - 1] \in Nat /\ s[i] \in Nat /\ i \in 0 .. n
      BY <1>1, <2>2
    <3> QED BY <1>2, <1>7, <3>1
  <2>3. \A i \in 0 .. n : i \in S
    <3> HIDE DEF S
    <3> QED BY <1>1, <2>1, <2>2, UpTo
  <2>4. \A i \in 0 .. n : g[i] \in Nat
    BY <2>3
  <2> QED BY <1>5, <2>4 DEF WordLoop
<1> QED BY <1>6, <1>7, <1>8

SumLoop(g, s, n) == g = [i \in 0 .. n |-> IF i = 0 THEN 0 ELSE g[i - 1] + s[i]]

\* The sum in integers that have no width.
LEMMA SumIs ==
  ASSUME NEW s, NEW n, Row(s, n)
  PROVE  \E g \in [0 .. n -> Nat] :
            /\ g[0] = 0 /\ \A i \in 1 .. n : g[i] = g[i - 1] + s[i]
            /\ Kmod!SumOf(s) = g[n]
<1> DEFINE F == [q \in (1 .. n) \X Nat |-> q[2] + s[q[1]]]
<1>1. n \in Nat /\ Len(s) = n /\ \A i \in 1 .. n : s[i] \in Nat
  BY RowLength DEF Row
<1>2. \A x, y \in Nat : x + y \in Nat
  OBVIOUS
<1>3. F \in [(1 .. n) \X Nat -> Nat]
  <2>1. \A q \in (1 .. n) \X Nat : q[2] + s[q[1]] \in Nat
    BY <1>1, <1>2
  <2> QED BY <2>1
<1>4. \E g : SumLoop(g, s, n)
  <2>1. PICK g : Loop(g, F, n)
    <3> HIDE DEF F
    <3> QED BY <1>1, LoopExists
  <2>2. g \in [0 .. n -> Nat]
    <3> HIDE DEF F
    <3> QED BY <1>1, <1>3, <2>1, LoopType
  <2>3. \A i \in 0 .. n : i # 0 => <<i, g[i - 1]>> \in (1 .. n) \X Nat
    BY <1>1, <2>2
  <2>4. \A i \in 0 .. n : i # 0 => F[<<i, g[i - 1]>>] = g[i - 1] + s[i]
    BY <2>3
  <2>5. \A i \in 0 .. n : g[i] = IF i = 0 THEN 0 ELSE F[<<i, g[i - 1]>>]
    BY <2>1 DEF Loop
  <2>6. \A i \in 0 .. n : g[i] = IF i = 0 THEN 0 ELSE g[i - 1] + s[i]
    <3> HIDE DEF F
    <3> QED BY <2>4, <2>5
  <2>7. SumLoop(g, s, n)
    BY <2>2, <2>6 DEF SumLoop
  <2> QED BY <2>7
<1> DEFINE g == CHOOSE h : SumLoop(h, s, n)
<1>5. SumLoop(g, s, n)
  BY <1>4
<1>6. Kmod!SumOf(s) = g[n]
  BY <1>1 DEF Kmod!SumOf, SumLoop
<1> HIDE DEF g
<1>7. g[0] = 0 /\ \A i \in 1 .. n : g[i] = g[i - 1] + s[i]
  BY <1>1, <1>5 DEF SumLoop
<1>8. g \in [0 .. n -> Nat]
  <2> DEFINE S == {m \in 0 .. n : g[m] \in Nat}
  <2>1. 0 \in S
    BY <1>1, <1>7
  <2>2. ASSUME NEW i \in 1 .. n, i - 1 \in S PROVE i \in S
    <3>1. g[i - 1] \in Nat /\ s[i] \in Nat /\ i \in 0 .. n
      BY <1>1, <2>2
    <3> QED BY <1>2, <1>7, <3>1
  <2>3. \A i \in 0 .. n : i \in S
    <3> HIDE DEF S
    <3> QED BY <1>1, <2>1, <2>2, UpTo
  <2>4. \A i \in 0 .. n : g[i] \in Nat
    BY <2>3
  <2> QED BY <1>5, <2>4 DEF SumLoop
<1> QED BY <1>6, <1>7, <1>8

MinLoop(g, s, n) == g = [i \in 0 .. n |-> IF i = 0 THEN 0 ELSE (IF g[i - 1] = 0 \/ g[i - 1] > s[i] THEN s[i] ELSE g[i - 1])]

\* min_time.
LEMMA MinimumIs ==
  ASSUME NEW s, NEW n, Row(s, n)
  PROVE  \E g \in [0 .. n -> Nat] :
            /\ g[0] = 0 /\ \A i \in 1 .. n : g[i] = (IF g[i - 1] = 0 \/ g[i - 1] > s[i] THEN s[i] ELSE g[i - 1])
            /\ Kmod!min_time(s) = g[n]
<1> DEFINE F == [q \in (1 .. n) \X Nat |-> (IF q[2] = 0 \/ q[2] > s[q[1]] THEN s[q[1]] ELSE q[2])]
<1>1. n \in Nat /\ Len(s) = n /\ \A i \in 1 .. n : s[i] \in Nat
  BY RowLength DEF Row
<1>2. \A x, y \in Nat : (IF x = 0 \/ x > y THEN y ELSE x) \in Nat
  OBVIOUS
<1>3. F \in [(1 .. n) \X Nat -> Nat]
  <2>1. \A q \in (1 .. n) \X Nat : (IF q[2] = 0 \/ q[2] > s[q[1]] THEN s[q[1]] ELSE q[2]) \in Nat
    BY <1>1, <1>2
  <2> QED BY <2>1
<1>4. \E g : MinLoop(g, s, n)
  <2>1. PICK g : Loop(g, F, n)
    <3> HIDE DEF F
    <3> QED BY <1>1, LoopExists
  <2>2. g \in [0 .. n -> Nat]
    <3> HIDE DEF F
    <3> QED BY <1>1, <1>3, <2>1, LoopType
  <2>3. \A i \in 0 .. n : i # 0 => <<i, g[i - 1]>> \in (1 .. n) \X Nat
    BY <1>1, <2>2
  <2>4. \A i \in 0 .. n : i # 0 => F[<<i, g[i - 1]>>] = (IF g[i - 1] = 0 \/ g[i - 1] > s[i] THEN s[i] ELSE g[i - 1])
    BY <2>3
  <2>5. \A i \in 0 .. n : g[i] = IF i = 0 THEN 0 ELSE F[<<i, g[i - 1]>>]
    BY <2>1 DEF Loop
  <2>6. \A i \in 0 .. n : g[i] = IF i = 0 THEN 0 ELSE (IF g[i - 1] = 0 \/ g[i - 1] > s[i] THEN s[i] ELSE g[i - 1])
    <3> HIDE DEF F
    <3> QED BY <2>4, <2>5
  <2>7. MinLoop(g, s, n)
    BY <2>2, <2>6 DEF MinLoop
  <2> QED BY <2>7
<1> DEFINE g == CHOOSE h : MinLoop(h, s, n)
<1>5. MinLoop(g, s, n)
  BY <1>4
<1>6. Kmod!min_time(s) = g[n]
  BY <1>1 DEF Kmod!min_time, MinLoop
<1> HIDE DEF g
<1>7. g[0] = 0 /\ \A i \in 1 .. n : g[i] = (IF g[i - 1] = 0 \/ g[i - 1] > s[i] THEN s[i] ELSE g[i - 1])
  BY <1>1, <1>5 DEF MinLoop
<1>8. g \in [0 .. n -> Nat]
  <2> DEFINE S == {m \in 0 .. n : g[m] \in Nat}
  <2>1. 0 \in S
    BY <1>1, <1>7
  <2>2. ASSUME NEW i \in 1 .. n, i - 1 \in S PROVE i \in S
    <3>1. g[i - 1] \in Nat /\ s[i] \in Nat /\ i \in 0 .. n
      BY <1>1, <2>2
    <3> QED BY <1>2, <1>7, <3>1
  <2>3. \A i \in 0 .. n : i \in S
    <3> HIDE DEF S
    <3> QED BY <1>1, <2>1, <2>2, UpTo
  <2>4. \A i \in 0 .. n : g[i] \in Nat
    BY <2>3
  <2> QED BY <1>5, <2>4 DEF MinLoop
<1> QED BY <1>6, <1>7, <1>8

MaxLoop(g, s, n) == g = [i \in 0 .. n |-> IF i = 0 THEN 0 ELSE (IF g[i - 1] < s[i] THEN s[i] ELSE g[i - 1])]

\* max_time.
LEMMA MaximumIs ==
  ASSUME NEW s, NEW n, Row(s, n)
  PROVE  \E g \in [0 .. n -> Nat] :
            /\ g[0] = 0 /\ \A i \in 1 .. n : g[i] = (IF g[i - 1] < s[i] THEN s[i] ELSE g[i - 1])
            /\ Kmod!max_time(s) = g[n]
<1> DEFINE F == [q \in (1 .. n) \X Nat |-> (IF q[2] < s[q[1]] THEN s[q[1]] ELSE q[2])]
<1>1. n \in Nat /\ Len(s) = n /\ \A i \in 1 .. n : s[i] \in Nat
  BY RowLength DEF Row
<1>2. \A x, y \in Nat : (IF x < y THEN y ELSE x) \in Nat
  OBVIOUS
<1>3. F \in [(1 .. n) \X Nat -> Nat]
  <2>1. \A q \in (1 .. n) \X Nat : (IF q[2] < s[q[1]] THEN s[q[1]] ELSE q[2]) \in Nat
    BY <1>1, <1>2
  <2> QED BY <2>1
<1>4. \E g : MaxLoop(g, s, n)
  <2>1. PICK g : Loop(g, F, n)
    <3> HIDE DEF F
    <3> QED BY <1>1, LoopExists
  <2>2. g \in [0 .. n -> Nat]
    <3> HIDE DEF F
    <3> QED BY <1>1, <1>3, <2>1, LoopType
  <2>3. \A i \in 0 .. n : i # 0 => <<i, g[i - 1]>> \in (1 .. n) \X Nat
    BY <1>1, <2>2
  <2>4. \A i \in 0 .. n : i # 0 => F[<<i, g[i - 1]>>] = (IF g[i - 1] < s[i] THEN s[i] ELSE g[i - 1])
    BY <2>3
  <2>5. \A i \in 0 .. n : g[i] = IF i = 0 THEN 0 ELSE F[<<i, g[i - 1]>>]
    BY <2>1 DEF Loop
  <2>6. \A i \in 0 .. n : g[i] = IF i = 0 THEN 0 ELSE (IF g[i - 1] < s[i] THEN s[i] ELSE g[i - 1])
    <3> HIDE DEF F
    <3> QED BY <2>4, <2>5
  <2>7. MaxLoop(g, s, n)
    BY <2>2, <2>6 DEF MaxLoop
  <2> QED BY <2>7
<1> DEFINE g == CHOOSE h : MaxLoop(h, s, n)
<1>5. MaxLoop(g, s, n)
  BY <1>4
<1>6. Kmod!max_time(s) = g[n]
  BY <1>1 DEF Kmod!max_time, MaxLoop
<1> HIDE DEF g
<1>7. g[0] = 0 /\ \A i \in 1 .. n : g[i] = (IF g[i - 1] < s[i] THEN s[i] ELSE g[i - 1])
  BY <1>1, <1>5 DEF MaxLoop
<1>8. g \in [0 .. n -> Nat]
  <2> DEFINE S == {m \in 0 .. n : g[m] \in Nat}
  <2>1. 0 \in S
    BY <1>1, <1>7
  <2>2. ASSUME NEW i \in 1 .. n, i - 1 \in S PROVE i \in S
    <3>1. g[i - 1] \in Nat /\ s[i] \in Nat /\ i \in 0 .. n
      BY <1>1, <2>2
    <3> QED BY <1>2, <1>7, <3>1
  <2>3. \A i \in 0 .. n : i \in S
    <3> HIDE DEF S
    <3> QED BY <1>1, <2>1, <2>2, UpTo
  <2>4. \A i \in 0 .. n : g[i] \in Nat
    BY <2>3
  <2> QED BY <1>5, <2>4 DEF MaxLoop
<1> QED BY <1>6, <1>7, <1>8

LEMMA Rising ==
  ASSUME NEW n \in Nat, NEW g \in [0 .. n -> Nat], \A i \in 1 .. n : g[i - 1] <= g[i]
  PROVE  \A i \in 0 .. n : g[i] <= g[n]
<1> DEFINE S == {m \in 0 .. n : g[n - m] <= g[n]}
<1>1. 0 \in S
  OBVIOUS
<1>2. ASSUME NEW i \in 1 .. n, i - 1 \in S PROVE i \in S
  <2>1. n - i \in 0 .. n /\ n - i + 1 \in 1 .. n /\ n - (i - 1) = n - i + 1 /\ (n - i + 1) - 1 = n - i
    OBVIOUS
  <2>2. g[n - i] <= g[n - i + 1] /\ g[n - i + 1] <= g[n]
    BY <1>2, <2>1
  <2>3. g[n - i] \in Nat /\ g[n - i + 1] \in Nat /\ g[n] \in Nat
    BY <2>1
  <2> QED BY <2>1, <2>2, <2>3
<1>3. \A i \in 0 .. n : i \in S
  <2> HIDE DEF S
  <2> QED BY <1>1, <1>2, UpTo
<1>4. \A i \in 0 .. n : n - i \in 0 .. n /\ n - (n - i) = i
  OBVIOUS
<1> QED BY <1>3, <1>4

LEMMA SquareOfSum ==
  ASSUME NEW a \in Nat, NEW b \in Nat, NEW x \in Nat, NEW i \in Nat, a * a <= i * b
  PROVE  (a + x) * (a + x) <= (i + 1) * (b + x * x)
<1>1. (a + x) * (a + x) = a * a + 2 * (a * x) + x * x
  OBVIOUS
<1>2. (i + 1) * (b + x * x) = i * b + i * (x * x) + b + x * x
  OBVIOUS
<1>3. 2 * (a * x) <= i * (x * x) + b
  <2>1. CASE i = 0
    <3>1. a = 0
      BY <2>1
    <3> QED BY <2>1, <3>1
  <2>2. CASE i # 0
    <3>1. (i * x - a) * (i * x - a) >= 0
      <4>1. \A z \in Int : z * z >= 0
        OBVIOUS
      <4>2. i * x - a \in Int
        OBVIOUS
      <4> QED BY <4>1, <4>2
    <3>2. (i * x - a) * (i * x - a) = i * (i * (x * x)) - i * (2 * (a * x)) + a * a
      OBVIOUS
    <3>3. i * (2 * (a * x)) <= i * (i * (x * x) + b)
      <4>1. i * (i * (x * x) + b) = i * (i * (x * x)) + i * b
        OBVIOUS
      <4> DEFINE u == i * (i * (x * x))
                 v == i * (2 * (a * x))
                 w == i * b
                 y == a * a
                 z == (i * x - a) * (i * x - a)
      <4>2. u \in Int /\ v \in Int /\ w \in Int /\ y \in Int /\ z \in Int
        OBVIOUS
      <4>3. z >= 0 /\ z = u - v + y /\ y <= w
        BY <3>1, <3>2
      <4> HIDE DEF u, v, w, y, z
      <4>4. v <= u + w
        BY <4>2, <4>3
      <4> QED BY <4>1, <4>4 DEF u, v, w
    <3>4. \A y, z \in Int : i * y <= i * z => y <= z
      BY <2>2
    <3> QED BY <3>3, <3>4
  <2> QED BY <2>1, <2>2
<1> DEFINE p == a * a
           q == i * b
           r == a * x
           u == i * (x * x)
           v == x * x
<1>4. p \in Nat /\ q \in Nat /\ r \in Nat /\ u \in Nat /\ v \in Nat
  OBVIOUS
<1>5. p <= q /\ 2 * r <= u + b
  BY <1>3
<1>6. p + 2 * r + v <= q + u + b + v
  <2> HIDE DEF p, q, r, u, v
  <2> QED BY <1>4, <1>5
<1> QED BY <1>1, <1>2, <1>6

\* Partial sums.
SumsOf(t, s, n) == t \in [0 .. n -> Nat] /\ t[0] = 0 /\ \A i \in 1 .. n : t[i] = t[i - 1] + s[i]

LEMMA SumsRise ==
  ASSUME NEW s, NEW n, Row(s, n), NEW t, SumsOf(t, s, n)
  PROVE  \A i \in 0 .. n : t[i] \in Nat /\ t[i] <= t[n] /\ (i # 0 => t[i - 1] <= t[i])
<1>1. n \in Nat /\ \A i \in 1 .. n : s[i] \in Nat
  BY DEF Row
<1>2. t \in [0 .. n -> Nat] /\ \A i \in 1 .. n : t[i] = t[i - 1] + s[i] /\ i - 1 \in 0 .. n
  BY <1>1 DEF SumsOf
<1>3. \A i \in 1 .. n : t[i - 1] <= t[i]
  <2>1. \A i \in 1 .. n : t[i - 1] \in Nat /\ s[i] \in Nat
    BY <1>1, <1>2
  <2>2. \A x, y \in Nat : x <= x + y
    OBVIOUS
  <2> QED BY <1>2, <2>1, <2>2
<1>4. \A i \in 0 .. n : t[i] <= t[n]
  BY <1>1, <1>2, <1>3, Rising
<1>5. \A i \in 0 .. n : i # 0 => i \in 1 .. n
  BY <1>1
<1> QED BY <1>2, <1>3, <1>4, <1>5

\* As long as they fit, words have the sums.
LEMMA WordsAreSums ==
  ASSUME NEW s, NEW n, Row(s, n), NEW t, SumsOf(t, s, n), t[n] < 2^width,
         NEW w, w[0] = 0, \A i \in 1 .. n : w[i] = (w[i - 1] + s[i]) % 2^width
  PROVE  \A i \in 0 .. n : w[i] = t[i]
<1> DEFINE M == 2^width
<1>1. M \in Nat \ {0} /\ n \in Nat /\ \A i \in 1 .. n : s[i] \in Nat
  BY KmodAssumption DEF Row
<1>2. w[0] = 0 /\ \A i \in 1 .. n : w[i] = (w[i - 1] + s[i]) % M
  OBVIOUS
<1>3. \A i \in 0 .. n : t[i] \in Nat /\ t[i] < M
  <2>1. \A i \in 0 .. n : t[i] \in Nat /\ t[i] <= t[n]
    BY SumsRise
  <2>2. t[n] \in Nat /\ t[n] < M
    BY <1>1, <2>1
  <2> HIDE DEF M
  <2> QED BY <1>1, <2>1, <2>2
<1>4. \A x \in Nat : x < M => x % M = x
  <2> HIDE DEF M
  <2> QED BY <1>1
<1> HIDE DEF M
<1> DEFINE S == {m \in 0 .. n : w[m] = t[m]}
<1>5. 0 \in S
  BY <1>1, <1>2 DEF SumsOf
<1>6. ASSUME NEW i \in 1 .. n, i - 1 \in S PROVE i \in S
  <2>1. w[i - 1] = t[i - 1] /\ i \in 0 .. n
    BY <1>1, <1>6
  <2>2. t[i] = t[i - 1] + s[i]
    BY DEF SumsOf
  <2>3. w[i] = t[i] % M
    BY <1>2, <2>1, <2>2
  <2> QED BY <1>3, <1>4, <2>1, <2>3
<1>7. \A i \in 0 .. n : i \in S
  <2> HIDE DEF S
  <2> QED BY <1>1, <1>5, <1>6, UpTo
<1> QED BY <1>2, <1>7

\* The square of a sum is at most as many times the sum of the squares as there are numbers, and the sum
\* is not more than that of the squares.
LEMMA SumsOfSquares ==
  ASSUME NEW s, NEW n, Row(s, n), NEW t, SumsOf(t, s, n), NEW q, SumsOf(q, Kmod!squares(s), n)
  PROVE  \A i \in 0 .. n : t[i] <= q[i] /\ t[i] * t[i] <= i * q[i]
<1>1. n \in Nat /\ \A i \in 1 .. n : s[i] \in Nat /\ Kmod!squares(s)[i] = s[i] * s[i]
  <2>1. n \in Nat /\ \A i \in 1 .. n : s[i] \in Nat
    BY DEF Row
  <2>2. Kmod!squares(s) = [i \in 1 .. n |-> s[i] * s[i]]
    BY RowLength
  <2> QED BY <2>1, <2>2
<1>2. /\ t \in [0 .. n -> Nat] /\ t[0] = 0 /\ \A i \in 1 .. n : t[i] = t[i - 1] + s[i]
      /\ q \in [0 .. n -> Nat] /\ q[0] = 0 /\ \A i \in 1 .. n : q[i] = q[i - 1] + s[i] * s[i]
  BY <1>1 DEF SumsOf
<1> DEFINE S == {m \in 0 .. n : t[m] <= q[m] /\ t[m] * t[m] <= m * q[m]}
<1>3. 0 \in S
  BY <1>1, <1>2
<1>4. ASSUME NEW i \in 1 .. n, i - 1 \in S PROVE i \in S
  <2> DEFINE a == t[i - 1]
             b == q[i - 1]
             x == s[i]
             m == i - 1
  <2>1. a \in Nat /\ b \in Nat /\ x \in Nat /\ m \in Nat /\ i = m + 1 /\ i \in 0 .. n
    BY <1>1, <1>2
  <2>2. a <= b /\ a * a <= m * b
    BY <1>4
  <2>3. t[i] = a + x /\ q[i] = b + x * x
    BY <1>2
  <2> HIDE DEF a, b, x, m
  <2>4. (a + x) * (a + x) <= (m + 1) * (b + x * x)
    BY <2>1, <2>2, SquareOfSum
  <2>5. x <= x * x
    BY <2>1
  <2>6. a + x <= b + x * x
    BY <2>1, <2>2, <2>5
  <2> QED BY <2>1, <2>3, <2>4, <2>6
<1>5. \A i \in 0 .. n : i \in S
  <2> HIDE DEF S
  <2> QED BY <1>1, <1>3, <1>4, UpTo
<1> QED BY <1>5

LEMMA SumIsLast ==
  ASSUME NEW s, NEW n, Row(s, n)
  PROVE  \E t : SumsOf(t, s, n) /\ Kmod!SumOf(s) = t[n]
BY SumIs DEF SumsOf

LEMMA Division ==
  ASSUME NEW x \in Nat, NEW y \in Nat \ {0}
  PROVE  x \div y \in 0 .. x
<1>1. x \div y \in Int /\ x = y * (x \div y) + (x % y) /\ x % y \in Nat
  OBVIOUS
<1> DEFINE e == x \div y
           r == x % y
<1>2. e \in Int /\ x = y * e + r /\ r \in 0 .. y - 1
  BY <1>1
<1> HIDE DEF e, r
<1>3. e >= 0
  <2>1. SUFFICES ASSUME e <= -1 PROVE FALSE
    BY <1>2
  <2>2. y * e <= -y
    BY <1>2, <2>1
  <2> QED BY <1>2, <2>2
<1>4. e <= y * e
  BY <1>2, <1>3
<1>5. e <= x
  BY <1>2, <1>3, <1>4
<1> QED BY <1>2, <1>3, <1>5 DEF e

\* var_calc() is right as long as the squares fit: neither the tests for overflow nor the width of the
\* words have an effect.
LEMMA VarianceRight ==
  ASSUME NEW s, NEW n, Row(s, n), n # 0, Kmod!Fits(s)
  PROVE  Kmod!var_calc(s) = Kmod!Variance(s) /\ Kmod!Variance(s) \in 0 .. 2^width - 1
<1> DEFINE M == 2^width
           sq == Kmod!squares(s)
           acc == Kmod!sums(s)
           temp_var == Kmod!sums(sq)
<1>1. M \in Nat \ {0} /\ n \in Nat \ {0} /\ Len(s) = n /\ Row(sq, n)
  BY KmodAssumption, RowLength
<1>2. PICK t : SumsOf(t, s, n) /\ Kmod!SumOf(s) = t[n]
  BY SumIsLast
<1>3. PICK q : SumsOf(q, sq, n) /\ Kmod!SumOf(sq) = q[n]
  <2> HIDE DEF sq
  <2> QED BY <1>1, SumIsLast
<1>4. n * q[n] < M
  BY <1>1, <1>3 DEF Kmod!Fits, Kmod!ScaledSquares
<1>5. /\ \A i \in 0 .. n : t[i] \in Nat /\ t[i] <= t[n] /\ (i # 0 => t[i - 1] <= t[i])
      /\ \A i \in 0 .. n : q[i] \in Nat /\ q[i] <= q[n] /\ (i # 0 => q[i - 1] <= q[i])
  <2> HIDE DEF sq
  <2> QED BY <1>1, <1>2, <1>3, SumsRise
<1>6. t[n] <= q[n] /\ t[n] * t[n] <= n * q[n]
  <2>1. n \in 0 .. n
    BY <1>1
  <2> QED BY <1>2, <1>3, <2>1, SumsOfSquares
<1> DEFINE T == t[n]
           Q == q[n]
           t1 == t[n - 1]
           q1 == q[n - 1]
<1>7. T \in Nat /\ Q \in Nat /\ t1 \in Nat /\ q1 \in Nat /\ t1 <= T /\ q1 <= Q
  <2>1. n \in 0 .. n /\ n - 1 \in 0 .. n
    BY <1>1
  <2> QED BY <1>5, <2>1
<1>8. /\ Q <= n * Q /\ Q < M /\ T < M /\ T <= T * T /\ T * T < M /\ n * Q \in Nat /\ T * T \in Nat
      /\ Q * n = n * Q
  <2> HIDE DEF M, T, Q, t1, q1
  <2>1. Q <= n * Q /\ T <= T * T /\ n * Q \in Nat /\ T * T \in Nat /\ Q * n = n * Q
    BY <1>1, <1>7
  <2>2. n * Q < M /\ T <= Q /\ T * T <= n * Q
    BY <1>4, <1>6 DEF T, Q
  <2> QED BY <1>1, <1>7, <2>1, <2>2
<1>9. \A i \in 0 .. n : acc[i] = t[i] /\ temp_var[i] = q[i]
  <2>1. t[n] < 2^width /\ q[n] < 2^width
    BY <1>8
  <2>2. \A i \in 0 .. n : acc[i] = t[i]
    BY <1>1, <1>2, <2>1, WordsAreSums, SumsAre
  <2>3. \A i \in 0 .. n : temp_var[i] = q[i]
    <3> HIDE DEF sq
    <3> QED BY <1>1, <1>3, <2>1, WordsAreSums, SumsAre
  <2> QED BY <2>2, <2>3
<1>10. acc[n] = T /\ temp_var[n] = Q /\ acc[n - 1] = t1 /\ temp_var[n - 1] = q1
  <2>1. n \in 0 .. n /\ n - 1 \in 0 .. n
    BY <1>1
  <2> QED BY <1>9, <2>1
<1>11. \A i \in 1 .. n - 1 : ~(acc[i] < acc[i - 1] \/ temp_var[i] < temp_var[i - 1])
  <2> TAKE i \in 1 .. n - 1
  <2>1. i \in 0 .. n /\ i - 1 \in 0 .. n /\ i # 0
    BY <1>1
  <2>2. t[i] \in Nat /\ t[i - 1] \in Nat /\ t[i - 1] <= t[i] /\ q[i] \in Nat /\ q[i - 1] \in Nat /\ q[i - 1] <= q[i]
    BY <1>5, <2>1
  <2>3. acc[i] = t[i] /\ acc[i - 1] = t[i - 1] /\ temp_var[i] = q[i] /\ temp_var[i - 1] = q[i - 1]
    BY <1>9, <2>1
  <2> QED BY <2>2, <2>3
<1>12. /\ (T * T) % M = T * T /\ (Q * n) % M = n * Q /\ (Q * n - T * T) % M = n * Q - T * T
       /\ n * Q - T * T \in 0 .. M - 1
  <2> DEFINE x == T * T
             y == n * Q
  <2>1. x \in Nat /\ y \in Nat /\ x < M /\ y < M /\ x <= y
    BY <1>4, <1>6, <1>8
  <2>2. \A z \in Nat : z < M => z % M = z
    <3> HIDE DEF M
    <3> QED BY <1>1
  <2>3. x % M = x /\ y % M = y /\ y - x \in 0 .. M - 1 /\ (y - x) % M = y - x
    <3> HIDE DEF x, y, M
    <3> QED BY <1>1, <2>1, <2>2
  <2>4. Q * n = y
    BY <1>8
  <2> QED BY <2>3, <2>4
<1>13. ~((T * T) % M < t1) /\ ~((Q * n) % M < q1)
  <2> DEFINE x == T * T
             y == n * Q
  <2>1. x \in Nat /\ y \in Nat /\ T <= x /\ Q <= y
    BY <1>8
  <2>2. ~(x < t1) /\ ~(y < q1)
    <3> HIDE DEF x, y, T, Q, t1, q1
    <3> QED BY <1>7, <2>1
  <2> QED BY <1>12, <2>2
<1>14. Kmod!var_calc(s) = (n * Q - T * T) \div (n * n)
  <2>1. ~(\/ \E i \in 1 .. n - 1 : acc[i] < acc[i - 1] \/ temp_var[i] < temp_var[i - 1]
          \/ (acc[n] * acc[n]) % M < acc[n - 1]
          \/ (temp_var[n] * n) % M < temp_var[n - 1])
    <3> HIDE DEF M, T, Q, t1, q1, acc, temp_var
    <3> QED BY <1>10, <1>11, <1>13
  <2>2. Kmod!var_calc(s) = ((temp_var[n] * n - acc[n] * acc[n]) % M) \div (n * n)
    <3>1. Kmod!var_calc(s) =
            IF \/ \E i \in 1 .. n - 1 : acc[i] < acc[i - 1] \/ temp_var[i] < temp_var[i - 1]
               \/ (acc[n] * acc[n]) % M < acc[n - 1]
               \/ (temp_var[n] * n) % M < temp_var[n - 1]
            THEN Kmod!minus_EINVAL
            ELSE ((temp_var[n] * n - acc[n] * acc[n]) % M) \div (n * n)
      BY <1>1 DEF Kmod!var_calc, Kmod!Word
    <3> HIDE DEF M, acc, temp_var
    <3> QED BY <2>1, <3>1
  <2> HIDE DEF M, T, Q, t1, q1, acc, temp_var
  <2> QED BY <1>10, <1>12, <2>2
<1>15. Kmod!Variance(s) = (n * Q - T * T) \div (n * n)
  BY <1>1, <1>2, <1>3 DEF Kmod!Variance, Kmod!ScaledSquares
<1>16. (n * Q - T * T) \div (n * n) \in 0 .. M - 1
  <2> DEFINE x == n * Q - T * T
             y == n * n
  <2>1. x \in 0 .. M - 1 /\ y \in Nat \ {0}
    BY <1>1, <1>12
  <2> HIDE DEF x, y, M
  <2>2. x \div y \in 0 .. x
    BY <1>1, <2>1, Division
  <2>3. x \div y \in 0 .. M - 1
    BY <1>1, <2>1, <2>2
  <2> QED BY <2>3 DEF x, y
<1> QED BY <1>14, <1>15, <1>16

LEMMA OneTooMany ==
  ASSUME NEW x \in Nat, NEW m \in Nat \ {0}, x - m \in 0 .. m - 1
  PROVE  x % m = x - m
<1> DEFINE e == x \div m
           f == x % m
<1>1. e \in Int /\ f \in 0 .. m - 1 /\ x = m * e + f
  OBVIOUS
<1> HIDE DEF e, f
<1>2. e >= 1
  <2>1. SUFFICES ASSUME e <= 0 PROVE FALSE
    BY <1>1
  <2>2. m * e <= 0
    BY <1>1, <2>1
  <2> QED BY <1>1, <2>2
<1>3. e <= 1
  <2>1. SUFFICES ASSUME e >= 2 PROVE FALSE
    BY <1>1
  <2>2. m * e >= m * 2
    BY <1>1, <2>1
  <2> QED BY <1>1, <2>2
<1>4. e = 1
  BY <1>1, <1>2, <1>3
<1>5. f = x - m
  BY <1>1, <1>4
<1> QED BY <1>5 DEF f

\* A sum that does not fit before the last addition is seen by one of the tests of the first loop.
LEMMA OverflowReported ==
  ASSUME NEW s, NEW n, Row(s, n), n # 0, \A i \in 1 .. n : s[i] \in 0 .. 2^width - 1,
         Kmod!SumBeforeLast(s) >= 2^width
  PROVE  Kmod!var_calc(s) = Kmod!minus_EINVAL
<1> DEFINE M == 2^width
           acc == Kmod!sums(s)
<1>1. M \in Nat \ {0} /\ n \in Nat \ {0} /\ Len(s) = n /\ \A i \in 1 .. n : s[i] \in 0 .. M - 1
  BY KmodAssumption, RowLength
<1>2. PICK t : SumsOf(t, s, n) /\ Kmod!SumOf(s) = t[n]
  BY SumIsLast
<1>3. t \in [0 .. n -> Nat] /\ t[0] = 0 /\ \A i \in 1 .. n : t[i] = t[i - 1] + s[i]
  BY <1>2 DEF SumsOf
<1>4. t[n - 1] >= M
  <2>1. t[n - 1] \in Nat /\ s[n] \in Nat /\ t[n] = t[n - 1] + s[n]
    BY <1>1, <1>3
  <2>2. t[n] - s[n] >= M
    BY <1>1, <1>2 DEF Kmod!SumBeforeLast
  <2> HIDE DEF M
  <2> QED BY <1>1, <2>1, <2>2
<1>5. acc[0] = 0 /\ \A i \in 1 .. n : acc[i] = (acc[i - 1] + s[i]) % M
  BY <1>1, SumsAre
<1>6. ASSUME \A i \in 1 .. n - 1 : ~(acc[i] < acc[i - 1]) PROVE FALSE
  <2> HIDE DEF M, acc
  <2> DEFINE S == {m \in 0 .. n - 1 : acc[m] = t[m] /\ t[m] < M}
  <2>1. 0 \in S
    BY <1>1, <1>3, <1>5
  <2>2. ASSUME NEW i \in 1 .. n - 1, i - 1 \in S PROVE i \in S
    <3>1. i \in 0 .. n - 1 /\ i \in 1 .. n /\ i - 1 \in 0 .. n /\ acc[i - 1] = t[i - 1] /\ t[i - 1] < M
      BY <1>1, <2>2
    <3>2. t[i - 1] \in Nat /\ s[i] \in 0 .. M - 1 /\ t[i] = t[i - 1] + s[i] /\ acc[i] = t[i] % M
      BY <1>1, <1>3, <1>5, <3>1
    <3>3. \A x \in Nat : x < M => x % M = x
      BY <1>1
    <3>4. t[i] < M
      <4>1. SUFFICES ASSUME M <= t[i] PROVE FALSE
        BY <1>1, <3>2
      <4>2. acc[i] = t[i] - M
        <5>1. t[i] \in Nat /\ t[i] - M \in 0 .. M - 1
          <6> DEFINE x == t[i - 1]
                     y == s[i]
          <6>1. x \in Nat /\ x < M /\ y \in 0 .. M - 1 /\ t[i] = x + y /\ M <= t[i]
            BY <3>1, <3>2, <4>1
          <6> HIDE DEF x, y
          <6> QED BY <1>1, <6>1
        <5>2. t[i] % M = t[i] - M
          BY <1>1, <5>1, OneTooMany
        <5> QED BY <3>2, <5>2
      <4>3. acc[i] < acc[i - 1]
        BY <1>1, <3>1, <3>2, <4>2
      <4> QED BY <1>6, <4>3
    <3> QED BY <3>1, <3>2, <3>3, <3>4
  <2>3. \A i \in 0 .. n - 1 : i \in S
    <3>1. n - 1 \in Nat
      BY <1>1
    <3> HIDE DEF S
    <3> QED BY <2>1, <2>2, <3>1, UpTo
  <2>4. n - 1 \in S /\ t[n - 1] \in Nat
    BY <1>1, <1>3, <2>3
  <2> QED BY <1>1, <1>4, <2>4
<1>7. PICK i \in 1 .. n - 1 : acc[i] < acc[i - 1]
  BY <1>6
<1> QED BY <1>1, <1>7 DEF Kmod!var_calc

LEMMA KmodMin ==
  ASSUME NEW S \in SUBSET Int, NEW x \in S, \A y \in S : x <= y
  PROVE  Kmod!Min(S) = x
<1>1. \A z \in S : (\A y \in S : z <= y) => z = x
  OBVIOUS
<1> QED BY <1>1 DEF Kmod!Min

LEMMA KmodMax ==
  ASSUME NEW S \in SUBSET Int, NEW x \in S, \A y \in S : y <= x
  PROVE  Kmod!Max(S) = x
<1>1. \A y \in S : x >= y
  OBVIOUS
<1>2. \A z \in S : (\A y \in S : z >= y) => z = x
  OBVIOUS
<1> QED BY <1>1, <1>2 DEF Kmod!Max

LEMMA MinimumType ==
  ASSUME NEW s, NEW n, Row(s, n)
  PROVE  Kmod!min_time(s) \in Nat
<1>1. PICK g \in [0 .. n -> Nat] : Kmod!min_time(s) = g[n]
  BY MinimumIs
<1>2. n \in 0 .. n
  BY DEF Row
<1> QED BY <1>1, <1>2

\* If no time is 0, the loop finds the minimum.
LEMMA MinimumRight ==
  ASSUME NEW s, NEW n, Row(s, n), n # 0, \A i \in 1 .. n : s[i] # 0
  PROVE  Kmod!min_time(s) = Kmod!Min({s[i] : i \in 1 .. n}) /\ Kmod!min_time(s) \in {s[i] : i \in 1 .. n}
<1>1. n \in Nat \ {0} /\ \A i \in 1 .. n : s[i] \in Nat \ {0}
  BY DEF Row
<1>2. PICK g \in [0 .. n -> Nat] :
        /\ g[0] = 0
        /\ \A i \in 1 .. n : g[i] = (IF g[i - 1] = 0 \/ g[i - 1] > s[i] THEN s[i] ELSE g[i - 1])
        /\ Kmod!min_time(s) = g[n]
  BY MinimumIs
<1> DEFINE Least(m) == (\E j \in 1 .. m : g[m] = s[j]) /\ \A j \in 1 .. m : g[m] <= s[j]
           S == {m \in 0 .. n : m # 0 => Least(m)}
<1>3. 0 \in S
  BY <1>1
<1>4. ASSUME NEW i \in 1 .. n, i - 1 \in S PROVE i \in S
  <2>1. g[i - 1] \in Nat /\ g[i] \in Nat /\ s[i] \in Nat \ {0} /\ i \in 0 .. n
    BY <1>1, <1>2
  <2>2. g[i] = (IF g[i - 1] = 0 \/ g[i - 1] > s[i] THEN s[i] ELSE g[i - 1])
    BY <1>2
  <2>3. CASE i = 1
    <3>1. g[1] = s[1]
      BY <1>2, <2>2, <2>3
    <3>2. 1 \in 1 .. 1 /\ \A j \in 1 .. 1 : j = 1
      OBVIOUS
    <3>3. Least(1)
      BY <2>1, <2>3, <3>1, <3>2
    <3> QED BY <2>1, <2>3, <3>3
  <2>4. CASE i # 1
    <3>1. i - 1 # 0 /\ i - 1 \in 1 .. n /\ i \in 1 .. i
      BY <1>1, <2>4
    <3>2. Least(i - 1)
      BY <1>4, <3>1
    <3>3. \A j \in 1 .. i : j = i \/ j \in 1 .. i - 1
      BY <1>1
    <3>4. \A j \in 1 .. i - 1 : j \in 1 .. i /\ j \in 1 .. n
      BY <1>1
    <3>5. PICK j \in 1 .. i - 1 : g[i - 1] = s[j]
      BY <3>2
    <3>6. g[i - 1] # 0
      BY <1>1, <3>4, <3>5
    <3>7. \A l \in 1 .. i - 1 : g[i - 1] <= s[l] /\ s[l] \in Nat
      BY <1>1, <3>2, <3>4
    <3>8. CASE g[i - 1] > s[i]
      <4>1. g[i] = s[i]
        BY <2>2, <3>8
      <4>2. \A l \in 1 .. i : g[i] <= s[l]
        BY <2>1, <3>3, <3>7, <3>8, <4>1
      <4> QED BY <2>1, <3>1, <4>1, <4>2
    <3>9. CASE ~(g[i - 1] > s[i])
      <4>1. g[i] = g[i - 1]
        BY <2>2, <3>6, <3>9
      <4>2. \A l \in 1 .. i : g[i] <= s[l]
        BY <2>1, <3>3, <3>7, <3>9, <4>1
      <4> QED BY <2>1, <3>4, <3>5, <4>1, <4>2
    <3> QED BY <3>8, <3>9
  <2> QED BY <2>3, <2>4
<1>5. \A i \in 0 .. n : i \in S
  <2> HIDE DEF S
  <2> QED BY <1>1, <1>3, <1>4, UpTo
<1>6. Least(n)
  <2>1. n \in 0 .. n
    BY <1>1
  <2> QED BY <1>1, <1>5, <2>1
<1> DEFINE C == {s[i] : i \in 1 .. n}
<1>7. C \in SUBSET Int /\ g[n] \in C /\ \A y \in C : g[n] <= y
  BY <1>1, <1>6
<1>8. Kmod!Min(C) = g[n]
  <2> HIDE DEF C
  <2> QED BY <1>7, KmodMin
<1> QED BY <1>2, <1>7, <1>8

LEMMA MaximumRight ==
  ASSUME NEW s, NEW n, Row(s, n), n # 0
  PROVE  Kmod!max_time(s) = Kmod!Max({s[i] : i \in 1 .. n}) /\ Kmod!max_time(s) \in {s[i] : i \in 1 .. n}
         /\ \A i \in 1 .. n : s[i] <= Kmod!max_time(s)
<1>1. n \in Nat \ {0} /\ \A i \in 1 .. n : s[i] \in Nat
  BY DEF Row
<1>2. PICK g \in [0 .. n -> Nat] :
        /\ g[0] = 0
        /\ \A i \in 1 .. n : g[i] = (IF g[i - 1] < s[i] THEN s[i] ELSE g[i - 1])
        /\ Kmod!max_time(s) = g[n]
  BY MaximumIs
<1> DEFINE Most(m) == (\E j \in 1 .. m : g[m] = s[j]) /\ \A j \in 1 .. m : s[j] <= g[m]
           S == {m \in 0 .. n : m # 0 => Most(m)}
<1>3. 0 \in S
  BY <1>1
<1>4. ASSUME NEW i \in 1 .. n, i - 1 \in S PROVE i \in S
  <2>1. g[i - 1] \in Nat /\ g[i] \in Nat /\ s[i] \in Nat /\ i \in 0 .. n
    BY <1>1, <1>2
  <2>2. g[i] = (IF g[i - 1] < s[i] THEN s[i] ELSE g[i - 1])
    BY <1>2
  <2>3. CASE i = 1
    <3>1. g[1] = s[1]
      BY <1>2, <2>1, <2>2, <2>3
    <3>2. 1 \in 1 .. 1 /\ \A j \in 1 .. 1 : j = 1
      OBVIOUS
    <3>3. Most(1)
      BY <2>1, <2>3, <3>1, <3>2
    <3> QED BY <2>1, <2>3, <3>3
  <2>4. CASE i # 1
    <3>1. i - 1 # 0 /\ i - 1 \in 1 .. n /\ i \in 1 .. i
      BY <1>1, <2>4
    <3>2. Most(i - 1)
      BY <1>4, <3>1
    <3>3. \A j \in 1 .. i : j = i \/ j \in 1 .. i - 1
      BY <1>1
    <3>4. \A j \in 1 .. i - 1 : j \in 1 .. i /\ j \in 1 .. n
      BY <1>1
    <3>5. PICK j \in 1 .. i - 1 : g[i - 1] = s[j]
      BY <3>2
    <3>6. \A l \in 1 .. i - 1 : s[l] <= g[i - 1] /\ s[l] \in Nat
      BY <1>1, <3>2, <3>4
    <3>7. CASE g[i - 1] < s[i]
      <4>1. g[i] = s[i]
        BY <2>2, <3>7
      <4>2. \A l \in 1 .. i : s[l] <= g[i]
        BY <2>1, <3>3, <3>6, <3>7, <4>1
      <4> QED BY <2>1, <3>1, <4>1, <4>2
    <3>8. CASE ~(g[i - 1] < s[i])
      <4>1. g[i] = g[i - 1]
        BY <2>2, <3>8
      <4>2. \A l \in 1 .. i : s[l] <= g[i]
        BY <2>1, <3>3, <3>6, <3>8, <4>1
      <4> QED BY <2>1, <3>4, <3>5, <4>1, <4>2
    <3> QED BY <3>7, <3>8
  <2> QED BY <2>3, <2>4
<1>5. \A i \in 0 .. n : i \in S
  <2> HIDE DEF S
  <2> QED BY <1>1, <1>3, <1>4, UpTo
<1>6. Most(n)
  <2>1. n \in 0 .. n
    BY <1>1
  <2> QED BY <1>1, <1>5, <2>1
<1> DEFINE C == {s[i] : i \in 1 .. n}
<1>7. C \in SUBSET Int /\ g[n] \in C /\ \A y \in C : y <= g[n]
  BY <1>1, <1>6
<1>8. Kmod!Max(C) = g[n]
  <2> HIDE DEF C
  <2> QED BY <1>7, KmodMax
<1> QED BY <1>2, <1>6, <1>7, <1>8

-----------------------------------------------------------------------------
(* tsc_kmod: the module                                                      *)

MeasuredRows == [1 .. SIZE_OF_STAT -> CycleTimes]

Dev(j) == (Kmod!max_time(times[j]) - Kmod!min_time(times[j])) % 2^width

\* tot_var is the sum of the variances in words.
TotalInv ==
  \E g : /\ g[0] = 0 /\ tot_var = g[Len(variances)]
         /\ \A j \in 1 .. Len(variances) : g[j] = (g[j - 1] + variances[j]) % 2^width

DeviationInv ==
  /\ max_dev_all \in Nat
  /\ \A j \in 1 .. Len(variances) : Dev(j) <= max_dev_all
  /\ max_dev_all = 0 \/ \E j \in 1 .. Len(variances) : max_dev_all = Dev(j)

Dropped(s, m) == {j \in 2 .. m : s[j - 1] # 0 /\ s[j - 1] > s[j]}

MinimaInv ==
  /\ prev_min = IF Len(variances) = 0 THEN 0 ELSE min_values[Len(variances)]
  /\ spurious = Cardinality(Dropped(min_values, Len(variances)))

\* What has been collected of the rows that were looked at.
RowsInv ==
  /\ variances \in Seq({Kmod!var_calc(row) : row \in MeasuredRows}) /\ min_values \in Seq(Nat)
  /\ Len(variances) <= Len(times) /\ Len(min_values) = Len(variances)
  /\ \A j \in 1 .. Len(variances) :
       variances[j] = Kmod!var_calc(times[j]) /\ min_values[j] = Kmod!min_time(times[j])

KmodInv ==
  /\ times \in Seq(MeasuredRows)
  /\ km_at \in {"loading", "Filltimes", "statistics", "report", "loaded"}
  /\ km_at = "loading" => \E c \in 0 .. BOUND_OF_LOOP + 2 : km_blocks = 1 .. c
  /\ km_at \in {"loading", "Filltimes"} => Len(variances) = 0 /\ Len(times) < BOUND_OF_LOOP
  /\ km_at = "statistics" => Len(times) = BOUND_OF_LOOP /\ Len(variances) < BOUND_OF_LOOP
  /\ km_at = "report" => Len(times) = BOUND_OF_LOOP /\ Len(variances) = BOUND_OF_LOOP
  /\ RowsInv /\ TotalInv /\ DeviationInv /\ MinimaInv
  /\ Kmod!LeftAllocated

LEMMA SameCardinalityKmod == \A S : Kmod!Cardinality(S) = Cardinality(S)
BY DEF Kmod!Cardinality, Cardinality, Kmod!IsFiniteSet, IsFiniteSet

LEMMA MeasuredRow ==
  ASSUME NEW row \in MeasuredRows
  PROVE  Row(row, SIZE_OF_STAT) /\ SIZE_OF_STAT # 0 /\ \A i \in 1 .. SIZE_OF_STAT : row[i] \in 0 .. 2^width - 1
<1>1. SIZE_OF_STAT \in Nat \ {0} /\ 2^width \in Nat /\ CycleTimes \subseteq 0 .. 2^width - 1
  BY KmodAssumption
<1>2. CycleTimes \subseteq Nat
  BY <1>1
<1>3. row \in [1 .. SIZE_OF_STAT -> Nat]
  BY <1>2 DEF MeasuredRows
<1>4. \A i \in 1 .. SIZE_OF_STAT : row[i] \in CycleTimes
  BY DEF MeasuredRows
<1> QED BY <1>1, <1>3, <1>4 DEF Row

LEMMA BlocksCount ==
  ASSUME NEW c \in Nat
  PROVE  Kmod!Cardinality(1 .. c) = c
<1>1. Cardinality(1 .. c) = IF 1 > c THEN 0 ELSE c - 1 + 1
  BY FS_Interval
<1> QED BY <1>1, SameCardinalityKmod

LEMMA KmodInit == Start => KmodInv
<1> SUFFICES ASSUME Start PROVE KmodInv
  OBVIOUS
<1>1. /\ km_at = "loading" /\ km_blocks = {} /\ times = <<>> /\ variances = <<>> /\ min_values = <<>>
      /\ prev_min = 0 /\ max_dev_all = 0 /\ tot_var = 0 /\ spurious = 0
  BY DEF Start, Kmod!Init
<1>2. BOUND_OF_LOOP \in Nat \ {0}
  BY KmodAssumption
<1>3. \E c \in 0 .. BOUND_OF_LOOP + 2 : km_blocks = 1 .. c
  <2>1. 0 \in 0 .. BOUND_OF_LOOP + 2 /\ 1 .. 0 = {}
    BY <1>2
  <2> QED BY <1>1, <2>1
<1>4. Len(variances) = 0 /\ Len(times) = 0 /\ Len(min_values) = 0 /\ times \in Seq(MeasuredRows)
      /\ variances \in Seq({Kmod!var_calc(row) : row \in MeasuredRows}) /\ min_values \in Seq(Nat)
  BY <1>1
<1>5. RowsInv
  BY <1>4 DEF RowsInv
<1>6. TotalInv
  <2> DEFINE g == [j \in 0 .. 0 |-> 0]
  <2>1. g[0] = 0 /\ tot_var = g[Len(variances)]
    BY <1>1, <1>4
  <2> HIDE DEF g
  <2>2. \A j \in 1 .. Len(variances) : g[j] = (g[j - 1] + variances[j]) % 2^width
    BY <1>4
  <2> QED BY <2>1, <2>2 DEF TotalInv
<1>7. DeviationInv
  BY <1>1, <1>4 DEF DeviationInv
<1>8. MinimaInv
  <2>1. Dropped(min_values, 0) = {}
    BY DEF Dropped
  <2> QED BY <1>1, <1>4, <2>1, FS_EmptySet DEF MinimaInv
<1> QED BY <1>1, <1>2, <1>3, <1>4, <1>5, <1>6, <1>7, <1>8 DEF KmodInv, Kmod!LeftAllocated

\* The steps that leave the statistics alone.
LEMMA SameReport ==
  ASSUME KmodInv, UNCHANGED <<times, variances, min_values, prev_min, max_dev_all, tot_var, spurious>>
  PROVE  times' \in Seq(MeasuredRows) /\ RowsInv' /\ TotalInv' /\ DeviationInv' /\ MinimaInv'
<1>1. RowsInv'
  BY DEF KmodInv, RowsInv
<1>2. TotalInv'
  BY DEF KmodInv, TotalInv
<1>3. DeviationInv'
  BY DEF KmodInv, DeviationInv, Dev
<1>4. MinimaInv'
  BY DEF KmodInv, MinimaInv
<1> QED BY <1>1, <1>2, <1>3, <1>4 DEF KmodInv

LEMMA AllocateInv == ASSUME KmodInv, Kmod!kmalloc \/ Kmod!kmalloc_fails PROVE KmodInv'
<1>1. BOUND_OF_LOOP \in Nat \ {0}
  BY KmodAssumption
<1>2. km_at = "loading" /\ UNCHANGED <<times, variances, min_values, prev_min, max_dev_all, tot_var, spurious>>
  BY DEF Kmod!kmalloc, Kmod!kmalloc_fails, Kmod!reportVars
<1>3. PICK c \in 0 .. BOUND_OF_LOOP + 2 : km_blocks = 1 .. c
  BY <1>2 DEF KmodInv
<1>4. c \in Nat /\ Kmod!Cardinality(km_blocks) = c
  BY <1>1, <1>3, BlocksCount
<1>5. Len(variances') = 0 /\ Len(times') < BOUND_OF_LOOP
  BY <1>2 DEF KmodInv
<1>6. times' \in Seq(MeasuredRows) /\ RowsInv' /\ TotalInv' /\ DeviationInv' /\ MinimaInv'
  BY <1>2, SameReport
<1>7. CASE Kmod!kmalloc
  <2>1. km_blocks' = 1 .. c + 1
    BY <1>1, <1>3, <1>4, <1>7 DEF Kmod!kmalloc
  <2>2. km_at' = IF km_blocks' = 1 .. BOUND_OF_LOOP + 3 THEN "Filltimes" ELSE "loading"
    BY <1>7 DEF Kmod!kmalloc, Kmod!Blocks
  <2>3. km_at' = "loading" => c + 1 \in 0 .. BOUND_OF_LOOP + 2
    BY <1>1, <1>3, <2>1, <2>2
  <2> QED BY <1>5, <1>6, <2>1, <2>2, <2>3 DEF KmodInv, Kmod!LeftAllocated
<1>8. CASE Kmod!kmalloc_fails
  <2>1. /\ km_at' = "loaded"
        /\ km_blocks' = IF c + 1 \in 2 .. BOUND_OF_LOOP + 1 THEN km_blocks \ (2 .. BOUND_OF_LOOP + 1) ELSE km_blocks
    BY <1>4, <1>8 DEF Kmod!kmalloc_fails, Kmod!Rows
  <2>2. km_blocks' \in {{}, {1}, 1 .. BOUND_OF_LOOP + 1, 1 .. BOUND_OF_LOOP + 2}
    <3>1. CASE c + 1 \in 2 .. BOUND_OF_LOOP + 1
      <4>1. (1 .. c) \ (2 .. BOUND_OF_LOOP + 1) = {1}
        BY <1>1, <1>3, <3>1
      <4> QED BY <1>3, <2>1, <3>1, <4>1
    <3>2. CASE c = 0
      <4>1. 1 .. c = {} /\ c + 1 \notin 2 .. BOUND_OF_LOOP + 1
        BY <3>2
      <4>2. km_blocks' = {}
        BY <1>3, <2>1, <4>1
      <4> QED BY <4>2
    <3>3. CASE c > BOUND_OF_LOOP
      <4>1. c + 1 \notin 2 .. BOUND_OF_LOOP + 1 /\ (c = BOUND_OF_LOOP + 1 \/ c = BOUND_OF_LOOP + 2)
        BY <1>1, <1>3, <3>3
      <4>2. km_blocks' = 1 .. c
        BY <1>3, <2>1, <4>1
      <4> QED BY <4>1, <4>2
    <3> QED BY <1>1, <1>3, <3>1, <3>2, <3>3
  <2>3. Len(variances') # BOUND_OF_LOOP
    BY <1>1, <1>5
  <2> QED BY <1>6, <2>1, <2>2, <2>3 DEF KmodInv, Kmod!LeftAllocated
<1> QED BY <1>7, <1>8

LEMMA FilltimesInv ==
  ASSUME KmodInv, NEW row \in MeasuredRows, Kmod!Filltimes(row)
  PROVE  KmodInv'
<1>1. BOUND_OF_LOOP \in Nat \ {0}
  BY KmodAssumption
<1>2. /\ km_at = "Filltimes" /\ times' = Append(times, row)
      /\ km_at' = IF Len(times') = BOUND_OF_LOOP THEN "statistics" ELSE "Filltimes"
      /\ UNCHANGED <<km_blocks, variances, min_values, prev_min, max_dev_all, tot_var, spurious>>
  BY DEF Kmod!Filltimes
<1>3. times \in Seq(MeasuredRows) /\ Len(times) \in Nat /\ Len(times) < BOUND_OF_LOOP /\ Len(variances) = 0
  BY <1>2 DEF KmodInv
<1>4. times' \in Seq(MeasuredRows) /\ Len(times') = Len(times) + 1
  BY <1>2, <1>3
<1>5. Len(times') <= BOUND_OF_LOOP
  BY <1>1, <1>3, <1>4
<1>6. RowsInv'
  <2>1. Len(variances) <= Len(times')
    BY <1>3, <1>4
  <2>2. \A j \in 1 .. 0 : FALSE
    OBVIOUS
  <2> QED BY <1>2, <1>3, <2>1, <2>2 DEF KmodInv, RowsInv
<1>7. TotalInv' /\ MinimaInv'
  BY <1>2 DEF KmodInv, TotalInv, MinimaInv
<1>8. DeviationInv'
  <2>1. \A j \in 1 .. 0 : FALSE
    OBVIOUS
  <2> QED BY <1>2, <1>3, <2>1 DEF KmodInv, DeviationInv
<1>9. Kmod!LeftAllocated' /\ km_at' \in {"statistics", "Filltimes"}
  BY <1>2 DEF Kmod!LeftAllocated
<1>10. /\ km_at' = "Filltimes" => Len(times') < BOUND_OF_LOOP
       /\ km_at' = "statistics" => Len(times') = BOUND_OF_LOOP
       /\ Len(variances') = 0 /\ 0 < BOUND_OF_LOOP
  BY <1>1, <1>2, <1>3, <1>4, <1>5
<1> QED BY <1>4, <1>6, <1>7, <1>8, <1>9, <1>10 DEF KmodInv

LEMMA DroppedNext ==
  ASSUME NEW s, NEW m \in Nat \ {0}
  PROVE  /\ IsFiniteSet(Dropped(s, m)) /\ Cardinality(Dropped(s, m)) \in Nat
         /\ m >= 2 /\ s[m - 1] # 0 /\ s[m - 1] > s[m] => Cardinality(Dropped(s, m)) = Cardinality(Dropped(s, m - 1)) + 1
         /\ ~(m >= 2 /\ s[m - 1] # 0 /\ s[m - 1] > s[m]) => Dropped(s, m) = Dropped(s, m - 1)
<1>1. ASSUME NEW e \in Nat PROVE IsFiniteSet(Dropped(s, e)) /\ Cardinality(Dropped(s, e)) \in Nat
  <2>1. IsFiniteSet(2 .. e)
    BY FS_Interval
  <2>2. Dropped(s, e) \subseteq 2 .. e
    BY DEF Dropped
  <2> QED BY <2>1, <2>2, FS_Subset, FS_CardinalityType
<1>2. IsFiniteSet(Dropped(s, m - 1)) /\ m \notin Dropped(s, m - 1)
  <2>1. m - 1 \in Nat
    OBVIOUS
  <2> QED BY <1>1, <2>1 DEF Dropped
<1>3. ASSUME m >= 2 /\ s[m - 1] # 0 /\ s[m - 1] > s[m]
      PROVE  Cardinality(Dropped(s, m)) = Cardinality(Dropped(s, m - 1)) + 1
  <2>1. Dropped(s, m) = Dropped(s, m - 1) \cup {m}
    BY <1>3 DEF Dropped
  <2> QED BY <1>2, <2>1, FS_AddElement
<1>4. ASSUME ~(m >= 2 /\ s[m - 1] # 0 /\ s[m - 1] > s[m])
      PROVE  Dropped(s, m) = Dropped(s, m - 1)
  BY <1>4 DEF Dropped
<1> QED BY <1>1, <1>3, <1>4

LEMMA StatisticsInv == ASSUME KmodInv, Kmod!statistics PROVE KmodInv'
<1> DEFINE c == Len(variances) + 1
           row == times[c]
           low == Kmod!min_time(row)
           var == Kmod!var_calc(row)
           dev == (Kmod!max_time(row) - low) % 2^width
<1>1. BOUND_OF_LOOP \in Nat \ {0} /\ 2^width \in Nat \ {0}
  BY KmodAssumption
<1>2. /\ km_at = "statistics"
      /\ min_values' = Append(min_values, low)
      /\ spurious' = IF prev_min # 0 /\ prev_min > low THEN spurious + 1 ELSE spurious
      /\ max_dev_all' = IF dev > max_dev_all THEN dev ELSE max_dev_all
      /\ variances' = Append(variances, var)
      /\ tot_var' = (tot_var + var) % 2^width
      /\ prev_min' = low
      /\ km_at' = IF Len(variances') = BOUND_OF_LOOP THEN "report" ELSE "statistics"
      /\ UNCHANGED <<km_blocks, times>>
  BY DEF Kmod!statistics, Kmod!Word
<1>3. /\ times \in Seq(MeasuredRows) /\ Len(times) = BOUND_OF_LOOP /\ Len(variances) < BOUND_OF_LOOP
      /\ Len(variances) \in Nat
  BY <1>2 DEF KmodInv, RowsInv
<1>4. c \in 1 .. Len(times) /\ c \in Nat \ {0} /\ c - 1 = Len(variances)
  BY <1>1, <1>3
<1>5. row \in MeasuredRows
  BY <1>3, <1>4
<1>6. low \in Nat /\ Kmod!max_time(row) \in Nat
  <2>1. Row(row, SIZE_OF_STAT) /\ SIZE_OF_STAT # 0
    BY <1>5, MeasuredRow
  <2>2. low \in Nat
    BY <2>1, MinimumType
  <2>3. Kmod!max_time(row) \in {row[i] : i \in 1 .. SIZE_OF_STAT}
    BY <2>1, MaximumRight
  <2>4. \A i \in 1 .. SIZE_OF_STAT : row[i] \in Nat
    BY <2>1 DEF Row
  <2> QED BY <2>2, <2>3, <2>4
<1>7. dev \in Nat
  <2> DEFINE x == Kmod!max_time(row) - low
             M == 2^width
  <2>1. x \in Int /\ M \in Nat \ {0}
    BY <1>1, <1>6
  <2> HIDE DEF x, M
  <2>2. x % M \in Nat
    BY <2>1
  <2> QED BY <2>2 DEF x, M
<1>8. /\ variances \in Seq({Kmod!var_calc(r) : r \in MeasuredRows}) /\ min_values \in Seq(Nat)
      /\ Len(min_values) = Len(variances)
      /\ \A j \in 1 .. Len(variances) :
           variances[j] = Kmod!var_calc(times[j]) /\ min_values[j] = Kmod!min_time(times[j])
  BY DEF KmodInv, RowsInv
<1>9. var \in {Kmod!var_calc(r) : r \in MeasuredRows}
  BY <1>5
<1> HIDE DEF var, low, dev, row
<1>10. /\ variances' \in Seq({Kmod!var_calc(r) : r \in MeasuredRows})
       /\ Len(variances') = c /\ variances'[c] = var
       /\ \A j \in 1 .. c - 1 : variances'[j] = variances[j]
  <2> DEFINE V == {Kmod!var_calc(r) : r \in MeasuredRows}
  <2>1. variances \in Seq(V) /\ var \in V
    BY <1>8, <1>9
  <2> HIDE DEF V
  <2>2. variances' \in Seq(V) /\ Len(variances') = c /\ variances'[c] = var
    BY <1>2, <1>4, <2>1
  <2>3. \A j \in 1 .. c - 1 : variances'[j] = variances[j]
    BY <1>2, <1>4, <2>1
  <2> QED BY <2>2, <2>3 DEF V
<1>11. /\ min_values' \in Seq(Nat) /\ Len(min_values') = c /\ min_values'[c] = low
       /\ \A j \in 1 .. c - 1 : min_values'[j] = min_values[j]
  BY <1>2, <1>4, <1>6, <1>8
<1>12. c \in 1 .. c /\ (\A j \in 1 .. c : j = c \/ j \in 1 .. c - 1) /\ \A j \in 1 .. c - 1 : j \in 1 .. c
  BY <1>4
<1>13. RowsInv'
  <2>1. c <= Len(times)
    BY <1>4
  <2>2. \A j \in 1 .. c : variances'[j] = Kmod!var_calc(times[j]) /\ min_values'[j] = Kmod!min_time(times[j])
    <3>1. ASSUME NEW j \in 1 .. c PROVE variances'[j] = Kmod!var_calc(times[j]) /\ min_values'[j] = Kmod!min_time(times[j])
      <4>1. CASE j = c
        BY <4>1, <1>10, <1>11 DEF var, low, row
      <4>2. CASE j \in 1 .. c - 1
        BY <4>2, <1>4, <1>8, <1>10, <1>11
      <4> QED BY <1>12, <4>1, <4>2
    <3> QED BY <3>1
  <2> HIDE DEF c
  <2> QED BY <1>2, <1>10, <1>11, <2>1, <2>2 DEF RowsInv
<1>14. TotalInv'
  <2>1. PICK g : /\ g[0] = 0 /\ tot_var = g[c - 1]
                 /\ \A j \in 1 .. c - 1 : g[j] = (g[j - 1] + variances[j]) % 2^width
    BY <1>4 DEF KmodInv, TotalInv
  <2> DEFINE h == [j \in 0 .. c |-> IF j = c THEN tot_var' ELSE g[j]]
  <2>2. h[0] = 0 /\ h[c] = tot_var' /\ \A j \in 0 .. c - 1 : h[j] = g[j]
    BY <1>4, <2>1
  <2> HIDE DEF h, c
  <2>3. ASSUME NEW j \in 1 .. c PROVE h[j] = (h[j - 1] + variances'[j]) % 2^width
    <3>1. j - 1 \in 0 .. c - 1
      BY <1>4
    <3>2. CASE j = c
      <4>1. h[j - 1] = tot_var
        BY <2>1, <2>2, <3>1, <3>2
      <4> QED BY <1>2, <1>10, <2>2, <3>2, <4>1
    <3>3. CASE j \in 1 .. c - 1
      <4>1. j \in 0 .. c - 1
        BY <1>4, <3>3
      <4> QED BY <1>10, <2>1, <2>2, <3>1, <3>3, <4>1
    <3> QED BY <1>12, <3>2, <3>3
  <2> QED BY <1>10, <2>2, <2>3 DEF TotalInv
<1>15. DeviationInv'
  <2>1. /\ max_dev_all \in Nat
        /\ \A j \in 1 .. c - 1 : Dev(j) <= max_dev_all
        /\ max_dev_all = 0 \/ \E j \in 1 .. c - 1 : max_dev_all = Dev(j)
    BY <1>4 DEF KmodInv, DeviationInv
  <2>2. Dev(c) = dev /\ \A j : Dev(j)' = Dev(j)
    BY <1>2 DEF Dev, dev, low, row
  <2>3. \A j \in 1 .. c - 1 : Dev(j) \in Int
    <3>1. ASSUME NEW j \in 1 .. c - 1 PROVE Dev(j) \in Int
      <4> DEFINE x == Kmod!max_time(times[j]) - Kmod!min_time(times[j])
                 M == 2^width
      <4>1. times[j] \in MeasuredRows
        BY <1>3, <1>4
      <4>2. Row(times[j], SIZE_OF_STAT) /\ SIZE_OF_STAT # 0
        BY <4>1, MeasuredRow
      <4>3. Kmod!min_time(times[j]) \in Nat /\ Kmod!max_time(times[j]) \in {times[j][i] : i \in 1 .. SIZE_OF_STAT}
        BY <4>2, MinimumType, MaximumRight
      <4>4. \A i \in 1 .. SIZE_OF_STAT : times[j][i] \in Nat
        BY <4>2 DEF Row
      <4>5. x \in Int /\ M \in Nat \ {0}
        BY <1>1, <4>3, <4>4
      <4> HIDE DEF x, M
      <4>6. x % M \in Int
        BY <4>5
      <4> QED BY <4>6 DEF x, M, Dev
    <3> QED BY <3>1
  <2>4. max_dev_all' \in Nat /\ dev <= max_dev_all' /\ max_dev_all <= max_dev_all'
        /\ max_dev_all' \in {dev, max_dev_all}
    BY <1>2, <1>7, <2>1
  <2> HIDE DEF c
  <2>5. \A j \in 1 .. c : Dev(j) <= max_dev_all'
    BY <1>7, <1>12, <2>1, <2>2, <2>3, <2>4
  <2>6. max_dev_all' = 0 \/ \E j \in 1 .. c : max_dev_all' = Dev(j)
    BY <1>12, <2>1, <2>2, <2>4
  <2> QED BY <1>10, <2>2, <2>4, <2>5, <2>6 DEF DeviationInv
<1>16. MinimaInv'
  <2>1. /\ prev_min = IF c - 1 = 0 THEN 0 ELSE min_values[c - 1]
        /\ spurious = Cardinality(Dropped(min_values, c - 1))
    BY <1>4 DEF KmodInv, MinimaInv
  <2>2. Dropped(min_values', c - 1) = Dropped(min_values, c - 1)
    <3>1. \A j \in 2 .. c - 1 : j \in 1 .. c - 1 /\ j - 1 \in 1 .. c - 1
      BY <1>4
    <3> HIDE DEF c
    <3> QED BY <1>11, <3>1 DEF Dropped
  <2>3. c >= 2 => prev_min = min_values'[c - 1]
    <3>1. c >= 2 => c - 1 # 0 /\ c - 1 \in 1 .. c - 1
      BY <1>4
    <3> HIDE DEF c
    <3> QED BY <1>11, <2>1, <3>1
  <2>4. ~(c >= 2) => prev_min = 0
    BY <1>4, <2>1
  <2>5. spurious' = Cardinality(Dropped(min_values', c))
    <3> HIDE DEF c
    <3>1. CASE c >= 2 /\ min_values'[c - 1] # 0 /\ min_values'[c - 1] > min_values'[c]
      <4>1. spurious' = spurious + 1
        BY <1>2, <1>11, <2>3, <3>1
      <4> QED BY <1>4, <2>1, <2>2, <3>1, <4>1, DroppedNext
    <3>2. CASE ~(c >= 2 /\ min_values'[c - 1] # 0 /\ min_values'[c - 1] > min_values'[c])
      <4>1. spurious' = spurious
        BY <1>2, <1>11, <2>3, <2>4, <3>2
      <4> QED BY <1>4, <2>1, <2>2, <3>2, <4>1, DroppedNext
    <3> QED BY <3>1, <3>2
  <2>6. c # 0
    BY <1>4
  <2> HIDE DEF c
  <2> QED BY <1>2, <1>10, <1>11, <2>5, <2>6 DEF MinimaInv
<1>17. Kmod!LeftAllocated'
  BY <1>2 DEF Kmod!LeftAllocated
<1>18. /\ Len(variances') = c /\ times' = times
       /\ km_at' = "report" => c = BOUND_OF_LOOP
       /\ km_at' = "statistics" => c < BOUND_OF_LOOP
       /\ km_at' \in {"report", "statistics"}
  BY <1>1, <1>2, <1>3, <1>10
<1> HIDE DEF c
<1> QED BY <1>3, <1>13, <1>14, <1>15, <1>16, <1>17, <1>18 DEF KmodInv

LEMMA KmodStepInv == KmodInv /\ (Kmod!Next \/ UNCHANGED kmodVars) => KmodInv'
<1> SUFFICES ASSUME KmodInv, Kmod!Next \/ UNCHANGED kmodVars PROVE KmodInv'
  OBVIOUS
<1>1. CASE Kmod!kmalloc \/ Kmod!kmalloc_fails
  BY <1>1, AllocateInv
<1>2. ASSUME NEW row \in MeasuredRows, Kmod!Filltimes(row) PROVE KmodInv'
  BY <1>2, FilltimesInv
<1>3. CASE Kmod!statistics
  BY <1>3, StatisticsInv
<1>4. CASE Kmod!kfree
  <2>1. km_at' = "loaded" /\ km_blocks' = {}
        /\ UNCHANGED <<times, variances, min_values, prev_min, max_dev_all, tot_var, spurious>>
    BY <1>4 DEF Kmod!kfree, Kmod!reportVars
  <2>2. times' \in Seq(MeasuredRows) /\ RowsInv' /\ TotalInv' /\ DeviationInv' /\ MinimaInv'
    BY <2>1, SameReport
  <2>3. Len(variances') = BOUND_OF_LOOP
    BY <1>4, <2>1 DEF KmodInv, Kmod!kfree
  <2> QED BY <2>1, <2>2, <2>3 DEF KmodInv, Kmod!LeftAllocated
<1>5. CASE UNCHANGED kmodVars
  <2>1. UNCHANGED <<km_at, km_blocks, times, variances, min_values, prev_min, max_dev_all, tot_var, spurious>>
    BY <1>5 DEF kmodVars
  <2>2. times' \in Seq(MeasuredRows) /\ RowsInv' /\ TotalInv' /\ DeviationInv' /\ MinimaInv'
    BY <2>1, SameReport
  <2>3. Kmod!LeftAllocated'
    BY <2>1 DEF KmodInv, Kmod!LeftAllocated
  <2> QED BY <2>1, <2>2, <2>3 DEF KmodInv
<1> QED BY <1>1, <1>2, <1>3, <1>4, <1>5 DEF Kmod!Next, Kmod!Terminated, Kmod!kmodVars, kmodVars, MeasuredRows

LEMMA ReportRight == KmodInv => Kmod!StatisticsRight
<1> SUFFICES ASSUME KmodInv, km_at = "report" PROVE Kmod!StatisticsRight
  BY DEF Kmod!StatisticsRight
<1> DEFINE B == BOUND_OF_LOOP
           n == SIZE_OF_STAT
<1>1. B \in Nat \ {0} /\ n \in Nat \ {0} /\ 2^width \in Nat \ {0}
  BY KmodAssumption
<1>2. times \in Seq(MeasuredRows) /\ Len(times) = B /\ Len(variances) = B /\ Len(min_values) = B
  BY DEF KmodInv, RowsInv
<1>3. \A j \in 1 .. B : times[j] \in MeasuredRows
  BY <1>2
<1>4. \A j \in 1 .. B : Row(times[j], n) /\ \A i \in 1 .. n : times[j][i] \in 0 .. 2^width - 1
  BY <1>3, MeasuredRow
<1>5. /\ variances = [j \in 1 .. B |-> Kmod!var_calc(times[j])]
      /\ min_values = [j \in 1 .. B |-> Kmod!min_time(times[j])]
  <2>1. /\ \A j \in 1 .. B : variances[j] = Kmod!var_calc(times[j]) /\ min_values[j] = Kmod!min_time(times[j])
        /\ variances \in Seq({Kmod!var_calc(row) : row \in MeasuredRows}) /\ min_values \in Seq(Nat)
    BY <1>2 DEF KmodInv, RowsInv
  <2>2. variances = [j \in 1 .. B |-> variances[j]] /\ min_values = [j \in 1 .. B |-> min_values[j]]
    <3> DEFINE V == {Kmod!var_calc(row) : row \in MeasuredRows}
    <3>1. variances \in Seq(V) /\ min_values \in Seq(Nat)
      BY <2>1
    <3> HIDE DEF V, B
    <3> QED BY <1>2, <3>1
  <2> QED BY <2>1, <2>2
<1> HIDE DEF B, n
<1>6. ASSUME NEW j \in 1 .. B, Kmod!Fits(times[j])
      PROVE  variances[j] = Kmod!Variance(times[j]) /\ Kmod!Variance(times[j]) \in 0 .. 2^width - 1
  <2>1. Kmod!var_calc(times[j]) = Kmod!Variance(times[j]) /\ Kmod!Variance(times[j]) \in 0 .. 2^width - 1
    BY <1>1, <1>4, <1>6, VarianceRight
  <2> QED BY <1>5, <2>1
<1>9. ASSUME NEW j \in 1 .. B, Kmod!SumBeforeLast(times[j]) >= 2^width
      PROVE  variances[j] = Kmod!minus_EINVAL
  <2>1. Row(times[j], n) /\ n # 0 /\ (\A i \in 1 .. n : times[j][i] \in 0 .. 2^width - 1)
    BY <1>1, <1>4
  <2>2. Kmod!var_calc(times[j]) = Kmod!minus_EINVAL
    BY <1>9, <2>1, OverflowReported
  <2> QED BY <1>5, <2>2
<1>7. ASSUME \A j \in 1 .. B : Kmod!Fits(times[j]),
             NEW real, real = [j \in 1 .. B |-> Kmod!Variance(times[j])]
      PROVE  /\ Kmod!SumOf(real) < 2^width => Kmod!total_variance = Kmod!SumOf(real) \div BOUND_OF_LOOP
             /\ Kmod!Fits(real) => Kmod!var_of_vars = Kmod!Variance(real)
  <2>1. \A j \in 1 .. B : real[j] \in Nat
    BY <1>1, <1>6, <1>7
  <2>2. Row(real, B)
    BY <1>1, <1>7, <2>1 DEF Row
  <2>3. variances = real
    BY <1>5, <1>6, <1>7
  <2>4. ASSUME Kmod!SumOf(real) < 2^width PROVE tot_var = Kmod!SumOf(real)
    <3>1. PICK t : SumsOf(t, real, B) /\ Kmod!SumOf(real) = t[B]
      BY <2>2, SumIsLast
    <3>2. PICK g : /\ g[0] = 0 /\ tot_var = g[B]
                   /\ \A j \in 1 .. B : g[j] = (g[j - 1] + real[j]) % 2^width
      BY <1>2, <2>3 DEF KmodInv, TotalInv
    <3>3. \A i \in 0 .. B : g[i] = t[i]
      BY <2>2, <2>4, <3>1, <3>2, WordsAreSums
    <3>4. B \in 0 .. B
      BY <1>1
    <3> QED BY <3>1, <3>2, <3>3, <3>4
  <2>5. Kmod!Fits(real) => Kmod!var_of_vars = Kmod!Variance(real)
    BY <1>1, <2>2, <2>3, VarianceRight DEF Kmod!var_of_vars
  <2> QED BY <2>4, <2>5 DEF Kmod!total_variance
<1> DEFINE Cycles(j) == {times[j][i] : i \in 1 .. n}
<1>8. ASSUME \A j \in 1 .. B, i \in 1 .. n : times[j][i] # 0,
             NEW minima, minima = [j \in 1 .. B |-> Kmod!Min(Cycles(j))]
      PROVE  /\ max_dev_all = Kmod!Max({Kmod!Max(Cycles(j)) - Kmod!Min(Cycles(j)) : j \in 1 .. B})
             /\ Kmod!Fits(minima) => Kmod!var_of_mins = Kmod!Variance(minima)
             /\ spurious = Kmod!Cardinality({j \in 2 .. B : minima[j - 1] > minima[j]})
  <2> DEFINE low(j) == Kmod!min_time(times[j])
             high(j) == Kmod!max_time(times[j])
  <2>1. ASSUME NEW j \in 1 .. B
        PROVE  /\ low(j) = Kmod!Min(Cycles(j)) /\ high(j) = Kmod!Max(Cycles(j))
               /\ low(j) \in 1 .. 2^width - 1 /\ high(j) \in 1 .. 2^width - 1 /\ low(j) <= high(j)
    <3>1. Row(times[j], n) /\ n # 0 /\ \A i \in 1 .. n : times[j][i] # 0 /\ times[j][i] \in 0 .. 2^width - 1
      BY <1>1, <1>4, <1>8
    <3>2. low(j) = Kmod!Min(Cycles(j)) /\ low(j) \in Cycles(j)
      BY <3>1, MinimumRight
    <3>3. high(j) = Kmod!Max(Cycles(j)) /\ high(j) \in Cycles(j) /\ \A i \in 1 .. n : times[j][i] <= high(j)
      BY <3>1, MaximumRight
    <3>4. \A y \in Cycles(j) : y \in 1 .. 2^width - 1 /\ y <= high(j)
      BY <1>1, <3>1, <3>3
    <3> HIDE DEF low, high, Cycles
    <3> QED BY <3>2, <3>3, <3>4
  <2>2. minima = min_values
    BY <1>5, <1>8, <2>1
  <2>3. \A j \in 1 .. B : minima[j] = low(j) /\ minima[j] \in Nat \ {0}
    BY <1>1, <1>8, <2>1
  <2>4. ASSUME NEW j \in 1 .. B
        PROVE  Dev(j) = Kmod!Max(Cycles(j)) - Kmod!Min(Cycles(j)) /\ Dev(j) \in Nat
    <3> DEFINE M == 2^width
               x == high(j) - low(j)
    <3>1. x \in 0 .. M - 1 /\ M \in Nat \ {0}
      <4>1. low(j) \in 1 .. 2^width - 1 /\ high(j) \in 1 .. 2^width - 1 /\ low(j) <= high(j)
        BY <2>1
      <4> HIDE DEF low, high
      <4> QED BY <1>1, <4>1
    <3>2. x % M = x
      <4> HIDE DEF x, M
      <4> QED BY <3>1
    <3>3. Dev(j) = x
      BY <3>2 DEF Dev
    <3>4. x = Kmod!Max(Cycles(j)) - Kmod!Min(Cycles(j))
      BY <2>1
    <3> HIDE DEF x, M
    <3> QED BY <3>1, <3>3, <3>4
  <2>5. max_dev_all = Kmod!Max({Kmod!Max(Cycles(j)) - Kmod!Min(Cycles(j)) : j \in 1 .. B})
    <3> DEFINE S == {Kmod!Max(Cycles(j)) - Kmod!Min(Cycles(j)) : j \in 1 .. B}
    <3>1. S = {Dev(j) : j \in 1 .. B}
      BY <2>4
    <3>2. /\ max_dev_all \in Nat /\ \A j \in 1 .. B : Dev(j) <= max_dev_all
          /\ max_dev_all = 0 \/ \E j \in 1 .. B : max_dev_all = Dev(j)
      BY <1>2 DEF KmodInv, DeviationInv
    <3>3. \E j \in 1 .. B : max_dev_all = Dev(j)
      <4>1. CASE max_dev_all = 0
        <5>1. 1 \in 1 .. B
          BY <1>1
        <5>2. Dev(1) \in Nat /\ Dev(1) <= 0
          BY <2>4, <3>2, <4>1, <5>1
        <5>3. Dev(1) = 0
          BY <5>2
        <5> QED BY <4>1, <5>1, <5>3
      <4> QED BY <3>2, <4>1
    <3> HIDE DEF S
    <3>4. S \in SUBSET Int /\ max_dev_all \in S /\ \A y \in S : y <= max_dev_all
      <4>1. \A j \in 1 .. B : Dev(j) \in Int /\ Dev(j) <= max_dev_all
        <5>1. \A j \in 1 .. B : Dev(j) \in Nat
          BY <2>4
        <5> QED BY <3>2, <5>1
      <4>2. max_dev_all \in S
        BY <3>1, <3>3
      <4> QED BY <3>1, <4>1, <4>2
    <3>5. Kmod!Max(S) = max_dev_all
      BY <3>4, KmodMax
    <3> QED BY <3>5 DEF S
  <2>6. Kmod!Fits(minima) => Kmod!var_of_mins = Kmod!Variance(minima)
    <3>1. Row(minima, B)
      BY <1>1, <1>8, <2>3 DEF Row
    <3> QED BY <1>1, <2>2, <3>1, VarianceRight DEF Kmod!var_of_mins
  <2>7. spurious = Kmod!Cardinality({j \in 2 .. B : minima[j - 1] > minima[j]})
    <3>1. spurious = Cardinality(Dropped(minima, B))
      BY <1>2, <2>2 DEF KmodInv, MinimaInv
    <3>2. \A j \in 2 .. B : j - 1 \in 1 .. B
      BY <1>1
    <3>3. Dropped(minima, B) = {j \in 2 .. B : minima[j - 1] > minima[j]}
      BY <2>3, <3>2 DEF Dropped
    <3> QED BY <3>1, <3>3, SameCardinalityKmod
  <2> QED BY <2>5, <2>6, <2>7
<1> QED BY <1>6, <1>7, <1>8, <1>9 DEF Kmod!StatisticsRight, B, n

\* For any number and length of the rows, any measured times and any width of the words, what tsc_kmod
\* prints is right as long as the squares fit, a sum that overflows before its last addition is
\* reported, a module that printed its report has freed its memory, and one that ran out of memory
\* has lost the array of rows, all of its rows or nothing.
THEOREM KernelModuleIsRight == SequentialPrograms => []KernelModuleRight
<1>1. KmodInv /\ [Step]_allVars => KmodInv'
  BY ProgramStep, KmodStepInv
<1>2. KmodInv => KernelModuleRight
  BY ReportRight DEF KmodInv, KernelModuleRight
<1> QED BY <1>1, <1>2, KmodInit, PTL DEF SequentialPrograms

=============================================================================
