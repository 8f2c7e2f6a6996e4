---------------------------- MODULE TaskCounters ----------------------------
(***************************************************************************)
(* wait_signal_test2.cxx: the design study for wait() and signal() with    *)
(* "required" conditions.  Every condition has a counter: 0 is waiting for *)
(* a signal, 1 is neutral, 2 is signalled before anybody waited.  A wait   *)
(* decrements the counters of its mask, a signal increments them.  The     *)
(* program builds the graph of all operations on all 3^4 states and then   *)
(* runs every sequence of up to four operations through it; here the       *)
(* operations are the actions, in every order, with no bound on how many.  *)
(*                                                                         *)
(* `waited' and `signalled' are history: the mask of the latest wait and   *)
(* every condition signalled for it, before or after it was called.        *)
(***************************************************************************)
EXTENDS Naturals

CONSTANTS
  Conditions,   \* the counter indices, 0 .. 3 in the program
  Required      \* those for which is_required() is true, 2 and 3

ASSUME RequiredAssumption == Required \subseteq Conditions

VARIABLES
  m_counters,   \* [Conditions -> 0 .. 2]
  running,      \* no counter is idle
  waited,
  signalled

vars == <<m_counters, running, waited, signalled>>

Masks == (SUBSET Conditions) \ {{}}

Normal == Conditions \ Required

-----------------------------------------------------------------------------
(* Task and Counter                                                          *)

\* Task::has_idle_counter and Task::required_is_idle.
has_idle_counter(c) == \E i \in Conditions : c[i] = 0
required_is_idle(c) == \E i \in Required : c[i] = 0

\* Counter::wait and Counter::signal on every counter of the mask.
wait_counters(c, mask) ==
  [i \in Conditions |-> IF i \in mask THEN c[i] - 1 ELSE c[i]]
signal_counters(c, mask) ==
  [i \in Conditions |-> IF i \in mask /\ c[i] # 2 THEN c[i] + 1 ELSE c[i]]

\* When Counter::wait or Counter::signal does not throw NotAllowed.
wait_allowed(c, mask)   == \A i \in mask : c[i] # 0
signal_allowed(c, mask) == has_idle_counter(c) => \A i \in mask : c[i] = 0

\* The result of Task::wait and Task::signal: a counter of a normal condition
\* arrived at 1, after a wait from 2 and after a signal from 0.
OR_counter_woke_up(c, mask, from) == \E i \in mask \ Required : c[i] = from

\* Task::reset and Task::reset_OR_counters.
reset == [i \in Conditions |-> 1]
Mutant_keep_OR_counters(c) == c
reset_OR_counters(c) ==
  [i \in Conditions |-> IF i \notin Required /\ c[i] = 0 THEN 1 ELSE c[i]]

Mutant_ignore_required(c, mask) ==
  LET c2 == signal_counters(c, mask)
      OR == OR_counter_woke_up(c, mask, 0)
      woken_up == has_idle_counter(c) /\ (OR \/ ~has_idle_counter(c2))
  IN  IF woken_up THEN reset ELSE IF OR THEN reset_OR_counters(c2) ELSE c2

\* The node that graph[s][signal(mask)] leads to.
after_signal(c, mask) ==
  LET c2   == signal_counters(c, mask)
      OR   == OR_counter_woke_up(c, mask, 0)
      woken_up == /\ has_idle_counter(c)
                  /\ ~required_is_idle(c2)
                  /\ OR \/ ~has_idle_counter(c2)
  IN  IF woken_up THEN reset ELSE IF OR THEN reset_OR_counters(c2) ELSE c2

\* The node that graph[s][wait(mask)] leads to.
after_wait(c, mask) ==
  LET c2 == wait_counters(c, mask)
      OR == OR_counter_woke_up(c, mask, 2)
      woken_up == ~required_is_idle(c2) /\ OR
  IN  IF woken_up THEN reset ELSE IF OR THEN reset_OR_counters(c2) ELSE c2

-----------------------------------------------------------------------------

Init ==
  /\ m_counters = reset
  /\ running = TRUE
  /\ waited = {}
  /\ signalled = {}

\* A task that runs again after a wait starts from scratch: what was signalled for
\* that wait has been used up.
pending == IF running /\ waited # {} THEN {} ELSE signalled

\* The test loop: a wait is not allowed while not running; a task that is still
\* running after it goes on from set_state(40), all counters 1.
Wait(mask) ==
  /\ running
  /\ wait_allowed(m_counters, mask)
  /\ LET next_state == after_wait(m_counters, mask)
     IN  /\ running' = ~has_idle_counter(next_state)
         /\ m_counters' = IF running' THEN reset ELSE next_state
  /\ waited' = mask
  /\ signalled' = pending

Signal(mask) ==
  /\ signal_allowed(m_counters, mask)
  /\ m_counters' = after_signal(m_counters, mask)
  /\ running' = ~has_idle_counter(m_counters')
  /\ signalled' = pending \cup mask
  /\ waited' = IF running THEN {} ELSE waited

Next == \E mask \in Masks : Wait(mask) \/ Signal(mask)

Spec == Init /\ [][Next]_vars

-----------------------------------------------------------------------------

\* The values the counters and the history can have; a counter stays in 0 .. 2.
TypeOK ==
  /\ m_counters \in [Conditions -> 0 .. 2]
  /\ running \in BOOLEAN
  /\ waited \in SUBSET Conditions
  /\ signalled \in SUBSET Conditions

\* What a wait waits for: all of its required conditions and, if it has normal
\* conditions, at least one of those.
Satisfied ==
  /\ waited \cap Required \subseteq signalled
  /\ waited \cap Normal # {} => waited \cap Normal \cap signalled # {}

\* The task runs exactly when its latest wait is satisfied, whether the signals came
\* before the wait, after it, one by one or several at once: no signal is lost, and
\* none wakes the task too early.
RunsIffSatisfied == running <=> Satisfied

\* What the counters mean: 2 is a signal that no wait has used yet, 0 is a condition
\* the task still waits for (a normal one no longer once any normal one was
\* signalled), and 1 is everything else.
NormalSignalled == waited \cap Normal \cap signalled # {}

StillWaitedFor(i) ==
  ~running /\ i \in waited \ signalled /\ (i \in Normal => ~NormalSignalled)

SignalledEarly(i) == i \in pending /\ (running \/ i \notin waited)

CountersTell ==
  \A i \in Conditions :
    /\ m_counters[i] = 0 <=> StillWaitedFor(i)
    /\ m_counters[i] = 2 <=> SignalledEarly(i)

=============================================================================
