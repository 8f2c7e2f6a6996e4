--------------------------- MODULE MCThreadPrograms ---------------------------
(***************************************************************************)
(* The programs that test thread synchronisation and the design study for  *)
(* the read/write spin lock, one at a time: a behaviour is a run of one of *)
(* them, and the variables of the others stay as they are.                 *)
(***************************************************************************)
EXTENDS RWSpinLock

CONSTANTS
  Waiters, Posters, Posts,
  Sleepers, Triggers, post_amount, number_of_times_to_wait_per_sleeper,
  number_of_times_to_post_per_trigger, Limit

\* main() of genmc_spinsemaphore_test can only join all threads when there is a token for every
\* one of them, and ends with count == 0 only if there are no more.
ASSUME BalanceAssumption ==
  /\ IsFiniteSet(Waiters) /\ IsFiniteSet(Posters) /\ Waiters \cap Posters = {}
  /\ Posts \in Nat \ {0}
  /\ Cardinality(Waiters) = Posts * Cardinality(Posters)

\* The constants of spin_wakeup_test: the triggers post as many tokens as the sleepers take.
ASSUME WakeupAssumption ==
  /\ IsFiniteSet(Sleepers) /\ IsFiniteSet(Triggers) /\ Sleepers \cap Triggers = {}
  /\ post_amount \in Nat \ {0} /\ Limit \in Nat
  /\ number_of_times_to_wait_per_sleeper \in Nat \ {0}
  /\ number_of_times_to_post_per_trigger \in Nat \ {0}
  /\ Cardinality(Sleepers) * number_of_times_to_wait_per_sleeper =
       post_amount * (Cardinality(Triggers) * number_of_times_to_post_per_trigger)

VARIABLES
  program,        \* which program was started
  m_word, qad_ntokens, qad_nwaiters, count, pc, to_wake, posted, joined, failed,
  sem_tokens, sem_waiters, delay_loop, woken_up_count, slow, fast, at, dl, n, wake_joined, wake_failed,
  m, cv_waiting, w, foo_at, main_at, stamps

Spin == INSTANCE SpinSemaphoreTest
Wakeup == INSTANCE SpinWakeup
Cv == INSTANCE CvWait

spinVars == <<m_word, qad_ntokens, qad_nwaiters, count, pc, to_wake, posted, joined, failed>>
wakeVars == <<sem_tokens, sem_waiters, delay_loop, woken_up_count, slow, fast, at, dl, n, wake_joined,
              wake_failed>>
cvVars == <<m, cv_waiting, w, foo_at, main_at, stamps>>
allVars == <<program, vars, spinVars, wakeVars, cvVars>>

Start ==
  /\ program \in {"rwspinlock_test", "genmc_spinsemaphore_test", "spin_wakeup_test", "cv_wait"}
  /\ Init /\ Spin!Init /\ Wakeup!Init /\ Cv!Init
  /\ program # "rwspinlock_test" => by = CHOOSE t \in Threads : TRUE

InLock == program = "rwspinlock_test" /\ UNCHANGED <<program, spinVars, wakeVars, cvVars>>
InSemaphoreTest == program = "genmc_spinsemaphore_test" /\ UNCHANGED <<program, vars, wakeVars, cvVars>>
InWakeupTest == program = "spin_wakeup_test" /\ UNCHANGED <<program, vars, spinVars, cvVars>>
InCvWait == program = "cv_wait" /\ UNCHANGED <<program, vars, spinVars, wakeVars>>

LockStep == InLock /\ Next
SemaphoreTestStep == InSemaphoreTest /\ Spin!Next
WakeupTestStep == InWakeupTest /\ Wakeup!Next
CvWaitStep == InCvWait /\ Cv!Next

Step == LockStep \/ SemaphoreTestStep \/ WakeupTestStep \/ CvWaitStep

\* Every thread goes on when it can; a token of the abstract semaphore is taken by some thread.
FairThreads ==
  /\ \A t \in Waiters \cup Posters : WF_allVars(InSemaphoreTest /\ Spin!step(t))
  /\ WF_allVars(InSemaphoreTest /\ Spin!join)
  /\ \A t \in Sleepers \cup Triggers : WF_allVars(InWakeupTest /\ Wakeup!work(t))
  /\ WF_allVars(InWakeupTest /\ Wakeup!take) /\ WF_allVars(InWakeupTest /\ Wakeup!join)
  /\ WF_allVars(InCvWait /\ Cv!foo) /\ WF_allVars(InCvWait /\ Cv!main)

ThreadPrograms == Start /\ [][Step]_allVars /\ FairThreads

-----------------------------------------------------------------------------

\* None of the ASSERTs of the tests fails, in any interleaving of their threads.
AllAssertsHold == Spin!AssertsHold /\ Wakeup!AssertsHold

\* The tokens of spin_wakeup_test get beyond the limit by no more than one post of every trigger.
TokensBounded == Wakeup!TokensBounded

\* The delay of spin_wakeup_test, which threads test and subtract from, never wraps around.
DelayBounded == Wakeup!DelayBounded

\* In cv_wait, main() only notifies after foo has entered wait().
NotifyAfterWait == Cv!NotifyAfterWait

\* main() of each program joins its threads in the end: no wake-up, token or notification
\* is lost.  (The walk over the lock has no threads to join.)
EventuallyJoined ==
  program # "rwspinlock_test" => <>(joined \/ wake_joined \/ main_at = "joined")

=============================================================================
