--------------------------- MODULE MutexBenchmark ---------------------------
(***************************************************************************)
(* mutex_benchmark.cxx: in each run main() starts the threads, wakes them  *)
(* with a condition variable, releases them with the atomic flag `block'   *)
(* and joins them.  The two sleeps of main() are taken to be long enough:  *)
(* all threads wait when it calls notify_all() and all of them spin when   *)
(* it clears the flag.                                                     *)
(***************************************************************************)
EXTENDS Naturals

CONSTANTS
  Threads,     \* number_of_threads of them, 4
  Loops,       \* how often a thread locks the mutex, 240000 / number_of_threads
  Runs,        \* 100
  NoThread

VARIABLES
  run, main,   \* the loop counter of main() and where in a run it is
  pc, i,       \* where in thread_main() a thread is, and its loop counter
  block,       \* the atomic_flag
  owner        \* who has locked the std::mutex m

vars == <<run, main, pc, i, block, owner>>

Init ==
  /\ run = 0
  /\ main = "start"
  /\ pc = [t \in Threads |-> "joined"]
  /\ i = [t \in Threads |-> 0]
  /\ block = FALSE
  /\ owner = NoThread

Goto(t, p) == pc' = [pc EXCEPT ![t] = p]

-----------------------------------------------------------------------------
(* thread_main()                                                             *)

\* cv.wait(lk), up to the moment it sleeps.
Wait(t) ==
  /\ pc[t] = "started"
  /\ Goto(t, "waiting")
  /\ UNCHANGED <<run, main, i, block, owner>>

\* cv.wait has no predicate: it may also return when nobody called notify_all().
SpuriousWakeup(t) ==
  /\ pc[t] = "waiting"
  /\ Goto(t, "spinning")
  /\ UNCHANGED <<run, main, i, block, owner>>

\* The last test_and_set of the loop: the one that found the flag clear, and set it.
Spin(t) ==
  /\ pc[t] = "spinning" /\ ~block
  /\ block' = TRUE
  /\ Goto(t, "running")
  /\ UNCHANGED <<run, main, i, owner>>

lock(t) ==
  /\ pc[t] = "running" /\ i[t] < Loops /\ owner = NoThread
  /\ owner' = t
  /\ Goto(t, "locked")
  /\ UNCHANGED <<run, main, i, block>>

unlock(t) ==
  /\ pc[t] = "locked"
  /\ owner' = NoThread
  /\ i' = [i EXCEPT ![t] = @ + 1]
  /\ Goto(t, "running")
  /\ UNCHANGED <<run, main, block>>

Return(t) ==
  /\ pc[t] = "running" /\ i[t] = Loops
  /\ Goto(t, "joined")
  /\ UNCHANGED <<run, main, i, block, owner>>

thread_main(t) == Wait(t) \/ Spin(t) \/ lock(t) \/ unlock(t) \/ Return(t)

-----------------------------------------------------------------------------
(* main()                                                                    *)

StartThreads ==
  /\ main = "start" /\ run < Runs
  /\ block' = TRUE
  /\ pc' = [t \in Threads |-> "started"]
  /\ i' = [t \in Threads |-> 0]
  /\ main' = "notify"
  /\ UNCHANGED <<run, owner>>

NotifyAll ==
  /\ main = "notify"
  /\ \A t \in Threads : pc[t] # "started"
  /\ pc' = [t \in Threads |-> IF pc[t] = "waiting" THEN "spinning" ELSE pc[t]]
  /\ main' = "clear"
  /\ UNCHANGED <<run, i, block, owner>>

Clear ==
  /\ main = "clear"
  /\ block' = FALSE
  /\ main' = "join"
  /\ UNCHANGED <<run, pc, i, owner>>

\* The results of the run may be the ones that end the test.
JoinThreads ==
  /\ main = "join"
  /\ \A t \in Threads : pc[t] = "joined"
  /\ run' \in {run + 1, Runs}
  /\ main' = "start"
  /\ UNCHANGED <<pc, i, block, owner>>

Main == StartThreads \/ NotifyAll \/ Clear \/ JoinThreads

Next == Main \/ \E t \in Threads : thread_main(t) \/ SpuriousWakeup(t)

\* All threads keep being scheduled, and get the mutex if it is free time and again.
Fairness ==
  /\ WF_vars(Main)
  /\ \A t \in Threads : WF_vars(thread_main(t)) /\ SF_vars(lock(t))

Spec == Init /\ [][Next]_vars /\ Fairness

-----------------------------------------------------------------------------

\* "Really start", "Join all threads": every run ends, the flag having let all the
\* threads that spin on it go.
EveryRunEnds == <>(run = Runs)

=============================================================================
