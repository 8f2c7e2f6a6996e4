------------------------------ MODULE MutexTest ------------------------------
(***************************************************************************)
(* mutex_test.cxx: num_threads threads measure the same thing at the same  *)
(* time, in rounds.  At the start of a round they meet at two counters,    *)
(* benchmarking1 and benchmarking2, on which they spin, and which each of  *)
(* them sets back to 0 when it is past them; after the rounds of one test  *)
(* they meet once more, at a counter that only grows.                      *)
(***************************************************************************)
EXTENDS Naturals, FiniteSets

CONSTANTS
  Threads,     \* num_threads of them, 2
  Rounds,      \* 21
  Tests        \* loop_count runs from 1000 down to 30

num_threads == Cardinality(Threads)

VARIABLES
  benchmarking1, benchmarking2, count,   \* the atomic counters
  pc,            \* where in run() and benchmark() a thread is
  j, test_nr,    \* its round, and its test
  joined         \* main() has joined all threads

vars == <<benchmarking1, benchmarking2, count, pc, j, test_nr, joined>>

Init ==
  /\ benchmarking1 = 0 /\ benchmarking2 = 0 /\ count = 0
  /\ pc = [t \in Threads |-> "add1"]
  /\ j = [t \in Threads |-> 1]
  /\ test_nr = [t \in Threads |-> 1]
  /\ joined = FALSE

Step(t, from, to) == pc[t] = from /\ pc' = [pc EXCEPT ![t] = to]

-----------------------------------------------------------------------------
(* benchmark(): one round                                                    *)

\* benchmarking1.fetch_add(1), and the load that ends the loop after it.
add1(t) ==
  /\ Step(t, "add1", "spin1")
  /\ benchmarking1' = benchmarking1 + 1
  /\ UNCHANGED <<benchmarking2, count, j, test_nr, joined>>

spin1(t) ==
  /\ Step(t, "spin1", "add2")
  /\ benchmarking1 >= num_threads
  /\ UNCHANGED <<benchmarking1, benchmarking2, count, j, test_nr, joined>>

\* benchmarking2.fetch_add(1), and the load that ends the loop after it.
add2(t) ==
  /\ Step(t, "add2", "spin2")
  /\ benchmarking2' = benchmarking2 + 1
  /\ UNCHANGED <<benchmarking1, count, j, test_nr, joined>>

spin2(t) ==
  /\ Step(t, "spin2", "store1")
  /\ benchmarking2 >= num_threads
  /\ UNCHANGED <<benchmarking1, benchmarking2, count, j, test_nr, joined>>

store1(t) ==
  /\ Step(t, "store1", "store2")
  /\ benchmarking1' = 0
  /\ UNCHANGED <<benchmarking2, count, j, test_nr, joined>>

\* The measurement, which leaves no lock behind, and benchmarking2.store(0).  The next
\* round follows, or the end of the test: count.fetch_add(1) comes next.
store2(t) ==
  /\ Step(t, "store2", IF j[t] = Rounds THEN "count" ELSE "add1")
  /\ benchmarking2' = 0
  /\ j' = [j EXCEPT ![t] = IF @ = Rounds THEN 1 ELSE @ + 1]
  /\ UNCHANGED <<benchmarking1, count, test_nr, joined>>

benchmark(t) == add1(t) \/ spin1(t) \/ add2(t) \/ spin2(t) \/ store1(t) \/ store2(t)

-----------------------------------------------------------------------------
(* run() and main()                                                          *)

add_count(t) ==
  /\ Step(t, "count", "spin count")
  /\ count' = count + 1
  /\ UNCHANGED <<benchmarking1, benchmarking2, j, test_nr, joined>>

spin_count(t) ==
  /\ Step(t, "spin count", IF test_nr[t] = Tests THEN "returned" ELSE "add1")
  /\ count >= test_nr[t] * num_threads
  /\ test_nr' = [test_nr EXCEPT ![t] = @ + 1]
  /\ UNCHANGED <<benchmarking1, benchmarking2, count, j, joined>>

run(t) == benchmark(t) \/ add_count(t) \/ spin_count(t)

join ==
  /\ \A t \in Threads : pc[t] = "returned"
  /\ ~joined /\ joined' = TRUE
  /\ UNCHANGED <<benchmarking1, benchmarking2, count, pc, j, test_nr>>

Next == join \/ \E t \in Threads : run(t)

\* Each thread has a CPU of its own.
Fairness == WF_vars(join) /\ \A t \in Threads : WF_vars(run(t))

Spec == Init /\ [][Next]_vars /\ Fairness

-----------------------------------------------------------------------------

\* "Synchronize all threads again...": the threads meet in every round, so that all of them
\* get through all rounds of all tests and main() joins them.
AllRoundsEnd == <>joined

=============================================================================
