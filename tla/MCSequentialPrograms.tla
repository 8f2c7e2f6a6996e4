------------------------- MODULE MCSequentialPrograms -------------------------
(***************************************************************************)
(* The programs and designs in which everything happens in one thread, one *)
(* at a time: a behaviour is a run of one of them, and the variables of    *)
(* the others stay as they are.                                            *)
(***************************************************************************)
EXTENDS TaskCounters

CONSTANTS
  SIZE_OF_STAT, BOUND_OF_LOOP, CycleTimes, width,
  Nsi, first_peak_nsi, stop_count, Deltas, max_delta, number_of_data_points, min_count1, min_count2,
  target_count, mma_samples, w32, w64,
  oq_capacity, oq_loops

VARIABLES
  program,        \* which program was started
  test, pc, task, failed,
  km_at, km_blocks, times, variances, min_values, prev_min, max_dev_all, tot_var, spurious,
  cal_at, todo, peak_nsi, d, data, k, cal_count, max_count, best_delta1, best_delta2, m_delta,
  target_delta, delta_count, samples,
  oq_at, oq_i, object_queue, pa, bf, bf2, oq_failed

\* What tsc_kmod measures fits in a uint64_t.
ASSUME KmodAssumption ==
  /\ SIZE_OF_STAT \in Nat \ {0} /\ BOUND_OF_LOOP \in Nat \ {0}
  /\ width \in Nat /\ 2^width \in Nat \ {0} /\ CycleTimes \subseteq 0 .. 2^width - 1

\* The constants of benchmark: what a stopwatch measures fits in a uint64_t, and a value is only
\* accepted if it was measured.
ASSUME CalibrationAssumption ==
  /\ w32 \in Nat \ {0} /\ 2^w32 \in Nat \ {0} /\ w64 \in Nat /\ 2^w64 \in Nat /\ 2^w64 > 2 /\ Deltas \subseteq 0 .. 2^w64 - 1
  /\ max_delta \in Nat /\ number_of_data_points \in Nat
  /\ min_count1 \in Nat \ {0} /\ min_count2 \in Nat \ {0} /\ target_count \in Nat

\* objectqueue has a function in the queue when it moves the second one in.
ASSUME QueueAssumption == oq_capacity \in Nat /\ oq_capacity >= 2

Scripts == INSTANCE WaitSignalTest
Kmod == INSTANCE TscKmod
Bm == INSTANCE Calibration
Queue == INSTANCE ObjectQueue

scriptVars == <<test, pc, task, failed>>
kmodVars == <<km_at, km_blocks, times, variances, min_values, prev_min, max_dev_all, tot_var, spurious>>
calVars == <<cal_at, todo, peak_nsi, d, data, k, cal_count, max_count, best_delta1, best_delta2, m_delta,
             target_delta, delta_count, samples>>
oqVars == <<oq_at, oq_i, object_queue, pa, bf, bf2, oq_failed>>
allVars == <<program, vars, scriptVars, kmodVars, calVars, oqVars>>

Start ==
  /\ program \in {"wait_signal_test", "wait_signal_test2", "tsc_kmod", "benchmark", "objectqueue"}
  /\ Init /\ Scripts!Init /\ Kmod!Init /\ Bm!Init /\ Queue!Init
  /\ program # "benchmark" => todo = {"delta"}

ScriptsStep ==
  program = "wait_signal_test" /\ Scripts!Next /\ UNCHANGED <<program, vars, kmodVars, calVars, oqVars>>
CountersStep ==
  program = "wait_signal_test2" /\ Next /\ UNCHANGED <<program, scriptVars, kmodVars, calVars, oqVars>>
KmodStep ==
  program = "tsc_kmod" /\ Kmod!Next /\ UNCHANGED <<program, vars, scriptVars, calVars, oqVars>>
BenchmarkStep ==
  program = "benchmark" /\ Bm!Next /\ UNCHANGED <<program, vars, scriptVars, kmodVars, oqVars>>
QueueStep ==
  program = "objectqueue" /\ Queue!Next /\ UNCHANGED <<program, vars, scriptVars, kmodVars, calVars>>

Step == ScriptsStep \/ CountersStep \/ KmodStep \/ BenchmarkStep \/ QueueStep

SequentialPrograms == Start /\ [][Step]_allVars

-----------------------------------------------------------------------------

\* No ASSERT of the 66 scripts of wait_signal_test fails.
ScriptsPass == Scripts!ScriptsPass

\* In wait_signal_test, every condition moves along the diagram, whatever the other one does.
Diagram == Scripts!Diagram

\* What tsc_kmod prints is right as long as the words are wide enough, an overflow before the last
\* addition is reported, and what stays allocated is exactly what its error paths leave.
KernelModuleRight == Kmod!StatisticsRight /\ Kmod!LeftAllocated

\* The delta that benchmark accepts was frequent in both columns of its data.
DeltaIsFrequent == Bm!DeltaIsFrequent

\* All samples that benchmark averages are near one and the same pair of targets, which were measured
\* often enough unless they do not fit in an int.
SamplesAgree == Bm!SamplesAgree

\* objectqueue respects the rules of the queue, and never calls a function it moved from.
QueueUsedRight == Queue!QueueUsedRight

=============================================================================
