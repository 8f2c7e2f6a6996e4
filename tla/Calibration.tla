----------------------------- MODULE Calibration -----------------------------
(***************************************************************************)
(* class Benchmark of benchmark.cxx: the calibration that its constructor  *)
(* does for every argument that is 0.  What the clock and the stopwatches  *)
(* measure is arbitrary, and the calibration has to find out by counting   *)
(* which measurements were not disturbed.  Averages and plots are left out *)
(* and so is the time that was measured: the data are taken in the order   *)
(* in which the loops over the bins of that time visit them.               *)
(***************************************************************************)
EXTENDS Naturals, Sequences, FiniteSets

CONSTANTS
  Nsi,                      \* the differences between two calls of now(), in nanoseconds
  first_peak_nsi,           \* 1000
  stop_count,               \* 1000000
  Deltas,                   \* the numbers of cycles that a stopwatch measures
  max_delta,                \* larger ones are outliers; 300
  number_of_data_points,    \* 100000
  min_count1, min_count2,   \* 40000 and 30000 of those
  target_count,             \* 10
  mma_samples,              \* 20
  w32, w64                  \* the widths of int and uint64_t

VARIABLES
  cal_at,                   \* the calibration that is being done, and where in it
  todo,                     \* the arguments of the constructor that are 0
  peak_nsi, d,              \* of calibrate_now_offset()
  data, k, cal_count, max_count, best_delta1, best_delta2,      \* of calibrate_delta()
  m_delta,
  target_delta, delta_count, samples                    \* of calibrate_cycles_per_ns()

calVars == <<cal_at, todo, peak_nsi, d, data, k, cal_count, max_count, best_delta1, best_delta2, m_delta,
             target_delta, delta_count, samples>>

nowVars == <<peak_nsi, d>>
deltaVars == <<data, k, cal_count, max_count, best_delta1, best_delta2>>
cycleVars == <<target_delta, delta_count, samples>>

NoCount(S) == [x \in S |-> 0]

\* The constructor with arguments.  A delta that is given is one that was found before.
Init ==
  /\ cal_at = "begin"
  /\ todo \in SUBSET {"now_offset", "delta", "cycles_per_ns"}
  /\ m_delta \in IF "delta" \in todo THEN {0} ELSE {x \in Deltas : x < max_delta}
  /\ peak_nsi = 0 /\ d = NoCount(Nsi)
  /\ data = <<>> /\ k = 1 /\ cal_count = NoCount(Deltas) /\ max_count = 0
  /\ best_delta1 = 0 /\ best_delta2 = 0
  /\ target_delta = <<0, 0>> /\ delta_count = <<NoCount(Deltas), NoCount(Deltas)>> /\ samples = {}

\* What the constructor does next; DoutFatal if it had anything to calibrate.
begin ==
  /\ cal_at = "begin"
  /\ cal_at' = CASE "now_offset" \in todo -> "now_offset"
                 [] "now_offset" \notin todo /\ "delta" \in todo -> "delta"
                 [] todo = {"cycles_per_ns"} -> "cycles_per_ns"
                 [] OTHER -> "end"
  /\ peak_nsi' = IF "now_offset" \in todo THEN first_peak_nsi ELSE 0
  /\ UNCHANGED <<todo, d, deltaVars, m_delta, cycleVars>>

finished(part) == cal_at' = "begin" /\ todo' = todo \ {part}

-----------------------------------------------------------------------------
(* calibrate_now_offset(): a value is the peak when it is the first to be     *)
(* measured stop_count times in two rounds in a row.                          *)

measure_now(nsi) ==
  /\ cal_at = "now_offset" /\ nsi < 4 * peak_nsi
  /\ IF d[nsi] + 1 = stop_count
       THEN /\ d' = NoCount(Nsi)
            /\ IF peak_nsi = nsi THEN finished("now_offset") /\ peak_nsi' = 0
                                 ELSE peak_nsi' = nsi /\ UNCHANGED <<cal_at, todo>>
       ELSE d' = [d EXCEPT ![nsi] = @ + 1] /\ UNCHANGED <<cal_at, todo, peak_nsi>>
  /\ UNCHANGED <<deltaVars, m_delta, cycleVars>>

-----------------------------------------------------------------------------
(* calibrate_delta()                                                         *)

measure_delta(delta1, delta2) ==
  /\ cal_at = "delta" /\ Len(data) < number_of_data_points
  /\ data' = Append(data, <<delta1, delta2>>)
  /\ cal_at' = IF Len(data') = number_of_data_points THEN "histogram1" ELSE "delta"
  /\ UNCHANGED <<todo, nowVars, k, cal_count, max_count, best_delta1, best_delta2, m_delta, cycleVars>>

\* One turn of the loop that counts the values of delta1.
histogram1 ==
  LET x == data[k][1]
  IN  /\ cal_at = "histogram1" /\ k <= Len(data)
      /\ k' = k + 1
      /\ IF x < max_delta
           THEN /\ cal_count' = [cal_count EXCEPT ![x] = @ + 1]
                /\ IF cal_count'[x] > max_count THEN max_count' = cal_count'[x] /\ best_delta1' = x
                                            ELSE UNCHANGED <<max_count, best_delta1>>
           ELSE UNCHANGED <<cal_count, max_count, best_delta1>>
      /\ UNCHANGED <<cal_at, todo, nowVars, data, best_delta2, m_delta, cycleVars>>

retry ==
  /\ cal_at' = "delta" /\ data' = <<>> /\ best_delta1' = 0 /\ best_delta2' = 0
  /\ UNCHANGED <<todo, m_delta>>

\* The end of that loop: try again, or go on with delta2.
check1 ==
  /\ cal_at = "histogram1" /\ k = Len(data) + 1
  /\ k' = 1 /\ cal_count' = NoCount(Deltas) /\ max_count' = 0
  /\ IF max_count < min_count1
       THEN retry
       ELSE cal_at' = "histogram2" /\ UNCHANGED <<todo, data, best_delta1, best_delta2, m_delta>>
  /\ UNCHANGED <<nowVars, cycleVars>>

\* The elements of the vector that counts delta2; what lies behind them can have any value.
Counted == {x \in Deltas : \E i \in 1 .. Len(data) : x <= data[i][2]}

Mutant_max_of_delta1 ==
  LET x == data[k][1]
      y == data[k][2]
  IN  /\ cal_at = "histogram2" /\ k <= Len(data)
      /\ k' = k + 1
      /\ IF y < max_delta
           THEN /\ cal_count' = [cal_count EXCEPT ![y] = @ + 1]
                /\ \/ /\ x \in Counted => cal_count'[x] > max_count
                      /\ max_count' = IF x \in Counted THEN cal_count'[x] ELSE max_count + 1
                      /\ best_delta2' = y
                   \/ /\ x \in Counted => cal_count'[x] <= max_count
                      /\ UNCHANGED <<max_count, best_delta2>>
           ELSE UNCHANGED <<cal_count, max_count, best_delta2>>
      /\ UNCHANGED <<cal_at, todo, nowVars, data, best_delta1, m_delta, cycleVars>>

\* One turn of the loop that counts the values of delta2, and looks at count[d.delta1].
histogram2 ==
  LET x == data[k][1]
      y == data[k][2]
  IN  /\ cal_at = "histogram2" /\ k <= Len(data)
      /\ k' = k + 1
      /\ IF y < max_delta
           THEN /\ cal_count' = [cal_count EXCEPT ![y] = @ + 1]
                /\ \/ /\ x \in Counted => cal_count'[x] > max_count
                      /\ max_count' = cal_count'[y] /\ best_delta2' = y
                   \/ /\ x \in Counted => cal_count'[x] <= max_count
                      /\ UNCHANGED <<max_count, best_delta2>>
           ELSE UNCHANGED <<cal_count, max_count, best_delta2>>
      /\ UNCHANGED <<cal_at, todo, nowVars, data, best_delta1, m_delta, cycleVars>>

\* The end of that loop: try again, or m_delta is known.
check2 ==
  /\ cal_at = "histogram2" /\ k = Len(data) + 1
  /\ k' = 1 /\ cal_count' = NoCount(Deltas) /\ max_count' = 0
  /\ IF max_count < min_count2 \/ best_delta2 # best_delta1
       THEN retry
       ELSE /\ m_delta' = best_delta1 /\ cal_at' = "accepted"
            /\ UNCHANGED <<todo, data, best_delta1, best_delta2>>
  /\ UNCHANGED <<nowVars, cycleVars>>

accepted ==
  /\ cal_at = "accepted"
  /\ data' = <<>> /\ best_delta1' = 0 /\ best_delta2' = 0
  /\ finished("delta")
  /\ UNCHANGED <<nowVars, k, cal_count, max_count, m_delta, cycleVars>>

-----------------------------------------------------------------------------
(* calibrate_cycles_per_ns()                                                 *)

\* target - 1 <= delta && delta <= target + 1, in unsigned arithmetic: false for a target of 0.
near(target, delta) == (target + 2^w64 - 1) % 2^w64 <= delta /\ delta <= target + 1

\* (int)delta: the lower half of a uint64_t, of which the highest bit is the sign.
AsInt(delta) ==
  LET low == delta % 2^w32
  IN  IF low < 2^(w32 - 1) THEN low ELSE low - 2^w32

\* The test that is done before a delta is counted, and the elements that the vector has.  A delta that
\* does not fit in an int can pass the test and is then used as an index far outside of the vector.
small(delta) == AsInt(delta) < 2 * m_delta
in_vector(delta) == delta < 2 * m_delta
wild(delta) == small(delta) /\ ~in_vector(delta)

\* Count one of the two deltas, if it is small.  Only whether a count becomes target_count
\* matters: beyond that it stays as it is.
counted(i, delta) ==
  IF small(delta) /\ in_vector(delta) /\ delta_count[i][delta] < target_count
    THEN [delta_count[i] EXCEPT ![delta] = @ + 1] ELSE delta_count[i]

\* The target after that: what is found outside of the vector can be target_count as well.
new_targets(i, delta) ==
  CASE ~small(delta) -> {target_delta[i]}
    [] small(delta) /\ in_vector(delta) ->
         {IF delta_count[i][delta] + 1 = target_count THEN delta ELSE target_delta[i]}
    [] wild(delta) -> {target_delta[i], delta}

Mutant_either_target(delta) ==
  /\ cal_at = "cycles_per_ns"
  /\ near(target_delta[1], delta[1]) \/ near(target_delta[2], delta[2])
  /\ samples' = samples \cup {<<Cardinality(samples), delta>>}
  /\ cal_at' = IF Cardinality(samples') = mma_samples THEN "enough" ELSE "cycles_per_ns"
  /\ UNCHANGED <<todo, nowVars, deltaVars, m_delta, target_delta, delta_count>>

\* A measurement near both targets is used.
use_sample(delta) ==
  /\ cal_at = "cycles_per_ns"
  /\ near(target_delta[1], delta[1]) /\ near(target_delta[2], delta[2])
  /\ samples' = samples \cup {<<Cardinality(samples), delta>>}
  /\ cal_at' = IF Cardinality(samples') = mma_samples THEN "enough" ELSE "cycles_per_ns"
  /\ UNCHANGED <<todo, nowVars, deltaVars, m_delta, target_delta, delta_count>>

\* As long as there is no target for one of the two, others are counted, and then rejected.
\* Counting outside of the vector ends the program if nothing is mapped there.
count_sample(delta) ==
  /\ cal_at = "cycles_per_ns"
  /\ ~(near(target_delta[1], delta[1]) /\ near(target_delta[2], delta[2]))
  /\ target_delta[1] = 0 \/ target_delta[2] = 0
  /\ delta_count' = <<counted(1, delta[1]), counted(2, delta[2])>>
  /\ target_delta' \in new_targets(1, delta[1]) \X new_targets(2, delta[2])
  /\ cal_at' \in IF wild(delta[1]) \/ wild(delta[2]) THEN {"cycles_per_ns", "crashed"} ELSE {"cycles_per_ns"}
  /\ UNCHANGED <<todo, nowVars, deltaVars, m_delta, samples>>

cycles_done ==
  /\ cal_at = "enough"
  /\ target_delta' = <<0, 0>> /\ delta_count' = <<NoCount(Deltas), NoCount(Deltas)>> /\ samples' = {}
  /\ finished("cycles_per_ns")
  /\ UNCHANGED <<nowVars, deltaVars, m_delta>>

Terminated == cal_at \in {"end", "crashed"} /\ UNCHANGED calVars

Next ==
  \/ begin
  \/ \E nsi \in Nsi : measure_now(nsi)
  \/ \E delta1, delta2 \in Deltas : measure_delta(delta1, delta2)
  \/ histogram1 \/ check1 \/ histogram2 \/ check2 \/ accepted
  \/ \E delta \in Deltas \X Deltas : use_sample(delta) \/ count_sample(delta)
  \/ cycles_done
  \/ Terminated

-----------------------------------------------------------------------------

Count(i, x) == Cardinality({j \in 1 .. Len(data) : data[j][i] = x})

\* The delta that is accepted was the most frequent value of delta1 and was a frequent value of
\* delta2 as well, although the loop over delta2 compares the count of delta1, or what
\* lies behind the vector, with the maximum.
DeltaIsFrequent ==
  cal_at = "accepted" =>
    /\ Count(1, m_delta) >= min_count1 /\ Count(2, m_delta) >= min_count2
    /\ \A x \in Deltas : x < max_delta => Count(1, x) <= Count(1, m_delta)

Distance(x, y) == IF x < y THEN y - x ELSE x - y

\* All measurements that are averaged are near one and the same pair of targets: the targets do not
\* move once a measurement was used, and 0 - 1 does not let one pass before there are targets.
\* A target was measured often enough, with one exception: a number of cycles that does not fit in
\* an int passes the test before the vector of counts is indexed, and can become the target at once.
SamplesAgree ==
  \A s \in samples, i \in {1, 2} :
    /\ target_delta[i] # 0 /\ Distance(s[2][i], target_delta[i]) <= 1
    /\ delta_count[i][target_delta[i]] >= target_count \/ target_delta[i] > AsInt(target_delta[i])

=============================================================================
