------------------------------- MODULE TscKmod -------------------------------
(***************************************************************************)
(* kmod/tsc_kmod.c: a kernel module that measures the overhead of reading  *)
(* the time stamp counter when it is loaded, and prints statistics.  The   *)
(* measured times are arbitrary; all arithmetic is unsigned and has the    *)
(* width of a uint64_t, with the tests for overflow that var_calc() does.  *)
(* hello_start() always returns 0: the module is loaded, also when it ran  *)
(* out of memory.                                                          *)
(***************************************************************************)
EXTENDS Integers, Sequences, FiniteSets, FiniteSetsExt

CONSTANTS
  SIZE_OF_STAT, BOUND_OF_LOOP,    \* 100000 and 100
  CycleTimes,                     \* what is measured
  width                           \* of uint64_t

VARIABLES
  km_at,              \* where hello_start() is
  km_blocks,          \* what was allocated and not freed: "times", 1 .. BOUND_OF_LOOP, ...
  times, variances, min_values,
  prev_min, max_dev_all, tot_var, spurious

kmodVars == <<km_at, km_blocks, times, variances, min_values, prev_min, max_dev_all, tot_var, spurious>>

Word(x) == x % 2^width
minus_EINVAL == 2^width - 22

\* The loops of var_calc(): the sum before each turn and after the last one.
sums(s) ==
  LET acc[i \in 0 .. Len(s)] == IF i = 0 THEN 0 ELSE Word(acc[i - 1] + s[i])
  IN  acc

squares(s) == [i \in 1 .. Len(s) |-> s[i] * s[i]]

Mutant_var_calc(inputs) ==
  LET size == Len(inputs)
      acc == sums(inputs)
      temp_var == sums(squares(inputs))
  IN  IF acc[size - 1] > 0 THEN minus_EINVAL
      ELSE Word(temp_var[size] * size - acc[size] * acc[size]) \div (size * size)

\* var_calc(): the variance, or -EINVAL when one of the tests finds that a sum became smaller.
\* The tests in the loops come before each addition, so none of them sees the last one.
var_calc(inputs) ==
  LET size == Len(inputs)
      acc == sums(inputs)
      temp_var == sums(squares(inputs))
      overflow ==
        \/ \E i \in 1 .. size - 1 : acc[i] < acc[i - 1] \/ temp_var[i] < temp_var[i - 1]
        \/ Word(acc[size] * acc[size]) < acc[size - 1]
        \/ Word(temp_var[size] * size) < temp_var[size - 1]
  IN  IF overflow THEN minus_EINVAL
      ELSE Word(temp_var[size] * size - acc[size] * acc[size]) \div (size * size)

\* The loop that finds min_time, for which 0 means that there is none yet.
min_time(row) ==
  LET m[i \in 0 .. Len(row)] ==
        IF i = 0 THEN 0 ELSE IF m[i - 1] = 0 \/ m[i - 1] > row[i] THEN row[i] ELSE m[i - 1]
  IN  m[Len(row)]

max_time(row) ==
  LET m[i \in 0 .. Len(row)] == IF i = 0 THEN 0 ELSE IF m[i - 1] < row[i] THEN row[i] ELSE m[i - 1]
  IN  m[Len(row)]

Init ==
  /\ km_at = "loading"
  /\ km_blocks = {}
  /\ times = <<>> /\ variances = <<>> /\ min_values = <<>>
  /\ prev_min = 0 /\ max_dev_all = 0 /\ tot_var = 0 /\ spurious = 0

reportVars == <<times, variances, min_values, prev_min, max_dev_all, tot_var, spurious>>

\* The calls of kmalloc: times, its BOUND_OF_LOOP rows, variances and min_values, in this order.
Blocks == 1 .. BOUND_OF_LOOP + 3
Rows   == 2 .. BOUND_OF_LOOP + 1

kmalloc ==
  /\ km_at = "loading"
  /\ km_blocks' = km_blocks \cup {Cardinality(km_blocks) + 1}
  /\ km_at' = IF km_blocks' = Blocks THEN "Filltimes" ELSE "loading"
  /\ UNCHANGED reportVars

\* There is no memory for the next block, and hello_start() returns 0 at once: the module is loaded.
\* If the block is a row, the rows before it are freed; everything else that was allocated is not.
kmalloc_fails ==
  /\ km_at = "loading"
  /\ km_blocks' = IF Cardinality(km_blocks) + 1 \in Rows THEN km_blocks \ Rows ELSE km_blocks
  /\ km_at' = "loaded"
  /\ UNCHANGED reportVars

\* Filltimes(): end - start of every measurement.  That it is less than 0 never happens, it is unsigned.
Filltimes(row) ==
  /\ km_at = "Filltimes"
  /\ times' = Append(times, row)
  /\ km_at' = IF Len(times') = BOUND_OF_LOOP THEN "statistics" ELSE "Filltimes"
  /\ UNCHANGED <<km_blocks, variances, min_values, prev_min, max_dev_all, tot_var, spurious>>

\* hello_start(): one turn of the loop over the rows.
statistics ==
  LET row == times[Len(variances) + 1]
      max_dev == Word(max_time(row) - min_time(row))
  IN  /\ km_at = "statistics"
      /\ min_values' = Append(min_values, min_time(row))
      /\ spurious' = IF prev_min # 0 /\ prev_min > min_time(row) THEN spurious + 1 ELSE spurious
      /\ max_dev_all' = IF max_dev > max_dev_all THEN max_dev ELSE max_dev_all
      /\ variances' = Append(variances, var_calc(row))
      /\ tot_var' = Word(tot_var + var_calc(row))
      /\ prev_min' = min_time(row)
      /\ km_at' = IF Len(variances') = BOUND_OF_LOOP THEN "report" ELSE "statistics"
      /\ UNCHANGED <<km_blocks, times>>

\* What is printed at the end.
var_of_vars == var_calc(variances)
var_of_mins == var_calc(min_values)
total_variance == tot_var \div BOUND_OF_LOOP

\* hello_start(): the end, after the report.
kfree ==
  /\ km_at = "report"
  /\ km_blocks' = {}
  /\ km_at' = "loaded"
  /\ UNCHANGED reportVars

Terminated == km_at = "loaded" /\ UNCHANGED kmodVars

Next ==
  \/ kmalloc \/ kmalloc_fails
  \/ \E row \in [1 .. SIZE_OF_STAT -> CycleTimes] : Filltimes(row)
  \/ statistics \/ kfree \/ Terminated

-----------------------------------------------------------------------------

\* The sum and the variance of a sequence, in integers that have no width.
SumOf(s) ==
  LET sum[i \in 0 .. Len(s)] == IF i = 0 THEN 0 ELSE sum[i - 1] + s[i]
  IN  sum[Len(s)]

ScaledSquares(s) == Len(s) * SumOf(squares(s))
Variance(s) == (ScaledSquares(s) - SumOf(s) * SumOf(s)) \div (Len(s) * Len(s))
Fits(s) == ScaledSquares(s) < 2^width

\* The sum of all numbers but the last one, whose addition no test of var_calc() sees.
SumBeforeLast(s) == SumOf(s) - s[Len(s)]

\* As long as the squares fit in a word, var_calc() gives the variance and never mistakes a sum for
\* one that overflowed, so the mean and the variance of the variances are right; a sum that
\* overflows before the last addition is always reported; and if no time was 0, which the loop takes
\* for "no minimum yet", the minimum and the largest deviation are right, and the
\* variance of the minima too.
StatisticsRight ==
  km_at = "report" =>
    /\ \A j \in 1 .. BOUND_OF_LOOP : Fits(times[j]) => variances[j] = Variance(times[j])
    /\ \A j \in 1 .. BOUND_OF_LOOP : SumBeforeLast(times[j]) >= 2^width => variances[j] = minus_EINVAL
    /\ (\A j \in 1 .. BOUND_OF_LOOP : Fits(times[j])) =>
         LET real == [j \in 1 .. BOUND_OF_LOOP |-> Variance(times[j])]
             sum  == SumOf(real)
         IN  /\ sum < 2^width => total_variance = sum \div BOUND_OF_LOOP
             /\ Fits(real) => var_of_vars = Variance(real)
    /\ (\A j \in 1 .. BOUND_OF_LOOP, i \in 1 .. SIZE_OF_STAT : times[j][i] # 0) =>
         LET Cycles(j) == {times[j][i] : i \in 1 .. SIZE_OF_STAT}
             minima == [j \in 1 .. BOUND_OF_LOOP |-> Min(Cycles(j))]
         IN  /\ max_dev_all = Max({Max(Cycles(j)) - Min(Cycles(j)) : j \in 1 .. BOUND_OF_LOOP})
             /\ Fits(minima) => var_of_mins = Variance(minima)
             /\ spurious = Cardinality({j \in 2 .. BOUND_OF_LOOP : minima[j - 1] > minima[j]})

\* A module that printed its report has freed everything.  One that ran out of memory before that has
\* lost, for as long as the kernel runs, exactly one of: nothing, the array of rows without a row,
\* the array with all of its rows, or these and the variances; never some of the rows.
LeftAllocated ==
  km_at = "loaded" =>
    IF Len(variances) = BOUND_OF_LOOP THEN km_blocks = {}
    ELSE km_blocks \in {{}, {1}, 1 .. BOUND_OF_LOOP + 1, 1 .. BOUND_OF_LOOP + 2}

=============================================================================
