# Verification of ai-statefultask-testsuite

TLA+ models of the programs of this repository, model-checked with TLC, and theorems about
them checked by TLAPS.  `src/` is a collection of test programs, design studies and
benchmarks for asynchronous tasks.  The classes they exercise (`AIStatefulTask`,
`AIThreadPool`, `AIStatefulTaskMutex`, the timers, the semaphore) are in git submodules and
are not part of this repository: where a program uses one, the model has a small *external*
definition of what the program relies on, and says so.

## 1. Inventory

| Component | State | Operations | Interaction and what is hard | What makes it correct |
|---|---|---|---|---|
| `wait_signal_test.cxx` | condition word of one task | `wait`, `signal`, three `assert_` functions, 66 scripts | order of calls on two conditions | every script passes; each condition follows the diagram |
| `wait_signal_test2.cxx` | four counters | `wait(mask)`, `signal(mask)` | signals before and after the wait, normal and required conditions together | the task runs iff its wait is satisfied |
| `AIStatefulTaskMutex_test.cxx` | run state per task, mutex, three atomic counters, `first`, gate | `multiplex_impl`, `run`, finish callback | threads of a pool; `unlock` signals a task that may not have called `wait(1)` yet; a busy wait that occupies a thread | exclusion, no lost wakeup, no failed ASSERT, the end is reached |
| `helloworld.cxx` | two tasks, `m_bumped`, number of tasks | `multiplex_impl`, `bump` | flag and signal are two steps; a task is destructed when it finishes | no lost bump; no use of a task that is gone |
| `fibonacci.cxx` | a tree of tasks with their numbers | `multiplex_impl` | two subtasks signal one condition | the right number; no parent sleeps for ever |
| `runthread.cxx` | a task, its queue, a gate | `dispatch` of two functions | the function may return before the task waits for it | results are there when they are read |
| `threadpool_yield_test.cxx` | a task with a yield code, its handler, a timer | `yield`, `abort`, time-out | a time-out at any moment | each state runs in the handler of its code |
| `threadpool.cxx` | queue, tasks in execution, a gate | add tasks, tasks that run again | a task that opens the gate is overtaken | the queue is empty when the gate was passed |
| `tree_prop.cc` | values and the tree of indices over them | repair after a value became less or greater | ties; stopping early | the tree is sane again |
| `rwspinlock_test.cxx` | counters c, w, v, r | six transitions, four follow-ups | a thread adds itself before it knows whether it may | never illegal, stable afterwards, a writer is alone |
| `genmc_spinsemaphore_test.c` | the fields of the semaphore word, a futex, `count` | post and wait threads | a wake-up that finds nobody asleep yet; a woken thread whose token is gone | the asserts hold, every thread is joined |
| `spin_wakeup_test.cxx` | tokens, the shared `delay_loop`, counters | sleepers and triggers | test then post; load then compare-and-exchange | bounded tokens, no wrap-around, all joined |
| `cv_wait.cxx` | mutex, condition variable, `w` | a handshake in thirteen steps | a wait without a predicate | notified only when waiting |
| `mutex_test.cxx` | two spin counters and a growing one | rounds of a benchmark | reuse of a barrier that everybody resets | every round ends |
| `mutex_benchmark.cxx` | condition variable, atomic flag, mutex | `thread_main`, start and join | who releases whom | every run ends |
| `timer_test.cxx` | multimap with null entries, priority queue with canceled entries, counters | `start`, `stop`, `expire_next`, `generate` | equal times; callbacks that stop other timers | the implementations agree; nothing that is due is left |
| `rewrite_header.cxx` | parser state, header, file on disk | `process`, `canonicalize`, `print_on`, write and rename | order of lines, several comments, failing files | the code survives, no line is read that is not there, the second run changes nothing |
| `benchmark.cxx` | histograms, targets, samples | three calibrations | measurements that were disturbed; unsigned arithmetic and casts; reads and writes behind a vector | only frequent measurements are used |
| `kmod/tsc_kmod.c` | allocated blocks, times, statistics | load | failing allocations; sums that overflow | the statistics are right while they fit, an overflow is reported; no single row is lost |
| `objectqueue.cxx` | queue, two accesses, two functions | one sequence of moves | moved-from functions; a full ring | the rules of the queue are kept |
| the others | | drivers of library code, network I/O, measured times | | not modelled, see section 7 |

`PROJECT.json` lists every component, the hazards with their lines, and which lines each
definition models.

## 2. Modules

| Module | Models | State and actions |
|---|---|---|
| `TaskConditions` | external: `AIStatefulTask::wait`, `signal`, `waiting` | operators on a condition word `[idle, skip]` |
| `WaitSignalTest` | `wait_signal_test.cxx` | one action per call of a script; an ASSERT that fails sets `failed` |
| `TaskCounters` | `wait_signal_test2.cxx` | `Wait(mask)`, `Signal(mask)` on the counters; `waited` and `signalled` are history |
| `TaskMutexTest` | `AIStatefulTaskMutex_test.cxx` | `multiplex_impl` cut at every access to shared state: `call_lock`, `lock`, `wait_1`, `locked`, `critical_area`, `unlock`, `unlocked`, `done`; `Run`, `leave` for `main`; `Dispatch` for the pool |
| `CriticalSection` | abstract | what that test is meant to show: one task inside at a time, nobody leaves before all have asked |
| `HelloWorld` | `helloworld.cxx` | as `TaskMutexTest`, with `bump` and `bump_signal` as the two statements of `bump()` |
| `Fibonacci` | `fibonacci.cxx`, with `fiboquick.cxx` as the reference | `start`, the test of both subtasks, `wait_1`, `math`, `finish` and the signal to the parent |
| `RunThread` | `runthread.cxx` | `dispatch`, the wait in it, the functions and their signal |
| `YieldTest` | `threadpool_yield_test.cxx` | one action per state, `timed_out` at any moment, `next_round` for the end of a round of `main` |
| `ThreadPool` | `threadpool.cxx` | `Add`, `AddLast`, `PassGate`; the tasks; `Take` and `Again` for the pool |
| `TournamentTree` | `tree_prop.cc` | `Change`, one step per iteration of `Less` and `Greater`, `Test` |
| `RWSpinLock` | `rwspinlock_test.cxx` | `Apply`, `FollowUp`; `holds` is history |
| `Semaphore` | external: the semaphore that `SpinWakeup` uses | `Post`, `Arrive`, `Take` |
| `SpinSemaphoreTest` | `genmc_spinsemaphore_test.c` | the sections of the futex under `qad_mutex` and the threads; external: the steps of the semaphore word |
| `SpinWakeup` | `spin_wakeup_test.cxx` | the loops of sleepers and triggers: `slower`, `count_fast`, `count_slow`, `load_delay_loop`, `faster` are one access each to an atomic variable |
| `CvWait` | `cv_wait.cxx` | the numbered steps of its comments |
| `MutexTest` | `mutex_test.cxx` | an action per access to the spin counters |
| `MutexBenchmark` | `mutex_benchmark.cxx` | one action per phase of `thread_main` and `main` |
| `Timers`, `MCTimers` | `timer_test.cxx`, implementations 0 and 1 | `Round` of `generate`; one step per iteration of `expire_next` |
| `RewriteHeader`, `MCRewriteHeader` | `rewrite_header.cxx` | `Open`, one step per comment line, `Canonicalize`, one per printed year, `Finish`, `Write`, `Rename`; `Throw` for errors that are noticed, `Crash` for a read past the end |
| `Calibration` | class `Benchmark` of `benchmark.cxx` | a step per measurement and per iteration over the data |
| `TscKmod` | `kmod/tsc_kmod.c` | `kmalloc` and its failure, `Filltimes`, one step per row of `statistics`, `kfree` |
| `ObjectQueue` | `objectqueue.cxx` | the moves of `main()` in their order |
| `MCSequentialPrograms`, `MCTaskPrograms`, `MCThreadPrograms`, `MCTimerDesigns` | compositions for the runs | a behaviour is a run of one of the programs, the variables of the others stay as they are |
| `*Proofs` | | theorems about the module they extend |

How they build on each other: what the 66 scripts fix of `TaskConditions` in
`WaitSignalTest` is what `TaskMutexTest`, `HelloWorld`, `Fibonacci` and `RunThread` use.
`SpinWakeup` uses `Semaphore` in place of a class of a submodule.

Definitions named `Mutant_...` are not part of the models.  Each is a plausible mistake in
the definition after it; with the mistake in place TLC finds the property violated that is
named with it in `PROJECT.json`.

### Modelling decisions

* `TaskMutexTest`: the mutex serves its waiters, and the pool its queue, in any order.  There
  are at least two threads (`ThreadsAssumption`): the busy wait of the first task needs that.
* `HelloWorld`: `m_bumped` is a plain `bool` read by another thread; its accesses are atomic
  steps here.  A call on a destructed task is recorded in `touched` and not followed further.
  `main()` gives up after `MaxLoops` rounds (100 in the code); the pool and the engine are then
  destructed, and from there on nobody has to execute a task (`pool_runs`).
* `Fibonacci`: a task is known by the sequence of numbers from the first task to it, and the
  set of tasks is a parameter with the assumption that it is that tree (`FibonacciAssumption`).
  Both subtasks are put in the queue in one step: the parent touches nothing of the first one
  between the two calls.  The queue is unbounded here; the program's has a capacity of 100.
* `YieldTest`: one round of the loop of `main()`, for each of the 64 codes.  Nobody stops the
  timer: it may also expire when the task has finished, until the round ends.
* `ThreadPool`: a task that returned true is put back or executed again by the same thread.
* `TournamentTree`: the program starts again from every sane tree; so does `Init`, and the
  repaired tree may be changed again.
* `RWSpinLock`: as in `main`, a transition starts in a stable state.  What a blocked thread
  does when it is woken up is not in the program, so a walk ends at a hand-over (`WalkEnds`).
* `SpinSemaphoreTest`: the word is a record of the fields its masks tell apart.  `post`,
  `fast_try_wait` and `slow_wait` are generated from a submodule; the model has the simplest
  protocol that fits the masks, the futex and the asserts of the test, and marks it external.
  What is shown is that the repository's futex and threads work with a protocol of that shape.
  Nothing is claimed of the real `SpinSemaphore`, whose code is not here, and its refinement
  of an abstract semaphore is therefore neither checked nor proved.
  All memory accesses are sequentially consistent.
* `SpinWakeup`: the triggers only delay by what they load of `delay_loop`; that load is left out.
* `MutexTest`: the measurement between the barriers and the printing leave nothing behind.
* `Timers`: the code is the one under `TEST_ALL_THREE`.  Time is the loop counter.
  Implementation 2 is in a submodule.  Adjacent entries of `durations` are never equal, so a
  timer never ties with the one that cancels it; other ties happen.  The second
  `expire_next` of a round is called only when a timer is left: the program then has about
  100,000.  The priority queue may serve equal times in any order.
* `MutexBenchmark`: the two sleeps are taken to be long enough.  The run hangs even so.
* `RewriteHeader`: a line is what the regular expressions tell apart; layout and author are
  left out.  Names and descriptions are from a set `Words`.  A file is any sequence of lines,
  also without code, with a C comment that does not end, or with code and a comment on one line.
  A read past the last line finds something that ends a C comment or kills the program (`Crash`).
  The last flush of the new file is done by the destructor of the stream, which tells nobody when
  it fails: `Write` then leaves a part of the lines (`Cuts`), and the file is renamed all the
  same.  A part is a number of whole lines.  `first_line` is never reset in the code (the assignment follows the last
  `break` of the switch) and is not a variable.
* `Calibration`: what is measured is arbitrary, so nothing says that a calibration ends.
  `count[d.delta1]` in the loop over `delta2` may lie behind the vector; its value is then
  arbitrary.  In `calibrate_cycles_per_ns()` a number of cycles is cast to an `int` of `w32` bits
  before it is compared, and not when it is used as an index: where those differ the program counts
  outside of its vector, which kills it or finds any count there.  Two calls of `now()` never give the same time: with a difference of 0 as the
  peak the program would not end.
* `TscKmod`: words have `width` bits, so that sums overflow with small numbers.  When `kmalloc()`
  fails `hello_start()` returns 0: the module is loaded, and what it had allocated and did not
  free is lost.

## 3. Runs

| Run | Bounds | Shows |
|---|---|---|
| `sequential_programs` | the 66 scripts; 2 normal and 2 required conditions as in the program, any number of operations; 2 rows of 3 times out of six in words of 8 bits, in which some sums fit and others overflow; 4 data points with 2 of them frequent, and 3-bit integers, for which one of the three measurements changes when it is cast; the program's own capacity and loop of the object queue | `ScriptsPass`, `Diagram`, `RunsIffSatisfied`, `CountersTell`, `KernelModuleRight`, `DeltaIsFrequent`, `SamplesAgree`, `QueueUsedRight` |
| `task_mutex` | 5 tasks, 3 threads: an owner, a task between `lock` and `wait`, sleepers, and a task without a thread | `MutualExclusion`, `NoLostWakeup`, `AssertsHold`, `ImplementsCriticalSection`, `EventuallyLeft` |
| `task_programs` | both tasks of `helloworld` and 3 rounds of `main`; the fourth Fibonacci number (9 tasks) on 2 threads besides `main`; 2 threads and the capacity of `runthread`; all 64 yield codes | `NoLostBump`, `ValuesRight`, `SomeoneWillSignal`, `JobsInOrder`, `HandlersAgree`, `AllFinish` |
| `thread_programs` | 4 threads on the lock: a writer or two readers, and others that wait or convert; 3 waiters and 3 posts (the program's two, and the third of each that it has commented out), so that one spins and two sleep; 2 sleepers and 2 triggers with a limit of 1, which the tokens exceed; the handshake as it is | `NeverIllegal`, `StableOrHandOver`, `CountersTell`, `WriteAlone`, `AllAssertsHold`, `TokensBounded`, `DelayBounded`, `NotifyAfterWait`, `EventuallyJoined` |
| `timers` | 5 intervals with a tie and a decrease, 4 rounds of the first loop and 2 of the second; the program's five values in the tree | `AssertsHold`, `SameRunning`, `QueuesHoldRunning`, `CountersAddUp`, `AllDueExpired`, `SaneAfterRepair`, `RepairEnds` |
| `rewrite_header` | every selection of the ten texts of a header, alone and after a comment with the module name; every order of up to three texts; every set of six years; several module comments, with a license in two of them; code before and behind a comment on one line; files without code; the file named twice; a failed flush that leaves 0, 5 or 15 lines: nothing, a part of the header, or a part of the code for short headers | `CodeKept`, `YearsKept`, `SecondTimeUnchanged`, `Ends` |
| `helloworld_raw`, `timers_cancel`, `benchmark_start`, `barrier`, `pool_queue`, `rwspinlock_comment` | small; `barrier` has the two threads of the program | violations, see section 5 |

**Refinement.**  `ImplementsCriticalSection` maps the state of each task to its phase; a task is inside
between `MyTask_locked` and the call of `unlock()`.

**Fairness.**  Weak fairness of every thread's next step: the operating system keeps
scheduling runnable threads (`TaskMutexTest`, the task and thread programs, `MutexBenchmark`,
`MutexTest`), and a sequential loop goes on (`TournamentTree`, `RewriteHeader`).  A free
thread of the pool takes a task that is in the queue; which one is left open.  The timer of
`YieldTest` and spurious wakeups have no fairness: they may happen, but nothing relies on it.
`AllFinish` is about `fibonacci`, `runthread` and `threadpool_yield_test`, whose `main()` waits
for the tasks; the one of `helloworld` gives up, and its tasks run only as long as the pool does.
Some thread takes a token of the external semaphore, no particular one.  `MutexBenchmark`
also has strong fairness of `lock`, which is more than `std::mutex` promises; it only makes
the violation stronger.  The calibration and the kernel module have no liveness property.

## 4. Proofs

For every value of the constants:

* `SequentialProgramsProofs`, one part per program.
  `TypeCorrect`, `WakesCorrectly` (`RunsIffSatisfied`) and `CountersAreRight`
  (`CountersTell`), for any set of conditions and any choice of required ones.  The first
  property is not inductive by itself: it needs what each counter is in terms of the wait and
  its signals, which is the second.  While the task waits, a condition of the wait that is
  still missing has counter 0.
  `QueueIsUsedRight` (`QueueUsedRight`), for any capacity from two: `QueueAt` says, for each
  point of `main()`, what is in the queue and in each function.
  `AcceptedIsFrequent` (`DeltaIsFrequent`), for any measurements and limits: while the data is
  counted, each count is the number of data points so far with that value (`Histogram`), and the
  maximum is one of the counts.  The maximum of the second loop may be wrong, since the loop reads
  behind the vector, but it is never more than the count it is said to be (`Many2`).
  `AveragedSamplesAgree` (`SamplesAgree`), for any measurements and any widths of `int` and
  `uint64_t`: a target is set by a value that was counted often enough, or by one that changes
  when it is cast and that was counted outside of the vector; and not once a sample was used.
  `KernelModuleIsRight` (`KernelModuleRight`), for any number of times and rows and any width,
  so also for the program's 100 rows of 100000 times in words of 64 bits.  What a loop has after
  each turn is shown to exist and to be a number (`LoopExists`, `LoopType`).  If the scaled squares
  fit then so does everything that `var_calc()` computes on the way: a sum is at most the sum of the
  squares, and its square at most `size` times that (`SumsOfSquares`), so the words have the sums
  (`WordsAreSums`) and none of the tests for overflow fires.  And when the sum of the times before
  the last one does not fit, one of these tests does see it.  `KmodInv` says what has been
  collected of the rows so far.
* `TaskMutexTestProofs`: `TypeCorrect`, `MutexIsExclusive`, `CriticalAssertsHold`,
  `WakeupsArrive`, for any finite set of tasks and any number of threads from two.
  Exclusion follows only if one knows where each task is: `PlaceInv` says, for each point of
  `multiplex_impl`, what the mutex, the pool and the condition word of the task are.  A task
  that waits for the mutex is in one of four places, about to call `wait(1)` or past it, and
  handed the mutex or not; the proof has one step per action.
  `AllAssertsHold` (`AssertsHold`, with the ASSERTs of `main()`) and `Implements`
  (`ImplementsCriticalSection`), for any finite set of tasks.  Both need `CountInv`: the atomic counters are the cardinalities of the sets of tasks they count, so a
  counter that has reached `number_of_tasks` has counted all of them (`AllCounted`), and the
  task that leaves the busy wait knows that all others have called `lock()`.  Each action is
  then a step of one task from a phase to the next, or changes no phase.
* `TournamentTreeProofs`: `TypeCorrect`, `RepairCorrect`, `TopCorrect`, over any set of
  integers (`ValuesAssumption`).  The inductive invariant `RepairInv` says that the tree is sane below node `i`,
  what it was from there up with the old value, and which value came up.
* `RWSpinLockProofs`: `TypeCorrect`, `LockNeverIllegal`, `LockStableOrHandOver`, for any set
  of threads, and `LockCountersTell` (`CountersTell`), `LockWriteAlone` (`WriteAlone`) for any
  finite one.  `WalkInv` says what the counters are between a transition and its follow-up, in
  terms of the stable state before it; `CountInv` that the counters before the transition
  count what `holds` says, by the lemmas on how a number changes when one thread gets
  something else.  A writer is alone because w and r are then 1 and 0.
* `TaskProgramsProofs`, one part per program.
  `BumpsArrive` (`NoLostBump`): a bumped task that sleeps is one whose signal is still to come;
  that needs that a task that sleeps or is gone is not executed.
  `HandlersAlwaysAgree` (`HandlersAgree`): for all yield codes at once, the handler of a task
  that was not aborted is the one its code stands for in that state.
  `JobsAreInOrder` (`JobsInOrder`): `JobInv` lists where the dispatched function and the task
  can be relative to each other; a function that returns before the wait leaves its signal.
  `SubtasksWillSignal` (`SomeoneWillSignal`), `ValuesAreRight` (`ValuesRight`): for every
  Fibonacci number and every number of threads.  A task about to sleep without a signal has a
  subtask that is not finished or that is about to signal, and only that signal ends this.
  That the recursively defined reference is 1 for the first two numbers and a sum for the
  others comes from a function of that kind on every interval `0 .. k`: the least `k` without
  one would be one more than a number with one.
* `ThreadProgramsProofs`, one part per program, for any finite sets of threads.
  `NotificationsAfterWait` (`NotifyAfterWait`): who has the mutex at each point of both
  threads.  `DelayIsBounded` (`DelayBounded`): each increment of the delay is counted in `fast`
  one step later, so the pending ones are part of the bound.  `TokensAreBounded` (`TokensBounded`): the
  tokens plus those that triggers are about to post stay within the bound.
  `AssertsNeverFail` (`AllAssertsHold`): for `spin_wakeup_test`, `WakeInv` counts rounds as
  sets of pairs, so that when all have been joined the tokens posted are the tokens taken.  For
  the semaphore, `SpinInv`: the types; what every field of the word and of the futex counts
  (`WordCounts`); which threads an increment of `count` stands for (`PostCounts`); and
  `Covered`, without which threads could sleep beside a token: if nobody spins and a sleeper
  was not woken, each token has a woken thread, a wake-up in the futex, or a call on its way.
  The part about the semaphore rests on the external protocol.
* `TimersProofs`: `TimerAssertsHold` (`AssertsHold`), `ImplementationsAgree` (`SameRunning`),
  `QueuesAreRight` (`QueuesHoldRunning`), `NumbersAddUp` (`CountersAddUp`), `NoneLeftBehind`
  (`AllDueExpired`), for any table of intervals, also one with equal entries next to each
  other, and any length of the two loops.  After a call the implementations agree; in the
  middle of it they do not, since they expire the timers of one moment in different orders and
  some stop others.  The invariant needs that a timer that is stopped by another stops nobody
  itself (`Targets`).  Then `Expiring` holds while implementation 0 is at work: the timers of
  implementation 1 are those from before the call, and what has left implementation 0 was due
  or stopped by one that was.  `Following` says that implementation 1 has exactly that left to
  do.  The queues are described by `Holds`: sorted, every running timer once, at its time.
* `RewriteHeaderProofs`: `CodeIsKept` (`CodeKept`) and `YearsAreKept` (`YearsKept`), for
  any files, named any number of times, with file operations that fail.  The code is claimed to be
  kept for files that the parser is up to (`Recognised`): the C comments end, there is code, and its
  first line does not begin with a comment; and on disk only as long as no flush failed unnoticed
  (`flushed`).  TLC finds the property violated without either of these.  The code is kept because
  the parser stops at or before its first line (`Position`) and what is printed in front of it has
  none (`NoCode`).  So that this can be said again of the rewritten file, what is written is shown
  to be recognised again (`Kept`): the printed header is a comment that ends.
  For the years, `YearsPrinted` relates the ranges printed so far to the years that are done: together
  with the range that is still open they cover exactly those.  The years are in
  increasing order, whatever the order in which they were read (`Ascending`, from what `sorted`
  returns).

The assumptions are the named `ASSUME`s of the modules, which TLC evaluates: finite sets of
threads and tasks (`ThreadsAssumption`, `TasksAssumption`), at least two threads where the
busy wait needs them, as many posts as waits in the two semaphore programs (`BalanceAssumption`,
`WakeupAssumption`; the programs are written so), a queue with a place (`CapacityAssumption`),
the tree of Fibonacci tasks (`FibonacciAssumption`), intervals that are not zero
(`DurationsAssumption`), measured values that fit in their words (`KmodAssumption`,
`CalibrationAssumption`), an object queue for two functions (`QueueAssumption`; the program's has
two places), files that are sequences of lines (`SourcesAssumption`), and natural numbers as bounds of loops.

**Only model-checked.**
* Liveness: `EventuallyLeft`, `AllFinish`, `EventuallyJoined`, `RepairEnds`, `Ends`.  The prover has no fairness reasoning.
* `SecondTimeUnchanged`.  It is stated of files with one license, which ends.  After a comment with
  a module name and a license the next comment is read too, and a second license in it is added to
  the first one; what is then printed is read differently.  The run has such a file, and without
  the restriction TLC finds the property violated by it.
* `ScriptsPass` and `Diagram` hold for 66 fixed scripts without parameters, all of which TLC runs:
  a proof would show nothing more.

Where a proof needs induction over data (the turns of a loop, the years of a line) it argues by the
least number for which the claim fails (`LeastNumber`, from the well-founded order of finite sets),
since the induction theorems of the library cannot be instantiated by the installed provers.

## 5. Findings

* `helloworld_raw` (`NoUseAfterFinish`): HelloWorld can see `m_bumped` before `signal(1)` is
  called, finish and be destructed; then Bumper's thread calls `signal(1)` on it.
* `timers_cancel` (`CanceledBeforeItExpires`): the table of intervals decreases once, from
  7000 ms to 3 s, and there the timer that should cancel another one expires after it.
* `benchmark_start` (`EveryRunEnds`): `block.clear()` releases one of the threads that spin
  with `test_and_set`; that one sets the flag again, and the join of the others hangs.
* `barrier` (`AllRoundsEnd`): both threads of `mutex_test.cxx` set `benchmarking1` back to 0.
  The one that is late does so after the other has arrived at the next round, and both spin.
* `pool_queue` (`QueueProcessed`): a task of `threadpool.cxx` that is executed again is put
  behind the task that opens the gate, so `main()` passes the gate before the queue was
  "entirely processed".
* `rwspinlock_comment` (`VCountsBlocked`): the comment at the top of `rwspinlock_test.cxx` says that
  V counts the blocked threads; the code also counts the one that has the write lock, as the
  comment on the member `v` says (`CountersTell`).

Seen while modelling, part of the models, and outside of what the properties claim:

* The tests for overflow in `var_calc()` of `tsc_kmod.c` come before the addition of the same turn,
  and comparing with the sum before does not show a product that wraps around: an overflow in the
  last addition (lines 92, 103) or in a product (94, 103, 105) gives a wrong variance without the
  error message.  With 100000 times, one of about 14 million cycles is enough.
* The loop of `helloworld.cxx` that is to "Wait till both tasks are finished." (line 230) ends after
  100 rounds in any case.
* The flag that should let the parser of `rewrite_header.cxx` go on with another comment "only
  once" (line 522) is declared inside of the loop (401): it goes on after every comment with only a
  module name, and what else is in these comments is lost.  A first line of code that begins with a
  comment is taken for comment, and a failed last flush truncates the file.

## 6. Plan

Done: conditions, counters, task mutex, hello world, tree, read/write lock, timers, mutex
benchmark, header rewriter; then the semaphore tests, the abstract critical
section, the remaining task and thread programs, calibration, kernel module, object queue.

Proved: all safety properties of the runs `task_mutex`, `task_programs`,
`thread_programs` and `timers`, those of `sequential_programs` except the fixed scripts, and those
of `rewrite_header` except `SecondTimeUnchanged` (section 4).

Left: nothing that is within reach of both tools.  If a program of section 7 gets logic of its own
it gets a module here; a change of the code starts with the lines in `PROJECT.json`.

## 7. Not modelled

* `core.cc`: two cores stamp a shared ring of 16 places with their time stamp counters.  What
  makes a comparison right is how many cycles pass between steps, up to a turn of the ring.
* `signal_test.cxx`: what it measures is when a signal interrupts `sem_wait`.
* `FileLock_test.cxx`: `TaskMutex` is called by one thread in one fixed sequence, and the tasks
  that lock the file are in a submodule.  `filelock.cxx` and `semaphore_test.cxx` are a few calls.
* `class Benchmark` is modelled; the rest of `benchmark.cxx`, like `hash_test.cxx`,
  `slow_down_test.cxx`, `delay_loop_test.cxx` and the frequency counter, only measures.
* Network programs (resolver, socket, proto, serv), programs that only drive a class of a
  submodule (pointer storage, engine, proxy, AITimer), and build files.  Their behaviour is I/O,
  real time, or in code that is not here.
