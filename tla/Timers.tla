------------------------------- MODULE Timers -------------------------------
(***************************************************************************)
(* timer_test.cxx with TEST_ALL_THREE: generate() starts timers, some of   *)
(* them (type Y) stop another one (type X) when they expire, and lets the  *)
(* next timer expire, in several implementations side by side.             *)
(* Implementation 0 keeps a multimap in which a stopped timer leaves a     *)
(* null pointer behind; implementation 1 a priority queue in which it      *)
(* stays with m_canceled_1 set.  The third, threadpool::RunningTimers, is  *)
(* in a submodule.                                                         *)
(*                                                                         *)
(* Time is counted in steps of the loop of generate(): now(n) = n.  Timers *)
(* are numbered in the order in which they are started; each is started    *)
(* once.  Number 0 is the null pointer.                                    *)
(***************************************************************************)
EXTENDS Integers, Sequences, FiniteSets

CONSTANTS
  durations,   \* the intervals, a sequence; generate() draws an index at random
  ne,          \* the number of rounds of the first loop, 131215
  loopsize     \* the number of rounds of both loops, 10000000

ASSUME DurationsAssumption == durations \in Seq(Nat \ {0})
ASSUME LoopAssumption == ne \in Nat /\ loopsize \in Nat

VARIABLES
  n,                      \* the loop counter of both loops
  pc,                     \* "loop", or the loop of expire_next that is being done
  calls,                  \* how often expire_next still has to be called
  m_expiration_point,     \* of every timer
  target,                 \* the timer that the callback stops, or 0
  m_map,                  \* implementation 0: sequence of [time, timer]
  m_pqueue,               \* implementation 1: the timers in the queue
  running0, running1,     \* the timers with m_handle.is_running()
  m_canceled_1,           \* the timers with m_canceled_1
  now,                    \* local variable of expire_next
  last_time_point,
  running_timers_0, expired_timers_0, canceled_removed_0, canceled_timers_0,
  expired,                \* history: the timers that expired in implementation 0
  failed                  \* the asserts that failed

counters0 == <<running_timers_0, expired_timers_0, canceled_removed_0, canceled_timers_0>>
impl0 == <<m_map, running0, counters0, expired, last_time_point>>
impl1 == <<m_pqueue, running1, m_canceled_1>>
timers == <<m_expiration_point, target>>
vars == <<n, pc, calls, timers, impl0, impl1, now, failed>>

Assert(name, holds) == failed' = IF holds THEN failed ELSE failed \cup {name}

Init ==
  /\ n = 0 /\ pc = "loop" /\ calls = 0
  /\ m_expiration_point = <<>> /\ target = <<>>
  /\ m_map = <<>> /\ running0 = {}
  /\ m_pqueue = {} /\ running1 = {} /\ m_canceled_1 = {}
  /\ now = 0 /\ last_time_point = 0
  /\ running_timers_0 = 0 /\ expired_timers_0 = 0
  /\ canceled_removed_0 = 0 /\ canceled_timers_0 = 0
  /\ expired = {} /\ failed = {}

-----------------------------------------------------------------------------
(* generate()                                                                *)

\* std::multimap::emplace: before the first entry with a later key.
upper_bound(map, time) ==
  CHOOSE k \in 1 .. Len(map) + 1 :
    /\ \A j \in 1 .. k - 1 : map[j].time <= time
    /\ k <= Len(map) => map[k].time > time

Mutant_push0(map, time, timer) == Append(map, [time |-> time, timer |-> timer])

push0(map, time, timer) ==
  LET k == upper_bound(map, time)
  IN  SubSeq(map, 1, k - 1) \o <<[time |-> time, timer |-> timer]>> \o SubSeq(map, k, Len(map))

\* The timers that one round starts: one of type X and, in an even round unless its
\* interval is the first one, one of type Y with the interval before that.
HasY(index) == n % 2 = 0 /\ index > 1

StartX(index) ==
  LET x == Len(m_expiration_point) + 1
      time == n + durations[index]
  IN  /\ m_expiration_point' = Append(m_expiration_point, time)
      /\ target' = Append(target, 0)
      /\ m_map' = push0(m_map, time, x)
      /\ m_pqueue' = m_pqueue \cup {x}
      /\ running0' = running0 \cup {x} /\ running1' = running1 \cup {x}
      /\ running_timers_0' = running_timers_0 + 1

StartXY(index) ==
  LET x == Len(m_expiration_point) + 1
      y == x + 1
      xtime == n + durations[index]
      ytime == n + durations[index - 1]
  IN  /\ m_expiration_point' = m_expiration_point \o <<xtime, ytime>>
      /\ target' = target \o <<0, x>>
      /\ m_map' = push0(push0(m_map, xtime, x), ytime, y)
      /\ m_pqueue' = m_pqueue \cup {x, y}
      /\ running0' = running0 \cup {x, y} /\ running1' = running1 \cup {x, y}
      /\ running_timers_0' = running_timers_0 + 2

\* How often the round calls expire_next: once after a Y in the first loop; once or, every
\* now and then, twice in the second loop.
CallsOf(index) == IF n < ne THEN {IF HasY(index) THEN 1 ELSE 0} ELSE {1, 2}

Round(index) ==
  /\ pc = "loop" /\ n < loopsize
  /\ IF HasY(index) THEN StartXY(index) ELSE StartX(index)
  /\ calls' \in CallsOf(index)
  /\ pc' = IF calls' = 0 THEN "loop" ELSE "first0"
  /\ n' = n + 1
  /\ UNCHANGED <<m_canceled_1, now, last_time_point, expired_timers_0, canceled_removed_0,
                 canceled_timers_0, expired, failed>>

-----------------------------------------------------------------------------
(* Implementation 0                                                          *)

\* The timers that stop running when a timer expires: itself, and the one that its
\* callback stops if that is still running.
stopped(timer, running) == {timer} \cup ({target[timer]} \cap running)

\* expire(): set_not_running() leaves a null pointer, for the timer and for the one its
\* callback stops; then the entry of the timer is erased.
Mutant_stop_keeps_pointer(timer) ==
  LET gone == stopped(timer, running0)
  IN  /\ running0' = running0 \ gone
      /\ m_map' = Tail(m_map)
      /\ running_timers_0' = running_timers_0 - Cardinality(gone)
      /\ canceled_timers_0' = canceled_timers_0 + Cardinality(gone)
      /\ expired_timers_0' = expired_timers_0 + 1
      /\ last_time_point' = m_expiration_point[timer]
      /\ expired' = expired \cup {timer}
      /\ UNCHANGED canceled_removed_0

expire0(timer) ==
  LET gone == stopped(timer, running0)
      null(e) == IF e.timer \in gone THEN [e EXCEPT !.timer = 0] ELSE e
  IN  /\ running0' = running0 \ gone
      /\ m_map' = [k \in 1 .. Len(m_map) - 1 |-> null(m_map[k + 1])]
      /\ running_timers_0' = running_timers_0 - Cardinality(gone)
      /\ canceled_timers_0' = canceled_timers_0 + Cardinality(gone)
      /\ expired_timers_0' = expired_timers_0 + 1
      /\ last_time_point' = m_expiration_point[timer]
      /\ expired' = expired \cup {timer}
      /\ UNCHANGED canceled_removed_0

remove_canceled0 ==
  /\ m_map' = Tail(m_map)
  /\ canceled_removed_0' = canceled_removed_0 + 1
  /\ UNCHANGED <<running0, running_timers_0, expired_timers_0, canceled_timers_0, expired,
                 last_time_point>>

\* The loop up to the first timer that is still running.
First0 ==
  LET timer == m_map[1].timer
  IN  /\ pc = "first0" /\ failed = {}
      /\ IF m_map = <<>> THEN failed' = {"empty0"} /\ UNCHANGED <<impl0, now, pc>>
         ELSE IF timer = 0 THEN remove_canceled0 /\ UNCHANGED <<now, pc, failed>>
         ELSE /\ Assert("running0", timer \in running0)
              /\ expire0(timer)
              /\ now' = m_expiration_point[timer]
              /\ pc' = "also0"
      /\ UNCHANGED <<n, calls, timers, impl1>>

\* "Expire all timers that expired now too."
Also0 ==
  LET timer == m_map[1].timer
      due == m_expiration_point[timer] = now
  IN  /\ pc = "also0" /\ failed = {}
      /\ IF m_map = <<>> THEN pc' = "first1" /\ UNCHANGED <<impl0, failed>>
         ELSE IF timer = 0 THEN remove_canceled0 /\ UNCHANGED <<pc, failed>>
         ELSE /\ Assert("order0", m_expiration_point[timer] >= now /\ (due => timer \in running0))
              /\ IF due THEN expire0(timer) /\ UNCHANGED pc
                        ELSE pc' = "first1" /\ UNCHANGED impl0
      /\ UNCHANGED <<n, calls, timers, now, impl1>>

-----------------------------------------------------------------------------
(* Implementation 1                                                          *)

\* std::priority_queue::top(): one of the entries with the smallest time.
tops == {x \in m_pqueue : \A y \in m_pqueue : m_expiration_point[x] <= m_expiration_point[y]}

\* expire(), which compares the time with the one of implementation 0, and pop().
Mutant_stop_not_canceled(timer) ==
  LET gone == stopped(timer, running1)
  IN  /\ Assert("expire1", timer \in running1 /\ last_time_point = m_expiration_point[timer])
      /\ running1' = running1 \ gone
      /\ m_pqueue' = m_pqueue \ {timer}
      /\ UNCHANGED m_canceled_1

expire1(timer) ==
  LET gone == stopped(timer, running1)
  IN  /\ Assert("expire1", /\ timer \in running1 /\ timer \notin m_canceled_1
                           /\ last_time_point = m_expiration_point[timer])
      /\ running1' = running1 \ gone
      /\ m_canceled_1' = m_canceled_1 \cup (gone \ {timer})
      /\ m_pqueue' = m_pqueue \ {timer}

remove_canceled1(timer) ==
  /\ m_pqueue' = m_pqueue \ {timer}
  /\ UNCHANGED <<running1, m_canceled_1, failed>>

First1 ==
  /\ pc = "first1" /\ failed = {}
  /\ \/ m_pqueue = {} /\ failed' = {"empty1"} /\ UNCHANGED <<impl1, now, pc>>
     \/ \E timer \in tops :
          IF timer \in m_canceled_1 THEN remove_canceled1(timer) /\ UNCHANGED <<now, pc>>
          ELSE /\ expire1(timer)
               /\ now' = m_expiration_point[timer]
               /\ pc' = "also1"
  /\ UNCHANGED <<n, calls, timers, impl0>>

Mutant_one_at_a_time ==
  /\ pc = "also1" /\ failed = {}
  /\ pc' = "return"
  /\ UNCHANGED <<n, calls, timers, now, impl0, impl1, failed>>

Also1 ==
  /\ pc = "also1" /\ failed = {}
  /\ \/ m_pqueue = {} /\ pc' = "return" /\ UNCHANGED <<impl1, failed>>
     \/ \E timer \in tops :
          IF timer \in m_canceled_1 THEN remove_canceled1(timer) /\ UNCHANGED pc
          ELSE IF m_expiration_point[timer] # now
            THEN /\ Assert("order1", m_expiration_point[timer] >= now)
                 /\ pc' = "return"
                 /\ UNCHANGED impl1
          ELSE expire1(timer) /\ UNCHANGED pc
  /\ UNCHANGED <<n, calls, timers, now, impl0>>

\* Both implementations are done.  The program has 100,000 timers by the time it calls
\* expire_next twice in a round: the second call finds one.
Return ==
  /\ pc = "return"
  /\ calls' = IF running0 = {} THEN 0 ELSE calls - 1
  /\ pc' = IF calls' = 0 THEN "loop" ELSE "first0"
  /\ UNCHANGED <<n, timers, impl0, impl1, now, failed>>

Terminated == pc = "loop" /\ n = loopsize /\ UNCHANGED vars

Next ==
  \/ \E index \in DOMAIN durations : Round(index)
  \/ First0 \/ Also0 \/ First1 \/ Also1 \/ Return
  \/ Terminated

Spec == Init /\ [][Next]_vars

-----------------------------------------------------------------------------

Timer == DOMAIN m_expiration_point

\* No assert of the two implementations fails: the queue is not empty when a timer has to
\* expire, timers expire in order, a stopped timer does not expire, and implementation 1
\* expires timers with the same expiration point as implementation 0 ("should be").
AssertsHold == failed = {}

\* After every call of expire_next the two implementations have the same timers left.
SameRunning == pc \in {"loop", "return"} => running0 = running1

\* A timer runs iff its own entry is in the containers: the multimap is sorted and names
\* every running timer once, at its time, and the queue holds exactly the running timers
\* and some canceled ones.
QueuesHoldRunning ==
  /\ \A j, k \in DOMAIN m_map : j < k => m_map[j].time <= m_map[k].time
  /\ \A k \in DOMAIN m_map :
       m_map[k].timer # 0 => m_map[k].time = m_expiration_point[m_map[k].timer]
  /\ \A x \in Timer :
       Cardinality({k \in DOMAIN m_map : m_map[k].timer = x}) = IF x \in running0 THEN 1 ELSE 0
  /\ m_pqueue \ m_canceled_1 = running1

\* The numbers that main() prints add up: what was canceled, which expired timers are
\* counted as too, has expired, was removed later or is still a null pointer in the map.
CountersAddUp ==
  /\ running_timers_0 = Cardinality(running0)
  /\ expired_timers_0 = Cardinality(expired)
  /\ canceled_timers_0 = expired_timers_0 + canceled_removed_0
                         + Cardinality({k \in DOMAIN m_map : m_map[k].timer = 0})

\* expire_next leaves no timer behind that is due at the time it pretends it is.
AllDueExpired ==
  /\ pc = "first1" => \A x \in running0 : m_expiration_point[x] > now
  /\ pc = "return" => \A x \in running1 : m_expiration_point[x] > now

\* "Half the time, cancel the timer before it expires": a timer of type X that has a
\* timer of type Y does not expire itself.
CanceledBeforeItExpires == \A y \in Timer : target[y] \notin expired

=============================================================================
