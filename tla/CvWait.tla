-------------------------------- MODULE CvWait --------------------------------
(***************************************************************************)
(* cv_wait.cxx: a thread foo that waits on a condition variable without a  *)
(* predicate, and main() that may only notify it once it waits.  What      *)
(* makes that so is that foo sets w while it holds the mutex, and that     *)
(* main() locks the mutex before it calls notify_one().  wait() may also   *)
(* return without a call of notify_one().                                  *)
(***************************************************************************)
EXTENDS Naturals, Sequences

VARIABLES
  m,              \* who holds the mutex
  cv_waiting,     \* foo waits on cv
  w,
  foo_at, main_at,
  stamps          \* the times that were recorded, the earliest first

cvVars == <<m, cv_waiting, w, foo_at, main_at, stamps>>

Init ==
  /\ m = "nobody" /\ cv_waiting = FALSE /\ w = FALSE
  /\ foo_at = "start" /\ main_at = "start"
  /\ stamps = <<>>

-----------------------------------------------------------------------------
(* foo(), with the numbers of its comments                                   *)

foo_lock ==     \* 2.
  /\ foo_at = "start" /\ m = "nobody"
  /\ m' = "foo" /\ foo_at' = "locked"
  /\ UNCHANGED <<cv_waiting, w, main_at, stamps>>

foo_notify ==   \* 3.
  /\ foo_at = "locked"
  /\ w' = TRUE /\ foo_at' = "told"
  /\ UNCHANGED <<m, cv_waiting, main_at, stamps>>

foo_stamp ==    \* 5.
  /\ foo_at = "told"
  /\ stamps' = Append(stamps, "wait_start") /\ foo_at' = "entering"
  /\ UNCHANGED <<m, cv_waiting, w, main_at>>

foo_wait ==     \* 6.
  /\ foo_at = "entering"
  /\ m' = "nobody" /\ cv_waiting' = TRUE /\ foo_at' = "waiting"
  /\ UNCHANGED <<w, main_at, stamps>>

foo_spurious ==
  /\ foo_at = "waiting" /\ cv_waiting
  /\ cv_waiting' = FALSE
  /\ UNCHANGED <<m, w, foo_at, main_at, stamps>>

foo_return ==   \* 11.
  /\ foo_at = "waiting" /\ ~cv_waiting /\ m = "nobody"
  /\ m' = "foo" /\ foo_at' = "returned"
  /\ UNCHANGED <<cv_waiting, w, main_at, stamps>>

foo_unlock ==   \* 12.
  /\ foo_at = "returned"
  /\ m' = "nobody" /\ foo_at' = "unlocked"
  /\ UNCHANGED <<cv_waiting, w, main_at, stamps>>

foo_end ==
  /\ foo_at = "unlocked"
  /\ stamps' = Append(stamps, "wait_end") /\ foo_at' = "done"
  /\ UNCHANGED <<m, cv_waiting, w, main_at>>

-----------------------------------------------------------------------------
(* main()                                                                    *)

Mutant_no_spin ==
  /\ main_at = "start"
  /\ main_at' = "seen"
  /\ UNCHANGED <<m, cv_waiting, w, foo_at, stamps>>

main_spin ==
  /\ main_at = "start" /\ w
  /\ main_at' = "seen"
  /\ UNCHANGED <<m, cv_waiting, w, foo_at, stamps>>

main_lock ==    \* 4. and 7.
  /\ main_at = "seen" /\ m = "nobody"
  /\ m' = "main" /\ main_at' = "locked"
  /\ UNCHANGED <<cv_waiting, w, foo_at, stamps>>

main_unlock ==  \* 8.
  /\ main_at = "locked"
  /\ m' = "nobody" /\ main_at' = "unlocked"
  /\ UNCHANGED <<cv_waiting, w, foo_at, stamps>>

main_stamp ==   \* 9.
  /\ main_at = "unlocked"
  /\ stamps' = Append(stamps, "notify_start") /\ main_at' = "notify"
  /\ UNCHANGED <<m, cv_waiting, w, foo_at>>

main_notify ==
  /\ main_at = "notify"
  /\ cv_waiting' = FALSE /\ main_at' = "notified"
  /\ UNCHANGED <<m, w, foo_at, stamps>>

main_end ==
  /\ main_at = "notified"
  /\ stamps' = Append(stamps, "notify_end") /\ main_at' = "joining"
  /\ UNCHANGED <<m, cv_waiting, w, foo_at>>

main_join ==    \* 10.
  /\ main_at = "joining" /\ foo_at = "done"
  /\ main_at' = "joined"
  /\ UNCHANGED <<m, cv_waiting, w, foo_at, stamps>>

foo == foo_lock \/ foo_notify \/ foo_stamp \/ foo_wait \/ foo_return \/ foo_unlock \/ foo_end

main == main_spin \/ main_lock \/ main_unlock \/ main_stamp \/ main_notify \/ main_end \/ main_join

Terminated == main_at = "joined" /\ UNCHANGED cvVars

Next == foo \/ foo_spurious \/ main \/ Terminated

-----------------------------------------------------------------------------

Before(a, b) == \E i, j \in 1 .. Len(stamps) : i < j /\ stamps[i] = a /\ stamps[j] = b

Recorded(a) == \E i \in 1 .. Len(stamps) : stamps[i] = a

\* "7. We obtained the lock on m: foo_thread is now in wait()": what main() records and notifies from
\* there on comes after foo has entered wait(), so the first difference that it
\* prints is not negative and the notification is not lost; if foo no longer waits it has been woken up already.
NotifyAfterWait ==
  /\ Recorded("notify_start") => Before("wait_start", "notify_start")
  /\ main_at \in {"locked", "unlocked", "notify"} =>
       foo_at \in {"waiting", "returned", "unlocked", "done"}

=============================================================================
