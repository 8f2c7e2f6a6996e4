----------------------------- MODULE Semaphore -----------------------------
(***************************************************************************)
(* What a counting semaphore promises: a token that was posted is taken by *)
(* exactly one thread that waits, and no token is left lying while a       *)
(* thread waits.  SpinWakeup uses it in place of the spin semaphore, whose *)
(* code is in a submodule.                                                 *)
(***************************************************************************)
EXTENDS Naturals

CONSTANTS
  Threads,    \* the threads that call wait()
  Amounts     \* the arguments with which post() is called

VARIABLES
  tokens,
  waiters     \* the threads inside wait()

vars == <<tokens, waiters>>

Init == tokens = 0 /\ waiters = {}

Post(n) == tokens' = tokens + n /\ UNCHANGED waiters

Arrive(t) ==
  /\ t \notin waiters
  /\ waiters' = waiters \cup {t}
  /\ UNCHANGED tokens

Take(t) ==
  /\ t \in waiters /\ tokens > 0
  /\ tokens' = tokens - 1
  /\ waiters' = waiters \ {t}

Next ==
  \/ \E n \in Amounts : Post(n)
  \/ \E t \in Threads : Arrive(t) \/ Take(t)

Spec == Init /\ [][Next]_vars /\ WF_vars(\E t \in Threads : Take(t))

=============================================================================
