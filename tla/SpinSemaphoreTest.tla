-------------------------- MODULE SpinSemaphoreTest --------------------------
(***************************************************************************)
(* genmc_spinsemaphore_test.c: threads that wait on a spin semaphore and a *)
(* thread that posts, on top of the futex of the test, with its ASSERTs.   *)
(* What the program itself has: the layout of the semaphore word, its      *)
(* futex, its threads and its asserts.  post(), fast_try_wait() and        *)
(* slow_wait() are extracted from a submodule and external: the ones here  *)
(* are one protocol that uses the word as the asserts expect, and nothing  *)
(* is claimed of the real ones.  In it at most one thread spins and the    *)
(* others sleep in futex_wait(0); a thread that is about to call           *)
(* futex_wake says so in the word, and so does a thread that woke up; a    *)
(* thread that stops spinning wakes up another one to take over.           *)
(* qad_mutex makes each of its sections one step.                          *)
(***************************************************************************)
EXTENDS Naturals, FiniteSets

CONSTANTS
  Waiters,    \* the threads that call wait(); two, and a third one that is commented out
  Posters,    \* the post_threads; one
  Posts       \* how often a post_thread calls post(1); two, and a third one under #if 0

VARIABLES
  m_word,         \* tokens, spinner, wake, woke and nwaiters: the fields the masks tell apart
  qad_ntokens, qad_nwaiters,
  count,
  pc,             \* where each thread is
  to_wake,        \* how many threads it is about to wake up
  posted,         \* how many rounds each post_thread has done
  joined,         \* main() has joined all threads
  failed          \* the asserts that failed

word  == <<m_word, qad_ntokens, qad_nwaiters>>
spinVars == <<word, count, pc, to_wake, posted, joined, failed>>

AllThreads == Waiters \cup Posters

Goto(t, p) == pc' = [pc EXCEPT ![t] = p]
assert(name, holds) == failed' = IF holds THEN failed ELSE failed \cup {name}

Init ==
  /\ m_word = [tokens |-> 0, spinner |-> FALSE, wake |-> 0, woke |-> 0, nwaiters |-> 0]
  /\ qad_ntokens = 0 /\ qad_nwaiters = 0
  /\ count = 0
  /\ pc = [t \in AllThreads |-> "created"]
  /\ to_wake = [t \in AllThreads |-> 0]
  /\ posted = [t \in Posters |-> 0]
  /\ joined = FALSE
  /\ failed = {}

-----------------------------------------------------------------------------
(* The futex.  Its word is the low half of m_word: the tokens.               *)

Mutant_futex_wait_no_test(t) ==
  /\ pc[t] = "futex_wait"
  /\ qad_nwaiters' = qad_nwaiters + 1 /\ Goto(t, "asleep")
  /\ UNCHANGED <<to_wake, m_word, qad_ntokens, count, posted, joined, failed>>

\* futex_wait(0): the first section.
futex_wait(t) ==
  /\ pc[t] = "futex_wait"
  /\ IF m_word.tokens = 0
       THEN qad_nwaiters' = qad_nwaiters + 1 /\ Goto(t, "asleep")
       ELSE Goto(t, "again") /\ UNCHANGED qad_nwaiters
  /\ UNCHANGED <<to_wake, m_word, qad_ntokens, count, posted, joined, failed>>

\* futex_wait(0): the section that finds a token.
futex_woken(t) ==
  /\ pc[t] = "asleep" /\ qad_ntokens > 0
  /\ m_word' = [m_word EXCEPT !.woke = @ + 1]
  /\ qad_ntokens' = qad_ntokens - 1
  /\ qad_nwaiters' = qad_nwaiters - 1
  /\ Goto(t, "woken")
  /\ UNCHANGED <<to_wake, count, posted, joined, failed>>

Mutant_forget_pending(n) ==
  qad_ntokens' = qad_ntokens + (IF n <= qad_nwaiters THEN n ELSE qad_nwaiters)

\* futex_wake(n): a token for each thread that is woken up.
futex_wake(n) ==
  LET actual_waiters == qad_nwaiters - qad_ntokens
  IN  qad_ntokens' = qad_ntokens + (IF n <= actual_waiters THEN n ELSE actual_waiters)

-----------------------------------------------------------------------------
(* The semaphore (external).                                                 *)

\* post(1): add a token; when nobody spins for it, a sleeping thread is woken up.
post(t) ==
  /\ pc[t] = "post"
  /\ LET wake == ~m_word.spinner /\ m_word.nwaiters > 0
     IN  /\ m_word' = [m_word EXCEPT !.tokens = @ + 1, !.wake = IF wake THEN @ + 1 ELSE @]
         /\ to_wake' = [to_wake EXCEPT ![t] = 1]
         /\ Goto(t, IF wake THEN "wake" ELSE "check")
  /\ UNCHANGED <<qad_ntokens, qad_nwaiters, count, posted, joined, failed>>

\* The call of futex_wake of post(), and of a thread that no longer spins.
wake(t) ==
  /\ pc[t] = "wake"
  /\ assert("futex_wake", qad_nwaiters >= qad_ntokens)
  /\ futex_wake(to_wake[t])
  /\ Goto(t, "wake_done")
  /\ UNCHANGED <<to_wake, m_word, qad_nwaiters, count, posted, joined>>

wake_done(t) ==
  /\ pc[t] = "wake_done"
  /\ m_word' = [m_word EXCEPT !.wake = @ - 1]
  /\ Goto(t, IF t \in Posters THEN "check" ELSE "took")
  /\ UNCHANGED <<to_wake, qad_ntokens, qad_nwaiters, count, posted, joined, failed>>

\* fast_try_wait()
fast_try_wait(t) ==
  /\ pc[t] = "wait"
  /\ IF m_word.tokens > 0
       THEN m_word' = [m_word EXCEPT !.tokens = @ - 1] /\ Goto(t, "took")
       ELSE Goto(t, "slow_wait") /\ UNCHANGED m_word
  /\ UNCHANGED <<to_wake, qad_ntokens, qad_nwaiters, count, posted, joined, failed>>

\* slow_wait(): take a token after all, or spin, or sleep when another thread spins.
slow_wait(t) ==
  /\ pc[t] = "slow_wait"
  /\ CASE m_word.tokens > 0 ->
            m_word' = [m_word EXCEPT !.tokens = @ - 1] /\ Goto(t, "took")
       [] m_word.tokens = 0 /\ ~m_word.spinner ->
            m_word' = [m_word EXCEPT !.nwaiters = @ + 1, !.spinner = TRUE] /\ Goto(t, "spin")
       [] OTHER ->
            m_word' = [m_word EXCEPT !.nwaiters = @ + 1] /\ Goto(t, "futex_wait")
  /\ UNCHANGED <<to_wake, qad_ntokens, qad_nwaiters, count, posted, joined, failed>>

\* slow_wait(): the spinning thread sees a token.  It wakes up a thread for every token that
\* was posted while it was spinning, and at least one that spins in its place.
spin(t) ==
  /\ pc[t] = "spin" /\ m_word.tokens > 0
  /\ LET others == m_word.nwaiters > 1
     IN  /\ m_word' = [m_word EXCEPT !.tokens = @ - 1, !.spinner = FALSE, !.nwaiters = @ - 1,
                                     !.wake = IF others THEN @ + 1 ELSE @]
         /\ to_wake' = [to_wake EXCEPT ![t] = IF m_word.tokens = 1 THEN 1 ELSE m_word.tokens - 1]
         /\ Goto(t, IF others THEN "wake" ELSE "took")
  /\ UNCHANGED <<qad_ntokens, qad_nwaiters, count, posted, joined, failed>>

\* slow_wait(): back from futex_wait(0), which slept or did not.
back(t) ==
  /\ pc[t] \in {"woken", "again"}
  /\ LET w == [m_word EXCEPT !.woke = IF pc[t] = "woken" THEN @ - 1 ELSE @]
     IN  CASE ~w.spinner -> m_word' = [w EXCEPT !.spinner = TRUE] /\ Goto(t, "spin")
           [] w.spinner /\ w.tokens > 0 ->
                m_word' = [w EXCEPT !.tokens = @ - 1, !.nwaiters = @ - 1] /\ Goto(t, "took")
           [] OTHER -> m_word' = w /\ Goto(t, "futex_wait")
  /\ UNCHANGED <<to_wake, qad_ntokens, qad_nwaiters, count, posted, joined, failed>>

-----------------------------------------------------------------------------
(* The threads of the test.                                                  *)

\* wait_thread: the call of wait().
wait_thread(t) ==
  /\ pc[t] = "created" /\ t \in Waiters
  /\ Goto(t, "wait")
  /\ UNCHANGED <<to_wake, word, count, posted, joined, failed>>

\* wait_thread: after wait().
wait_thread_count(t) ==
  /\ pc[t] = "took"
  /\ assert("prev_count", count >= 1)
  /\ count' = IF count >= 1 THEN count - 1 ELSE 0
  /\ Goto(t, "done")
  /\ UNCHANGED <<to_wake, word, posted, joined>>

\* post_thread: ++count before each post(1).
post_thread(t) ==
  /\ pc[t] \in {"created", "next"} /\ t \in Posters
  /\ count' = count + 1
  /\ Goto(t, "post")
  /\ UNCHANGED <<to_wake, word, posted, joined, failed>>

\* post_thread: the asserts under qad_mutex after each post(1).  Nobody sleeps in the
\* futex while there is a token that nobody has been woken up for.
post_thread_check(t) ==
  /\ pc[t] = "check"
  /\ failed' = failed
       \cup (IF m_word.nwaiters >= qad_nwaiters THEN {} ELSE {"nwaiters"})
       \cup (IF /\ qad_nwaiters > 0 /\ ~m_word.spinner /\ m_word.tokens > m_word.woke
                /\ qad_ntokens = 0 /\ m_word.wake = 0
             THEN {"sleeper"} ELSE {})
  /\ posted' = [posted EXCEPT ![t] = @ + 1]
  /\ Goto(t, IF posted[t] + 1 < Posts THEN "next" ELSE "done")
  /\ UNCHANGED <<to_wake, word, count, joined>>

\* main(): pthread_join of all threads and the last assert.
join ==
  /\ ~joined /\ \A t \in AllThreads : pc[t] = "done"
  /\ joined' = TRUE
  /\ assert("count", count = 0)
  /\ UNCHANGED <<to_wake, word, count, pc, posted>>

step(t) ==
  \/ futex_wait(t) \/ futex_woken(t)
  \/ post(t) \/ wake(t) \/ wake_done(t)
  \/ fast_try_wait(t) \/ slow_wait(t) \/ spin(t) \/ back(t)
  \/ wait_thread(t) \/ wait_thread_count(t) \/ post_thread(t) \/ post_thread_check(t)

Terminated == joined /\ UNCHANGED spinVars

Next == (\E t \in AllThreads : step(t)) \/ join \/ Terminated

-----------------------------------------------------------------------------

\* None of the asserts of the test fails, in any interleaving of its threads.
AssertsHold == failed = {}

=============================================================================
