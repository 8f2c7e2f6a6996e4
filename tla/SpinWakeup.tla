------------------------------ MODULE SpinWakeup ------------------------------
(***************************************************************************)
(* spin_wakeup_test.cxx: sleeper threads take tokens from a spin semaphore *)
(* and trigger threads post several at a time, unless there are many left. *)
(* The spin semaphore is external: Semaphore states what the program needs *)
(* of it.  delay_loop is shared by all threads: a sleeper that did not     *)
(* have to sleep makes the triggers slower and one that did makes them     *)
(* faster, with a compare-and-exchange loop.  Every access to an atomic    *)
(* variable is a step; the load of delay_loop in triggers(), which only    *)
(* makes a thread slow, and the plot that main() draws are left out.       *)
(***************************************************************************)
EXTENDS Naturals, FiniteSets

CONSTANTS
  Sleepers, Triggers,
  post_amount,
  number_of_times_to_wait_per_sleeper,
  number_of_times_to_post_per_trigger,
  Limit                \* a trigger does not post while there are more tokens; 8

VARIABLES
  sem_tokens, sem_waiters,      \* the semaphore
  delay_loop,
  woken_up_count, slow, fast,
  at,                  \* where each thread is
  dl,                  \* the local variable of each sleeper
  n,                   \* the loop variable of each thread
  wake_joined,         \* main() has joined all threads
  wake_failed          \* the ASSERTs of main() that failed

wakeVars == <<sem_tokens, sem_waiters, delay_loop, woken_up_count, slow, fast, at, dl, n,
              wake_joined, wake_failed>>

sem == INSTANCE Semaphore WITH
  Threads <- Sleepers, Amounts <- {post_amount}, tokens <- sem_tokens, waiters <- sem_waiters

Init ==
  /\ sem!Init
  /\ delay_loop = 0
  /\ woken_up_count = 0 /\ slow = 0 /\ fast = 0
  /\ at = [t \in Sleepers \cup Triggers |-> "top"]
  /\ dl = [t \in Sleepers |-> 0]
  /\ n = [t \in Sleepers \cup Triggers |-> 0]
  /\ wake_joined = FALSE
  /\ wake_failed = {}

Goto(t, p) == at' = [at EXCEPT ![t] = p]

\* The end of the body of a loop over n.
NextRound(t, times) ==
  /\ n' = [n EXCEPT ![t] = @ + 1]
  /\ Goto(t, IF n[t] + 1 < times THEN "top" ELSE "done")

-----------------------------------------------------------------------------
(* sleepers()                                                                *)

\* fast_try_wait() found a token.
fast_wait(t) ==
  /\ t \in Sleepers /\ at[t] = "top" /\ sem_tokens > 0
  /\ sem_tokens' = sem_tokens - 1
  /\ Goto(t, "took_fast")
  /\ UNCHANGED <<sem_waiters, delay_loop, woken_up_count, slow, fast, dl, n, wake_joined, wake_failed>>

\* It found none.
begin_slow_wait(t) ==
  /\ t \in Sleepers /\ at[t] = "top" /\ sem_tokens = 0
  /\ sem!Arrive(t)
  /\ Goto(t, "slow_wait")
  /\ UNCHANGED <<delay_loop, woken_up_count, slow, fast, dl, n, wake_joined, wake_failed>>

end_slow_wait(t) ==
  /\ at[t] = "slow_wait"
  /\ sem!Take(t)
  /\ Goto(t, "took_slow")
  /\ UNCHANGED <<delay_loop, woken_up_count, slow, fast, dl, n, wake_joined, wake_failed>>

\* delay_loop.fetch_add(1)
slower(t) ==
  /\ at[t] = "took_fast"
  /\ dl' = [dl EXCEPT ![t] = delay_loop]
  /\ delay_loop' = delay_loop + 1
  /\ Goto(t, "count_fast")
  /\ UNCHANGED <<sem_tokens, sem_waiters, woken_up_count, slow, fast, n, wake_joined, wake_failed>>

\* fast++
count_fast(t) ==
  /\ at[t] = "count_fast"
  /\ fast' = fast + 1
  /\ Goto(t, "count")
  /\ UNCHANGED <<sem_tokens, sem_waiters, delay_loop, woken_up_count, slow, dl, n, wake_joined, wake_failed>>

\* ++slow
count_slow(t) ==
  /\ at[t] = "took_slow"
  /\ slow' = slow + 1
  /\ Goto(t, "load")
  /\ UNCHANGED <<sem_tokens, sem_waiters, delay_loop, woken_up_count, fast, dl, n, wake_joined, wake_failed>>

\* delay_loop.load()
load_delay_loop(t) ==
  /\ at[t] = "load"
  /\ dl' = [dl EXCEPT ![t] = delay_loop]
  /\ Goto(t, "cas")
  /\ UNCHANGED <<sem_tokens, sem_waiters, delay_loop, woken_up_count, slow, fast, n, wake_joined, wake_failed>>

Mutant_fetch_sub(t) ==
  /\ at[t] = "cas"
  /\ IF dl[t] < post_amount
       THEN Goto(t, "count") /\ UNCHANGED <<dl, delay_loop>>
       ELSE /\ delay_loop' = (delay_loop + 2^16 - post_amount) % 2^16
            /\ Goto(t, "count") /\ UNCHANGED dl
  /\ UNCHANGED <<sem_tokens, sem_waiters, woken_up_count, slow, fast, n, wake_joined, wake_failed>>

\* One turn of the loop on compare_exchange_weak, which loads delay_loop into dl when it fails.
\* That it may fail for no reason only adds turns that change nothing.
faster(t) ==
  /\ at[t] = "cas"
  /\ IF dl[t] < post_amount
       THEN Goto(t, "count") /\ UNCHANGED <<dl, delay_loop>>
       ELSE IF delay_loop = dl[t]
         THEN delay_loop' = dl[t] - post_amount /\ Goto(t, "count") /\ UNCHANGED dl
         ELSE dl' = [dl EXCEPT ![t] = delay_loop] /\ UNCHANGED <<at, delay_loop>>
  /\ UNCHANGED <<sem_tokens, sem_waiters, woken_up_count, slow, fast, n, wake_joined, wake_failed>>

count(t) ==
  /\ at[t] = "count"
  /\ woken_up_count' = woken_up_count + 1
  /\ NextRound(t, number_of_times_to_wait_per_sleeper)
  /\ UNCHANGED <<sem_tokens, sem_waiters, delay_loop, slow, fast, dl, wake_joined, wake_failed>>

-----------------------------------------------------------------------------
(* triggers()                                                                *)

Mutant_no_test(t) ==
  /\ t \in Triggers /\ at[t] = "top"
  /\ Goto(t, "post")
  /\ UNCHANGED <<sem_tokens, sem_waiters, delay_loop, woken_up_count, slow, fast, dl, n, wake_joined, wake_failed>>

\* The loop on the tokens ends.
few_tokens(t) ==
  /\ t \in Triggers /\ at[t] = "top" /\ sem_tokens <= Limit
  /\ Goto(t, "post")
  /\ UNCHANGED <<sem_tokens, sem_waiters, delay_loop, woken_up_count, slow, fast, dl, n, wake_joined, wake_failed>>

\* post(), and a delay that changes nothing.
post(t) ==
  /\ at[t] = "post"
  /\ sem!Post(post_amount)
  /\ NextRound(t, number_of_times_to_post_per_trigger)
  /\ UNCHANGED <<delay_loop, woken_up_count, slow, fast, dl, wake_joined, wake_failed>>

-----------------------------------------------------------------------------

\* main(): the joins, ASSERT(woken_up_count == number_of_times_to_wait) and sanity_check().
join ==
  /\ ~wake_joined /\ \A t \in Sleepers \cup Triggers : at[t] = "done"
  /\ wake_joined' = TRUE
  /\ wake_failed' =
       (IF woken_up_count = Cardinality(Sleepers) * number_of_times_to_wait_per_sleeper
        THEN {} ELSE {"woken_up_count"})
       \cup (IF sem_tokens = 0 /\ sem_waiters = {} THEN {} ELSE {"sanity_check"})
  /\ UNCHANGED <<sem_tokens, sem_waiters, delay_loop, woken_up_count, slow, fast, at, dl, n>>

work(t) ==
  \/ fast_wait(t) \/ begin_slow_wait(t)
  \/ slower(t) \/ count_fast(t) \/ count_slow(t) \/ load_delay_loop(t) \/ faster(t) \/ count(t)
  \/ few_tokens(t) \/ post(t)

take == \E t \in Sleepers : end_slow_wait(t)

Terminated == wake_joined /\ UNCHANGED wakeVars

Next == (\E t \in Sleepers \cup Triggers : work(t)) \/ take \/ join \/ Terminated

-----------------------------------------------------------------------------

\* The ASSERTs of main() hold once all threads have been joined.
AssertsHold == wake_failed = {}

\* A trigger tests the tokens before it posts and all others may do so in between: that is as far
\* as the tokens get beyond the limit (16 with the numbers of the program, which asserts < 40).
TokensBounded == sem_tokens <= Limit + post_amount * Cardinality(Triggers)

\* The delay of the triggers, an unsigned number that sleepers subtract from after they have looked at
\* it, never wraps around: it has grown by at most one for every wait that was fast, the ones that
\* have added to the delay and not to fast yet included.
DelayBounded == delay_loop <= fast + Cardinality({t \in Sleepers : at[t] = "count_fast"})

=============================================================================
