------------------------------ MODULE YieldTest ------------------------------
(***************************************************************************)
(* threadpool_yield_test.cxx: one round of the loop of main(), which runs  *)
(* a task for every choice of a handler for run(), for the yield of state  *)
(* start and for the yield of state print.  The handlers are the three     *)
(* two-bit numbers of the yield code; 0 for a yield means yield() without  *)
(* an argument, which stays with the handler that executes the task.  A    *)
(* timer of 100 ms aborts a task that takes too long, at any moment.  The  *)
(* timer is not stopped by finish(): it can still expire until main() lets *)
(* go of the task at the end of the round, and then abort() is too late.   *)
(* yield, abort and finish of the task and the queues are external.        *)
(***************************************************************************)
EXTENDS Naturals

CONSTANT YieldCodes     \* 0 .. 63

VARIABLES
  m_yield_code,
  yt_state,       \* mRunState
  yt_where,       \* "created", "queued", "busy" in multiplex_impl, "finished", "destructed"
  yt_handler,     \* the handler that executes the task, or in whose queue it is
  yt_aborted,
  m_timer,        \* "off", "running", "expired"
  success,        \* the arguments of the calls of the callback
  yt_failed       \* the ASSERTs that failed

ytVars == <<m_yield_code, yt_state, yt_where, yt_handler, yt_aborted, m_timer, success, yt_failed>>

\* enum class H, and the numbers in the yield code.
immediate == 0
Bits(shift) == (m_yield_code \div 2^shift) % 4

run_handler == Bits(0)

Mutant_own_bits == Bits(2)

start_handler == IF Bits(2) = immediate THEN run_handler ELSE Bits(2)

print_handler == IF Bits(4) = immediate THEN start_handler ELSE Bits(4)

Init ==
  /\ m_yield_code \in YieldCodes
  /\ yt_state = "start" /\ yt_where = "created" /\ yt_handler = immediate
  /\ yt_aborted = FALSE /\ m_timer = "off" /\ success = {} /\ yt_failed = {}

\* main(): task->run(handler), and initialize_impl().
run ==
  /\ yt_where = "created"
  /\ m_timer' = "running"
  /\ yt_handler' = run_handler
  /\ yt_where' = IF run_handler = immediate THEN "busy" ELSE "queued"
  /\ UNCHANGED <<m_yield_code, yt_state, yt_aborted, success, yt_failed>>

\* The thread of the handler, or engine.mainloop() in main(), goes on with the task.
execute ==
  /\ yt_where = "queued"
  /\ yt_where' = "busy"
  /\ UNCHANGED <<m_yield_code, yt_state, yt_handler, yt_aborted, m_timer, success, yt_failed>>

\* ASSERT(!yield_if_not(handler)), and what must not happen in yield().
assert(name, holds) == yt_failed' = IF holds THEN yt_failed ELSE yt_failed \cup {name}

finish(arg) ==
  /\ yt_where' = "finished"
  /\ success' = success \cup {arg}

\* yield(), for 0, or yield(get_handler(code)).
yield(code) ==
  /\ yt_handler' = IF code = immediate THEN yt_handler ELSE code
  /\ yt_where' = "queued"
  /\ UNCHANGED <<yt_aborted, success>>

\* case ThreadPoolYieldTest_start, with start_call_yield().
start ==
  /\ yt_where = "busy" /\ ~yt_aborted /\ yt_state = "start"
  /\ assert("start", yt_handler = run_handler)
  /\ yt_state' = "print"
  /\ IF Bits(2) = immediate /\ run_handler = immediate
       THEN yt_aborted' = TRUE /\ UNCHANGED <<yt_handler, yt_where, success>>
       ELSE yield(Bits(2))
  /\ UNCHANGED <<m_yield_code, m_timer>>

\* case ThreadPoolYieldTest_print, with print_call_yield(), where yield() is not preceded by a test.
print ==
  /\ yt_where = "busy" /\ ~yt_aborted /\ yt_state = "print"
  /\ assert("print", yt_handler = start_handler /\ (Bits(4) = immediate => yt_handler # immediate))
  /\ yt_state' = "done"
  /\ yield(Bits(4))
  /\ UNCHANGED <<m_yield_code, m_timer>>

\* case ThreadPoolYieldTest_done: finish() and the callback.
done ==
  /\ yt_where = "busy" /\ ~yt_aborted /\ yt_state = "done"
  /\ assert("done", yt_handler = print_handler)
  /\ finish(TRUE)
  /\ UNCHANGED <<m_yield_code, yt_state, yt_handler, yt_aborted, m_timer>>

\* An aborted task does not run multiplex_impl again.
aborted ==
  /\ yt_where = "busy" /\ yt_aborted
  /\ finish(FALSE)
  /\ UNCHANGED <<m_yield_code, yt_state, yt_handler, yt_aborted, m_timer, yt_failed>>

\* The timer calls timed_out(): with idle = 1 the abort finishes a task that is not executed
\* at this moment; one that is, ends when it returns from multiplex_impl.  On a task that
\* has finished the abort has no effect.
timed_out ==
  /\ m_timer = "running"
  /\ m_timer' = "expired"
  /\ yt_aborted' = TRUE
  /\ IF yt_where = "queued" THEN finish(FALSE) ELSE UNCHANGED <<yt_where, success>>
  /\ UNCHANGED <<m_yield_code, yt_state, yt_handler, yt_failed>>

\* main(): the end of the round, when the callback was called.  The task and its timer are destructed.
next_round ==
  /\ yt_where = "finished"
  /\ yt_where' = "destructed"
  /\ m_timer' = IF m_timer = "running" THEN "off" ELSE m_timer
  /\ UNCHANGED <<m_yield_code, yt_state, yt_handler, yt_aborted, success, yt_failed>>

work == run \/ execute \/ start \/ print \/ done \/ aborted \/ next_round

Terminated == yt_where = "destructed" /\ UNCHANGED ytVars

Next == work \/ timed_out \/ Terminated

-----------------------------------------------------------------------------

\* For every yield code, each state is executed by the handler that the code stands for,
\* yield() without a handler is never called by a task that runs immediately, and
\* a task only fails by the timer or because its code asks for such a yield(); the callback only
\* ever gets one result, also when the timer expires while or after the task finishes.
HandlersAgree ==
  /\ yt_failed = {}
  /\ success # {TRUE, FALSE}
  /\ FALSE \in success => m_timer = "expired" \/ (run_handler = immediate /\ Bits(2) = immediate)

=============================================================================
