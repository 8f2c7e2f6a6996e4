--------------------------- MODULE WaitSignalTest ---------------------------
(***************************************************************************)
(* wait_signal_test.cxx: main() creates one Test task per script, runs it  *)
(* in the engine of the main thread and lets it abort.  A script is a      *)
(* sequence of calls of wait, signal (with the expected return value) and  *)
(* the three assert_ functions.  An ASSERT that fails stops the program;   *)
(* here it sets `failed' and the program does not go on.                   *)
(***************************************************************************)
EXTENDS TaskConditions, Naturals, Sequences

VARIABLES
  test,     \* the loop counter of main(), 0 .. number_of_tests
  pc,       \* "create", or the number of the call of do_test(test) that is next
  task,     \* condition word of the Test task
  failed    \* an ASSERT failed

vars == <<test, pc, task, failed>>

BothConditions == {1, 2}

\* The calls a script is made of; mask 3 is both conditions.
w(c)     == [call |-> "wait", on |-> c, expected |-> FALSE]
s(c, e)  == [call |-> "signal", on |-> c, expected |-> e]
check(a) == [call |-> a, on |-> {1}, expected |-> FALSE]

w1  == w({1})
w2  == w({2})
w3  == w({1, 2})
s1f == s({1}, FALSE)
s1t == s({1}, TRUE)
s2f == s({2}, FALSE)
s2t == s({2}, TRUE)
IDLE      == check("assert_IDLE")
RUNNING   == check("assert_RUNNING")
SKIP_WAIT == check("assert_SKIP_WAIT")

\* Cases 0 - 4: "No signal(2)."
NoSignal2 == <<
  <<w1, IDLE>>, <<s1f, SKIP_WAIT>>, <<s1f, s1f, SKIP_WAIT>>,
  <<s1f, w1, RUNNING>>, <<w1, s1t, RUNNING>> >>

\* Cases 5 - 17: "Just signal(2)."
JustSignal2 == <<
  <<s2f, w1, IDLE>>, <<w1, s2f, IDLE>>,
  <<s2f, s1f, SKIP_WAIT>>, <<s1f, s2f, SKIP_WAIT>>,
  <<s2f, s1f, s1f, SKIP_WAIT>>, <<s1f, s2f, s1f, SKIP_WAIT>>,
  <<s1f, s1f, s2f, SKIP_WAIT>>,
  <<s2f, s1f, w1, RUNNING>>, <<s1f, s2f, w1, RUNNING>>, <<s1f, w1, s2f, RUNNING>>,
  <<s2f, w1, s1t, RUNNING>>, <<w1, s2f, s1t, RUNNING>>, <<w1, s1t, s2f, RUNNING>> >>

\* Cases 18 - 29: "signal(2) and wait(2).", condition 1 signalled at most once.
Signal2Wait2 == <<
  <<w2, s2t, w1, IDLE>>, <<s2f, w2, w1, IDLE>>, <<s2f, w3, RUNNING>>,
  <<w3, s2t, RUNNING>>, <<>>, <<>>,
  <<w2, s2t, s1f, SKIP_WAIT>>, <<s2f, w2, s1f, SKIP_WAIT>>, <<s2f, s1f, w2, SKIP_WAIT>>,
  <<w2, s1f, s2t, SKIP_WAIT>>, <<s1f, w2, s2t, SKIP_WAIT>>, <<s1f, s2f, w2, SKIP_WAIT>> >>

\* Cases 30 - 41: condition 1 signalled twice around signal(2) and wait(2).
Signal1Signal1 == <<
  <<w2, s2t, s1f, s1f, SKIP_WAIT>>, <<s2f, w2, s1f, s1f, SKIP_WAIT>>,
  <<s2f, s1f, w2, s1f, SKIP_WAIT>>, <<s2f, s1f, s1f, w2, SKIP_WAIT>>,
  <<w2, s1f, s2t, s1f, SKIP_WAIT>>, <<s1f, w2, s2t, s1f, SKIP_WAIT>>,
  <<s1f, s2f, w2, s1f, SKIP_WAIT>>, <<s1f, s2f, s1f, w2, SKIP_WAIT>>,
  <<w2, s1f, s1f, s2t, SKIP_WAIT>>, <<s1f, w2, s1f, s2t, SKIP_WAIT>>,
  <<s1f, s1f, w2, s2t, SKIP_WAIT>>, <<s1f, s1f, s2f, w2, SKIP_WAIT>> >>

\* Cases 42 - 53: signal(1) before wait(1).
Signal1Wait1 == <<
  <<w2, s2t, s1f, w1, RUNNING>>, <<s2f, w2, s1f, w1, RUNNING>>, <<s2f, s1f, w3, RUNNING>>, <<>>,
  <<w2, s1f, s2t, w1, RUNNING>>, <<s1f, w2, s2t, w1, RUNNING>>, <<s1f, s2f, w3, RUNNING>>,
  <<>>, <<>>,
  <<s1f, w3, s2f, RUNNING>>, <<s1f, w1, s2f, w2, RUNNING>>, <<>> >>

\* Cases 54 - 65: wait(1) before signal(1).
Wait1Signal1 == <<
  <<w2, s2t, w1, s1t, RUNNING>>, <<s2f, w3, s1f, SKIP_WAIT>>,
  <<s2f, w1, s1t, w2, RUNNING>>, <<>>,
  <<w3, s2t, s1f, SKIP_WAIT>>, <<>>, <<w1, s2f, s1t, w2, RUNNING>>, <<>>,
  <<w3, s1t, s2f, RUNNING>>, <<w1, s1t, w2, s2t, RUNNING>>,
  <<w1, s1t, s2f, w2, RUNNING>>, <<>> >>

do_test ==
  NoSignal2 \o JustSignal2 \o Signal2Wait2 \o Signal1Signal1 \o Signal1Wait1 \o Wait1Signal1

number_of_tests == Len(do_test)

-----------------------------------------------------------------------------

Init ==
  /\ test = 0
  /\ pc = 0
  /\ task = Fresh
  /\ failed = FALSE

Mutant_same_task ==
  /\ ~failed /\ pc = 0 /\ test < number_of_tests
  /\ failed' = waiting(task)
  /\ pc' = 1
  /\ UNCHANGED <<test, task>>

\* main(): the next Test task is created and run; multiplex_impl starts do_test.
Create ==
  /\ ~failed /\ pc = 0 /\ test < number_of_tests
  /\ task' = Fresh
  /\ failed' = waiting(task')
  /\ pc' = 1
  /\ UNCHANGED test

script == do_test[test + 1]

calling(name) == ~failed /\ pc > 0 /\ pc <= Len(script) /\ script[pc].call = name

CallWait ==
  /\ calling("wait")
  /\ task' = wait(task, script[pc].on)
  /\ failed' = waiting(task)
  /\ pc' = pc + 1
  /\ UNCHANGED test

Mutant_signal_other_idle ==
  /\ calling("signal")
  /\ task' = IF waiting(task) /\ ~wakes(task, script[pc].on) THEN task ELSE signal(task, script[pc].on)
  /\ failed' = (wakes(task, script[pc].on) # script[pc].expected)
  /\ pc' = pc + 1
  /\ UNCHANGED test

CallSignal ==
  /\ calling("signal")
  /\ task' = signal(task, script[pc].on)
  /\ failed' = (wakes(task, script[pc].on) # script[pc].expected)
  /\ pc' = pc + 1
  /\ UNCHANGED test

assert_IDLE ==
  /\ calling("assert_IDLE")
  /\ failed' = ~waiting(task)
  /\ pc' = pc + 1
  /\ UNCHANGED <<test, task>>

assert_RUNNING ==
  /\ calling("assert_RUNNING")
  /\ task' = wait(task, {1})
  /\ failed' = (waiting(task) \/ ~waiting(task'))
  /\ pc' = pc + 1
  /\ UNCHANGED test

assert_SKIP_WAIT ==
  /\ calling("assert_SKIP_WAIT")
  /\ task' = wait(task, {1})
  /\ failed' = (waiting(task) \/ waiting(task'))
  /\ pc' = pc + 1
  /\ UNCHANGED test

\* multiplex_impl calls abort(), the engine runs out of tasks, main() goes on.
Abort ==
  /\ ~failed /\ pc > 0 /\ pc > Len(script)
  /\ test' = test + 1
  /\ pc' = 0
  /\ UNCHANGED <<task, failed>>

Leave == test = number_of_tests /\ UNCHANGED vars

Next ==
  \/ Create
  \/ CallWait
  \/ CallSignal
  \/ assert_IDLE
  \/ assert_RUNNING
  \/ assert_SKIP_WAIT
  \/ Abort
  \/ Leave

-----------------------------------------------------------------------------

\* No ASSERT of the 66 scripts fails: every signal() returns what its script
\* expects and every assert_ function finds the task in the state it names.
ScriptsPass == ~failed

\* The diagram in the comment above assert_IDLE: a wait for one condition moves it
\* SKIP_WAIT -> RUNNING -> IDLE and a signal moves it IDLE -> RUNNING -> SKIP_WAIT,
\* whatever the other condition is doing at that moment.
StateOf(t, c) ==
  IF c \in t.idle THEN "IDLE" ELSE IF c \in t.skip THEN "SKIP_WAIT" ELSE "RUNNING"

WaitArrow   == {<<"SKIP_WAIT", "RUNNING">>, <<"RUNNING", "IDLE">>}
SignalArrow == {<<"IDLE", "RUNNING">>, <<"RUNNING", "SKIP_WAIT">>, <<"SKIP_WAIT", "SKIP_WAIT">>}

Diagram ==
  [][\A c \in BothConditions :
       LET arrow == <<StateOf(task, c), StateOf(task', c)>>
       IN  /\ CallWait /\ script[pc].on = {c} => arrow \in WaitArrow
           /\ CallSignal /\ script[pc].on = {c} => arrow \in SignalArrow]_vars

=============================================================================
