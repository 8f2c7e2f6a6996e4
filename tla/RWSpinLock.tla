----------------------------- MODULE RWSpinLock -----------------------------
(***************************************************************************)
(* rwspinlock_test.cxx: the design study for a read/write spin lock that   *)
(* is one word with four counters c, w, v and r.  A thread first applies   *)
(* the transition it wants and looks at the counters it finds; then, if    *)
(* they tell that it must block, it applies a follow-up transition that    *)
(* takes back what it does not have.  The program walks the graph of the   *)
(* counters; `holds' is history: what the transitions gave to each thread. *)
(*                                                                         *)
(* A transition starts in a stable state, as in the loop of main().  What  *)
(* a blocked thread does when it is woken up is not in the program: a walk *)
(* ends where a blocked thread would have to go on.                        *)
(***************************************************************************)
EXTENDS Integers, FiniteSets

CONSTANT Threads

ASSUME ThreadsAssumption == Threads # {} /\ IsFiniteSet(Threads)

VARIABLES
  state,      \* the counters
  previous,   \* the counters before the transition that is being done
  doing, by,  \* that transition, "none" when it is done, and its thread
  holds       \* what each thread has, or is blocked on

vars == <<state, previous, doing, by, holds>>

States == [c : Nat, w : Nat, v : Nat, r : Nat]
State(c, w, v, r) == [c |-> c, w |-> w, v |-> v, r |-> r]

\* "These states should never occur, not even shortly."
is_illegal(s) == s.c > s.r \/ s.c > s.v \/ s.w > s.v

is_stable(s) ==
  ~ \/ is_illegal(s)
    \/ s.w > 1
    \/ s.c > 1
    \/ s.w = 1 /\ s.r > 0
    \/ s.v > 0 /\ s.w = 0 /\ s.r = s.c

\* The transition that has to follow the one that led from prev to s.
Mutant_readers_pass(s, prev) ==
  IF s.c >= 2 /\ s.c > prev.c THEN "must_throw"
  ELSE IF s.v > prev.v /\ (prev.r > s.c \/ prev.w > 0)
    THEN IF s.c > prev.c THEN "failed_rd2wrlock" ELSE "failed_wrlock"
  ELSE IF s.c > prev.c THEN "successful_rd2wrlock" ELSE "none"

follow_up(s, prev) ==
  IF s.c >= 2 /\ s.c > prev.c THEN "must_throw"
  ELSE IF s.r > prev.r /\ prev.v > 0
    THEN IF s.w < prev.w THEN "none" ELSE "failed_rdlock"
  ELSE IF s.v > prev.v /\ (prev.r > s.c \/ prev.w > 0)
    THEN IF s.c > prev.c THEN "failed_rd2wrlock" ELSE "failed_wrlock"
  ELSE IF s.c > prev.c THEN "successful_rd2wrlock" ELSE "none"

is_blocking(f) == f \in {"failed_rdlock", "failed_wrlock", "failed_rd2wrlock"}

\* apply(): what a transition adds to the counters.  It is undefined behaviour to give
\* back a lock that nobody has.
Add(s, c, w, v, r) == State(s.c + c, s.w + w, s.v + v, s.r + r)

may_apply(transition, s) ==
  /\ transition \in {"rdunlock", "rd2wrlock"} => s.r > 0
  /\ transition \in {"wrunlock", "wr2rdlock"} => s.w > 0

Mutant_forget_v(transition, s) ==
  CASE transition = "rdlock"    -> Add(s, 0, 0, 0, 1)
    [] transition = "rdunlock"  -> Add(s, 0, 0, 0, -1)
    [] transition = "wrlock"    -> Add(s, 0, 1, 1, 0)
    [] transition = "wrunlock"  -> Add(s, 0, -1, -1, 0)
    [] transition = "wr2rdlock" -> Add(s, 0, -1, -1, 1)
    [] transition = "rd2wrlock" -> Add(s, 1, 0, 0, 0)

apply_initial(transition, s) ==
  CASE transition = "rdlock"    -> Add(s, 0, 0, 0, 1)
    [] transition = "rdunlock"  -> Add(s, 0, 0, 0, -1)
    [] transition = "wrlock"    -> Add(s, 0, 1, 1, 0)
    [] transition = "wrunlock"  -> Add(s, 0, -1, -1, 0)
    [] transition = "wr2rdlock" -> Add(s, 0, -1, -1, 1)
    [] transition = "rd2wrlock" -> Add(s, 1, 0, 1, 0)

apply_follow_up(f, s) ==
  CASE f = "failed_rdlock"                -> Add(s, 0, 0, 0, -1)
    [] f = "failed_wrlock"                -> Add(s, 0, -1, 0, 0)
    [] f = "successful_rd2wrlock"         -> Add(s, -1, 1, 0, -1)
    [] f \in {"failed_rd2wrlock", "none"} -> s

-----------------------------------------------------------------------------
(* What a thread has.                                                        *)

Transitions == {"rdlock", "rdunlock", "wrlock", "wrunlock", "wr2rdlock", "rd2wrlock"}
Held == {"nothing", "read", "write", "blocked_on_write", "blocked_on_convert"}

\* What a thread must have to ask for a transition, what it has after it, and what it is
\* left with if it blocked.
needs(transition) ==
  CASE transition \in {"rdlock", "wrlock"}      -> "nothing"
    [] transition \in {"rdunlock", "rd2wrlock"} -> "read"
    [] transition \in {"wrunlock", "wr2rdlock"} -> "write"

gives(transition) ==
  CASE transition \in {"rdlock", "wr2rdlock"}   -> "read"
    [] transition \in {"wrlock", "rd2wrlock"}   -> "write"
    [] transition \in {"rdunlock", "wrunlock"}  -> "nothing"

blocks_on(f) ==
  CASE f = "failed_rdlock"    -> "nothing"
    [] f = "failed_wrlock"    -> "blocked_on_write"
    [] f = "failed_rd2wrlock" -> "blocked_on_convert"

-----------------------------------------------------------------------------

Init ==
  /\ state = State(0, 0, 0, 0)
  /\ previous = state
  /\ doing = "none"
  /\ by \in Threads
  /\ holds = [t \in Threads |-> "nothing"]

\* The initial transition: one of the first six, applied to a stable state.
Apply(t, transition) ==
  /\ doing = "none" /\ is_stable(state)
  /\ holds[t] = needs(transition)
  /\ may_apply(transition, state)
  /\ previous' = state
  /\ state' = apply_initial(transition, state)
  /\ doing' = transition /\ by' = t
  /\ UNCHANGED holds

\* The follow-up.  Two conversions at once never end: the thread throws, and the walk
\* goes on with the state before it.
FollowUp ==
  LET f == follow_up(state, previous)
  IN  /\ doing # "none"
      /\ state' = IF f = "must_throw" THEN previous ELSE apply_follow_up(f, state)
      /\ holds' = CASE f = "must_throw" -> holds
                    [] is_blocking(f)   -> [holds EXCEPT ![by] = blocks_on(f)]
                    [] OTHER            -> [holds EXCEPT ![by] = gives(doing)]
      /\ doing' = "none"
      /\ previous' = state'
      /\ UNCHANGED by

\* A blocked thread would go on now; the walk ends.
WalkEnds == doing = "none" /\ ~is_stable(state) /\ UNCHANGED vars

Next ==
  \/ \E t \in Threads, transition \in Transitions : Apply(t, transition)
  \/ FollowUp
  \/ WalkEnds

Spec == Init /\ [][Next]_vars

-----------------------------------------------------------------------------

\* The values the variables can have.
TypeOK ==
  /\ state \in States /\ previous \in States
  /\ doing \in Transitions \cup {"none"} /\ by \in Threads
  /\ holds \in [Threads -> Held]

\* No transition and no follow-up leads to a state that "should never occur, not even
\* shortly": the DoutFatal of apply() is not reached.
NeverIllegal == ~is_illegal(state) /\ ~is_illegal(previous)

HandOver(s) == s.v > 0 /\ s.w = 0 /\ s.r = s.c /\ s.c <= 1

\* When the transition and its follow-up are done the state is stable, or the only
\* threads left are blocked ones, and one of those can have the write lock.
StableOrHandOver ==
  doing = "none" => is_stable(state) \/ HandOver(state)

Number(h) == Cardinality({t \in Threads : holds[t] = h})

\* The comments on the members of struct State: r counts the threads with a read lock, also
\* those that wait to convert it (c); v counts those that have or wait for a write lock and w
\* those that have it.  (The comment at the top of the file says something else of V, see
\* VCountsBlocked.)
CountersTell ==
  doing = "none" =>
    /\ state.c = Number("blocked_on_convert")
    /\ state.w = Number("write")
    /\ state.v = Number("write") + Number("blocked_on_write") + Number("blocked_on_convert")
    /\ state.r = Number("read") + Number("blocked_on_convert")

\* The comment at the top of the file: "V = number of threads that are blocked on trying to get a
\* write-lock", so that in the stable states 0100 and 100r there is no V for the thread with
\* the write lock or for the one that converts.
VCountsBlocked == doing = "none" => state.v = Number("blocked_on_write")

\* A thread that has the write lock has it alone.
WriteAlone ==
  \A t, u \in Threads :
    doing = "none" /\ t # u /\ holds[t] = "write" =>
      holds[u] \in {"nothing", "blocked_on_write"}

=============================================================================
