-------------------------- MODULE RWSpinLockProofs --------------------------
(***************************************************************************)
(* The counters of the read/write lock never become illegal, whatever      *)
(* their values: rwspinlock_test.cxx looks at nodes with c and w up to 2   *)
(* and v and r up to 3, the theorems hold for any number of threads.       *)
(*                                                                         *)
(* The invariant says how the two steps of a transition hang together:     *)
(* while one is being done, `previous' is the stable state that it was     *)
(* applied to and `state' is what applying it gave.  The second part of    *)
(* the module is about what the counters count: each is the number of      *)
(* threads that its comment says, which is why a writer is alone.          *)
(***************************************************************************)
EXTENDS RWSpinLock, FiniteSetTheorems, TLAPS

WalkInv ==
  /\ doing = "none" => ~is_illegal(state) /\ previous = state
                       /\ (is_stable(state) \/ HandOver(state))
  /\ doing # "none" => /\ is_stable(previous)
                       /\ may_apply(doing, previous)
                       /\ state = apply_initial(doing, previous)

Inv == TypeOK /\ WalkInv

-----------------------------------------------------------------------------

\* A first transition leads from a stable state to one that is not illegal.
LEMMA InitialIsLegal ==
  ASSUME NEW s \in States, is_stable(s), NEW transition \in Transitions, may_apply(transition, s)
  PROVE  apply_initial(transition, s) \in States /\ ~is_illegal(apply_initial(transition, s))
<1>1. CASE transition = "rdlock"
  BY <1>1 DEF States, is_stable, is_illegal, apply_initial, Add, State
<1>2. CASE transition = "rdunlock"
  BY <1>2 DEF States, is_stable, is_illegal, may_apply, apply_initial, Add, State
<1>3. CASE transition = "wrlock"
  BY <1>3 DEF States, is_stable, is_illegal, apply_initial, Add, State
<1>4. CASE transition = "wrunlock"
  BY <1>4 DEF States, is_stable, is_illegal, may_apply, apply_initial, Add, State
<1>5. CASE transition = "wr2rdlock"
  BY <1>5 DEF States, is_stable, is_illegal, may_apply, apply_initial, Add, State
<1>6. CASE transition = "rd2wrlock"
  BY <1>6 DEF States, is_stable, is_illegal, may_apply, apply_initial, Add, State
<1> QED BY <1>1, <1>2, <1>3, <1>4, <1>5, <1>6 DEF Transitions

\* The state after a first transition and its follow-up.
Final(transition, s) ==
  LET a == apply_initial(transition, s)
      f == follow_up(a, s)
  IN  IF f = "must_throw" THEN s ELSE apply_follow_up(f, a)

Ended(s) == s \in States /\ ~is_illegal(s) /\ (is_stable(s) \/ HandOver(s))

LEMMA EndedFields ==
  ASSUME NEW c \in Nat, NEW w \in Nat, NEW v \in Nat, NEW r \in Nat,
         c <= r, c <= v, w <= v, w <= 1, c <= 1, w = 1 => r = 0
  PROVE  Ended(State(c, w, v, r))
BY DEF Ended, States, State, is_illegal, is_stable, HandOver

LEMMA FinalIsLegal ==
  ASSUME NEW s \in States, is_stable(s), NEW transition \in Transitions, may_apply(transition, s)
  PROVE  Ended(Final(transition, s))
<1> DEFINE a == apply_initial(transition, s)
           f == follow_up(a, s)
           z == Final(transition, s)
<1>1. /\ s.c \in Nat /\ s.w \in Nat /\ s.v \in Nat /\ s.r \in Nat
      /\ s.c <= s.r /\ s.c <= s.v /\ s.w <= s.v /\ s.w <= 1 /\ s.c <= 1
      /\ s.w = 1 => s.r = 0
      /\ s.v > 0 /\ s.w = 0 => s.r # s.c
  BY DEF States, is_stable, is_illegal
<1>2. CASE transition = "rdlock"
  <2>1. a = State(s.c, s.w, s.v, s.r + 1)
    BY <1>1, <1>2 DEF apply_initial, Add, State
  <2>2. f = IF s.v > 0 THEN "failed_rdlock" ELSE "none"
    BY <1>1, <2>1 DEF follow_up, State
  <2>3. z = IF s.v > 0 THEN State(s.c, s.w, s.v, s.r) ELSE State(s.c, s.w, s.v, s.r + 1)
    BY <1>1, <2>1, <2>2 DEF Final, apply_follow_up, Add, State
  <2> QED BY <1>1, <2>3, EndedFields
<1>3. CASE transition = "rdunlock"
  <2>1. a = State(s.c, s.w, s.v, s.r - 1) /\ s.r > 0
    BY <1>1, <1>3 DEF apply_initial, may_apply, Add, State
  <2>2. f = "none"
    BY <1>1, <2>1 DEF follow_up, State
  <2>3. z = State(s.c, s.w, s.v, s.r - 1)
    BY <2>1, <2>2 DEF Final, apply_follow_up
  <2> QED BY <1>1, <2>1, <2>3, EndedFields
<1>4. CASE transition = "wrlock"
  <2>1. a = State(s.c, s.w + 1, s.v + 1, s.r)
    BY <1>1, <1>4 DEF apply_initial, Add, State
  <2>2. f = IF s.r > s.c \/ s.w > 0 THEN "failed_wrlock" ELSE "none"
    BY <1>1, <2>1 DEF follow_up, State
  <2>3. z = IF s.r > s.c \/ s.w > 0 THEN State(s.c, s.w, s.v + 1, s.r)
                                    ELSE State(s.c, s.w + 1, s.v + 1, s.r)
    BY <1>1, <2>1, <2>2 DEF Final, apply_follow_up, Add, State
  <2> QED BY <1>1, <2>3, EndedFields
<1>5. CASE transition = "wrunlock"
  <2>1. a = State(s.c, s.w - 1, s.v - 1, s.r) /\ s.w > 0
    BY <1>1, <1>5 DEF apply_initial, may_apply, Add, State
  <2>2. f = "none"
    BY <1>1, <2>1 DEF follow_up, State
  <2>3. z = State(s.c, s.w - 1, s.v - 1, s.r)
    BY <2>1, <2>2 DEF Final, apply_follow_up
  <2> QED BY <1>1, <2>1, <2>3, EndedFields
<1>6. CASE transition = "wr2rdlock"
  <2>1. a = State(s.c, s.w - 1, s.v - 1, s.r + 1) /\ s.w > 0
    BY <1>1, <1>6 DEF apply_initial, may_apply, Add, State
  <2>2. f = "none"
    BY <1>1, <2>1 DEF follow_up, State
  <2>3. z = State(s.c, s.w - 1, s.v - 1, s.r + 1)
    BY <2>1, <2>2 DEF Final, apply_follow_up
  <2> QED BY <1>1, <2>1, <2>3, EndedFields
<1>7. CASE transition = "rd2wrlock"
  <2>1. a = State(s.c + 1, s.w, s.v + 1, s.r) /\ s.r > 0
    BY <1>1, <1>7 DEF apply_initial, may_apply, Add, State
  <2>2. f = IF s.c = 1 THEN "must_throw"
            ELSE IF s.r > 1 THEN "failed_rd2wrlock" ELSE "successful_rd2wrlock"
    BY <1>1, <2>1 DEF follow_up, State
  <2>3. CASE s.c = 1
    <3>1. z = s
      BY <2>2, <2>3 DEF Final
    <3> QED BY <3>1 DEF Ended, is_stable
  <2>4. CASE s.c # 1 /\ s.r > 1
    <3>1. z = State(s.c + 1, s.w, s.v + 1, s.r)
      BY <2>1, <2>2, <2>4 DEF Final, apply_follow_up
    <3> QED BY <1>1, <2>4, <3>1, EndedFields
  <2>5. CASE s.c # 1 /\ ~(s.r > 1)
    <3>1. z = State(s.c, s.w + 1, s.v + 1, s.r - 1)
      BY <1>1, <2>1, <2>2, <2>5 DEF Final, apply_follow_up, Add, State
    <3> QED BY <1>1, <2>1, <2>5, <3>1, EndedFields
  <2> QED BY <2>3, <2>4, <2>5
<1> QED BY <1>2, <1>3, <1>4, <1>5, <1>6, <1>7 DEF Transitions

-----------------------------------------------------------------------------

LEMMA InitInv == Init => Inv
BY ThreadsAssumption
   DEF Init, Inv, TypeOK, WalkInv, States, State, is_illegal, is_stable, Held

LEMMA StepInv == Inv /\ [Next]_vars => Inv'
<1> SUFFICES ASSUME Inv, [Next]_vars PROVE Inv'
  OBVIOUS
<1>1. ASSUME NEW t \in Threads, NEW transition \in Transitions, Apply(t, transition)
      PROVE  Inv'
  <2>1. transition # "none"
    BY DEF Transitions
  <2>2. state' \in States
    BY <1>1, InitialIsLegal DEF Apply, Inv, TypeOK
  <2>3. TypeOK'
    BY <1>1, <2>2 DEF Apply, Inv, TypeOK
  <2> QED BY <1>1, <2>1, <2>3 DEF Apply, Inv, WalkInv
<1>2. CASE FollowUp
  <2>1. /\ doing \in Transitions
        /\ previous \in States /\ is_stable(previous) /\ may_apply(doing, previous)
        /\ state = apply_initial(doing, previous)
    BY <1>2 DEF FollowUp, Inv, TypeOK, WalkInv
  <2>2. Ended(Final(doing, previous))
    BY <2>1, FinalIsLegal
  <2>3. /\ state' = Final(doing, previous) /\ previous' = state'
        /\ doing' = "none" /\ by' = by
    BY <1>2, <2>1 DEF FollowUp, Final
  <2>4. holds' \in [Threads -> Held]
    <3> DEFINE f == follow_up(state, previous)
    <3>1. is_blocking(f) => blocks_on(f) \in Held
      BY DEF is_blocking, blocks_on, Held
    <3>2. gives(doing) \in Held
      BY <2>1 DEF gives, Held, Transitions
    <3> QED BY <1>2, <3>1, <3>2 DEF FollowUp, Inv, TypeOK
  <2> QED BY <2>2, <2>3, <2>4 DEF Ended, Inv, TypeOK, WalkInv
<1>3. CASE UNCHANGED vars
  BY <1>3 DEF vars, Inv, TypeOK, WalkInv
<1> QED BY <1>1, <1>2, <1>3 DEF Next, WalkEnds

-----------------------------------------------------------------------------
(* What the counters count.  While a transition is being done `holds' is     *)
(* still what it was before it, so that is what `previous' tells.            *)

With(f, h) == {t \in Threads : f[t] = h}
NumberIn(f, h) == Cardinality(With(f, h))

Tells(s, f) ==
  /\ s.c = NumberIn(f, "blocked_on_convert")
  /\ s.w = NumberIn(f, "write")
  /\ s.v = NumberIn(f, "write") + NumberIn(f, "blocked_on_write") + NumberIn(f, "blocked_on_convert")
  /\ s.r = NumberIn(f, "read") + NumberIn(f, "blocked_on_convert")

CountInv ==
  /\ Tells(previous, holds)
  /\ doing # "none" => holds[by] = needs(doing)

LEMMA NumberType ==
  ASSUME NEW f, NEW h
  PROVE  IsFiniteSet(With(f, h)) /\ NumberIn(f, h) \in Nat
BY ThreadsAssumption, FS_Subset, FS_CardinalityType DEF With, NumberIn

Is(h, k) == IF h = k THEN 1 ELSE 0

LEMMA IsType == \A h, k : Is(h, k) \in Int
BY DEF Is

\* One thread gets something else: only the two numbers concerned change.
LEMMA NumberChanges ==
  ASSUME NEW f \in [Threads -> Held], NEW t \in Threads, NEW h \in Held, NEW k \in Held
  PROVE  NumberIn([f EXCEPT ![t] = h], k) = NumberIn(f, k) + (Is(h, k) - Is(f[t], k))
<1> DEFINE g == [f EXCEPT ![t] = h]
<1>1. IsFiniteSet(With(f, k)) /\ NumberIn(f, k) \in Nat
  BY NumberType
<1>2. CASE h # k /\ f[t] = k
  <2>1. With(g, k) = With(f, k) \ {t} /\ t \in With(f, k)
    BY <1>2 DEF With
  <2>2. NumberIn(g, k) = NumberIn(f, k) - 1
    BY <1>1, <2>1, FS_RemoveElement DEF NumberIn
  <2>3. Is(h, k) = 0 /\ Is(f[t], k) = 1
    BY <1>2 DEF Is
  <2> QED BY <1>1, <2>2, <2>3
<1>3. CASE h = k /\ f[t] # k
  <2>1. With(g, k) = With(f, k) \cup {t} /\ t \notin With(f, k)
    BY <1>3 DEF With
  <2>2. NumberIn(g, k) = NumberIn(f, k) + 1
    BY <1>1, <2>1, FS_AddElement DEF NumberIn
  <2>3. Is(h, k) = 1 /\ Is(f[t], k) = 0
    BY <1>3 DEF Is
  <2> QED BY <1>1, <2>2, <2>3
<1>4. CASE h = k <=> f[t] = k
  <2>1. With(g, k) = With(f, k)
    BY <1>4 DEF With
  <2> QED BY <1>1, <1>4, <2>1 DEF NumberIn, Is
<1> QED BY <1>2, <1>3, <1>4

\* The counters of z differ from those of s by what the thread has now and what it had.
Moved(s, had, has, z) ==
  /\ z.c = s.c + Is(has, "blocked_on_convert") - Is(had, "blocked_on_convert")
  /\ z.w = s.w + Is(has, "write") - Is(had, "write")
  /\ z.v = s.v + (Is(has, "write") - Is(had, "write"))
               + (Is(has, "blocked_on_write") - Is(had, "blocked_on_write"))
               + (Is(has, "blocked_on_convert") - Is(had, "blocked_on_convert"))
  /\ z.r = s.r + (Is(has, "read") - Is(had, "read"))
               + (Is(has, "blocked_on_convert") - Is(had, "blocked_on_convert"))

LEMMA TellsChanges ==
  ASSUME NEW s \in States, NEW f \in [Threads -> Held], Tells(s, f),
         NEW t \in Threads, NEW h \in Held, NEW z \in States, Moved(s, f[t], h, z)
  PROVE  Tells(z, [f EXCEPT ![t] = h])
<1> DEFINE g == [f EXCEPT ![t] = h]
           d(k) == Is(h, k) - Is(f[t], k)
<1>1. \A k \in Held : NumberIn(g, k) = NumberIn(f, k) + d(k)
  BY NumberChanges
<1>2. \A k \in Held : NumberIn(f, k) \in Int
  BY NumberType
<1>3. \A k \in Held : d(k) \in Int
  BY IsType
<1>4. /\ z.c = s.c + d("blocked_on_convert") /\ z.w = s.w + d("write")
      /\ z.v = s.v + d("write") + d("blocked_on_write") + d("blocked_on_convert")
      /\ z.r = s.r + d("read") + d("blocked_on_convert")
  BY IsType DEF Moved, States
<1> HIDE DEF g, d
<1>5. Tells(z, g)
  BY <1>1, <1>2, <1>3, <1>4 DEF Tells, Held
<1> QED BY <1>5 DEF g

\* What the thread that did a transition has after the follow-up.
Outcome(transition, s) ==
  LET f == follow_up(apply_initial(transition, s), s)
  IN  CASE f = "must_throw" -> needs(transition)
        [] is_blocking(f)   -> blocks_on(f)
        [] OTHER            -> gives(transition)

\* A transition with its follow-up moves the counters by what it gives to the thread.
LEMMA FinalMoves ==
  ASSUME NEW s \in States, is_stable(s), NEW transition \in Transitions, may_apply(transition, s)
  PROVE  /\ Outcome(transition, s) \in Held
         /\ Moved(s, needs(transition), Outcome(transition, s), Final(transition, s))
<1> DEFINE a == apply_initial(transition, s)
           f == follow_up(a, s)
           z == Final(transition, s)
           o == Outcome(transition, s)
<1>1. /\ s.c \in Nat /\ s.w \in Nat /\ s.v \in Nat /\ s.r \in Nat
      /\ s.c <= s.r /\ s.c <= s.v /\ s.w <= s.v /\ s.w <= 1 /\ s.c <= 1
      /\ s.w = 1 => s.r = 0
      /\ s.v > 0 /\ s.w = 0 => s.r # s.c
      /\ s = State(s.c, s.w, s.v, s.r)
  BY DEF States, State, is_stable, is_illegal
<1>2. CASE transition = "rdlock"
  <2>1. a = State(s.c, s.w, s.v, s.r + 1) /\ needs(transition) = "nothing" /\ gives(transition) = "read"
    BY <1>1, <1>2 DEF apply_initial, Add, State, needs, gives
  <2>2. f = IF s.v > 0 THEN "failed_rdlock" ELSE "none"
    BY <1>1, <2>1 DEF follow_up, State
  <2>3. CASE s.v > 0
    <3>1. z = State(s.c, s.w, s.v, s.r) /\ o = "nothing"
      BY <1>1, <2>1, <2>2, <2>3 DEF Final, Outcome, apply_follow_up, Add, State, is_blocking, blocks_on
    <3> QED BY <1>1, <2>1, <3>1 DEF Moved, Is, State, Held
  <2>4. CASE ~(s.v > 0)
    <3>1. z = State(s.c, s.w, s.v, s.r + 1) /\ o = "read"
      BY <2>1, <2>2, <2>4 DEF Final, Outcome, apply_follow_up, is_blocking
    <3> QED BY <1>1, <2>1, <3>1 DEF Moved, Is, State, Held
  <2> QED BY <2>3, <2>4
<1>3. CASE transition = "rdunlock"
  <2>1. a = State(s.c, s.w, s.v, s.r - 1) /\ needs(transition) = "read" /\ gives(transition) = "nothing"
    BY <1>1, <1>3 DEF apply_initial, Add, State, needs, gives
  <2>2. f = "none"
    BY <1>1, <2>1 DEF follow_up, State
  <2>3. z = State(s.c, s.w, s.v, s.r - 1) /\ o = "nothing"
    BY <2>1, <2>2 DEF Final, Outcome, apply_follow_up, is_blocking
  <2> QED BY <1>1, <2>1, <2>3 DEF Moved, Is, State, Held
<1>4. CASE transition = "wrlock"
  <2>1. a = State(s.c, s.w + 1, s.v + 1, s.r) /\ needs(transition) = "nothing" /\ gives(transition) = "write"
    BY <1>1, <1>4 DEF apply_initial, Add, State, needs, gives
  <2>2. f = IF s.r > s.c \/ s.w > 0 THEN "failed_wrlock" ELSE "none"
    BY <1>1, <2>1 DEF follow_up, State
  <2>3. CASE s.r > s.c \/ s.w > 0
    <3>1. z.c = s.c /\ z.w = s.w /\ z.v = s.v + 1 /\ z.r = s.r
      BY <1>1, <2>1, <2>2, <2>3 DEF Final, apply_follow_up, Add, State
    <3>2. o = "blocked_on_write"
      BY <2>1, <2>2, <2>3 DEF Outcome, is_blocking, blocks_on
    <3> QED BY <1>1, <2>1, <3>1, <3>2 DEF Moved, Is, Held
  <2>4. CASE ~(s.r > s.c \/ s.w > 0)
    <3>1. z = State(s.c, s.w + 1, s.v + 1, s.r) /\ o = "write"
      BY <2>1, <2>2, <2>4 DEF Final, Outcome, apply_follow_up, is_blocking
    <3> QED BY <1>1, <2>1, <3>1 DEF Moved, Is, State, Held
  <2> QED BY <2>3, <2>4
<1>5. CASE transition = "wrunlock"
  <2>1. a = State(s.c, s.w - 1, s.v - 1, s.r) /\ needs(transition) = "write" /\ gives(transition) = "nothing"
    BY <1>1, <1>5 DEF apply_initial, Add, State, needs, gives
  <2>2. f = "none"
    BY <1>1, <2>1 DEF follow_up, State
  <2>3. z = State(s.c, s.w - 1, s.v - 1, s.r) /\ o = "nothing"
    BY <2>1, <2>2 DEF Final, Outcome, apply_follow_up, is_blocking
  <2> QED BY <1>1, <2>1, <2>3 DEF Moved, Is, State, Held
<1>6. CASE transition = "wr2rdlock"
  <2>1. a = State(s.c, s.w - 1, s.v - 1, s.r + 1) /\ needs(transition) = "write" /\ gives(transition) = "read"
    BY <1>1, <1>6 DEF apply_initial, Add, State, needs, gives
  <2>2. f = "none"
    BY <1>1, <1>6, <2>1 DEF follow_up, State, may_apply
  <2>3. z = State(s.c, s.w - 1, s.v - 1, s.r + 1) /\ o = "read"
    BY <2>1, <2>2 DEF Final, Outcome, apply_follow_up, is_blocking
  <2> QED BY <1>1, <2>1, <2>3 DEF Moved, Is, State, Held
<1>7. CASE transition = "rd2wrlock"
  <2>1. /\ a = State(s.c + 1, s.w, s.v + 1, s.r) /\ s.r > 0
        /\ needs(transition) = "read" /\ gives(transition) = "write"
    BY <1>1, <1>7 DEF apply_initial, may_apply, Add, State, needs, gives
  <2>2. f = IF s.c = 1 THEN "must_throw"
            ELSE IF s.r > 1 THEN "failed_rd2wrlock" ELSE "successful_rd2wrlock"
    BY <1>1, <2>1 DEF follow_up, State
  <2>3. CASE s.c = 1
    <3>1. z = s /\ o = "read"
      BY <2>1, <2>2, <2>3 DEF Final, Outcome, is_blocking
    <3> QED BY <1>1, <2>1, <3>1 DEF Moved, Is, Held
  <2>4. CASE s.c # 1 /\ s.r > 1
    <3>1. z.c = s.c + 1 /\ z.w = s.w /\ z.v = s.v + 1 /\ z.r = s.r
      BY <2>1, <2>2, <2>4 DEF Final, apply_follow_up, State
    <3>2. o = "blocked_on_convert"
      BY <2>1, <2>2, <2>4 DEF Outcome, is_blocking, blocks_on
    <3> QED BY <1>1, <2>1, <3>1, <3>2 DEF Moved, Is, Held
  <2>5. CASE s.c # 1 /\ ~(s.r > 1)
    <3>1. z = State(s.c, s.w + 1, s.v + 1, s.r - 1) /\ o = "write"
      BY <1>1, <2>1, <2>2, <2>5 DEF Final, Outcome, apply_follow_up, Add, State, is_blocking
    <3> QED BY <1>1, <2>1, <3>1 DEF Moved, Is, State, Held
  <2> QED BY <2>3, <2>4, <2>5
<1> QED BY <1>2, <1>3, <1>4, <1>5, <1>6, <1>7 DEF Transitions

LEMMA InitCount == Init => CountInv
<1> SUFFICES ASSUME Init PROVE CountInv
  OBVIOUS
<1>1. ASSUME NEW k \in Held \ {"nothing"} PROVE NumberIn(holds, k) = 0
  <2>1. With(holds, k) = {}
    BY DEF Init, With
  <2> QED BY <2>1, FS_EmptySet DEF NumberIn
<1>2. /\ NumberIn(holds, "read") = 0 /\ NumberIn(holds, "write") = 0
      /\ NumberIn(holds, "blocked_on_write") = 0 /\ NumberIn(holds, "blocked_on_convert") = 0
  BY <1>1 DEF Held
<1>3. previous = State(0, 0, 0, 0) /\ doing = "none"
  BY DEF Init
<1>4. previous.c = 0 /\ previous.w = 0 /\ previous.v = 0 /\ previous.r = 0
  BY <1>3 DEF State
<1>5. Tells(previous, holds)
  BY <1>2, <1>4 DEF Tells
<1> QED BY <1>3, <1>5 DEF CountInv

LEMMA StepCount == Inv /\ CountInv /\ [Next]_vars => CountInv'
<1> SUFFICES ASSUME Inv, CountInv, [Next]_vars PROVE CountInv'
  OBVIOUS
<1>1. ASSUME NEW t \in Threads, NEW transition \in Transitions, Apply(t, transition)
      PROVE  CountInv'
  <2>1. previous = state
    BY <1>1 DEF Apply, Inv, WalkInv
  <2> QED BY <1>1, <2>1 DEF Apply, CountInv
<1>2. CASE FollowUp
  <2> DEFINE o == Outcome(doing, previous)
             z == Final(doing, previous)
  <2>1. /\ doing \in Transitions /\ by \in Threads /\ holds \in [Threads -> Held]
        /\ previous \in States /\ is_stable(previous) /\ may_apply(doing, previous)
        /\ state = apply_initial(doing, previous)
        /\ holds[by] = needs(doing)
    BY <1>2 DEF FollowUp, Inv, TypeOK, WalkInv, CountInv
  <2>2. previous' = z /\ doing' = "none"
    BY <1>2, <2>1 DEF FollowUp, Final
  <2>3. holds' = [holds EXCEPT ![by] = o]
    <3> DEFINE f == follow_up(state, previous)
    <3>1. CASE f = "must_throw"
      <4>1. holds' = holds /\ o = holds[by]
        BY <1>2, <2>1, <3>1 DEF FollowUp, Outcome, is_blocking
      <4> QED BY <2>1, <4>1
    <3>2. CASE f # "must_throw"
      BY <1>2, <2>1, <3>2 DEF FollowUp, Outcome
    <3> QED BY <3>1, <3>2
  <2>4. o \in Held /\ z \in States /\ Moved(previous, holds[by], o, z)
    BY <2>1, FinalMoves, FinalIsLegal DEF Ended
  <2>5. Tells(z, [holds EXCEPT ![by] = o])
    BY <2>1, <2>4, TellsChanges DEF CountInv
  <2> QED BY <2>2, <2>3, <2>5 DEF CountInv
<1>3. CASE UNCHANGED vars
  BY <1>3 DEF vars, CountInv
<1> QED BY <1>1, <1>2, <1>3 DEF Next, WalkEnds

LEMMA Counting == Spec => [](Inv /\ CountInv)
<1>1. Init => Inv /\ CountInv
  BY InitInv, InitCount
<1>2. Inv /\ CountInv /\ [Next]_vars => Inv' /\ CountInv'
  BY StepInv, StepCount
<1> QED BY <1>1, <1>2, PTL DEF Spec

\* A set of threads that has no more than one element.
LEMMA AtMostOne ==
  ASSUME NEW h, NumberIn(holds, h) <= 1,
         NEW t \in With(holds, h), NEW u \in With(holds, h)
  PROVE  t = u
<1>1. IsFiniteSet(With(holds, h)) /\ Cardinality(With(holds, h)) \in Nat
  BY NumberType DEF NumberIn
<1>2. Cardinality(With(holds, h)) # 0
  BY <1>1, FS_EmptySet
<1>3. Cardinality(With(holds, h)) = 1
  BY <1>1, <1>2 DEF NumberIn
<1> QED BY <1>1, <1>3, FS_Singleton

-----------------------------------------------------------------------------

\* Type correctness: no counter of the lock goes below zero.
THEOREM TypeCorrect == Spec => []TypeOK
<1>1. Inv => TypeOK
  BY DEF Inv
<1> QED BY <1>1, InitInv, StepInv, PTL DEF Spec

\* The DoutFatal of apply() is not reached, for any number of threads.
THEOREM LockNeverIllegal == Spec => []NeverIllegal
<1>1. Inv => NeverIllegal
  BY InitialIsLegal DEF Inv, TypeOK, WalkInv, NeverIllegal, is_stable
<1> QED BY <1>1, InitInv, StepInv, PTL DEF Spec

\* A transition with its follow-up ends stable, or with the lock free for a blocked thread.
THEOREM LockStableOrHandOver == Spec => []StableOrHandOver
<1>1. Inv => StableOrHandOver
  BY DEF Inv, WalkInv, StableOrHandOver
<1> QED BY <1>1, InitInv, StepInv, PTL DEF Spec

\* The comments on the counters c, w, v and r are true of every state that a transition and its
\* follow-up end in, for any number of threads.
THEOREM LockCountersTell == Spec => []CountersTell
<1>1. Inv /\ CountInv => CountersTell
  BY DEF Inv, WalkInv, CountInv, Tells, CountersTell, Number, NumberIn, With
<1> QED BY <1>1, Counting, PTL

\* A thread that has the write lock has it alone, for any number of threads.
THEOREM LockWriteAlone == Spec => []WriteAlone
<1>1. ASSUME Inv, CountInv PROVE WriteAlone
  <2> SUFFICES ASSUME NEW t \in Threads, NEW u \in Threads,
                      doing = "none", t # u, holds[t] = "write"
               PROVE  holds[u] \in {"nothing", "blocked_on_write"}
    BY DEF WriteAlone
  <2>1. /\ previous.w \in Nat /\ previous.c \in Nat /\ previous.r \in Nat
        /\ previous.w <= 1 /\ (previous.w = 1 => previous.r = 0)
    BY <1>1 DEF Inv, TypeOK, WalkInv, States, is_stable, HandOver
  <2>2. holds[u] # "write"
    <3>1. NumberIn(holds, "write") <= 1
      BY <1>1, <2>1 DEF CountInv, Tells
    <3> QED BY <3>1, AtMostOne DEF With
  <2>3. NumberIn(holds, "write") # 0
    <3>1. With(holds, "write") # {}
      BY DEF With
    <3> QED BY <3>1, NumberType, FS_EmptySet DEF NumberIn
  <2>4. previous.r = 0
    <3>1. previous.w # 0
      BY <1>1, <2>3 DEF CountInv, Tells
    <3> QED BY <2>1, <3>1
  <2>5. NumberIn(holds, "read") = 0 /\ NumberIn(holds, "blocked_on_convert") = 0
    <3>1. NumberIn(holds, "read") \in Nat /\ NumberIn(holds, "blocked_on_convert") \in Nat
      BY NumberType
    <3>2. 0 = NumberIn(holds, "read") + NumberIn(holds, "blocked_on_convert")
      BY <1>1, <2>4 DEF CountInv, Tells
    <3>3. \A a, b \in Nat : 0 = a + b => a = 0 /\ b = 0
      OBVIOUS
    <3> QED BY <3>1, <3>2, <3>3
  <2>6. With(holds, "read") = {} /\ With(holds, "blocked_on_convert") = {}
    BY <2>5, NumberType, FS_EmptySet DEF NumberIn
  <2>7. holds[u] \in Held
    BY <1>1 DEF Inv, TypeOK
  <2> QED BY <2>2, <2>6, <2>7 DEF With, Held
<1>2. Inv /\ CountInv => WriteAlone
  BY <1>1
<1> QED BY <1>2, Counting, PTL

=============================================================================
