------------------------ MODULE ThreadProgramsProofs ------------------------
(***************************************************************************)
(* The safety of the programs that test thread synchronisation, for any    *)
(* number of threads, posts and waits: the handshake of cv_wait, the       *)
(* delay, the tokens and the counters of spin_wakeup_test, and the asserts *)
(* of genmc_spinsemaphore_test, of which post() and wait() are external.   *)
(***************************************************************************)
EXTENDS MCThreadPrograms, FiniteSetTheorems, SequenceTheorems, TLAPS

(* A step is a step of one of the programs; it leaves the variables of the   *)
(* others alone.                                                             *)
LEMMA CvStep == [Step]_allVars => Cv!Next \/ UNCHANGED cvVars
BY DEF Step, LockStep, SemaphoreTestStep, WakeupTestStep, CvWaitStep, InLock, InSemaphoreTest,
       InWakeupTest, InCvWait, allVars, cvVars

LEMMA WakeupStep == [Step]_allVars => Wakeup!Next \/ UNCHANGED wakeVars
BY DEF Step, LockStep, SemaphoreTestStep, WakeupTestStep, CvWaitStep, InLock, InSemaphoreTest,
       InWakeupTest, InCvWait, allVars, wakeVars

\* The instances have copies of the operators of FiniteSets.
LEMMA SameCardinality == \A S : Wakeup!Cardinality(S) = Cardinality(S)
BY DEF Wakeup!Cardinality, Cardinality, Wakeup!IsFiniteSet, IsFiniteSet

-----------------------------------------------------------------------------
(* cv_wait                                                                   *)

InsideWait == {"waiting", "returned", "unlocked", "done"}

Stamps == {"wait_start", "wait_end", "notify_start", "notify_end"}

CvControl ==
  /\ foo_at \in {"start", "locked", "told", "entering"} \cup InsideWait
  /\ m = "foo" <=> foo_at \in {"locked", "told", "entering", "returned"}
  /\ m = "main" <=> main_at = "locked"
  /\ w => foo_at \notin {"start", "locked"}
  /\ main_at # "start" => w
  /\ main_at \notin {"start", "seen"} => foo_at \in InsideWait

CvHistory ==
  /\ stamps \in Seq(Stamps)
  /\ foo_at \in InsideWait \cup {"entering"} => Cv!Recorded("wait_start")
  /\ Cv!Recorded("notify_start") => Cv!Before("wait_start", "notify_start")

CvInv == CvControl /\ CvHistory

LEMMA CvInit == Cv!Init => CvInv
BY DEF Cv!Init, CvInv, CvControl, CvHistory, InsideWait, Cv!Recorded

\* What was recorded stays recorded, in the same order; a new time comes after all others.
LEMMA AppendStamp ==
  ASSUME stamps \in Seq(Stamps), NEW a \in Stamps, stamps' = Append(stamps, a)
  PROVE  /\ stamps' \in Seq(Stamps)
         /\ \A b \in Stamps : Cv!Recorded(b)' <=> b = a \/ Cv!Recorded(b)
         /\ \A b, c \in Stamps : Cv!Before(b, c) => Cv!Before(b, c)'
         /\ \A b \in Stamps : Cv!Recorded(b) => Cv!Before(b, a)'
<1>1. /\ stamps' \in Seq(Stamps) /\ Len(stamps) \in Nat /\ Len(stamps') = Len(stamps) + 1
      /\ \A i \in 1 .. Len(stamps) : stamps'[i] = stamps[i]
      /\ stamps'[Len(stamps) + 1] = a
  OBVIOUS
<1> QED BY <1>1 DEF Cv!Recorded, Cv!Before

LEMMA CvNext == CvInv /\ (Cv!Next \/ UNCHANGED cvVars) => CvInv'
<1> SUFFICES ASSUME CvInv, Cv!Next \/ UNCHANGED cvVars PROVE CvInv'
  OBVIOUS
<1>1. CvControl'
  <2> USE DEF CvInv, CvControl, InsideWait
  <2>1. CASE Cv!foo
    BY <2>1 DEF Cv!foo, Cv!foo_lock, Cv!foo_notify, Cv!foo_stamp, Cv!foo_wait, Cv!foo_return, Cv!foo_unlock, Cv!foo_end
  <2>2. CASE Cv!main
    BY <2>2 DEF Cv!main, Cv!main_spin, Cv!main_lock, Cv!main_unlock, Cv!main_stamp, Cv!main_notify, Cv!main_end, Cv!main_join
  <2>3. CASE Cv!foo_spurious \/ UNCHANGED cvVars
    BY <2>3 DEF Cv!foo_spurious, cvVars
  <2> QED BY <2>1, <2>2, <2>3 DEF Cv!Next, Cv!Terminated, Cv!cvVars, cvVars
<1>2. CASE Cv!foo_stamp
  BY <1>1, <1>2, AppendStamp DEF Cv!foo_stamp, CvInv, CvHistory, Stamps
<1>3. CASE Cv!foo_end
  BY <1>1, <1>3, AppendStamp DEF Cv!foo_end, CvInv, CvHistory, Stamps, InsideWait
<1>4. CASE Cv!main_stamp
  <2>1. Cv!Recorded("wait_start")
    BY <1>4 DEF Cv!main_stamp, CvInv, CvControl, CvHistory
  <2> QED BY <1>1, <1>4, <2>1, AppendStamp DEF Cv!main_stamp, CvInv, CvHistory, Stamps
<1>5. CASE Cv!main_end
  BY <1>1, <1>5, AppendStamp DEF Cv!main_end, CvInv, CvHistory, Stamps
<1>6. CASE UNCHANGED stamps
  <2>1. /\ Cv!Recorded("wait_start")' = Cv!Recorded("wait_start")
        /\ Cv!Recorded("notify_start")' = Cv!Recorded("notify_start")
        /\ Cv!Before("wait_start", "notify_start")' = Cv!Before("wait_start", "notify_start")
    BY <1>6 DEF Cv!Recorded, Cv!Before
  <2>2. foo_at' \in InsideWait \cup {"entering"} => foo_at \in InsideWait \cup {"entering"}
    BY <1>6 DEF CvInv, CvHistory, InsideWait, Cv!Next, Cv!Terminated, Cv!cvVars, cvVars, Cv!foo, Cv!main,
       Cv!foo_lock, Cv!foo_notify, Cv!foo_stamp, Cv!foo_wait, Cv!foo_return, Cv!foo_unlock, Cv!foo_end, Cv!foo_spurious, Cv!main_spin, Cv!main_lock, Cv!main_unlock, Cv!main_stamp, Cv!main_notify, Cv!main_end, Cv!main_join
  <2> QED BY <1>1, <1>6, <2>1, <2>2 DEF CvInv, CvHistory
<1> QED BY <1>2, <1>3, <1>4, <1>5, <1>6
        DEF Cv!Next, Cv!Terminated, Cv!cvVars, cvVars, Cv!foo, Cv!main,
            Cv!foo_lock, Cv!foo_notify, Cv!foo_wait, Cv!foo_return, Cv!foo_unlock, Cv!foo_spurious, Cv!main_spin, Cv!main_lock, Cv!main_unlock, Cv!main_notify, Cv!main_join

\* In cv_wait, main() records and sends its notification after foo has entered wait(): the mutex is
\* what orders them, and a spurious wakeup changes nothing of it.
THEOREM NotificationsAfterWait == ThreadPrograms => []NotifyAfterWait
<1>1. CvInv => NotifyAfterWait
  BY DEF CvInv, CvControl, CvHistory, NotifyAfterWait, Cv!NotifyAfterWait, InsideWait
<1>2. Start => CvInv
  BY CvInit DEF Start
<1>3. CvInv /\ [Step]_allVars => CvInv'
  BY CvStep, CvNext
<1> QED BY <1>1, <1>2, <1>3, PTL DEF ThreadPrograms

-----------------------------------------------------------------------------
(* spin_wakeup_test                                                          *)

W == number_of_times_to_wait_per_sleeper
P == number_of_times_to_post_per_trigger

AtSleeper ==
  {"top", "slow_wait", "took_fast", "count_fast", "took_slow", "load", "cas", "count", "done"}
AtTrigger == {"top", "post", "done"}

WakeTypes ==
  /\ sem_tokens \in Nat /\ delay_loop \in Nat /\ fast \in Nat /\ woken_up_count \in Nat
  /\ DOMAIN at = Sleepers \cup Triggers
  /\ \A t \in Sleepers : at[t] \in AtSleeper
  /\ \A t \in Triggers : at[t] \in AtTrigger
  /\ dl \in [Sleepers -> Nat]
  /\ n \in [Sleepers \cup Triggers -> Nat]

LEMMA WakeTypesInit == Wakeup!Init => WakeTypes
BY DEF Wakeup!Init, Wakeup!sem!Init, WakeTypes, AtSleeper, AtTrigger

LEMMA WakeTypesNext == WakeTypes /\ (Wakeup!Next \/ UNCHANGED wakeVars) => WakeTypes'
<1> SUFFICES ASSUME WakeTypes, Wakeup!Next \/ UNCHANGED wakeVars PROVE WakeTypes'
  OBVIOUS
<1> USE DEF WakeTypes, AtSleeper, AtTrigger
<1>1. ASSUME NEW t \in Sleepers \cup Triggers, Wakeup!fast_wait(t) PROVE WakeTypes'
  BY <1>1, WakeupAssumption DEF Wakeup!fast_wait, Wakeup!Goto
<1>2. ASSUME NEW t \in Sleepers \cup Triggers, Wakeup!begin_slow_wait(t) PROVE WakeTypes'
  BY <1>2, WakeupAssumption DEF Wakeup!begin_slow_wait, Wakeup!sem!Arrive, Wakeup!Goto
<1>3. ASSUME NEW t \in Sleepers \cup Triggers, Wakeup!slower(t) PROVE WakeTypes'
  BY <1>3, WakeupAssumption DEF Wakeup!slower, Wakeup!Goto
<1>4. ASSUME NEW t \in Sleepers \cup Triggers, Wakeup!load_delay_loop(t) PROVE WakeTypes'
  BY <1>4, WakeupAssumption DEF Wakeup!load_delay_loop, Wakeup!Goto
<1>5. ASSUME NEW t \in Sleepers \cup Triggers, Wakeup!faster(t) PROVE WakeTypes'
  BY <1>5, WakeupAssumption DEF Wakeup!faster, Wakeup!Goto
<1>6. ASSUME NEW t \in Sleepers \cup Triggers, Wakeup!count(t) PROVE WakeTypes'
  BY <1>6, WakeupAssumption DEF Wakeup!count, Wakeup!NextRound, Wakeup!Goto
<1>7. ASSUME NEW t \in Sleepers \cup Triggers, Wakeup!few_tokens(t) PROVE WakeTypes'
  BY <1>7, WakeupAssumption DEF Wakeup!few_tokens, Wakeup!Goto
<1>8. ASSUME NEW t \in Sleepers \cup Triggers, Wakeup!post(t) PROVE WakeTypes'
  BY <1>8, WakeupAssumption DEF Wakeup!post, Wakeup!sem!Post, Wakeup!NextRound, Wakeup!Goto
<1>9. ASSUME NEW t \in Sleepers, Wakeup!end_slow_wait(t) PROVE WakeTypes'
  BY <1>9, WakeupAssumption DEF Wakeup!end_slow_wait, Wakeup!sem!Take, Wakeup!Goto
<1>10. CASE Wakeup!join
  BY <1>10 DEF Wakeup!join
<1>11. CASE UNCHANGED wakeVars
  BY <1>11 DEF wakeVars
<1>12. ASSUME NEW t \in Sleepers \cup Triggers, Wakeup!count_fast(t) PROVE WakeTypes'
  BY <1>12, WakeupAssumption DEF Wakeup!count_fast, Wakeup!Goto
<1>13. ASSUME NEW t \in Sleepers \cup Triggers, Wakeup!count_slow(t) PROVE WakeTypes'
  BY <1>13, WakeupAssumption DEF Wakeup!count_slow, Wakeup!Goto
<1> QED BY <1>1, <1>2, <1>3, <1>4, <1>5, <1>6, <1>7, <1>8, <1>9, <1>10, <1>11, <1>12, <1>13
        DEF Wakeup!Next, Wakeup!work, Wakeup!take, Wakeup!Terminated, Wakeup!wakeVars, wakeVars

\* The sleepers that have added to the delay and have not counted that yet.
Adding(f) == {t \in Sleepers : f[t] = "count_fast"}

LEMMA AddingFinite ==
  ASSUME NEW f PROVE IsFiniteSet(Adding(f)) /\ Cardinality(Adding(f)) \in Nat
BY WakeupAssumption, FS_Subset, FS_CardinalityType DEF Adding

LEMMA AddingMoves ==
  ASSUME WakeTypes, NEW t \in Sleepers \cup Triggers, NEW p, Wakeup!Goto(t, p)
  PROVE  /\ t \in Sleepers /\ p = "count_fast" => Adding(at') = Adding(at) \cup {t}
         /\ p # "count_fast" => Adding(at') = Adding(at) \ {t}
BY DEF WakeTypes, Wakeup!Goto, Adding

\* The delay never wraps around: it is subtracted from only by a thread whose comparison shows that it
\* still has the value the thread tested.  Each unit of it was added by a wait that was fast and that
\* is counted in fast, or is about to be.
THEOREM DelayIsBounded == ThreadPrograms => []DelayBounded
<1>1. DelayBounded <=> delay_loop <= fast + Cardinality(Adding(at))
  BY SameCardinality DEF DelayBounded, Wakeup!DelayBounded, Adding
<1>2. Start => WakeTypes /\ DelayBounded
  <2> SUFFICES ASSUME Start PROVE WakeTypes /\ DelayBounded
    OBVIOUS
  <2>1. delay_loop = 0 /\ fast = 0 /\ WakeTypes
    BY WakeTypesInit DEF Start, Wakeup!Init
  <2> QED BY <1>1, <2>1, AddingFinite
<1>3. ASSUME WakeTypes, DelayBounded, [Step]_allVars PROVE WakeTypes' /\ DelayBounded'
  <2>1. Wakeup!Next \/ UNCHANGED wakeVars
    BY <1>3, WakeupStep
  <2>2. WakeTypes'
    BY <1>3, <2>1, WakeTypesNext
  <2>3. DelayBounded' <=> delay_loop' <= fast' + Cardinality(Adding(at'))
    BY SameCardinality DEF DelayBounded, Wakeup!DelayBounded, Adding
  <2>4. PICK a \in Nat : a = Cardinality(Adding(at))
    BY AddingFinite
  <2>5. delay_loop \in Nat /\ fast \in Nat /\ delay_loop <= fast + a
    BY <1>1, <1>3, <2>4 DEF WakeTypes
  <2>6. ASSUME NEW t \in Sleepers, Wakeup!slower(t) PROVE DelayBounded'
    <3>1. t \notin Adding(at) /\ Adding(at') = Adding(at) \cup {t}
      BY <1>3, <2>6, AddingMoves DEF Wakeup!slower, Adding
    <3>2. Cardinality(Adding(at')) = a + 1
      BY <2>4, <3>1, AddingFinite, FS_AddElement
    <3>3. delay_loop' = delay_loop + 1 /\ fast' = fast
      BY <2>6 DEF Wakeup!slower
    <3> QED BY <2>3, <2>5, <3>2, <3>3
  <2>7. ASSUME NEW t \in Sleepers, Wakeup!count_fast(t) PROVE DelayBounded'
    <3>1. t \in Adding(at) /\ Adding(at') = Adding(at) \ {t}
      BY <1>3, <2>7, AddingMoves DEF Wakeup!count_fast, Adding
    <3>2. Cardinality(Adding(at')) = a - 1
      BY <2>4, <3>1, AddingFinite, FS_RemoveElement
    <3>3. delay_loop' = delay_loop /\ fast' = fast + 1
      BY <2>7 DEF Wakeup!count_fast
    <3> QED BY <2>3, <2>5, <3>2, <3>3
  <2>8. ASSUME delay_loop' \in Nat, delay_loop' <= delay_loop, fast' = fast, Adding(at') = Adding(at)
        PROVE  DelayBounded'
    BY <2>3, <2>4, <2>5, <2>8
  <2>9. ASSUME NEW t \in Sleepers, Wakeup!faster(t) PROVE DelayBounded'
    <3>1. delay_loop' \in Nat /\ delay_loop' <= delay_loop /\ fast' = fast
      BY <1>3, <2>9, WakeupAssumption DEF Wakeup!faster, WakeTypes
    <3>2. at' = at \/ Wakeup!Goto(t, "count")
      BY <2>9 DEF Wakeup!faster
    <3>3. t \notin Adding(at)
      BY <2>9 DEF Wakeup!faster, Adding
    <3>4. Adding(at') = Adding(at)
      BY <1>3, <3>2, <3>3, AddingMoves
    <3> QED BY <2>8, <3>1, <3>4
  <2>10. ASSUME NEW t \in Sleepers \cup Triggers, at[t] # "count_fast", NEW p, p # "count_fast", Wakeup!Goto(t, p),
                UNCHANGED <<delay_loop, fast>>
         PROVE  DelayBounded'
    <3>1. t \notin Adding(at)
      BY <2>10 DEF Adding
    <3>2. Adding(at') = Adding(at)
      BY <1>3, <2>10, <3>1, AddingMoves
    <3> QED BY <2>5, <2>8, <2>10, <3>2
  <2>11. ASSUME NEW t \in Sleepers \cup Triggers, Wakeup!work(t) PROVE DelayBounded'
    <3>1. CASE Wakeup!slower(t) \/ Wakeup!count_fast(t) \/ Wakeup!faster(t)
      <4>1. t \in Sleepers
        BY <1>3, <3>1 DEF Wakeup!slower, Wakeup!count_fast, Wakeup!faster, WakeTypes, AtTrigger
      <4> QED BY <2>6, <2>7, <2>9, <3>1, <4>1
    <3>2. CASE Wakeup!fast_wait(t)
      BY <2>10, <3>2 DEF Wakeup!fast_wait
    <3>3. CASE Wakeup!begin_slow_wait(t)
      BY <2>10, <3>3 DEF Wakeup!begin_slow_wait
    <3>4. CASE Wakeup!count_slow(t)
      BY <2>10, <3>4 DEF Wakeup!count_slow
    <3>5. CASE Wakeup!load_delay_loop(t)
      BY <2>10, <3>5 DEF Wakeup!load_delay_loop
    <3>6. CASE Wakeup!count(t)
      BY <2>10, <3>6 DEF Wakeup!count, Wakeup!NextRound
    <3>7. CASE Wakeup!few_tokens(t)
      BY <2>10, <3>7 DEF Wakeup!few_tokens
    <3>8. CASE Wakeup!post(t)
      BY <2>10, <3>8 DEF Wakeup!post, Wakeup!NextRound
    <3> QED BY <2>11, <3>1, <3>2, <3>3, <3>4, <3>5, <3>6, <3>7, <3>8 DEF Wakeup!work
  <2>12. ASSUME NEW t \in Sleepers, Wakeup!end_slow_wait(t) PROVE DelayBounded'
    BY <2>10, <2>12 DEF Wakeup!end_slow_wait
  <2>13. CASE UNCHANGED <<delay_loop, fast, at>>
    <3>1. Adding(at') = Adding(at)
      BY <2>13 DEF Adding
    <3>2. delay_loop' \in Nat /\ delay_loop' <= delay_loop /\ fast' = fast
      BY <2>5, <2>13
    <3> QED BY <2>2, <2>8, <3>1, <3>2
  <2> QED BY <2>1, <2>2, <2>11, <2>12, <2>13
          DEF Wakeup!Next, Wakeup!take, Wakeup!Terminated, Wakeup!wakeVars, wakeVars, Wakeup!join
<1>4. WakeTypes /\ DelayBounded /\ [Step]_allVars => WakeTypes' /\ DelayBounded'
  BY <1>3
<1> QED BY <1>2, <1>4, PTL DEF ThreadPrograms

\* The triggers that have tested the number of tokens and are about to post.
AboutToPost(f) == {t \in Triggers : f[t] = "post"}

TokenInv ==
  sem_tokens + post_amount * Cardinality(AboutToPost(at)) <= Limit + post_amount * Cardinality(Triggers)

LEMMA AboutToPostType ==
  ASSUME NEW f
  PROVE  /\ IsFiniteSet(AboutToPost(f)) /\ Cardinality(AboutToPost(f)) \in Nat
         /\ Cardinality(Triggers) \in Nat
         /\ Cardinality(AboutToPost(f)) <= Cardinality(Triggers)
BY WakeupAssumption, FS_Subset, FS_CardinalityType DEF AboutToPost

LEMMA TimesMonotonic ==
  /\ \A a, b \in Nat : a * b \in Nat /\ a * (b + 1) = a * b + a
  /\ \A a, b, c \in Nat : b <= c => a * b <= a * c
OBVIOUS

\* post_amount for each trigger that is about to post, and for every trigger.
LEMMA TokenBounds ==
  ASSUME NEW f
  PROVE  /\ post_amount * Cardinality(AboutToPost(f)) \in Nat
         /\ post_amount * Cardinality(Triggers) \in Nat
         /\ post_amount * Cardinality(AboutToPost(f)) <= post_amount * Cardinality(Triggers)
         /\ Limit \in Nat
BY AboutToPostType, TimesMonotonic, WakeupAssumption

\* A trigger posts after it has found no more than Limit tokens; all others may have done the same.
THEOREM TokensAreBounded == ThreadPrograms => []TokensBounded
<1>1. WakeTypes /\ TokenInv => TokensBounded
  BY TokenBounds, SameCardinality DEF WakeTypes, TokenInv, TokensBounded, Wakeup!TokensBounded
<1>2. Start => WakeTypes /\ TokenInv
  <2> SUFFICES ASSUME Start PROVE TokenInv
    BY WakeTypesInit DEF Start
  <2>1. sem_tokens = 0
    BY DEF Start, Wakeup!Init, Wakeup!sem!Init
  <2> QED BY <2>1, TokenBounds DEF TokenInv
<1>3. ASSUME WakeTypes, TokenInv, [Step]_allVars PROVE WakeTypes' /\ TokenInv'
  <2>1. Wakeup!Next \/ UNCHANGED wakeVars
    BY <1>3, WakeupStep
  <2>2. WakeTypes'
    BY <1>3, <2>1, WakeTypesNext
  <2>3. ASSUME NEW t \in Triggers, Wakeup!few_tokens(t) PROVE TokenInv'
    <3>1. sem_tokens' \in Nat /\ sem_tokens' <= Limit
      BY <1>3, <2>3 DEF Wakeup!few_tokens, WakeTypes
    <3> QED BY <3>1, TokenBounds DEF TokenInv
  <2>4. ASSUME NEW t \in Sleepers \cup Triggers, Wakeup!post(t) PROVE TokenInv'
    <3>1. t \in AboutToPost(at)
      BY <1>3, <2>4 DEF Wakeup!post, WakeTypes, AtSleeper, AboutToPost
    <3>2. AboutToPost(at') = AboutToPost(at) \ {t}
      BY <1>3, <2>4 DEF Wakeup!post, Wakeup!NextRound, Wakeup!Goto, WakeTypes, AboutToPost
    <3>3. Cardinality(AboutToPost(at)) = Cardinality(AboutToPost(at')) + 1
      <4>1. IsFiniteSet(AboutToPost(at)) /\ Cardinality(AboutToPost(at)) \in Nat
        BY AboutToPostType
      <4>2. Cardinality(AboutToPost(at) \ {t}) = Cardinality(AboutToPost(at)) - 1
        BY <3>1, <4>1, FS_RemoveElement
      <4> QED BY <3>2, <4>1, <4>2
    <3>4. post_amount * Cardinality(AboutToPost(at)) = post_amount * Cardinality(AboutToPost(at')) + post_amount
      BY <3>3, AboutToPostType, TimesMonotonic, WakeupAssumption
    <3>5. sem_tokens' = sem_tokens + post_amount
      BY <2>4 DEF Wakeup!post, Wakeup!sem!Post
    <3> QED BY <1>3, <3>4, <3>5, TokenBounds, WakeupAssumption DEF TokenInv, WakeTypes
  <2>5. CASE sem_tokens' \in Nat /\ sem_tokens' <= sem_tokens /\ AboutToPost(at') = AboutToPost(at)
    BY <1>3, <2>2, <2>5, TokenBounds DEF TokenInv, WakeTypes
  <2>6. ASSUME NEW t \in Sleepers, NEW p, Wakeup!Goto(t, p) PROVE AboutToPost(at') = AboutToPost(at)
    BY <1>3, <2>6, WakeupAssumption DEF Wakeup!Goto, AboutToPost, WakeTypes
  <2>7. ASSUME NEW t \in Sleepers \cup Triggers, Wakeup!work(t) PROVE TokenInv'
    <3>1. CASE Wakeup!few_tokens(t) \/ Wakeup!post(t)
      BY <2>3, <2>4, <3>1 DEF Wakeup!few_tokens
    <3>2. CASE ~(Wakeup!few_tokens(t) \/ Wakeup!post(t))
      <4>1. t \in Sleepers
        BY <1>3, <2>7, <3>2 DEF Wakeup!work, Wakeup!fast_wait, Wakeup!begin_slow_wait, Wakeup!slower,
           Wakeup!count_fast, Wakeup!count_slow, Wakeup!load_delay_loop, Wakeup!faster, Wakeup!count, WakeTypes, AtTrigger
      <4>2. sem_tokens' \in Nat /\ sem_tokens' <= sem_tokens
        BY <1>3, <2>7, <3>2 DEF Wakeup!work, Wakeup!fast_wait, Wakeup!begin_slow_wait, Wakeup!slower,
           Wakeup!count_fast, Wakeup!count_slow, Wakeup!load_delay_loop, Wakeup!faster, Wakeup!count, Wakeup!sem!Arrive, WakeTypes
      <4>3. AboutToPost(at') = AboutToPost(at)
        BY <2>6, <2>7, <3>2, <4>1 DEF Wakeup!work, Wakeup!fast_wait, Wakeup!begin_slow_wait, Wakeup!slower,
           Wakeup!count_fast, Wakeup!count_slow, Wakeup!load_delay_loop, Wakeup!faster, Wakeup!count, Wakeup!NextRound
      <4> QED BY <2>5, <4>2, <4>3
    <3> QED BY <3>1, <3>2
  <2>8. ASSUME NEW t \in Sleepers, Wakeup!end_slow_wait(t) PROVE TokenInv'
    BY <1>3, <2>5, <2>6, <2>8 DEF Wakeup!end_slow_wait, Wakeup!sem!Take, WakeTypes
  <2>9. CASE Wakeup!join \/ UNCHANGED wakeVars
    BY <1>3, <2>5, <2>9 DEF Wakeup!join, wakeVars, WakeTypes
  <2> QED BY <2>1, <2>2, <2>7, <2>8, <2>9
          DEF Wakeup!Next, Wakeup!take, Wakeup!Terminated, Wakeup!wakeVars, wakeVars
<1>4. WakeTypes /\ TokenInv /\ [Step]_allVars => WakeTypes' /\ TokenInv'
  BY <1>3
<1> QED BY <1>1, <1>2, <1>4, PTL DEF ThreadPrograms

\* The rounds that the threads of S have done of k rounds each, when f are their loop variables.
Rounds(S, k, f) == {p \in S \X (0 .. k - 1) : p[2] < f[p[1]]}

LEMMA RoundsFinite ==
  ASSUME NEW S, IsFiniteSet(S), NEW k \in Nat, NEW f
  PROVE  IsFiniteSet(Rounds(S, k, f)) /\ Cardinality(Rounds(S, k, f)) \in Nat
<1>1. IsFiniteSet(0 .. k - 1)
  BY FS_Interval
<1>2. IsFiniteSet(S \X (0 .. k - 1))
  BY <1>1, FS_Product
<1>3. Rounds(S, k, f) \subseteq S \X (0 .. k - 1)
  BY DEF Rounds
<1> QED BY <1>2, <1>3, FS_Subset, FS_CardinalityType

LEMMA NoRounds ==
  ASSUME NEW S, NEW k \in Nat, NEW f, \A t \in S : f[t] = 0
  PROVE  Cardinality(Rounds(S, k, f)) = 0
<1>1. Rounds(S, k, f) = {}
  BY DEF Rounds
<1> QED BY <1>1, FS_EmptySet

LEMMA AllRounds ==
  ASSUME NEW S, IsFiniteSet(S), NEW k \in Nat \ {0}, NEW f, \A t \in S : f[t] = k
  PROVE  Cardinality(Rounds(S, k, f)) = Cardinality(S) * k
<1>1. Rounds(S, k, f) = S \X (0 .. k - 1)
  BY DEF Rounds
<1>2. IsFiniteSet(0 .. k - 1) /\ Cardinality(0 .. k - 1) = k
  BY FS_Interval
<1> QED BY <1>1, <1>2, FS_Product

LEMMA OneMoreRound ==
  ASSUME NEW S, IsFiniteSet(S), NEW k \in Nat, NEW f, NEW g, NEW t \in S,
         \A u \in S : f[u] \in Nat, f[t] < k,
         \A u \in S : g[u] = IF u = t THEN f[t] + 1 ELSE f[u]
  PROVE  Cardinality(Rounds(S, k, g)) = Cardinality(Rounds(S, k, f)) + 1
<1>1. Rounds(S, k, g) = Rounds(S, k, f) \cup {<<t, f[t]>>}
  <2>1. ASSUME NEW p \in Rounds(S, k, g) PROVE p \in Rounds(S, k, f) \cup {<<t, f[t]>>}
    BY <2>1 DEF Rounds
  <2>2. ASSUME NEW p \in Rounds(S, k, f) \cup {<<t, f[t]>>} PROVE p \in Rounds(S, k, g)
    BY <2>2 DEF Rounds
  <2> QED BY <2>1, <2>2
<1>2. <<t, f[t]>> \notin Rounds(S, k, f)
  BY DEF Rounds
<1> QED BY <1>1, <1>2, RoundsFinite, FS_AddElement

LEMMA SameRounds ==
  ASSUME NEW S, NEW k, NEW f, NEW g, \A u \in S : g[u] = f[u]
  PROVE  Rounds(S, k, g) = Rounds(S, k, f)
BY DEF Rounds

\* The sleepers that have a token and have not counted it.
Counting == {"took_fast", "count_fast", "took_slow", "load", "cas", "count"}
HasToken(f) == {t \in Sleepers : f[t] \in Counting}

LEMMA HasTokenFinite ==
  ASSUME NEW f PROVE IsFiniteSet(HasToken(f)) /\ Cardinality(HasToken(f)) \in Nat
BY WakeupAssumption, FS_Subset, FS_CardinalityType DEF HasToken, Counting

WakeRounds ==
  /\ \A t \in Sleepers : n[t] <= W /\ (at[t] = "done" <=> n[t] = W)
  /\ \A t \in Triggers : n[t] <= P /\ (at[t] = "done" <=> n[t] = P)
  /\ sem_waiters = {t \in Sleepers : at[t] = "slow_wait"}

WakeCounts ==
  /\ woken_up_count = Cardinality(Rounds(Sleepers, W, n))
  /\ sem_tokens + woken_up_count + Cardinality(HasToken(at)) = post_amount * Cardinality(Rounds(Triggers, P, n))

WakeInv == WakeTypes /\ WakeRounds /\ WakeCounts /\ wake_failed = {}

LEMMA WakeInit == Wakeup!Init => WakeInv
<1> SUFFICES ASSUME Wakeup!Init PROVE WakeInv
  OBVIOUS
<1>1. /\ \A t \in Sleepers : n[t] = 0 /\ at[t] = "top"
      /\ \A t \in Triggers : n[t] = 0 /\ at[t] = "top"
      /\ sem_tokens = 0 /\ sem_waiters = {} /\ woken_up_count = 0 /\ wake_failed = {}
  BY DEF Wakeup!Init, Wakeup!sem!Init
<1>2. W \in Nat \ {0} /\ P \in Nat \ {0} /\ post_amount \in Nat
  BY WakeupAssumption DEF W, P
<1>3. WakeRounds
  BY <1>1, <1>2 DEF WakeRounds
<1>4. Cardinality(Rounds(Sleepers, W, n)) = 0 /\ Cardinality(Rounds(Triggers, P, n)) = 0
  BY <1>1, <1>2, NoRounds
<1>5. HasToken(at) = {}
  BY <1>1 DEF HasToken, Counting
<1> QED BY <1>1, <1>2, <1>3, <1>4, <1>5, WakeTypesInit, FS_EmptySet DEF WakeInv, WakeCounts

\* A token goes from the semaphore to a sleeper, from there to the count of wake-ups, and comes from
\* the round of a trigger.
LEMMA WakeNext == WakeInv /\ (Wakeup!Next \/ UNCHANGED wakeVars) => WakeInv'
<1> SUFFICES ASSUME WakeInv, Wakeup!Next \/ UNCHANGED wakeVars PROVE WakeInv'
  OBVIOUS
<1>1. WakeTypes /\ WakeRounds /\ WakeCounts /\ wake_failed = {} /\ WakeTypes'
  BY WakeTypesNext DEF WakeInv
<1>2. /\ W \in Nat \ {0} /\ P \in Nat \ {0} /\ post_amount \in Nat
      /\ IsFiniteSet(Sleepers) /\ IsFiniteSet(Triggers) /\ Sleepers \cap Triggers = {}
      /\ W = number_of_times_to_wait_per_sleeper /\ P = number_of_times_to_post_per_trigger
  BY WakeupAssumption DEF W, P
<1>3. ASSUME UNCHANGED <<n, woken_up_count>>, sem_tokens' + Cardinality(HasToken(at')) = sem_tokens + Cardinality(HasToken(at))
      PROVE  WakeCounts'
  <2>1. PICK h \in Nat : h = Cardinality(HasToken(at))
    BY HasTokenFinite
  <2>2. PICK h1 \in Nat : h1 = Cardinality(HasToken(at'))
    BY HasTokenFinite
  <2>3. sem_tokens \in Nat /\ sem_tokens' \in Nat /\ woken_up_count \in Nat /\ sem_tokens' + h1 = sem_tokens + h
    BY <1>1, <1>3, <2>1, <2>2 DEF WakeTypes
  <2>4. h \in Nat /\ h1 \in Nat
    BY <2>1, <2>2
  <2>5. woken_up_count + (sem_tokens' + h1) = woken_up_count + (sem_tokens + h)
    BY <2>3
  <2>6. /\ sem_tokens' + woken_up_count + h1 = woken_up_count + (sem_tokens' + h1)
        /\ sem_tokens + woken_up_count + h = woken_up_count + (sem_tokens + h)
    BY <2>3, <2>4
  <2> QED BY <1>1, <1>3, <2>1, <2>2, <2>5, <2>6 DEF WakeCounts
<1>4. ASSUME NEW t \in Sleepers, NEW p, Wakeup!Goto(t, p)
      PROVE  /\ p \in Counting => HasToken(at') = HasToken(at) \cup {t}
             /\ p \notin Counting => HasToken(at') = HasToken(at) \ {t}
  BY <1>1, <1>4 DEF Wakeup!Goto, HasToken, Counting, WakeTypes
<1>5. ASSUME NEW t \in Sleepers, Wakeup!fast_wait(t) \/ Wakeup!end_slow_wait(t) PROVE WakeInv'
  <2>1. /\ UNCHANGED <<n, woken_up_count, wake_failed>> /\ sem_tokens' = sem_tokens - 1
        /\ t \notin HasToken(at) /\ HasToken(at') = HasToken(at) \cup {t}
    BY <1>4, <1>5 DEF Wakeup!fast_wait, Wakeup!end_slow_wait, Wakeup!sem!Take, HasToken, Counting
  <2>2. Cardinality(HasToken(at')) = Cardinality(HasToken(at)) + 1
    BY <2>1, HasTokenFinite, FS_AddElement
  <2>3. WakeCounts'
    <3>1. sem_tokens' + Cardinality(HasToken(at')) = sem_tokens + Cardinality(HasToken(at))
      BY <1>1, <2>1, <2>2, HasTokenFinite DEF WakeTypes
    <3> QED BY <1>3, <2>1, <3>1
  <2>4. WakeRounds'
    BY <1>1, <1>2, <1>5 DEF Wakeup!fast_wait, Wakeup!end_slow_wait, Wakeup!sem!Take, Wakeup!Goto, WakeRounds, WakeTypes
  <2> QED BY <1>1, <2>1, <2>3, <2>4 DEF WakeInv
<1>6. ASSUME NEW t \in Sleepers, Wakeup!begin_slow_wait(t) PROVE WakeInv'
  <2>1. /\ UNCHANGED <<n, woken_up_count, wake_failed, sem_tokens>>
        /\ HasToken(at') = HasToken(at)
    BY <1>4, <1>6 DEF Wakeup!begin_slow_wait, Wakeup!sem!Arrive, HasToken, Counting
  <2>2. WakeCounts'
    BY <1>3, <2>1
  <2>3. WakeRounds'
    BY <1>1, <1>2, <1>6 DEF Wakeup!begin_slow_wait, Wakeup!sem!Arrive, Wakeup!Goto, WakeRounds, WakeTypes
  <2> QED BY <1>1, <2>1, <2>2, <2>3 DEF WakeInv
<1>7. ASSUME NEW t \in Sleepers, Wakeup!slower(t) \/ Wakeup!count_fast(t) \/ Wakeup!count_slow(t)
                               \/ Wakeup!load_delay_loop(t) \/ Wakeup!faster(t)
      PROVE  WakeInv'
  <2>1. /\ UNCHANGED <<n, woken_up_count, wake_failed, sem_tokens, sem_waiters>>
        /\ t \in HasToken(at)
        /\ at' = at \/ \E p \in Counting : Wakeup!Goto(t, p)
    BY <1>7 DEF Wakeup!slower, Wakeup!count_fast, Wakeup!count_slow, Wakeup!load_delay_loop, Wakeup!faster,
                HasToken, Counting
  <2>2. HasToken(at') = HasToken(at)
    BY <1>4, <2>1
  <2>3. WakeCounts'
    BY <1>3, <2>1, <2>2
  <2>4. WakeRounds'
    BY <1>1, <1>2, <2>1 DEF Wakeup!Goto, WakeRounds, WakeTypes, HasToken, Counting
  <2> QED BY <1>1, <2>1, <2>3, <2>4 DEF WakeInv
<1>8. ASSUME NEW t \in Sleepers, Wakeup!count(t) PROVE WakeInv'
  <2>1. /\ UNCHANGED <<sem_tokens, sem_waiters, wake_failed>> /\ woken_up_count' = woken_up_count + 1
        /\ at[t] = "count" /\ n[t] < W
        /\ at' = [at EXCEPT ![t] = IF n[t] + 1 < W THEN "top" ELSE "done"]
        /\ n' = [n EXCEPT ![t] = @ + 1]
    BY <1>1, <1>2, <1>8 DEF Wakeup!count, Wakeup!NextRound, Wakeup!Goto, WakeRounds, WakeTypes
  <2>2. Cardinality(HasToken(at')) = Cardinality(HasToken(at)) - 1
    <3>1. t \in HasToken(at) /\ HasToken(at') = HasToken(at) \ {t}
      BY <1>1, <2>1 DEF HasToken, Counting, WakeTypes
    <3> QED BY <3>1, HasTokenFinite, FS_RemoveElement
  <2>3. Cardinality(Rounds(Sleepers, W, n')) = Cardinality(Rounds(Sleepers, W, n)) + 1
    <3>1. \A u \in Sleepers : n[u] \in Nat
      BY <1>1 DEF WakeTypes
    <3>2. \A u \in Sleepers : n'[u] = IF u = t THEN n[t] + 1 ELSE n[u]
      BY <1>1, <2>1 DEF WakeTypes
    <3>3. IsFiniteSet(Sleepers) /\ W \in Nat /\ n[t] < W
      BY <1>2, <2>1
    <3> HIDE DEF W
    <3> QED BY <3>1, <3>2, <3>3, OneMoreRound
  <2>4. Rounds(Triggers, P, n') = Rounds(Triggers, P, n)
    <3>1. \A u \in Triggers : n'[u] = n[u]
      BY <1>1, <1>2, <2>1 DEF WakeTypes
    <3> QED BY <3>1, SameRounds
  <2>5. WakeCounts'
    <3> DEFINE posts == post_amount * Cardinality(Rounds(Triggers, P, n))
               h == Cardinality(HasToken(at))
               h1 == Cardinality(HasToken(at'))
    <3>1. sem_tokens + woken_up_count + h = posts /\ posts = post_amount * Cardinality(Rounds(Triggers, P, n'))
      BY <1>1, <2>4 DEF WakeCounts
    <3>2. sem_tokens \in Nat /\ woken_up_count \in Nat /\ h \in Nat /\ h1 = h - 1
      BY <1>1, <2>2, HasTokenFinite DEF WakeTypes
    <3>3. woken_up_count' = Cardinality(Rounds(Sleepers, W, n'))
      BY <1>1, <2>1, <2>3 DEF WakeCounts
    <3> HIDE DEF posts, h, h1
    <3>4. sem_tokens' + woken_up_count' + h1 = posts
      BY <2>1, <3>1, <3>2
    <3> QED BY <3>1, <3>3, <3>4 DEF WakeCounts, h1
  <2>6. WakeRounds'
    BY <1>1, <1>2, <2>1 DEF WakeRounds, WakeTypes
  <2> QED BY <1>1, <2>1, <2>5, <2>6 DEF WakeInv
<1>9. ASSUME NEW t \in Triggers, Wakeup!few_tokens(t) PROVE WakeInv'
  <2>1. /\ UNCHANGED <<n, woken_up_count, wake_failed, sem_tokens, sem_waiters>>
        /\ at[t] = "top" /\ at' = [at EXCEPT ![t] = "post"]
    BY <1>9 DEF Wakeup!few_tokens, Wakeup!Goto
  <2>2. HasToken(at') = HasToken(at)
    BY <1>1, <1>2, <2>1 DEF HasToken, Counting, WakeTypes
  <2>3. WakeCounts'
    BY <1>3, <2>1, <2>2
  <2>4. WakeRounds'
    BY <1>1, <1>2, <2>1 DEF WakeRounds, WakeTypes
  <2> QED BY <1>1, <2>1, <2>3, <2>4 DEF WakeInv
<1>10. ASSUME NEW t \in Triggers, Wakeup!post(t) PROVE WakeInv'
  <2>1. /\ UNCHANGED <<sem_waiters, woken_up_count, wake_failed>> /\ sem_tokens' = sem_tokens + post_amount
        /\ at[t] = "post" /\ n[t] < P
        /\ at' = [at EXCEPT ![t] = IF n[t] + 1 < P THEN "top" ELSE "done"]
        /\ n' = [n EXCEPT ![t] = @ + 1]
    BY <1>1, <1>2, <1>10 DEF Wakeup!post, Wakeup!sem!Post, Wakeup!NextRound, Wakeup!Goto, WakeRounds, WakeTypes
  <2>2. HasToken(at') = HasToken(at)
    BY <1>1, <1>2, <2>1 DEF HasToken, Counting, WakeTypes
  <2>3. Cardinality(Rounds(Triggers, P, n')) = Cardinality(Rounds(Triggers, P, n)) + 1
    <3>1. \A u \in Triggers : n[u] \in Nat
      BY <1>1 DEF WakeTypes
    <3>2. \A u \in Triggers : n'[u] = IF u = t THEN n[t] + 1 ELSE n[u]
      BY <1>1, <2>1 DEF WakeTypes
    <3>3. IsFiniteSet(Triggers) /\ P \in Nat /\ n[t] < P
      BY <1>2, <2>1
    <3> HIDE DEF P
    <3> QED BY <3>1, <3>2, <3>3, OneMoreRound
  <2>4. Rounds(Sleepers, W, n') = Rounds(Sleepers, W, n)
    <3>1. \A u \in Sleepers : n'[u] = n[u]
      BY <1>1, <1>2, <2>1 DEF WakeTypes
    <3> QED BY <3>1, SameRounds
  <2>5. WakeCounts'
    <3> DEFINE posts == post_amount * Cardinality(Rounds(Triggers, P, n))
               posts1 == post_amount * Cardinality(Rounds(Triggers, P, n'))
               h == Cardinality(HasToken(at))
    <3>1. sem_tokens + woken_up_count + h = posts
      BY <1>1 DEF WakeCounts
    <3>2. sem_tokens \in Nat /\ woken_up_count \in Nat /\ h \in Nat /\ post_amount \in Nat
      BY <1>1, <1>2, HasTokenFinite DEF WakeTypes
    <3>3. posts1 = posts + post_amount
      <4>1. Cardinality(Rounds(Triggers, P, n)) \in Nat
        BY <1>2, RoundsFinite
      <4> QED BY <1>2, <2>3, <4>1, TimesMonotonic
    <3>4. woken_up_count' = Cardinality(Rounds(Sleepers, W, n')) /\ h = Cardinality(HasToken(at'))
      BY <1>1, <2>1, <2>2, <2>4 DEF WakeCounts
    <3> HIDE DEF posts, posts1, h
    <3>5. sem_tokens' + woken_up_count' + h = posts1
      BY <2>1, <3>1, <3>2, <3>3
    <3> QED BY <3>4, <3>5 DEF WakeCounts, posts1
  <2>6. WakeRounds'
    BY <1>1, <1>2, <2>1 DEF WakeRounds, WakeTypes
  <2> QED BY <1>1, <2>1, <2>5, <2>6 DEF WakeInv
<1>11. CASE Wakeup!join
  <2>1. /\ \A t \in Sleepers : n[t] = W /\ at[t] = "done"
        /\ \A t \in Triggers : n[t] = P
    BY <1>1, <1>11 DEF Wakeup!join, WakeRounds
  <2>2. HasToken(at) = {} /\ sem_waiters = {}
    BY <1>1, <2>1 DEF HasToken, Counting, WakeRounds
  <2>3. /\ Cardinality(Rounds(Sleepers, W, n)) = Cardinality(Sleepers) * W
        /\ Cardinality(Rounds(Triggers, P, n)) = Cardinality(Triggers) * P
    BY <1>2, <2>1, AllRounds
  <2>4. woken_up_count = Cardinality(Sleepers) * W
    BY <1>1, <2>3 DEF WakeCounts
  <2>5. sem_tokens + woken_up_count + 0 = woken_up_count
    BY <1>1, <1>2, <2>2, <2>3, <2>4, FS_EmptySet, WakeupAssumption DEF WakeCounts
  <2>6. sem_tokens = 0
    BY <1>1, <2>5 DEF WakeTypes
  <2>7. wake_failed' = {}
    BY <1>2, <1>11, <2>2, <2>4, <2>6, SameCardinality DEF Wakeup!join
  <2>8. UNCHANGED <<n, at, woken_up_count, sem_tokens, sem_waiters>>
    BY <1>11 DEF Wakeup!join
  <2> QED BY <1>1, <2>7, <2>8 DEF WakeInv, WakeRounds, WakeCounts
<1>12. CASE UNCHANGED wakeVars
  BY <1>1, <1>12 DEF wakeVars, WakeInv, WakeRounds, WakeCounts
<1>13. ASSUME NEW t \in Sleepers \cup Triggers, Wakeup!work(t) PROVE WakeInv'
  <2>1. CASE t \in Sleepers
    BY <1>1, <1>2, <1>5, <1>6, <1>7, <1>8, <1>13, <2>1
       DEF Wakeup!work, Wakeup!few_tokens, Wakeup!post, WakeTypes, AtSleeper
  <2>2. CASE t \in Triggers
    BY <1>1, <1>2, <1>9, <1>10, <1>13, <2>2
       DEF Wakeup!work, Wakeup!fast_wait, Wakeup!begin_slow_wait, Wakeup!slower, Wakeup!count_fast, Wakeup!count_slow,
           Wakeup!load_delay_loop, Wakeup!faster, Wakeup!count, WakeTypes, AtTrigger
  <2> QED BY <1>13, <2>1, <2>2
<1> QED BY <1>5, <1>11, <1>12, <1>13
        DEF Wakeup!Next, Wakeup!take, Wakeup!Terminated, Wakeup!wakeVars, wakeVars

LEMMA WakeAsserts == ThreadPrograms => []WakeInv
<1>1. Start => WakeInv
  BY WakeInit DEF Start
<1>2. WakeInv /\ [Step]_allVars => WakeInv'
  BY WakeupStep, WakeNext
<1> QED BY <1>1, <1>2, PTL DEF ThreadPrograms

-----------------------------------------------------------------------------
(* genmc_spinsemaphore_test: counting threads                                *)

LEMMA SpinStep == [Step]_allVars => Spin!Next \/ UNCHANGED spinVars
BY DEF Step, LockStep, SemaphoreTestStep, WakeupTestStep, CvWaitStep, InLock, InSemaphoreTest,
       InWakeupTest, InCvWait, allVars, spinVars

\* The threads of S that are in one of the places Q, and how many there are.
Where(S, Q, f) == {t \in S : f[t] \in Q}
HowMany(S, Q, f) == Cardinality(Where(S, Q, f))

LEMMA HowManyType ==
  ASSUME NEW S, IsFiniteSet(S), NEW Q, NEW f
  PROVE  IsFiniteSet(Where(S, Q, f)) /\ HowMany(S, Q, f) \in Nat
BY FS_Subset, FS_CardinalityType DEF Where, HowMany

LEMMA NoneThere ==
  ASSUME NEW S, IsFiniteSet(S), NEW Q, NEW f
  PROVE  HowMany(S, Q, f) = 0 <=> \A t \in S : f[t] \notin Q
<1>1. IsFiniteSet(Where(S, Q, f))
  BY HowManyType
<1>2. HowMany(S, Q, f) = 0 <=> Where(S, Q, f) = {}
  BY <1>1, FS_EmptySet DEF HowMany
<1> QED BY <1>2 DEF Where

\* One thread goes from one place to another.
LEMMA OneMoves ==
  ASSUME NEW S, IsFiniteSet(S), NEW Q, NEW f, NEW g, NEW t, NEW p,
         \A u \in S : g[u] = IF u = t THEN p ELSE f[u]
  PROVE  HowMany(S, Q, g) = IF t \notin S \/ (f[t] \in Q <=> p \in Q) THEN HowMany(S, Q, f)
                           ELSE IF p \in Q THEN HowMany(S, Q, f) + 1 ELSE HowMany(S, Q, f) - 1
<1>1. CASE t \notin S \/ (f[t] \in Q <=> p \in Q)
  <2>1. Where(S, Q, g) = Where(S, Q, f)
    BY <1>1 DEF Where
  <2> QED BY <1>1, <2>1 DEF HowMany
<1>2. CASE t \in S /\ f[t] \notin Q /\ p \in Q
  <2>1. Where(S, Q, g) = Where(S, Q, f) \cup {t} /\ t \notin Where(S, Q, f)
    BY <1>2 DEF Where
  <2>2. Cardinality(Where(S, Q, f) \cup {t}) = Cardinality(Where(S, Q, f)) + 1
    BY <2>1, HowManyType, FS_AddElement
  <2> QED BY <1>2, <2>1, <2>2 DEF HowMany
<1>3. CASE t \in S /\ f[t] \in Q /\ p \notin Q
  <2>1. Where(S, Q, g) = Where(S, Q, f) \ {t} /\ t \in Where(S, Q, f)
    BY <1>3 DEF Where
  <2>2. Cardinality(Where(S, Q, f) \ {t}) = Cardinality(Where(S, Q, f)) - 1
    BY <2>1, HowManyType, FS_RemoveElement
  <2> QED BY <1>3, <2>1, <2>2 DEF HowMany
<1> QED BY <1>1, <1>2, <1>3

\* The wake-ups that threads are about to call futex_wake for.
Calls(f, g) == UNION {{t} \X (1 .. g[t]) : t \in {u \in Spin!AllThreads : f[u] = "wake"}}

LEMMA CallsElements ==
  ASSUME NEW f, NEW g
  PROVE  \A x : x \in Calls(f, g) <=>
           \E t \in Spin!AllThreads : f[t] = "wake" /\ x \in {t} \X (1 .. g[t])
BY DEF Calls

LEMMA OneCall ==
  ASSUME NEW t, NEW k \in Nat
  PROVE  IsFiniteSet({t} \X (1 .. k)) /\ Cardinality({t} \X (1 .. k)) = k
<1>1. IsFiniteSet(1 .. k) /\ Cardinality(1 .. k) = k
  BY FS_Interval
<1>2. IsFiniteSet({t}) /\ Cardinality({t}) = 1
  BY FS_Singleton
<1> DEFINE A == {t}
           B == 1 .. k
<1> HIDE DEF A, B
<1>3. IsFiniteSet(A \X B) /\ Cardinality(A \X B) = Cardinality(A) * Cardinality(B)
  BY <1>1, <1>2, FS_Product DEF A, B
<1>4. 1 * k = k
  OBVIOUS
<1> QED BY <1>1, <1>2, <1>3, <1>4 DEF A, B

\* A thread is about to wake up k others.
LEMMA CallBegins ==
  ASSUME NEW f, NEW g, IsFiniteSet(Calls(f, g)), NEW t \in Spin!AllThreads, NEW k \in Nat,
         f[t] # "wake", NEW f1, NEW g1,
         \A u \in Spin!AllThreads : f1[u] = IF u = t THEN "wake" ELSE f[u],
         \A u \in Spin!AllThreads : g1[u] = IF u = t THEN k ELSE g[u]
  PROVE  /\ IsFiniteSet(Calls(f1, g1))
         /\ Cardinality(Calls(f1, g1)) = Cardinality(Calls(f, g)) + k
<1>1. Calls(f1, g1) = Calls(f, g) \cup ({t} \X (1 .. k))
  <2>1. ASSUME NEW x \in Calls(f1, g1) PROVE x \in Calls(f, g) \cup ({t} \X (1 .. k))
    BY <2>1, CallsElements
  <2>2. ASSUME NEW x \in Calls(f, g) \cup ({t} \X (1 .. k)) PROVE x \in Calls(f1, g1)
    BY <2>2, CallsElements
  <2> QED BY <2>1, <2>2
<1>2. Calls(f, g) \cap ({t} \X (1 .. k)) = {}
  BY CallsElements
<1> DEFINE A == Calls(f, g)
           B == {t} \X (1 .. k)
<1>3. IsFiniteSet(A) /\ IsFiniteSet(B) /\ Cardinality(B) = k /\ A \cap B = {} /\ Cardinality(A) \in Nat
  BY <1>2, OneCall, FS_CardinalityType
<1> HIDE DEF A, B
<1>4. /\ IsFiniteSet(A \cup B)
      /\ Cardinality(A \cup B) = Cardinality(A) + Cardinality(B) - Cardinality(A \cap B)
  BY <1>3, FS_Union
<1>5. Cardinality(A \cap B) = 0
  BY <1>3, FS_EmptySet
<1> QED BY <1>1, <1>3, <1>4, <1>5 DEF A, B

\* A thread has called futex_wake.
LEMMA CallEnds ==
  ASSUME NEW f, NEW g, IsFiniteSet(Calls(f, g)), NEW t \in Spin!AllThreads, NEW p,
         f[t] = "wake", p # "wake", g[t] \in Nat, NEW f1,
         \A u \in Spin!AllThreads : f1[u] = IF u = t THEN p ELSE f[u]
  PROVE  /\ IsFiniteSet(Calls(f1, g))
         /\ Cardinality(Calls(f1, g)) + g[t] = Cardinality(Calls(f, g))
<1>0. \A u \in Spin!AllThreads : f[u] = IF u = t THEN "wake" ELSE f1[u]
  OBVIOUS
<1>1. Calls(f1, g) \subseteq Calls(f, g)
  BY CallsElements
<1>2. IsFiniteSet(Calls(f1, g))
  BY <1>1, FS_Subset
<1>3. f1[t] # "wake" /\ \A u \in Spin!AllThreads : g[u] = IF u = t THEN g[t] ELSE g[u]
  OBVIOUS
<1> QED BY <1>0, <1>2, <1>3, CallBegins

\* No thread begins or ends a call.
LEMMA SameCalls ==
  ASSUME NEW f, NEW g, NEW f1, NEW g1,
         \A u \in Spin!AllThreads : f[u] = "wake" <=> f1[u] = "wake",
         \A u \in Spin!AllThreads : f[u] = "wake" => g1[u] = g[u]
  PROVE  Calls(f1, g1) = Calls(f, g)
<1>1. ASSUME NEW x \in Calls(f1, g1) PROVE x \in Calls(f, g)
  BY <1>1, CallsElements
<1>2. ASSUME NEW x \in Calls(f, g) PROVE x \in Calls(f1, g1)
  BY <1>2, CallsElements
<1> QED BY <1>1, <1>2

-----------------------------------------------------------------------------
(* genmc_spinsemaphore_test: the invariant                                   *)

AtWaiter == {"created", "wait", "slow_wait", "spin", "futex_wait", "asleep", "woken", "again",
             "wake", "wake_done", "took", "done"}
AtPoster == {"created", "next", "post", "wake", "wake_done", "check", "done"}

SpinTypes ==
  /\ m_word \in [tokens : Nat, spinner : BOOLEAN, wake : Nat, woke : Nat, nwaiters : Nat]
  /\ qad_ntokens \in Nat /\ qad_nwaiters \in Nat /\ count \in Nat
  /\ DOMAIN pc = Spin!AllThreads
  /\ \A t \in Waiters : pc[t] \in AtWaiter
  /\ \A t \in Posters : pc[t] \in AtPoster
  /\ to_wake \in [Spin!AllThreads -> Nat]
  /\ posted \in [Posters -> Nat]

InSlowWait == {"spin", "futex_wait", "asleep", "woken", "again"}

Asleep(f) == HowMany(Spin!AllThreads, {"asleep"}, f)
Slow(f)   == HowMany(Spin!AllThreads, InSlowWait, f)
Woken(f)  == HowMany(Spin!AllThreads, {"woken"}, f)
Waking(f) == HowMany(Spin!AllThreads, {"wake", "wake_done"}, f)
ToPost(f) == HowMany(Posters, {"post"}, f)
InPost(f) == HowMany(Posters, {"post", "wake", "wake_done", "check"}, f)
Took(f)   == HowMany(Waiters, {"took", "wake", "wake_done"}, f)
Done(f)   == HowMany(Waiters, {"done"}, f)

\* What the fields of the word and the counters of the futex count.
WordCounts ==
  /\ qad_nwaiters = Asleep(pc) /\ qad_ntokens <= qad_nwaiters
  /\ m_word.nwaiters = Slow(pc) /\ m_word.woke = Woken(pc) /\ m_word.wake = Waking(pc)

\* Every increment of count is one of a post() that has not added its token, a token, or a thread
\* that took one and did not decrement; and as many posts have begun as there are
\* increments left and decrements done.
PostCounts ==
  /\ \A t \in Posters : posted[t] <= Posts /\ (pc[t] = "done" <=> posted[t] = Posts)
  /\ count = m_word.tokens + ToPost(pc) + Took(pc)
  /\ count + Done(pc) = Cardinality(Rounds(Posters, Posts, posted)) + InPost(pc)

\* When nobody spins and a thread sleeps that was not woken up, there is for every token a thread
\* that woke up, a wake-up in the futex or one that is about to be asked for.
Covered ==
  /\ IsFiniteSet(Calls(pc, to_wake))
  /\ ~m_word.spinner /\ qad_ntokens < qad_nwaiters =>
       m_word.tokens <= m_word.woke + qad_ntokens + Cardinality(Calls(pc, to_wake))

SpinInv == SpinTypes /\ WordCounts /\ PostCounts /\ Covered /\ failed = {}

LEMMA SpinFinite ==
  /\ IsFiniteSet(Spin!AllThreads) /\ IsFiniteSet(Waiters) /\ IsFiniteSet(Posters)
  /\ Spin!AllThreads = Waiters \cup Posters /\ Waiters \cap Posters = {}
  /\ Posts \in Nat \ {0}
BY BalanceAssumption, FS_Union DEF Spin!AllThreads

LEMMA CountTypes ==
  ASSUME NEW f
  PROVE  /\ Asleep(f) \in Nat /\ Slow(f) \in Nat /\ Woken(f) \in Nat /\ Waking(f) \in Nat
         /\ ToPost(f) \in Nat /\ InPost(f) \in Nat /\ Took(f) \in Nat /\ Done(f) \in Nat
         /\ Asleep(f) <= Slow(f)
<1>1. Where(Spin!AllThreads, {"asleep"}, f) \subseteq Where(Spin!AllThreads, InSlowWait, f)
  BY DEF Where, InSlowWait
<1>2. Asleep(f) <= Slow(f)
  BY <1>1, SpinFinite, HowManyType, FS_Subset DEF Asleep, Slow, HowMany
<1> QED BY <1>2, SpinFinite, HowManyType DEF Asleep, Slow, Woken, Waking, ToPost, InPost, Took, Done

\* A thread that is there is counted.
LEMMA CountsPositive ==
  ASSUME NEW f, NEW t \in Spin!AllThreads
  PROVE  /\ f[t] = "asleep" => Asleep(f) > 0
         /\ f[t] \in InSlowWait => Slow(f) > 0
         /\ f[t] = "woken" => Woken(f) > 0
         /\ f[t] \in {"wake", "wake_done"} => Waking(f) > 0
         /\ t \in Posters /\ f[t] = "post" => ToPost(f) > 0
         /\ t \in Waiters /\ f[t] \in {"took", "wake", "wake_done"} => Took(f) > 0
<1>1. ASSUME NEW S, IsFiniteSet(S), NEW Q, t \in S, f[t] \in Q PROVE HowMany(S, Q, f) > 0
  <2>1. HowMany(S, Q, f) \in Nat /\ HowMany(S, Q, f) # 0
    BY <1>1, HowManyType, NoneThere
  <2> QED BY <2>1
<1> QED BY <1>1, SpinFinite DEF Asleep, Slow, Woken, Waking, ToPost, Took

LEMMA CountsMove ==
  ASSUME SpinTypes, NEW t \in Spin!AllThreads, NEW p, Spin!Goto(t, p)
  PROVE  /\ \A u \in Spin!AllThreads : pc'[u] = IF u = t THEN p ELSE pc[u]
         /\ Asleep(pc') = IF pc[t] = "asleep" <=> p = "asleep" THEN Asleep(pc)
                          ELSE IF p = "asleep" THEN Asleep(pc) + 1 ELSE Asleep(pc) - 1
         /\ Slow(pc') = IF pc[t] \in InSlowWait <=> p \in InSlowWait THEN Slow(pc)
                        ELSE IF p \in InSlowWait THEN Slow(pc) + 1 ELSE Slow(pc) - 1
         /\ Woken(pc') = IF pc[t] = "woken" <=> p = "woken" THEN Woken(pc)
                         ELSE IF p = "woken" THEN Woken(pc) + 1 ELSE Woken(pc) - 1
         /\ Waking(pc') = IF pc[t] \in {"wake", "wake_done"} <=> p \in {"wake", "wake_done"} THEN Waking(pc)
                          ELSE IF p \in {"wake", "wake_done"} THEN Waking(pc) + 1 ELSE Waking(pc) - 1
<1>1. \A u \in Spin!AllThreads : pc'[u] = IF u = t THEN p ELSE pc[u]
  BY DEF SpinTypes, Spin!Goto
<1>2. ASSUME NEW Q
      PROVE  HowMany(Spin!AllThreads, Q, pc') =
               IF pc[t] \in Q <=> p \in Q THEN HowMany(Spin!AllThreads, Q, pc)
               ELSE IF p \in Q THEN HowMany(Spin!AllThreads, Q, pc) + 1
               ELSE HowMany(Spin!AllThreads, Q, pc) - 1
  BY <1>1, SpinFinite, OneMoves
<1> QED BY <1>1, <1>2 DEF Asleep, Slow, Woken, Waking

LEMMA PosterMoves ==
  ASSUME SpinTypes, NEW t \in Posters, NEW p, Spin!Goto(t, p)
  PROVE  /\ Took(pc') = Took(pc) /\ Done(pc') = Done(pc)
         /\ ToPost(pc') = IF pc[t] = "post" <=> p = "post" THEN ToPost(pc)
                          ELSE IF p = "post" THEN ToPost(pc) + 1 ELSE ToPost(pc) - 1
         /\ InPost(pc') = IF pc[t] \in {"post", "wake", "wake_done", "check"} <=> p \in {"post", "wake", "wake_done", "check"}
                          THEN InPost(pc)
                          ELSE IF p \in {"post", "wake", "wake_done", "check"} THEN InPost(pc) + 1 ELSE InPost(pc) - 1
<1>1. \A u \in Spin!AllThreads : pc'[u] = IF u = t THEN p ELSE pc[u]
  BY SpinFinite DEF SpinTypes, Spin!Goto
<1>2. ASSUME NEW Q
      PROVE  /\ HowMany(Waiters, Q, pc') = HowMany(Waiters, Q, pc)
             /\ HowMany(Posters, Q, pc') =
                  IF pc[t] \in Q <=> p \in Q THEN HowMany(Posters, Q, pc)
                  ELSE IF p \in Q THEN HowMany(Posters, Q, pc) + 1 ELSE HowMany(Posters, Q, pc) - 1
  <2>1. \A u \in Posters : pc'[u] = IF u = t THEN p ELSE pc[u]
    BY <1>1, SpinFinite
  <2>2. \A u \in Waiters : pc'[u] = IF u = t THEN p ELSE pc[u]
    BY <1>1, SpinFinite
  <2>3. IsFiniteSet(Waiters) /\ IsFiniteSet(Posters) /\ t \notin Waiters
    BY SpinFinite
  <2>4. HowMany(Waiters, Q, pc') = HowMany(Waiters, Q, pc)
    BY <2>1, <2>2, <2>3, OneMoves
  <2>5. HowMany(Posters, Q, pc') =
          IF pc[t] \in Q <=> p \in Q THEN HowMany(Posters, Q, pc)
          ELSE IF p \in Q THEN HowMany(Posters, Q, pc) + 1 ELSE HowMany(Posters, Q, pc) - 1
    BY <2>1, <2>2, <2>3, OneMoves
  <2> QED BY <2>4, <2>5
<1> QED BY <1>2 DEF Took, Done, ToPost, InPost

LEMMA WaiterMoves ==
  ASSUME SpinTypes, NEW t \in Waiters, NEW p, Spin!Goto(t, p)
  PROVE  /\ ToPost(pc') = ToPost(pc) /\ InPost(pc') = InPost(pc)
         /\ \A u \in Posters : pc'[u] = pc[u]
         /\ Took(pc') = IF pc[t] \in {"took", "wake", "wake_done"} <=> p \in {"took", "wake", "wake_done"} THEN Took(pc)
                        ELSE IF p \in {"took", "wake", "wake_done"} THEN Took(pc) + 1 ELSE Took(pc) - 1
         /\ Done(pc') = IF pc[t] = "done" <=> p = "done" THEN Done(pc)
                        ELSE IF p = "done" THEN Done(pc) + 1 ELSE Done(pc) - 1
<1>1. \A u \in Spin!AllThreads : pc'[u] = IF u = t THEN p ELSE pc[u]
  BY SpinFinite DEF SpinTypes, Spin!Goto
<1>2. ASSUME NEW Q
      PROVE  /\ HowMany(Posters, Q, pc') = HowMany(Posters, Q, pc)
             /\ HowMany(Waiters, Q, pc') =
                  IF pc[t] \in Q <=> p \in Q THEN HowMany(Waiters, Q, pc)
                  ELSE IF p \in Q THEN HowMany(Waiters, Q, pc) + 1 ELSE HowMany(Waiters, Q, pc) - 1
  <2>1. \A u \in Posters : pc'[u] = IF u = t THEN p ELSE pc[u]
    BY <1>1, SpinFinite
  <2>2. \A u \in Waiters : pc'[u] = IF u = t THEN p ELSE pc[u]
    BY <1>1, SpinFinite
  <2>3. IsFiniteSet(Waiters) /\ IsFiniteSet(Posters) /\ t \notin Posters
    BY SpinFinite
  <2>4. HowMany(Posters, Q, pc') = HowMany(Posters, Q, pc)
    BY <2>1, <2>2, <2>3, OneMoves
  <2>5. HowMany(Waiters, Q, pc') =
          IF pc[t] \in Q <=> p \in Q THEN HowMany(Waiters, Q, pc)
          ELSE IF p \in Q THEN HowMany(Waiters, Q, pc) + 1 ELSE HowMany(Waiters, Q, pc) - 1
    BY <2>1, <2>2, <2>3, OneMoves
  <2> QED BY <2>4, <2>5
<1>3. \A u \in Posters : pc'[u] = pc[u]
  BY <1>1, SpinFinite
<1> QED BY <1>2, <1>3 DEF Took, Done, ToPost, InPost

\* A thread that is in wait() is a waiter.
LEMMA WhoIsWhere ==
  ASSUME SpinTypes, NEW t \in Spin!AllThreads
  PROVE  /\ pc[t] \in {"wait", "slow_wait", "took"} \cup InSlowWait => t \in Waiters
         /\ pc[t] \in {"next", "post", "check"} => t \in Posters
BY SpinFinite DEF SpinTypes, AtWaiter, AtPoster, InSlowWait

LEMMA CallsAreCounted == SpinTypes /\ WordCounts /\ m_word.wake = 0 => Calls(pc, to_wake) = {}
<1> SUFFICES ASSUME SpinTypes, WordCounts, m_word.wake = 0 PROVE Calls(pc, to_wake) = {}
  OBVIOUS
<1>1. Waking(pc) = 0
  BY DEF WordCounts
<1>2. \A t \in Spin!AllThreads : pc[t] # "wake"
  BY <1>1, NoneThere, SpinFinite DEF Waking
<1> QED BY <1>2 DEF Calls

LEMMA SpinInit == Spin!Init => SpinInv
<1> SUFFICES ASSUME Spin!Init PROVE SpinInv
  OBVIOUS
<1>1. SpinTypes
  BY SpinFinite DEF Spin!Init, SpinTypes, AtWaiter, AtPoster
<1>2. \A t \in Spin!AllThreads : pc[t] = "created"
  BY DEF Spin!Init
<1>3. /\ Asleep(pc) = 0 /\ Slow(pc) = 0 /\ Woken(pc) = 0 /\ Waking(pc) = 0 /\ ToPost(pc) = 0 /\ InPost(pc) = 0
      /\ Took(pc) = 0 /\ Done(pc) = 0
  BY <1>2, NoneThere, SpinFinite DEF Asleep, Slow, Woken, Waking, ToPost, InPost, Took, Done, InSlowWait
<1>4. WordCounts
  BY <1>3 DEF Spin!Init, WordCounts
<1>5. PostCounts
  <2>1. \A t \in Posters : posted[t] = 0 /\ pc[t] = "created"
    BY <1>2, SpinFinite DEF Spin!Init
  <2>2. Cardinality(Rounds(Posters, Posts, posted)) = 0
    BY <2>1, SpinFinite, NoRounds
  <2> QED BY <1>3, <2>1, <2>2, SpinFinite DEF Spin!Init, PostCounts
<1>6. Covered
  <2>1. Calls(pc, to_wake) = {}
    BY <1>2 DEF Calls
  <2> QED BY <2>1, FS_EmptySet DEF Spin!Init, Covered
<1> QED BY <1>1, <1>4, <1>5, <1>6 DEF Spin!Init, SpinInv

-----------------------------------------------------------------------------
(* genmc_spinsemaphore_test: the steps                                       *)

LEMMA FutexWait ==
  ASSUME SpinInv, NEW t \in Spin!AllThreads, Spin!futex_wait(t) PROVE SpinInv'
<1> USE DEF SpinInv
<1>1. t \in Waiters /\ pc[t] = "futex_wait" /\ UNCHANGED <<to_wake, m_word, qad_ntokens, count, posted, failed>>
  BY WhoIsWhere DEF Spin!futex_wait, InSlowWait
<1>2. CASE m_word.tokens = 0
  <2>1. qad_nwaiters' = qad_nwaiters + 1 /\ Spin!Goto(t, "asleep")
    BY <1>2 DEF Spin!futex_wait
  <2>2. SpinTypes'
    BY <1>1, <2>1, SpinFinite DEF SpinTypes, Spin!Goto, AtWaiter
  <2>3. WordCounts'
    BY <1>1, <2>1, CountsMove, CountTypes DEF WordCounts, InSlowWait, SpinTypes
  <2>4. PostCounts'
    BY <1>1, <2>1, WaiterMoves DEF PostCounts
  <2>5. Covered'
    <3>1. Calls(pc', to_wake') = Calls(pc, to_wake)
      BY <1>1, <2>1, CountsMove, SameCalls
    <3>2. Cardinality(Calls(pc, to_wake)) \in Nat
      BY FS_CardinalityType DEF Covered
    <3> QED BY <1>1, <1>2, <3>1, <3>2 DEF Covered, SpinTypes
  <2> QED BY <1>1, <2>2, <2>3, <2>4, <2>5
<1>3. CASE m_word.tokens # 0
  <2>1. qad_nwaiters' = qad_nwaiters /\ Spin!Goto(t, "again")
    BY <1>3 DEF Spin!futex_wait
  <2>2. SpinTypes'
    BY <1>1, <2>1, SpinFinite DEF SpinTypes, Spin!Goto, AtWaiter
  <2>3. WordCounts'
    BY <1>1, <2>1, CountsMove, CountTypes DEF WordCounts, InSlowWait
  <2>4. PostCounts'
    BY <1>1, <2>1, WaiterMoves DEF PostCounts
  <2>5. Covered'
    <3>1. Calls(pc', to_wake') = Calls(pc, to_wake)
      BY <1>1, <2>1, CountsMove, SameCalls
    <3> QED BY <1>1, <2>1, <3>1 DEF Covered
  <2> QED BY <1>1, <2>2, <2>3, <2>4, <2>5
<1> QED BY <1>2, <1>3

LEMMA FutexWoken ==
  ASSUME SpinInv, NEW t \in Spin!AllThreads, Spin!futex_woken(t) PROVE SpinInv'
<1> USE DEF SpinInv
<1>1. /\ t \in Waiters /\ pc[t] = "asleep" /\ UNCHANGED <<to_wake, count, posted, failed>>
      /\ qad_ntokens > 0 /\ qad_ntokens' = qad_ntokens - 1 /\ qad_nwaiters' = qad_nwaiters - 1
      /\ m_word' = [m_word EXCEPT !.woke = @ + 1] /\ Spin!Goto(t, "woken")
  BY WhoIsWhere DEF Spin!futex_woken, InSlowWait
<1>2. SpinTypes'
  BY <1>1, SpinFinite DEF SpinTypes, Spin!Goto, AtWaiter, WordCounts
<1>3. WordCounts'
  BY <1>1, CountsMove, CountTypes DEF WordCounts, InSlowWait, SpinTypes
<1>4. PostCounts'
  BY <1>1, WaiterMoves DEF PostCounts, SpinTypes
<1>5. Covered'
  <2>1. Calls(pc', to_wake') = Calls(pc, to_wake)
    BY <1>1, CountsMove, SameCalls
  <2>2. Cardinality(Calls(pc, to_wake)) \in Nat
    BY FS_CardinalityType DEF Covered
  <2> QED BY <1>1, <2>1, <2>2 DEF Covered, SpinTypes
<1> QED BY <1>1, <1>2, <1>3, <1>4, <1>5

LEMMA PostStep ==
  ASSUME SpinInv, NEW t \in Spin!AllThreads, Spin!post(t) PROVE SpinInv'
<1> USE DEF SpinInv
<1> DEFINE wakes == ~m_word.spinner /\ m_word.nwaiters > 0
<1>1. /\ t \in Posters /\ pc[t] = "post" /\ UNCHANGED <<qad_ntokens, qad_nwaiters, count, posted, failed>>
      /\ m_word' = [m_word EXCEPT !.tokens = @ + 1, !.wake = IF wakes THEN @ + 1 ELSE @]
      /\ to_wake' = [to_wake EXCEPT ![t] = 1]
      /\ Spin!Goto(t, IF wakes THEN "wake" ELSE "check")
  BY WhoIsWhere DEF Spin!post
<1>2. SpinTypes'
  <2>1. m_word' \in [tokens : Nat, spinner : BOOLEAN, wake : Nat, woke : Nat, nwaiters : Nat]
    <3>1. PICK x \in Nat : x = IF wakes THEN m_word.wake + 1 ELSE m_word.wake
      BY DEF SpinTypes
    <3>2. PICK y \in Nat : y = m_word.tokens + 1
      BY DEF SpinTypes
    <3>3. m_word' = [m_word EXCEPT !.tokens = y, !.wake = x]
      BY <1>1, <3>1, <3>2 DEF SpinTypes
    <3> QED BY <3>3 DEF SpinTypes
  <2>2. to_wake' \in [Spin!AllThreads -> Nat]
    BY <1>1 DEF SpinTypes
  <2>3. DOMAIN pc' = Spin!AllThreads /\ \A u \in Spin!AllThreads : pc'[u] \in {pc[u], "wake", "check"}
    BY <1>1 DEF SpinTypes, Spin!Goto
  <2>4. (\A u \in Waiters : pc'[u] \in AtWaiter) /\ (\A u \in Posters : pc'[u] \in AtPoster)
    BY <1>1, <2>3, CountsMove, SpinFinite DEF SpinTypes, AtPoster
  <2> QED BY <1>1, <2>1, <2>2, <2>3, <2>4 DEF SpinTypes
<1>3. /\ m_word'.tokens = m_word.tokens + 1 /\ m_word'.spinner = m_word.spinner
      /\ m_word'.nwaiters = m_word.nwaiters /\ m_word'.woke = m_word.woke
      /\ m_word'.wake = IF wakes THEN m_word.wake + 1 ELSE m_word.wake
  BY <1>1 DEF SpinTypes
<1>4. CASE wakes
  <2>1. Spin!Goto(t, "wake")
    BY <1>1, <1>4
  <2>2. WordCounts'
    BY <1>1, <1>3, <1>4, <2>1, CountsMove, CountTypes DEF WordCounts, InSlowWait
  <2>3. PostCounts'
    BY <1>1, <1>3, <2>1, PosterMoves, CountTypes, CountsMove, SpinFinite DEF PostCounts, SpinTypes
  <2>4. Covered'
    <3>1. /\ \A u \in Spin!AllThreads : pc'[u] = IF u = t THEN "wake" ELSE pc[u]
          /\ \A u \in Spin!AllThreads : to_wake'[u] = IF u = t THEN 1 ELSE to_wake[u]
      BY <1>1, <2>1, CountsMove DEF SpinTypes
    <3>2. IsFiniteSet(Calls(pc', to_wake')) /\ Cardinality(Calls(pc', to_wake')) = Cardinality(Calls(pc, to_wake)) + 1
      <4>1. IsFiniteSet(Calls(pc, to_wake)) /\ pc[t] # "wake"
        BY <1>1 DEF Covered
      <4>2. \A u \in Spin!AllThreads : pc'[u] = IF u = t THEN "wake" ELSE pc[u]
        BY <3>1
      <4>3. \A u \in Spin!AllThreads : to_wake'[u] = IF u = t THEN 1 ELSE to_wake[u]
        BY <3>1
      <4> QED BY <4>1, <4>2, <4>3, CallBegins
    <3>3. Cardinality(Calls(pc, to_wake)) \in Nat
      BY FS_CardinalityType DEF Covered
    <3> QED BY <1>1, <1>3, <3>2, <3>3 DEF Covered, SpinTypes
  <2> QED BY <1>1, <1>2, <2>2, <2>3, <2>4
<1>5. CASE ~wakes
  <2>1. Spin!Goto(t, "check")
    BY <1>1, <1>5
  <2>2. WordCounts'
    BY <1>1, <1>3, <1>5, <2>1, CountsMove, CountTypes DEF WordCounts, InSlowWait
  <2>3. PostCounts'
    BY <1>1, <1>3, <2>1, PosterMoves, CountTypes, CountsMove, SpinFinite DEF PostCounts, SpinTypes
  <2>4. Covered'
    <3>1. Calls(pc', to_wake') = Calls(pc, to_wake)
      <4>1. \A u \in Spin!AllThreads : pc'[u] = IF u = t THEN "check" ELSE pc[u]
        BY <2>1, CountsMove
      <4>2. \A u \in Spin!AllThreads \ {t} : to_wake'[u] = to_wake[u]
        BY <1>1 DEF SpinTypes
      <4>3. \A u \in Spin!AllThreads : pc[u] = "wake" <=> pc'[u] = "wake"
        BY <1>1, <4>1
      <4>4. \A u \in Spin!AllThreads : pc[u] = "wake" => to_wake'[u] = to_wake[u]
        BY <1>1, <4>2
      <4> QED BY <4>3, <4>4, SameCalls
    <3>2. m_word.spinner \/ qad_nwaiters = 0
      BY <1>5, CountTypes DEF WordCounts, SpinTypes
    <3> QED BY <1>1, <1>3, <3>1, <3>2 DEF Covered, SpinTypes
  <2> QED BY <1>1, <1>2, <2>2, <2>3, <2>4
<1> QED BY <1>4, <1>5

LEMMA WakeStep ==
  ASSUME SpinInv, NEW t \in Spin!AllThreads, Spin!wake(t) PROVE SpinInv'
<1> USE DEF SpinInv
<1> DEFINE actual == qad_nwaiters - qad_ntokens
           woken == IF to_wake[t] <= actual THEN to_wake[t] ELSE actual
<1>1. /\ pc[t] = "wake" /\ UNCHANGED <<to_wake, m_word, qad_nwaiters, count, posted>>
      /\ failed' = failed /\ Spin!Goto(t, "wake_done")
      /\ qad_ntokens' = qad_ntokens + woken
  BY DEF Spin!wake, Spin!assert, Spin!futex_wake, WordCounts, SpinTypes
<1>2. actual \in Nat /\ woken \in Nat /\ woken <= actual /\ to_wake[t] \in Nat
  BY DEF WordCounts, SpinTypes
<1>3. SpinTypes'
  BY <1>1, <1>2, SpinFinite DEF SpinTypes, Spin!Goto, AtWaiter, AtPoster
<1>4. WordCounts'
  <2>1. qad_ntokens' <= qad_nwaiters
    BY <1>1, <1>2 DEF SpinTypes
  <2> QED BY <1>1, <2>1, CountsMove, CountTypes DEF WordCounts, InSlowWait
<1>5. PostCounts'
  <2>1. ToPost(pc') = ToPost(pc) /\ InPost(pc') = InPost(pc) /\ Took(pc') = Took(pc) /\ Done(pc') = Done(pc)
    BY <1>1, PosterMoves, WaiterMoves, SpinFinite
  <2>2. \A u \in Posters : pc'[u] = "done" <=> pc[u] = "done"
    BY <1>1, CountsMove, SpinFinite
  <2> QED BY <1>1, <2>1, <2>2 DEF PostCounts
<1>6. Covered'
  <2>1. \A u \in Spin!AllThreads : pc'[u] = IF u = t THEN "wake_done" ELSE pc[u]
    BY <1>1, CountsMove
  <2>2. /\ IsFiniteSet(Calls(pc', to_wake))
        /\ Cardinality(Calls(pc', to_wake)) + to_wake[t] = Cardinality(Calls(pc, to_wake))
    BY <1>1, <1>2, <2>1, CallEnds DEF Covered
  <2>3. PICK c \in Nat : c = Cardinality(Calls(pc', to_wake))
    BY <2>2, FS_CardinalityType
  <2>4. ~m_word.spinner /\ qad_ntokens < qad_nwaiters => m_word.tokens <= m_word.woke + qad_ntokens + (c + to_wake[t])
    BY <2>2, <2>3 DEF Covered
  <2>5. ASSUME ~m_word.spinner, qad_ntokens' < qad_nwaiters PROVE m_word.tokens <= m_word.woke + qad_ntokens' + c
    <3>1. to_wake[t] <= actual /\ qad_ntokens' = qad_ntokens + to_wake[t] /\ qad_ntokens < qad_nwaiters
      BY <1>1, <1>2, <2>5 DEF SpinTypes
    <3> QED BY <1>2, <2>3, <2>4, <2>5, <3>1 DEF SpinTypes
  <2> QED BY <1>1, <2>2, <2>3, <2>5 DEF Covered
<1> QED BY <1>1, <1>3, <1>4, <1>5, <1>6

LEMMA WakeDone ==
  ASSUME SpinInv, NEW t \in Spin!AllThreads, Spin!wake_done(t) PROVE SpinInv'
<1> USE DEF SpinInv
<1>1. /\ pc[t] = "wake_done" /\ UNCHANGED <<to_wake, qad_ntokens, qad_nwaiters, count, posted, failed>>
      /\ m_word' = [m_word EXCEPT !.wake = @ - 1]
      /\ Spin!Goto(t, IF t \in Posters THEN "check" ELSE "took")
  BY DEF Spin!wake_done
<1>2. m_word.wake > 0
  BY <1>1, CountsPositive DEF WordCounts
<1>3. SpinTypes'
  BY <1>1, <1>2, SpinFinite DEF SpinTypes, Spin!Goto, AtWaiter, AtPoster
<1>4. /\ m_word'.tokens = m_word.tokens /\ m_word'.spinner = m_word.spinner
      /\ m_word'.nwaiters = m_word.nwaiters /\ m_word'.woke = m_word.woke
      /\ m_word'.wake = m_word.wake - 1
  BY <1>1 DEF SpinTypes
<1>5. WordCounts'
  BY <1>1, <1>4, CountsMove, CountTypes DEF WordCounts, InSlowWait
<1>6. PostCounts'
  <2>1. ToPost(pc') = ToPost(pc) /\ InPost(pc') = InPost(pc) /\ Took(pc') = Took(pc) /\ Done(pc') = Done(pc)
    BY <1>1, PosterMoves, WaiterMoves, SpinFinite
  <2>2. \A u \in Posters : pc'[u] = "done" <=> pc[u] = "done"
    BY <1>1, CountsMove, SpinFinite
  <2> QED BY <1>1, <1>4, <2>1, <2>2 DEF PostCounts
<1>7. Covered'
  <2>1. Calls(pc', to_wake') = Calls(pc, to_wake)
    BY <1>1, CountsMove, SameCalls
  <2> QED BY <1>1, <1>4, <2>1 DEF Covered
<1> QED BY <1>1, <1>3, <1>5, <1>6, <1>7

LEMMA TakeToken ==
  ASSUME SpinInv, NEW t \in Spin!AllThreads, pc[t] \in {"wait", "slow_wait"}, m_word.tokens > 0,
         m_word' = [m_word EXCEPT !.tokens = @ - 1], Spin!Goto(t, "took"),
         UNCHANGED <<to_wake, qad_ntokens, qad_nwaiters, count, posted, failed>>
  PROVE  SpinInv'
<1> USE DEF SpinInv
<1>1. t \in Waiters
  BY WhoIsWhere
<1>2. SpinTypes'
  BY <1>1, SpinFinite DEF SpinTypes, Spin!Goto, AtWaiter
<1>3. /\ m_word'.tokens = m_word.tokens - 1 /\ m_word'.spinner = m_word.spinner
      /\ m_word'.nwaiters = m_word.nwaiters /\ m_word'.woke = m_word.woke /\ m_word'.wake = m_word.wake
  BY DEF SpinTypes
<1>4. WordCounts'
  BY <1>3, CountsMove, CountTypes DEF WordCounts, InSlowWait
<1>5. PostCounts'
  BY <1>1, <1>3, WaiterMoves, CountTypes DEF PostCounts, SpinTypes
<1>6. Covered'
  <2>1. Calls(pc', to_wake') = Calls(pc, to_wake)
    BY CountsMove, SameCalls
  <2>2. Cardinality(Calls(pc, to_wake)) \in Nat
    BY FS_CardinalityType DEF Covered
  <2> QED BY <1>3, <2>1, <2>2 DEF Covered, SpinTypes
<1> QED BY <1>2, <1>4, <1>5, <1>6

LEMMA SlowWait ==
  ASSUME SpinInv, NEW t \in Spin!AllThreads, Spin!slow_wait(t) PROVE SpinInv'
<1> USE DEF SpinInv
<1>1. pc[t] = "slow_wait" /\ t \in Waiters /\ UNCHANGED <<to_wake, qad_ntokens, qad_nwaiters, count, posted, failed>>
  BY WhoIsWhere DEF Spin!slow_wait
<1>2. CASE m_word.tokens > 0
  <2>1. m_word' = [m_word EXCEPT !.tokens = @ - 1] /\ Spin!Goto(t, "took")
    BY <1>2 DEF Spin!slow_wait, SpinTypes
  <2> QED BY <1>1, <1>2, <2>1, TakeToken
<1>3. CASE ~(m_word.tokens > 0)
  <2>1. PICK p \in {"spin", "futex_wait"} :
          Spin!Goto(t, p) /\ \/ m_word' = [m_word EXCEPT !.nwaiters = @ + 1, !.spinner = TRUE]
                             \/ m_word' = [m_word EXCEPT !.nwaiters = @ + 1]
    BY <1>3 DEF Spin!slow_wait, SpinTypes
  <2>2. SpinTypes'
    <3>1. m_word' \in [tokens : Nat, spinner : BOOLEAN, wake : Nat, woke : Nat, nwaiters : Nat]
      <4>1. PICK y \in Nat : y = m_word.nwaiters + 1
        BY DEF SpinTypes
      <4>2. CASE m_word' = [m_word EXCEPT !.nwaiters = y, !.spinner = TRUE]
        BY <4>2 DEF SpinTypes
      <4>3. CASE m_word' = [m_word EXCEPT !.nwaiters = y]
        BY <4>3 DEF SpinTypes
      <4> QED BY <2>1, <4>1, <4>2, <4>3
    <3>2. DOMAIN pc' = Spin!AllThreads
      BY <2>1 DEF SpinTypes, Spin!Goto
    <3>3. (\A u \in Waiters : pc'[u] \in AtWaiter) /\ (\A u \in Posters : pc'[u] \in AtPoster)
      BY <1>1, <2>1, CountsMove, SpinFinite DEF SpinTypes, AtWaiter
    <3> QED BY <1>1, <3>1, <3>2, <3>3 DEF SpinTypes
  <2>3. /\ m_word'.tokens = m_word.tokens /\ m_word'.spinner \in {m_word.spinner, TRUE}
        /\ m_word'.nwaiters = m_word.nwaiters + 1 /\ m_word'.woke = m_word.woke /\ m_word'.wake = m_word.wake
    BY <2>1 DEF SpinTypes
  <2>4. WordCounts'
    BY <1>1, <2>1, <2>3, CountsMove, CountTypes DEF WordCounts, InSlowWait
  <2>5. PostCounts'
    BY <1>1, <2>1, <2>3, WaiterMoves, CountTypes DEF PostCounts, SpinTypes
  <2>6. Covered'
    <3>1. Calls(pc', to_wake') = Calls(pc, to_wake)
      BY <1>1, <2>1, CountsMove, SameCalls
    <3> QED BY <1>1, <2>3, <3>1 DEF Covered, SpinTypes
  <2> QED BY <1>1, <2>2, <2>4, <2>5, <2>6
<1> QED BY <1>2, <1>3

LEMMA FastTryWait ==
  ASSUME SpinInv, NEW t \in Spin!AllThreads, Spin!fast_try_wait(t) PROVE SpinInv'
<1> USE DEF SpinInv
<1>1. pc[t] = "wait" /\ t \in Waiters /\ UNCHANGED <<to_wake, qad_ntokens, qad_nwaiters, count, posted, failed>>
  BY WhoIsWhere DEF Spin!fast_try_wait
<1>2. CASE m_word.tokens > 0
  BY <1>1, <1>2, TakeToken DEF Spin!fast_try_wait
<1>3. CASE ~(m_word.tokens > 0)
  <2>1. Spin!Goto(t, "slow_wait") /\ m_word' = m_word
    BY <1>3 DEF Spin!fast_try_wait
  <2>2. SpinTypes'
    BY <1>1, <2>1, SpinFinite DEF SpinTypes, Spin!Goto, AtWaiter
  <2>3. WordCounts'
    BY <1>1, <2>1, CountsMove, CountTypes DEF WordCounts, InSlowWait
  <2>4. PostCounts'
    BY <1>1, <2>1, WaiterMoves, CountTypes DEF PostCounts, SpinTypes
  <2>5. Covered'
    <3>1. Calls(pc', to_wake') = Calls(pc, to_wake)
      BY <1>1, <2>1, CountsMove, SameCalls
    <3> QED BY <1>1, <2>1, <3>1 DEF Covered
  <2> QED BY <1>1, <2>2, <2>3, <2>4, <2>5
<1> QED BY <1>2, <1>3

LEMMA SpinEnds ==
  ASSUME SpinInv, NEW t \in Spin!AllThreads, Spin!spin(t) PROVE SpinInv'
<1> USE DEF SpinInv
<1> DEFINE others == m_word.nwaiters > 1
           k == IF m_word.tokens = 1 THEN 1 ELSE m_word.tokens - 1
<1>1. /\ pc[t] = "spin" /\ t \in Waiters /\ UNCHANGED <<qad_ntokens, qad_nwaiters, count, posted, failed>>
      /\ m_word.tokens > 0
      /\ m_word' = [m_word EXCEPT !.tokens = @ - 1, !.spinner = FALSE, !.nwaiters = @ - 1,
                                  !.wake = IF others THEN @ + 1 ELSE @]
      /\ to_wake' = [to_wake EXCEPT ![t] = k]
      /\ Spin!Goto(t, IF others THEN "wake" ELSE "took")
  BY WhoIsWhere DEF Spin!spin, InSlowWait
<1>2. k \in Nat /\ m_word.tokens - 1 \in Nat /\ m_word.tokens - 1 <= k /\ m_word.nwaiters > 0
  BY <1>1, CountsPositive DEF SpinTypes, WordCounts, InSlowWait
<1>3. /\ m_word'.tokens = m_word.tokens - 1 /\ m_word'.nwaiters = m_word.nwaiters - 1 /\ m_word'.woke = m_word.woke
      /\ m_word'.wake = IF others THEN m_word.wake + 1 ELSE m_word.wake
  BY <1>1 DEF SpinTypes
<1>4. SpinTypes'
  <2>1. m_word' \in [tokens : Nat, spinner : BOOLEAN, wake : Nat, woke : Nat, nwaiters : Nat]
    <3>1. PICK x \in Nat : x = IF others THEN m_word.wake + 1 ELSE m_word.wake
      BY DEF SpinTypes
    <3>2. PICK y \in Nat, z \in Nat : y = m_word.tokens - 1 /\ z = m_word.nwaiters - 1
      BY <1>2 DEF SpinTypes
    <3>3. m_word' = [m_word EXCEPT !.tokens = y, !.spinner = FALSE, !.nwaiters = z, !.wake = x]
      BY <1>1, <3>1, <3>2 DEF SpinTypes
    <3> QED BY <3>3 DEF SpinTypes
  <2>2. to_wake' \in [Spin!AllThreads -> Nat]
    BY <1>1, <1>2 DEF SpinTypes
  <2>3. DOMAIN pc' = Spin!AllThreads
    BY <1>1 DEF SpinTypes, Spin!Goto
  <2>4. (\A u \in Waiters : pc'[u] \in AtWaiter) /\ (\A u \in Posters : pc'[u] \in AtPoster)
    BY <1>1, CountsMove, SpinFinite DEF SpinTypes, AtWaiter
  <2> QED BY <1>1, <2>1, <2>2, <2>3, <2>4 DEF SpinTypes
<1>5. CASE others
  <2>1. Spin!Goto(t, "wake")
    BY <1>1, <1>5
  <2>2. WordCounts'
    BY <1>1, <1>3, <1>5, <2>1, CountsMove, CountTypes DEF WordCounts, InSlowWait
  <2>3. PostCounts'
    BY <1>1, <1>3, <2>1, WaiterMoves, CountTypes DEF PostCounts, SpinTypes
  <2>4. Covered'
    <3>1. IsFiniteSet(Calls(pc, to_wake)) /\ pc[t] # "wake"
      BY <1>1 DEF Covered
    <3>2. \A u \in Spin!AllThreads : pc'[u] = IF u = t THEN "wake" ELSE pc[u]
      BY <2>1, CountsMove
    <3>3. \A u \in Spin!AllThreads : to_wake'[u] = IF u = t THEN k ELSE to_wake[u]
      BY <1>1 DEF SpinTypes
    <3> HIDE DEF k
    <3>4. IsFiniteSet(Calls(pc', to_wake')) /\ Cardinality(Calls(pc', to_wake')) = Cardinality(Calls(pc, to_wake)) + k
      BY <1>2, <3>1, <3>2, <3>3, CallBegins
    <3>5. Cardinality(Calls(pc, to_wake)) \in Nat
      BY <3>1, FS_CardinalityType
    <3> QED BY <1>1, <1>2, <1>3, <3>4, <3>5 DEF Covered, SpinTypes
  <2> QED BY <1>1, <1>4, <2>2, <2>3, <2>4
<1>6. CASE ~others
  <2>1. Spin!Goto(t, "took")
    BY <1>1, <1>6
  <2>2. WordCounts'
    BY <1>1, <1>3, <1>6, <2>1, CountsMove, CountTypes DEF WordCounts, InSlowWait
  <2>3. PostCounts'
    BY <1>1, <1>3, <2>1, WaiterMoves, CountTypes DEF PostCounts, SpinTypes
  <2>4. Covered'
    <3>1. Calls(pc', to_wake') = Calls(pc, to_wake)
      <4>1. \A u \in Spin!AllThreads : pc'[u] = IF u = t THEN "took" ELSE pc[u]
        BY <2>1, CountsMove
      <4>2. \A u \in Spin!AllThreads \ {t} : to_wake'[u] = to_wake[u]
        BY <1>1 DEF SpinTypes
      <4>3. \A u \in Spin!AllThreads : pc[u] = "wake" <=> pc'[u] = "wake"
        BY <1>1, <4>1
      <4>4. \A u \in Spin!AllThreads : pc[u] = "wake" => to_wake'[u] = to_wake[u]
        BY <1>1, <4>2
      <4> QED BY <4>3, <4>4, SameCalls
    <3>2. m_word.nwaiters - 1 = 0
      BY <1>2, <1>6 DEF SpinTypes
    <3>3. qad_nwaiters' = 0
      <4>1. Slow(pc') = 0 /\ qad_nwaiters' = Asleep(pc')
        BY <1>3, <2>2, <3>2 DEF WordCounts
      <4> QED BY <4>1, CountTypes
    <3> QED BY <1>4, <3>1, <3>3 DEF Covered, SpinTypes
  <2> QED BY <1>1, <1>4, <2>2, <2>3, <2>4
<1> QED BY <1>5, <1>6

LEMMA Back ==
  ASSUME SpinInv, NEW t \in Spin!AllThreads, Spin!back(t) PROVE SpinInv'
<1> USE DEF SpinInv
<1> DEFINE Words == [tokens : Nat, spinner : BOOLEAN, wake : Nat, woke : Nat, nwaiters : Nat]
<1>1. /\ pc[t] \in {"woken", "again"} /\ t \in Waiters
      /\ UNCHANGED <<to_wake, qad_ntokens, qad_nwaiters, count, posted, failed>>
  BY WhoIsWhere DEF Spin!back, InSlowWait
<1>2. m_word.nwaiters > 0 /\ (pc[t] = "woken" => m_word.woke > 0)
  BY <1>1, CountsPositive DEF WordCounts, InSlowWait
<1>3. PICK k \in Nat : k = IF pc[t] = "woken" THEN m_word.woke - 1 ELSE m_word.woke
  BY <1>2 DEF SpinTypes
<1>4. PICK p \in {"spin", "took", "futex_wait"} :
        /\ Spin!Goto(t, p)
        /\ p = "spin" => m_word' = [m_word EXCEPT !.woke = k, !.spinner = TRUE]
        /\ p = "took" =>
             /\ m_word.spinner /\ m_word.tokens > 0
             /\ m_word' = [m_word EXCEPT !.woke = k, !.tokens = @ - 1, !.nwaiters = @ - 1]
        /\ p = "futex_wait" => m_word.spinner /\ m_word' = [m_word EXCEPT !.woke = k]
  <2> DEFINE word1 == [m_word EXCEPT !.woke = k]
  <2>1. m_word \in Words /\ word1 \in Words /\ word1.spinner = m_word.spinner /\ word1.tokens = m_word.tokens
    BY DEF SpinTypes
  <2>2. CASE ~m_word.spinner
    BY <1>3, <2>1, <2>2 DEF Spin!back
  <2>3. CASE m_word.spinner /\ m_word.tokens > 0
    BY <1>3, <2>1, <2>3 DEF Spin!back
  <2>4. CASE m_word.spinner /\ ~(m_word.tokens > 0)
    BY <1>3, <2>1, <2>4 DEF Spin!back
  <2> QED BY <2>2, <2>3, <2>4
<1>5. /\ m_word' \in Words /\ m_word'.wake = m_word.wake /\ m_word'.woke = k /\ m_word'.spinner
      /\ m_word'.tokens = IF p = "took" THEN m_word.tokens - 1 ELSE m_word.tokens
      /\ m_word'.nwaiters = IF p = "took" THEN m_word.nwaiters - 1 ELSE m_word.nwaiters
  <2>1. CASE p = "spin"
    BY <1>4, <2>1 DEF SpinTypes
  <2>2. CASE p = "took"
    <3>1. PICK y \in Nat, z \in Nat : y = m_word.tokens - 1 /\ z = m_word.nwaiters - 1
      BY <1>2, <1>4, <2>2 DEF SpinTypes
    <3>2. m_word' = [m_word EXCEPT !.woke = k, !.tokens = y, !.nwaiters = z]
      BY <1>4, <2>2, <3>1
    <3>3. m_word \in Words /\ m_word.spinner = TRUE
      BY <1>4, <2>2 DEF SpinTypes
    <3>4. m_word' \in Words
      BY <3>2, <3>3
    <3> QED BY <2>2, <3>1, <3>2, <3>3, <3>4
  <2>3. CASE p = "futex_wait"
    BY <1>4, <2>3 DEF SpinTypes
  <2> QED BY <2>1, <2>2, <2>3
<1>6. SpinTypes'
  <2>1. DOMAIN pc' = Spin!AllThreads
    BY <1>4 DEF SpinTypes, Spin!Goto
  <2>2. (\A u \in Waiters : pc'[u] \in AtWaiter) /\ (\A u \in Posters : pc'[u] \in AtPoster)
    BY <1>1, <1>4, CountsMove, SpinFinite DEF SpinTypes, AtWaiter
  <2> QED BY <1>1, <1>5, <2>1, <2>2 DEF SpinTypes
<1>7. WordCounts'
  BY <1>1, <1>3, <1>4, <1>5, CountsMove, CountTypes DEF WordCounts, InSlowWait
<1>8. PostCounts'
  BY <1>1, <1>4, <1>5, WaiterMoves, CountTypes DEF PostCounts, SpinTypes
<1>9. Covered'
  <2>1. Calls(pc', to_wake') = Calls(pc, to_wake)
    BY <1>1, <1>4, CountsMove, SameCalls
  <2> QED BY <1>5, <2>1 DEF Covered
<1> QED BY <1>1, <1>6, <1>7, <1>8, <1>9

LEMMA WaitThread ==
  ASSUME SpinInv, NEW t \in Spin!AllThreads, Spin!wait_thread(t) PROVE SpinInv'
<1> USE DEF SpinInv
<1>1. /\ pc[t] = "created" /\ t \in Waiters /\ Spin!Goto(t, "wait")
      /\ UNCHANGED <<to_wake, m_word, qad_ntokens, qad_nwaiters, count, posted, failed>>
  BY DEF Spin!wait_thread, Spin!word
<1>2. SpinTypes'
  BY <1>1, SpinFinite DEF SpinTypes, Spin!Goto, AtWaiter
<1>3. WordCounts'
  BY <1>1, CountsMove, CountTypes DEF WordCounts, InSlowWait
<1>4. PostCounts'
  BY <1>1, WaiterMoves, CountTypes DEF PostCounts, SpinTypes
<1>5. Covered'
  <2>1. Calls(pc', to_wake') = Calls(pc, to_wake)
    BY <1>1, CountsMove, SameCalls
  <2> QED BY <1>1, <2>1 DEF Covered
<1> QED BY <1>1, <1>2, <1>3, <1>4, <1>5

LEMMA WaitThreadCount ==
  ASSUME SpinInv, NEW t \in Spin!AllThreads, Spin!wait_thread_count(t) PROVE SpinInv'
<1> USE DEF SpinInv
<1>1. /\ pc[t] = "took" /\ t \in Waiters /\ Spin!Goto(t, "done")
      /\ UNCHANGED <<to_wake, m_word, qad_ntokens, qad_nwaiters, posted>>
  BY WhoIsWhere DEF Spin!wait_thread_count, Spin!word
<1>2. count >= 1
  BY <1>1, CountsPositive, CountTypes DEF PostCounts, SpinTypes
<1>3. count' = count - 1 /\ failed' = failed
  BY <1>2 DEF Spin!wait_thread_count, Spin!assert
<1>4. SpinTypes'
  BY <1>1, <1>2, <1>3, SpinFinite DEF SpinTypes, Spin!Goto, AtWaiter
<1>5. WordCounts'
  BY <1>1, CountsMove, CountTypes DEF WordCounts, InSlowWait
<1>6. PostCounts'
  <2>1. Took(pc') = Took(pc) - 1 /\ Done(pc') = Done(pc) + 1 /\ ToPost(pc') = ToPost(pc) /\ InPost(pc') = InPost(pc)
    BY <1>1, WaiterMoves
  <2>2. \A u \in Posters : pc'[u] = pc[u]
    BY <1>1, WaiterMoves
  <2> QED BY <1>1, <1>2, <1>3, <2>1, <2>2, CountTypes DEF PostCounts, SpinTypes
<1>7. Covered'
  <2>1. Calls(pc', to_wake') = Calls(pc, to_wake)
    BY <1>1, CountsMove, SameCalls
  <2> QED BY <1>1, <2>1 DEF Covered
<1> QED BY <1>3, <1>4, <1>5, <1>6, <1>7

LEMMA PostThread ==
  ASSUME SpinInv, NEW t \in Spin!AllThreads, Spin!post_thread(t) PROVE SpinInv'
<1> USE DEF SpinInv
<1>1. /\ pc[t] \in {"created", "next"} /\ t \in Posters /\ Spin!Goto(t, "post") /\ count' = count + 1
      /\ UNCHANGED <<to_wake, m_word, qad_ntokens, qad_nwaiters, posted, failed>>
  BY DEF Spin!post_thread, Spin!word
<1>2. SpinTypes'
  BY <1>1, SpinFinite DEF SpinTypes, Spin!Goto, AtPoster
<1>3. WordCounts'
  BY <1>1, CountsMove, CountTypes DEF WordCounts, InSlowWait
<1>4. PostCounts'
  <2>1. ToPost(pc') = ToPost(pc) + 1 /\ InPost(pc') = InPost(pc) + 1 /\ Took(pc') = Took(pc) /\ Done(pc') = Done(pc)
    BY <1>1, PosterMoves
  <2>2. \A u \in Posters : pc'[u] = "done" <=> pc[u] = "done"
    BY <1>1, CountsMove, SpinFinite
  <2>3. Cardinality(Rounds(Posters, Posts, posted)) \in Nat
    BY RoundsFinite, SpinFinite
  <2> QED BY <1>1, <2>1, <2>2, <2>3, CountTypes DEF PostCounts, SpinTypes
<1>5. Covered'
  <2>1. Calls(pc', to_wake') = Calls(pc, to_wake)
    BY <1>1, CountsMove, SameCalls
  <2> QED BY <1>1, <2>1 DEF Covered
<1> QED BY <1>1, <1>2, <1>3, <1>4, <1>5

LEMMA PostThreadCheck ==
  ASSUME SpinInv, NEW t \in Spin!AllThreads, Spin!post_thread_check(t) PROVE SpinInv'
<1> USE DEF SpinInv
<1> DEFINE p == IF posted[t] + 1 < Posts THEN "next" ELSE "done"
<1>1. /\ pc[t] = "check" /\ t \in Posters /\ Spin!Goto(t, p) /\ posted' = [posted EXCEPT ![t] = @ + 1]
      /\ UNCHANGED <<to_wake, m_word, qad_ntokens, qad_nwaiters, count>>
  BY WhoIsWhere DEF Spin!post_thread_check, Spin!word
<1>2. posted[t] \in Nat /\ posted[t] < Posts /\ p \in {"next", "done"}
  BY <1>1, SpinFinite DEF PostCounts, SpinTypes
<1>3. failed' = {}
  <2>1. m_word.nwaiters >= qad_nwaiters
    BY CountTypes DEF WordCounts, SpinTypes
  <2>2. ~(/\ qad_nwaiters > 0 /\ ~m_word.spinner /\ m_word.tokens > m_word.woke
          /\ qad_ntokens = 0 /\ m_word.wake = 0)
    <3>1. SUFFICES ASSUME qad_nwaiters > 0, ~m_word.spinner, qad_ntokens = 0, m_word.wake = 0
                   PROVE  m_word.tokens <= m_word.woke
      BY DEF SpinTypes
    <3>2. Cardinality(Calls(pc, to_wake)) = 0
      BY <3>1, CallsAreCounted, FS_EmptySet
    <3> QED BY <3>1, <3>2 DEF Covered, SpinTypes
  <2> QED BY <2>1, <2>2 DEF Spin!post_thread_check
<1>4. posted' \in [Posters -> Nat] /\ \A u \in Posters : posted'[u] = IF u = t THEN posted[t] + 1 ELSE posted[u]
  BY <1>1, <1>2 DEF SpinTypes
<1>5. p = "done" <=> posted[t] + 1 = Posts
  BY <1>2, SpinFinite
<1> HIDE DEF p
<1>6. SpinTypes'
  <2>1. DOMAIN pc' = Spin!AllThreads
    BY <1>1 DEF SpinTypes, Spin!Goto
  <2>2. (\A u \in Waiters : pc'[u] \in AtWaiter) /\ (\A u \in Posters : pc'[u] \in AtPoster)
    BY <1>1, <1>2, CountsMove, SpinFinite DEF SpinTypes, AtPoster
  <2> QED BY <1>1, <1>4, <2>1, <2>2 DEF SpinTypes
<1>7. WordCounts'
  BY <1>1, <1>2, CountsMove, CountTypes DEF WordCounts, InSlowWait
<1>8. PostCounts'
  <2>1. InPost(pc') = InPost(pc) - 1 /\ ToPost(pc') = ToPost(pc) /\ Took(pc') = Took(pc) /\ Done(pc') = Done(pc)
    BY <1>1, <1>2, PosterMoves
  <2>2. Cardinality(Rounds(Posters, Posts, posted')) = Cardinality(Rounds(Posters, Posts, posted)) + 1
    <3>1. \A u \in Posters : posted[u] \in Nat
      BY DEF SpinTypes
    <3>2. IsFiniteSet(Posters) /\ Posts \in Nat
      BY SpinFinite
    <3>3. \A u \in Posters : posted'[u] = IF u = t THEN posted[t] + 1 ELSE posted[u]
      BY <1>4
    <3>4. t \in Posters /\ posted[t] < Posts
      BY <1>1, <1>2
    <3> QED BY <3>1, <3>2, <3>3, <3>4, OneMoreRound
  <2>3. \A u \in Posters : posted'[u] <= Posts /\ (pc'[u] = "done" <=> posted'[u] = Posts)
    <3>1. ASSUME NEW u \in Posters PROVE pc'[u] = IF u = t THEN p ELSE pc[u]
      BY <1>1, CountsMove, SpinFinite
    <3> QED BY <1>2, <1>4, <1>5, <3>1, SpinFinite DEF PostCounts, SpinTypes
  <2>4. Cardinality(Rounds(Posters, Posts, posted)) \in Nat
    BY RoundsFinite, SpinFinite
  <2> QED BY <1>1, <2>1, <2>2, <2>3, <2>4, CountTypes DEF PostCounts, SpinTypes
<1>9. Covered'
  <2>1. Calls(pc', to_wake') = Calls(pc, to_wake)
    BY <1>1, <1>2, CountsMove, SameCalls
  <2> QED BY <1>1, <2>1 DEF Covered
<1> QED BY <1>3, <1>6, <1>7, <1>8, <1>9

LEMMA Join == SpinInv /\ Spin!join => SpinInv'
<1> USE DEF SpinInv
<1> SUFFICES ASSUME SpinInv, Spin!join PROVE SpinInv'
  OBVIOUS
<1>1. UNCHANGED <<m_word, qad_ntokens, qad_nwaiters, to_wake, count, pc, posted>>
  BY DEF Spin!join, Spin!word
<1>2. \A t \in Spin!AllThreads : pc[t] = "done"
  BY DEF Spin!join
<1>3. InPost(pc) = 0
  BY <1>2, SpinFinite, NoneThere DEF InPost
<1>4. Done(pc) = Cardinality(Waiters)
  <2>1. Where(Waiters, {"done"}, pc) = Waiters
    BY <1>2, SpinFinite DEF Where
  <2> QED BY <2>1 DEF Done, HowMany
<1>5. Cardinality(Rounds(Posters, Posts, posted)) = Cardinality(Posters) * Posts
  <2>1. \A t \in Posters : posted[t] = Posts
    BY <1>2, SpinFinite DEF PostCounts
  <2> QED BY <2>1, SpinFinite, AllRounds
<1>6. Cardinality(Posters) \in Nat /\ Cardinality(Waiters) \in Nat
  BY SpinFinite, FS_CardinalityType
<1>7. Cardinality(Posters) * Posts = Cardinality(Waiters)
  BY <1>6, SpinFinite, BalanceAssumption
<1>8. count + Cardinality(Waiters) = Cardinality(Waiters) + 0
  BY <1>3, <1>4, <1>5, <1>7 DEF PostCounts
<1>9. count = 0
  BY <1>6, <1>8 DEF SpinTypes
<1>10. failed' = {}
  BY <1>9 DEF Spin!join, Spin!assert
<1> QED BY <1>1, <1>10 DEF SpinTypes, WordCounts, PostCounts, Covered

LEMMA SpinNext == SpinInv /\ (Spin!Next \/ UNCHANGED spinVars) => SpinInv'
<1>1. SpinInv /\ UNCHANGED spinVars => SpinInv'
  BY DEF spinVars, SpinInv, SpinTypes, WordCounts, PostCounts, Covered
<1>2. UNCHANGED Spin!spinVars => UNCHANGED spinVars
  BY DEF spinVars, Spin!spinVars, Spin!word
<1>3. ASSUME SpinInv, NEW t \in Spin!AllThreads, Spin!step(t) PROVE SpinInv'
  BY <1>3, FutexWait, FutexWoken, PostStep, WakeStep, WakeDone, FastTryWait, SlowWait, SpinEnds, Back,
     WaitThread, WaitThreadCount, PostThread, PostThreadCheck DEF Spin!step
<1> QED BY <1>1, <1>2, <1>3, Join DEF Spin!Next, Spin!Terminated

LEMMA SpinAsserts == ThreadPrograms => []SpinInv
<1>1. Start => SpinInv
  BY SpinInit DEF Start
<1>2. SpinInv /\ [Step]_allVars => SpinInv'
  BY SpinStep, SpinNext
<1> QED BY <1>1, <1>2, PTL DEF ThreadPrograms

-----------------------------------------------------------------------------

(***************************************************************************)
(* No ASSERT of genmc_spinsemaphore_test and of spin_wakeup_test ever      *)
(* fails, however many threads wait and post and however their steps       *)
(* interleave: count is never taken below zero, futex_wake never finds     *)
(* more tokens than waiters, nobody sleeps while there is a token that     *)
(* nobody was woken up for, and when all threads were joined nothing is    *)
(* left over.  The first test rests on the protocol that stands for        *)
(* post() and wait(), the second on a semaphore that keeps its promise.    *)
(***************************************************************************)
THEOREM AssertsNeverFail == ThreadPrograms => []AllAssertsHold
<1>1. SpinInv /\ WakeInv => AllAssertsHold
  BY DEF SpinInv, WakeInv, AllAssertsHold, Spin!AssertsHold, Wakeup!AssertsHold
<1> QED BY <1>1, SpinAsserts, WakeAsserts, PTL

=============================================================================
