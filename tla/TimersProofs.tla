---------------------------- MODULE TimersProofs ----------------------------
(***************************************************************************)
(* The two implementations of the running timers of timer_test agree, for  *)
(* any intervals and any number of rounds.  They do not expire the timers  *)
(* of one moment in the same order, and a timer that is stopped by another *)
(* one does not expire.  The invariant says how far apart they are in the  *)
(* middle of expire_next (Expiring, Following): what has left the first but *)
(* not the second is due, or is stopped by one that is, and what stops     *)
(* another timer is never itself stopped.                                  *)
(***************************************************************************)
EXTENDS Timers, FiniteSetTheorems, FunctionTheorems, SequenceTheorems, WellFoundedInduction, TLAPS

Entries == [time : Nat, timer : Nat]

\* The map is sorted and names exactly the running timers, each once and at its time e[timer].
Holds(map, running, e) ==
  /\ \A j, k \in 1 .. Len(map) : j < k => map[j].time <= map[k].time
  /\ \A k \in 1 .. Len(map) :
       map[k].timer # 0 => map[k].timer \in running /\ map[k].time = e[map[k].timer]
  /\ \A j, k \in 1 .. Len(map) : map[j].timer # 0 /\ map[j].timer = map[k].timer => j = k
  /\ \A x \in running : \E k \in 1 .. Len(map) : map[k].timer = x

Nulls(map) == {k \in 1 .. Len(map) : map[k].timer = 0}

-----------------------------------------------------------------------------
(* The multimap                                                              *)

LEMMA LeastNumber ==
  ASSUME NEW T \in SUBSET Nat, T # {}
  PROVE  \E x \in T : \A y \in T : x <= y
<1> DEFINE U == {0 .. x : x \in T}
<1>1. U # {} /\ U \subseteq FiniteSubsetsOf(Nat)
  <2>1. \A x \in T : 0 .. x \in SUBSET Nat /\ IsFiniteSet(0 .. x)
    BY FS_Interval
  <2> QED BY <2>1 DEF FiniteSubsetsOf
<1>2. PICK X \in U : \A Y \in U : ~ (<<Y, X>> \in StrictSubsetOrdering(Nat))
  <2> HIDE DEF U
  <2> QED BY <1>1, FS_StrictSubsetOrderingWellFounded, WFMin
<1>3. PICK x \in T : X = 0 .. x
  BY <1>2
<1>4. ASSUME NEW y \in T, y < x PROVE FALSE
  <2>1. 0 .. y \in U /\ 0 .. y \subseteq 0 .. x /\ x \in 0 .. x /\ x \notin 0 .. y
    BY <1>3, <1>4
  <2>2. <<0 .. y, 0 .. x>> \in StrictSubsetOrdering(Nat)
    <3>1. 0 .. y \in SUBSET Nat /\ 0 .. x \in SUBSET Nat /\ 0 .. y # 0 .. x
      BY <1>3, <2>1
    <3> QED BY <2>1, <3>1 DEF StrictSubsetOrdering
  <2> QED BY <1>2, <1>3, <2>1, <2>2
<1> QED BY <1>3, <1>4

LEMMA UpperBound ==
  ASSUME NEW map \in Seq(Entries), NEW time \in Nat
  PROVE  /\ upper_bound(map, time) \in 1 .. Len(map) + 1
         /\ \A j \in 1 .. upper_bound(map, time) - 1 : map[j].time <= time
         /\ upper_bound(map, time) <= Len(map) => map[upper_bound(map, time)].time > time
<1> DEFINE T == {k \in 1 .. Len(map) + 1 : k <= Len(map) => map[k].time > time}
<1>1. T \in SUBSET Nat /\ T # {}
  <2>1. Len(map) + 1 \in T
    OBVIOUS
  <2> QED BY <2>1
<1>2. PICK k \in T : \A j \in T : k <= j
  <2> HIDE DEF T
  <2> QED BY <1>1, LeastNumber
<1>3. \A j \in 1 .. k - 1 : map[j].time <= time
  <2>1. SUFFICES ASSUME NEW j \in 1 .. k - 1, ~(map[j].time <= time) PROVE FALSE
    OBVIOUS
  <2>2. j \in 1 .. Len(map) /\ j \in 1 .. Len(map) + 1
    BY <1>2
  <2>3. map[j] \in Entries
    BY <2>2
  <2>4. map[j].time > time
    BY <2>1, <2>3 DEF Entries
  <2>5. j \in T
    BY <2>2, <2>4
  <2> QED BY <1>2, <2>1, <2>5
<1> DEFINE P(i) == (\A j \in 1 .. i - 1 : map[j].time <= time) /\ (i <= Len(map) => map[i].time > time)
<1>4. k \in 1 .. Len(map) + 1 /\ P(k)
  BY <1>2, <1>3
<1>5. upper_bound(map, time) = CHOOSE i \in 1 .. Len(map) + 1 : P(i)
  BY DEF upper_bound
<1>6. upper_bound(map, time) \in 1 .. Len(map) + 1 /\ P(upper_bound(map, time))
  <2> HIDE DEF P, T
  <2> QED BY <1>4, <1>5
<1> QED BY <1>6

\* A map with one more entry, the k-th.
Inserted(map, k, e, map1) ==
  /\ map1 \in Seq(Entries) /\ Len(map1) = Len(map) + 1
  /\ \A j \in 1 .. Len(map) + 1 :
       map1[j] = IF j < k THEN map[j] ELSE IF j = k THEN e ELSE map[j - 1]

LEMMA Push ==
  ASSUME NEW map \in Seq(Entries), NEW time \in Nat, NEW timer \in Nat
  PROVE  Inserted(map, upper_bound(map, time), [time |-> time, timer |-> timer], push0(map, time, timer))
<1> DEFINE e == [time |-> time, timer |-> timer]
<1>1. PICK k \in 1 .. Len(map) + 1 : k = upper_bound(map, time)
  BY UpperBound
<1> DEFINE a == SubSeq(map, 1, k - 1)
           b == SubSeq(map, k, Len(map))
<1>2. a \in Seq(Entries) /\ Len(a) = k - 1 /\ \A j \in 1 .. k - 1 : a[j] = map[j]
  OBVIOUS
<1>3. b \in Seq(Entries) /\ Len(b) = Len(map) + 1 - k /\ \A j \in 1 .. Len(map) + 1 - k : b[j] = map[j + k - 1]
  OBVIOUS
<1>4. e \in Entries
  BY DEF Entries
<1>5. push0(map, time, timer) = a \o <<e>> \o b
  BY <1>1 DEF push0
<1> HIDE DEF a, b, e
<1>6. /\ a \o <<e>> \in Seq(Entries) /\ Len(a \o <<e>>) = k
      /\ \A j \in 1 .. k : (a \o <<e>>)[j] = IF j < k THEN a[j] ELSE e
  BY <1>2, <1>4
<1> DEFINE c == a \o <<e>>
<1>7. c \in Seq(Entries) /\ Len(c) = k /\ \A j \in 1 .. k : c[j] = IF j < k THEN map[j] ELSE e
  BY <1>2, <1>6
<1> HIDE DEF c
<1>8. c \o b \in Seq(Entries) /\ Len(c \o b) = Len(map) + 1
  <2>1. Len(c \o b) = Len(c) + Len(b) /\ c \o b \in Seq(Entries)
    BY <1>3, <1>7, ConcatProperties
  <2> QED BY <1>3, <1>7, <2>1
<1>9. ASSUME NEW j \in 1 .. Len(map) + 1
      PROVE  (c \o b)[j] = IF j < k THEN map[j] ELSE IF j = k THEN e ELSE map[j - 1]
  <2>1. CASE j <= k
    <3>1. (c \o b)[j] = c[j]
      BY <1>3, <1>7, <2>1
    <3> QED BY <1>7, <2>1, <3>1
  <2>2. CASE j > k
    <3>1. (c \o b)[j] = b[j - k] /\ j - k \in 1 .. Len(map) + 1 - k
      BY <1>3, <1>7, <2>2
    <3>2. j - k + k - 1 = j - 1
      OBVIOUS
    <3> QED BY <1>3, <2>2, <3>1, <3>2
  <2>3. j <= k \/ j > k
    OBVIOUS
  <2> QED BY <2>1, <2>2, <2>3
<1>10. push0(map, time, timer) = c \o b
  BY <1>5 DEF c
<1>11. Inserted(map, k, e, c \o b)
  BY <1>8, <1>9 DEF Inserted
<1> QED BY <1>1, <1>10, <1>11 DEF e

LEMMA PushHolds ==
  ASSUME NEW map \in Seq(Entries), NEW running, NEW e, Holds(map, running, e),
         NEW x \in Nat \ {0}, x \notin running, e[x] \in Nat
  PROVE  Holds(push0(map, e[x], x), running \cup {x}, e)
<1> DEFINE time == e[x]
           k == upper_bound(map, time)
           map1 == push0(map, time, x)
           entry == [time |-> time, timer |-> x]
<1>1. k \in 1 .. Len(map) + 1 /\ (\A j \in 1 .. k - 1 : map[j].time <= time) /\ (k <= Len(map) => map[k].time > time)
  BY UpperBound
<1>2. Inserted(map, k, entry, map1)
  BY Push
<1>3. entry.time = time /\ entry.timer = x
  OBVIOUS
<1> HIDE DEF k, map1, entry, time
<1>4. /\ Len(map) \in Nat /\ Len(map1) = Len(map) + 1 /\ map1[k] = entry
      /\ \A j \in 1 .. k - 1 : map1[j] = map[j] /\ j \in 1 .. Len(map)
      /\ \A j \in k + 1 .. Len(map1) : map1[j] = map[j - 1] /\ j - 1 \in 1 .. Len(map)
  BY <1>1, <1>2 DEF Inserted
<1>5. \A j \in 1 .. Len(map) : map[j] \in Entries
  OBVIOUS
<1>6. \A j \in k .. Len(map) : map[j].time > time
  <2>1. SUFFICES ASSUME NEW j \in k .. Len(map), k < j PROVE map[j].time > time
    BY <1>1, <1>4
  <2>2. map[k].time <= map[j].time /\ map[k].time > time /\ map[k].time \in Nat /\ map[j].time \in Nat
    BY <1>1, <1>4, <1>5, <2>1 DEF Holds, Entries
  <2> QED BY <2>2 DEF time
<1>7. \A i, j \in 1 .. Len(map1) : i < j => map1[i].time <= map1[j].time
  <2>1. SUFFICES ASSUME NEW i \in 1 .. Len(map1), NEW j \in 1 .. Len(map1), i < j PROVE map1[i].time <= map1[j].time
    OBVIOUS
  <2>2. time \in Nat
    BY DEF time
  <2>3. CASE j < k
    <3>1. map1[i] = map[i] /\ map1[j] = map[j] /\ i \in 1 .. Len(map) /\ j \in 1 .. Len(map)
      BY <1>1, <1>4, <2>1, <2>3
    <3> QED BY <2>1, <3>1 DEF Holds
  <2>4. CASE j = k
    <3>1. map1[i] = map[i] /\ i \in 1 .. k - 1
      BY <1>1, <1>4, <2>1, <2>4
    <3> QED BY <1>1, <1>3, <1>4, <2>4, <3>1
  <2>5. CASE j > k
    <3>1. map1[j] = map[j - 1] /\ j - 1 \in k .. Len(map) /\ j - 1 \in 1 .. Len(map)
      BY <1>1, <1>4, <2>1, <2>5
    <3>2. map[j - 1].time > time /\ map[j - 1].time \in Nat
      BY <1>5, <1>6, <3>1 DEF Entries
    <3>3. CASE i = k
      BY <1>3, <1>4, <2>2, <3>1, <3>2, <3>3
    <3>4. CASE i < k
      <4>1. map1[i] = map[i] /\ i \in 1 .. Len(map) /\ i < j - 1
        BY <1>1, <1>4, <2>1, <2>5, <3>4
      <4> QED BY <3>1, <4>1 DEF Holds
    <3>5. CASE i > k
      <4>1. map1[i] = map[i - 1] /\ i - 1 \in 1 .. Len(map) /\ i - 1 < j - 1
        BY <1>1, <1>4, <2>1, <3>5
      <4> QED BY <3>1, <4>1 DEF Holds
    <3> QED BY <1>1, <3>3, <3>4, <3>5
  <2> QED BY <1>1, <2>3, <2>4, <2>5
\* Where an entry of the new map comes from.
<1>8. \A j \in 1 .. Len(map1) : \/ j = k /\ map1[j] = entry
                               \/ \E i \in 1 .. Len(map) : map1[j] = map[i] /\ j = IF i < k THEN i ELSE i + 1
  <2>1. SUFFICES ASSUME NEW j \in 1 .. Len(map1), j # k
                 PROVE  \E i \in 1 .. Len(map) : map1[j] = map[i] /\ j = IF i < k THEN i ELSE i + 1
    BY <1>4
  <2>2. CASE j < k
    BY <1>1, <1>4, <2>2
  <2>3. CASE j > k
    <3>1. j - 1 \in 1 .. Len(map) /\ map1[j] = map[j - 1] /\ ~(j - 1 < k) /\ j = j - 1 + 1
      BY <1>1, <1>4, <2>3
    <3> QED BY <3>1
  <2> QED BY <1>1, <2>1, <2>2, <2>3
<1>9. \A j \in 1 .. Len(map1) : map1[j].timer # 0 => map1[j].timer \in running \cup {x} /\ map1[j].time = e[map1[j].timer]
  BY <1>3, <1>8 DEF Holds, time
<1>10. \A i, j \in 1 .. Len(map1) : map1[i].timer # 0 /\ map1[i].timer = map1[j].timer => i = j
  <2>1. SUFFICES ASSUME NEW i \in 1 .. Len(map1), NEW j \in 1 .. Len(map1), map1[i].timer # 0,
                        map1[i].timer = map1[j].timer
                 PROVE  i = j
    OBVIOUS
  <2>2. \A h \in 1 .. Len(map) : map[h].timer # x
    BY DEF Holds
  <2> QED BY <1>3, <1>8, <2>1, <2>2 DEF Holds
<1>11. \A y \in running \cup {x} : \E j \in 1 .. Len(map1) : map1[j].timer = y
  <2>1. \A i \in 1 .. Len(map) : \E j \in 1 .. Len(map1) : map1[j] = map[i]
    <3>1. SUFFICES ASSUME NEW i \in 1 .. Len(map) PROVE \E j \in 1 .. Len(map1) : map1[j] = map[i]
      OBVIOUS
    <3>2. CASE i < k
      BY <1>1, <1>4, <3>2
    <3>3. CASE i >= k
      <4>1. i + 1 \in k + 1 .. Len(map1) /\ i + 1 - 1 = i /\ i + 1 \in 1 .. Len(map1)
        BY <1>1, <1>4, <3>3
      <4> QED BY <1>4, <4>1
    <3> QED BY <1>1, <3>2, <3>3
  <2> QED BY <1>1, <1>3, <1>4, <2>1 DEF Holds
<1> QED BY <1>7, <1>9, <1>10, <1>11 DEF Holds, map1, time

LEMMA SameSize ==
  ASSUME NEW S, IsFiniteSet(S), NEW T, NEW f \in [S -> T],
         \A a, b \in S : f[a] = f[b] => a = b, \A b \in T : \E a \in S : f[a] = b
  PROVE  IsFiniteSet(T) /\ Cardinality(T) = Cardinality(S)
<1>1. f \in Bijection(S, T)
  BY Fun_IsBij
<1> QED BY <1>1, FS_Bijection DEF ExistsBijection

LEMMA NullsFinite ==
  ASSUME NEW map \in Seq(Entries)
  PROVE  IsFiniteSet(Nulls(map)) /\ Cardinality(Nulls(map)) \in Nat
<1>1. IsFiniteSet(1 .. Len(map)) /\ Nulls(map) \subseteq 1 .. Len(map)
  BY FS_Interval DEF Nulls
<1> QED BY <1>1, FS_Subset, FS_CardinalityType

LEMMA PushNulls ==
  ASSUME NEW map \in Seq(Entries), NEW time \in Nat, NEW x \in Nat \ {0}
  PROVE  Cardinality(Nulls(push0(map, time, x))) = Cardinality(Nulls(map))
<1> DEFINE k == upper_bound(map, time)
           map1 == push0(map, time, x)
           entry == [time |-> time, timer |-> x]
           f == [i \in Nulls(map) |-> IF i < k THEN i ELSE i + 1]
<1>1. k \in 1 .. Len(map) + 1 /\ Inserted(map, k, entry, map1) /\ entry.timer = x
  BY UpperBound, Push
<1> HIDE DEF k, map1, entry
<1>2. /\ Len(map) \in Nat /\ Len(map1) = Len(map) + 1 /\ map1[k].timer # 0
      /\ \A j \in 1 .. k - 1 : map1[j] = map[j] /\ j \in 1 .. Len(map)
      /\ \A j \in k + 1 .. Len(map1) : map1[j] = map[j - 1] /\ j - 1 \in 1 .. Len(map)
  BY <1>1 DEF Inserted
<1>3. ASSUME NEW i \in Nulls(map) PROVE f[i] \in Nulls(map1)
  <2>1. i \in 1 .. Len(map) /\ map[i].timer = 0
    BY DEF Nulls
  <2>2. CASE i < k
    BY <1>1, <1>2, <2>1, <2>2 DEF Nulls
  <2>3. CASE ~(i < k)
    <3>1. i + 1 \in k + 1 .. Len(map1) /\ i + 1 - 1 = i /\ i + 1 \in 1 .. Len(map1)
      BY <1>1, <1>2, <2>1, <2>3
    <3>2. map1[i + 1].timer = 0
      BY <1>2, <2>1, <3>1
    <3> QED BY <2>3, <3>1, <3>2 DEF Nulls
  <2> QED BY <2>2, <2>3
<1>4. ASSUME NEW j \in Nulls(map1) PROVE \E i \in Nulls(map) : f[i] = j
  <2>1. j \in 1 .. Len(map1) /\ map1[j].timer = 0 /\ j # k
    BY <1>2 DEF Nulls
  <2>2. CASE j < k
    <3>1. j \in Nulls(map)
      BY <1>1, <1>2, <2>1, <2>2 DEF Nulls
    <3>2. f[j] = j
      BY <2>2, <3>1
    <3> QED BY <3>1, <3>2
  <2>3. CASE j > k
    <3>1. j - 1 \in Nulls(map) /\ ~(j - 1 < k) /\ j - 1 + 1 = j
      BY <1>1, <1>2, <2>1, <2>3 DEF Nulls
    <3>2. f[j - 1] = j
      BY <3>1
    <3> QED BY <3>1, <3>2
  <2>4. j < k \/ j > k
    BY <1>1, <2>1
  <2> QED BY <2>2, <2>3, <2>4
<1>5. \A a, b \in Nulls(map) : f[a] = f[b] => a = b
  <2>1. Nulls(map) \subseteq Int
    BY DEF Nulls
  <2> QED BY <1>1, <2>1
<1>6. f \in [Nulls(map) -> Nulls(map1)]
  BY <1>3
<1>7. \A j \in Nulls(map1) : \E i \in Nulls(map) : f[i] = j
  BY <1>4
<1> HIDE DEF f
<1>8. Cardinality(Nulls(map1)) = Cardinality(Nulls(map))
  BY <1>5, <1>6, <1>7, NullsFinite, SameSize
<1> QED BY <1>8 DEF map1

\* The map without its first entry.
Drop(map) == [k \in 1 .. Len(map) - 1 |-> map[k + 1]]

LEMMA DropIsTail ==
  ASSUME NEW map \in Seq(Entries), map # <<>>
  PROVE  /\ Tail(map) = Drop(map) /\ Drop(map) \in Seq(Entries) /\ Len(Drop(map)) = Len(map) - 1
         /\ Len(map) \in Nat \ {0}
         /\ \A j \in 1 .. Len(map) - 1 : Drop(map)[j] = map[j + 1]
<1>1. Len(map) \in Nat \ {0}
  OBVIOUS
<1>2. \A k \in 1 .. Len(map) - 1 : map[k + 1] \in Entries
  OBVIOUS
<1>3. Drop(map) \in Seq(Entries) /\ Len(Drop(map)) = Len(map) - 1
  <2>1. Drop(map) \in [1 .. Len(map) - 1 -> Entries]
    BY <1>2 DEF Drop
  <2> QED BY <1>1, <2>1
<1>4. Tail(map) \in Seq(Entries) /\ Len(Tail(map)) = Len(map) - 1 /\ \A j \in 1 .. Len(map) - 1 : Tail(map)[j] = map[j + 1]
  OBVIOUS
<1>5. \A j \in 1 .. Len(map) - 1 : Drop(map)[j] = map[j + 1]
  BY DEF Drop
<1> QED BY <1>1, <1>3, <1>4, <1>5, SeqEqual

LEMMA DropHolds ==
  ASSUME NEW map \in Seq(Entries), map # <<>>, map[1].timer = 0, NEW running, NEW e, Holds(map, running, e),
         0 \notin running
  PROVE  Holds(Drop(map), running, e) /\ Cardinality(Nulls(Drop(map))) = Cardinality(Nulls(map)) - 1
<1> DEFINE map1 == Drop(map)
<1>1. /\ Len(map) \in Nat \ {0} /\ Len(map1) = Len(map) - 1
      /\ \A j \in 1 .. Len(map1) : map1[j] = map[j + 1] /\ j + 1 \in 1 .. Len(map)
  BY DropIsTail
<1> HIDE DEF map1
<1>2. \A i, j \in 1 .. Len(map1) : i < j => map1[i].time <= map1[j].time
  <2>1. SUFFICES ASSUME NEW i \in 1 .. Len(map1), NEW j \in 1 .. Len(map1), i < j PROVE map1[i].time <= map1[j].time
    OBVIOUS
  <2>2. i + 1 < j + 1 /\ i + 1 \in 1 .. Len(map) /\ j + 1 \in 1 .. Len(map)
    BY <1>1, <2>1
  <2> QED BY <1>1, <2>2 DEF Holds
<1>3. \A j \in 1 .. Len(map1) : map1[j].timer # 0 => map1[j].timer \in running /\ map1[j].time = e[map1[j].timer]
  BY <1>1 DEF Holds
<1>4. \A i, j \in 1 .. Len(map1) : map1[i].timer # 0 /\ map1[i].timer = map1[j].timer => i = j
  <2>1. SUFFICES ASSUME NEW i \in 1 .. Len(map1), NEW j \in 1 .. Len(map1), map1[i].timer # 0,
                        map1[i].timer = map1[j].timer
                 PROVE  i = j
    OBVIOUS
  <2>2. i + 1 \in 1 .. Len(map) /\ j + 1 \in 1 .. Len(map) /\ map1[i] = map[i + 1] /\ map1[j] = map[j + 1]
    BY <1>1
  <2>3. i + 1 = j + 1
    BY <2>1, <2>2 DEF Holds
  <2> QED BY <2>3
<1>5. \A i \in 1 .. Len(map) : i # 1 => i - 1 \in 1 .. Len(map1) /\ map1[i - 1] = map[i]
  <2>1. SUFFICES ASSUME NEW i \in 1 .. Len(map), i # 1 PROVE i - 1 \in 1 .. Len(map1) /\ map1[i - 1] = map[i]
    OBVIOUS
  <2>2. i - 1 \in 1 .. Len(map1) /\ i - 1 + 1 = i
    BY <1>1, <2>1
  <2> QED BY <1>1, <2>2
<1>6. \A x \in running : \E j \in 1 .. Len(map1) : map1[j].timer = x
  BY <1>5 DEF Holds
<1>7. Cardinality(Nulls(map1)) = Cardinality(Nulls(map)) - 1
  <2> DEFINE S == Nulls(map) \ {1}
             f == [i \in S |-> i - 1]
  <2>1. IsFiniteSet(S) /\ Cardinality(S) = Cardinality(Nulls(map)) - 1
    <3>1. 1 \in Nulls(map)
      BY <1>1 DEF Nulls
    <3> QED BY <3>1, NullsFinite, FS_RemoveElement
  <2>2. f \in [S -> Nulls(map1)]
    BY <1>5 DEF Nulls
  <2>3. \A a, b \in S : f[a] = f[b] => a = b
    BY DEF Nulls
  <2>4. ASSUME NEW j \in Nulls(map1) PROVE \E i \in S : f[i] = j
    <3>1. j \in Int /\ j + 1 \in S
      BY <1>1 DEF Nulls
    <3>2. f[j + 1] = j
      <4> HIDE DEF S
      <4> QED BY <3>1
    <3> QED BY <3>1, <3>2
  <2>5. \A j \in Nulls(map1) : \E i \in S : f[i] = j
    BY <2>4
  <2> HIDE DEF S, f
  <2>6. Cardinality(Nulls(map1)) = Cardinality(S)
    BY <2>1, <2>2, <2>3, <2>5, SameSize
  <2> QED BY <2>1, <2>6
<1>8. Holds(map1, running, e)
  BY <1>2, <1>3, <1>4, <1>6 DEF Holds
<1> QED BY <1>7, <1>8 DEF map1

\* The map with null pointers for the timers that stopped running.
NullOut(map, gone) ==
  [k \in 1 .. Len(map) |-> IF map[k].timer \in gone THEN [map[k] EXCEPT !.timer = 0] ELSE map[k]]

LEMMA NullEntry ==
  ASSUME NEW r \in Entries
  PROVE  /\ [r EXCEPT !.timer = 0] \in Entries /\ [r EXCEPT !.timer = 0].time = r.time
         /\ [r EXCEPT !.timer = 0].timer = 0
BY DEF Entries

LEMMA NullOutHolds ==
  ASSUME NEW map \in Seq(Entries), NEW running, IsFiniteSet(running), NEW e, Holds(map, running, e),
         NEW gone \in SUBSET running, 0 \notin running
  PROVE  /\ NullOut(map, gone) \in Seq(Entries) /\ Len(NullOut(map, gone)) = Len(map)
         /\ Holds(NullOut(map, gone), running \ gone, e)
         /\ Cardinality(Nulls(NullOut(map, gone))) = Cardinality(Nulls(map)) + Cardinality(gone)
<1> DEFINE map1 == NullOut(map, gone)
<1>1. Len(map) \in Nat /\ \A j \in 1 .. Len(map) : map[j] \in Entries
  OBVIOUS
<1>2. \A j \in 1 .. Len(map) : map1[j] = IF map[j].timer \in gone THEN [map[j] EXCEPT !.timer = 0] ELSE map[j]
  BY DEF NullOut
<1>3. \A j \in 1 .. Len(map) : /\ map1[j] \in Entries /\ map1[j].time = map[j].time
                              /\ map1[j].timer = IF map[j].timer \in gone THEN 0 ELSE map[j].timer
  <2>1. SUFFICES ASSUME NEW j \in 1 .. Len(map)
                 PROVE  /\ map1[j] \in Entries /\ map1[j].time = map[j].time
                        /\ map1[j].timer = IF map[j].timer \in gone THEN 0 ELSE map[j].timer
    OBVIOUS
  <2>2. map[j] \in Entries
    BY <1>1
  <2>3. CASE map[j].timer \in gone
    <3>1. map1[j] = [map[j] EXCEPT !.timer = 0]
      BY <1>2, <2>3
    <3> QED BY <2>2, <2>3, <3>1, NullEntry
  <2>4. CASE map[j].timer \notin gone
    <3>1. map1[j] = map[j]
      BY <1>2, <2>4
    <3> QED BY <2>2, <2>4, <3>1
  <2> QED BY <2>3, <2>4
<1>4. map1 \in Seq(Entries) /\ Len(map1) = Len(map)
  <2>1. map1 \in [1 .. Len(map) -> Entries]
    BY <1>3 DEF NullOut
  <2> QED BY <1>1, <2>1
<1> HIDE DEF map1
<1>5. Holds(map1, running \ gone, e)
  <2>1. \A j, k \in 1 .. Len(map1) : j < k => map1[j].time <= map1[k].time
    BY <1>3, <1>4 DEF Holds
  <2>2. \A k \in 1 .. Len(map1) : map1[k].timer # 0 => map1[k].timer \in running \ gone /\ map1[k].time = e[map1[k].timer]
    BY <1>3, <1>4 DEF Holds
  <2>3. \A j, k \in 1 .. Len(map1) : map1[j].timer # 0 /\ map1[j].timer = map1[k].timer => j = k
    BY <1>3, <1>4 DEF Holds
  <2>4. \A x \in running \ gone : \E k \in 1 .. Len(map1) : map1[k].timer = x
    BY <1>3, <1>4 DEF Holds
  <2> QED BY <2>1, <2>2, <2>3, <2>4 DEF Holds
<1>6. Cardinality(Nulls(map1)) = Cardinality(Nulls(map)) + Cardinality(gone)
  <2> DEFINE S == {k \in 1 .. Len(map) : map[k].timer \in gone}
             f == [k \in S |-> map[k].timer]
  <2>1. IsFiniteSet(S) /\ S \subseteq 1 .. Len(map)
    <3>1. IsFiniteSet(1 .. Len(map)) /\ S \subseteq 1 .. Len(map)
      BY <1>1, FS_Interval
    <3> QED BY <3>1, FS_Subset
  <2>2. f \in [S -> gone]
    OBVIOUS
  <2>3. \A a, b \in S : f[a] = f[b] => a = b
    BY DEF Holds
  <2>4. \A x \in gone : \E k \in S : f[k] = x
    BY DEF Holds
  <2>5. Nulls(map1) = Nulls(map) \cup S /\ Nulls(map) \cap S = {}
    BY <1>3, <1>4 DEF Nulls
  <2> HIDE DEF S, f
  <2>6. Cardinality(gone) = Cardinality(S)
    BY <2>1, <2>2, <2>3, <2>4, SameSize
  <2>7. Cardinality(Nulls(map) \cup S) = Cardinality(Nulls(map)) + Cardinality(S) - Cardinality(Nulls(map) \cap S)
    BY <2>1, NullsFinite, FS_Union
  <2>8. Cardinality(Nulls(map) \cap S) = 0
    BY <2>5, FS_EmptySet
  <2>9. Cardinality(Nulls(map)) \in Nat /\ Cardinality(S) \in Nat
    BY <2>1, NullsFinite, FS_CardinalityType
  <2> QED BY <2>5, <2>6, <2>7, <2>8, <2>9
<1> QED BY <1>4, <1>5, <1>6 DEF map1

-----------------------------------------------------------------------------
(* The invariant                                                             *)

Started == 1 .. Len(m_expiration_point)

Types ==
  /\ n \in Nat /\ now \in Nat /\ last_time_point \in Nat /\ calls \in Nat
  /\ pc \in {"loop", "first0", "also0", "first1", "also1", "return"}
  /\ m_expiration_point \in Seq(Nat) /\ target \in Seq(Nat)
  /\ Len(target) = Len(m_expiration_point)
  /\ m_map \in Seq(Entries)
  /\ running0 \subseteq Started /\ running1 \subseteq Started /\ expired \subseteq Started
  /\ m_pqueue \subseteq Started /\ m_canceled_1 \subseteq Started

\* Only timers of type X are stopped; they stop nobody.
TargetsOf(f) == \A y \in 1 .. Len(f) : f[y] \in 0 .. y - 1 /\ (f[y] # 0 => f[f[y]] = 0)
Targets == TargetsOf(target)

\* Implementation 0 is expiring the timers at now; the timers that ran when it began are those
\* that still run in implementation 1.
Expiring ==
  /\ last_time_point = now
  /\ running0 \subseteq running1
  /\ \A x \in running1 : m_expiration_point[x] >= now
  /\ \E x \in running1 : m_expiration_point[x] = now
  /\ \A x \in running1 \ running0 :
       \/ m_expiration_point[x] = now
       \/ \E y \in running1 \ running0 : m_expiration_point[y] = now /\ target[y] = x
  /\ \A y \in running1 \ running0 : target[y] \notin running0

\* Implementation 1 is expiring the timers that no longer run in implementation 0: those at now
\* and the ones that they stop.
Following ==
  /\ last_time_point = now
  /\ running0 \subseteq running1
  /\ \A x \in running1 : m_expiration_point[x] >= now
  /\ \A x \in running0 : m_expiration_point[x] > now
  /\ \A x \in running1 \ running0 :
       m_expiration_point[x] = now \/ \E y \in running1 : m_expiration_point[y] = now /\ target[y] = x
  /\ \A y \in running1 : m_expiration_point[y] = now => target[y] \notin running0

Phases ==
  /\ pc = "loop" => running0 = running1
  /\ pc = "first0" => running0 = running1 /\ running0 # {}
  /\ pc = "also0" => Expiring
  /\ pc = "first1" => Expiring /\ \A x \in running0 : m_expiration_point[x] > now
  /\ pc = "also1" => Following
  /\ pc = "return" => running0 = running1 /\ \A x \in running1 : m_expiration_point[x] > now
  /\ pc # "loop" => calls > 0

Queues == Holds(m_map, running0, m_expiration_point) /\ m_pqueue \ m_canceled_1 = running1

Counts ==
  /\ expired_timers_0 \in Nat /\ canceled_removed_0 \in Nat
  /\ running_timers_0 = Cardinality(running0)
  /\ expired_timers_0 = Cardinality(expired) /\ expired \cap running0 = {}
  /\ canceled_timers_0 = expired_timers_0 + canceled_removed_0 + Cardinality(Nulls(m_map))

Inv == Types /\ Targets /\ Queues /\ Phases /\ Counts /\ failed = {}

LEMMA InitInv == Init => Inv
<1> SUFFICES ASSUME Init PROVE Inv
  OBVIOUS
<1> USE DEF Init
<1>1. Types
  BY DEF Types, Started
<1>2. Targets
  BY DEF Targets, TargetsOf
<1>3. Queues
  BY DEF Queues, Holds
<1>4. Phases
  BY DEF Phases
<1>5. Counts
  <2>1. Nulls(m_map) = {}
    BY DEF Nulls
  <2> QED BY <2>1, FS_EmptySet DEF Counts
<1> QED BY <1>1, <1>2, <1>3, <1>4, <1>5 DEF Inv

-----------------------------------------------------------------------------
(* generate()                                                                *)

\* What starting a timer does, one that expires at time and stops the timer g.
Starts(e, f, map, running, time, g) ==
  LET x == Len(e) + 1
      e1 == Append(e, time)
      f1 == Append(f, g)
      map1 == push0(map, time, x)
  IN  /\ e1 \in Seq(Nat) /\ f1 \in Seq(Nat) /\ Len(e1) = x /\ Len(f1) = x /\ x \in 1 .. x
      /\ TargetsOf(f1) /\ f1[x] = g
      /\ map1 \in Seq(Entries) /\ Holds(map1, running \cup {x}, e1)
      /\ Cardinality(Nulls(map1)) = Cardinality(Nulls(map))
      /\ running \cup {x} \in SUBSET (1 .. x) /\ 1 .. Len(e) \subseteq 1 .. x /\ x \notin 1 .. Len(e)
      /\ Cardinality(running \cup {x}) = Cardinality(running) + 1

LEMMA StartTimer ==
  ASSUME NEW e \in Seq(Nat), NEW f \in Seq(Nat), Len(f) = Len(e), TargetsOf(f),
         NEW map \in Seq(Entries), NEW running \in SUBSET (1 .. Len(e)), Holds(map, running, e),
         NEW time \in Nat, NEW g \in 0 .. Len(e), g # 0 => f[g] = 0
  PROVE  Starts(e, f, map, running, time, g)
<1> DEFINE x == Len(e) + 1
           e1 == Append(e, time)
           f1 == Append(f, g)
           map1 == push0(map, time, x)
<1>1. /\ e1 \in Seq(Nat) /\ Len(e1) = x /\ e1[x] = time /\ \A y \in 1 .. Len(e) : e1[y] = e[y]
  OBVIOUS
<1>2. f1 \in Seq(Nat) /\ Len(f1) = x /\ f1[x] = g /\ \A y \in 1 .. Len(e) : f1[y] = f[y]
  OBVIOUS
<1>3. x \in Nat \ {0} /\ x \in 1 .. x /\ x \notin running /\ x \notin 1 .. Len(e) /\ 1 .. Len(e) \subseteq 1 .. x
      /\ running \cup {x} \in SUBSET (1 .. x) /\ \A y \in 1 .. x : y = x \/ y \in 1 .. Len(e)
  <2>1. Len(e) \in Nat
    OBVIOUS
  <2>2. x \in Nat \ {0} /\ x \in 1 .. x /\ x \notin 1 .. Len(e)
    BY <2>1
  <2>3. \A y \in 1 .. x : y = x \/ y \in 1 .. Len(e)
    BY <2>1
  <2>4. 1 .. Len(e) \subseteq 1 .. x
    BY <2>1
  <2> HIDE DEF x
  <2> QED BY <2>2, <2>3, <2>4
<1> HIDE DEF e1, f1, x
<1>4. TargetsOf(f1)
  <2>1. SUFFICES ASSUME NEW y \in 1 .. x PROVE f1[y] \in 0 .. y - 1 /\ (f1[y] # 0 => f1[f1[y]] = 0)
    BY <1>2 DEF TargetsOf
  <2>2. CASE y = x
    BY <1>2, <2>2 DEF x
  <2>3. CASE y \in 1 .. Len(e)
    <3>1. f1[y] = f[y] /\ f[y] \in 0 .. y - 1 /\ (f[y] # 0 => f[f[y]] = 0)
      BY <1>2, <2>3 DEF TargetsOf
    <3>2. f[y] # 0 => f[y] \in 1 .. Len(e)
      BY <2>3, <3>1
    <3> QED BY <1>2, <3>1, <3>2
  <2> QED BY <1>3, <2>2, <2>3
<1>5. Holds(map, running, e1)
  BY <1>1 DEF Holds
<1>6. Holds(map1, running \cup {x}, e1)
  BY <1>1, <1>3, <1>5, PushHolds
<1>7. map1 \in Seq(Entries)
  BY <1>3, Push DEF Inserted
<1>8. Cardinality(Nulls(map1)) = Cardinality(Nulls(map))
  BY <1>3, PushNulls
<1>9. IsFiniteSet(running)
  <2>1. IsFiniteSet(1 .. Len(e))
    BY FS_Interval
  <2> QED BY <2>1, FS_Subset
<1>10. Cardinality(running \cup {x}) = Cardinality(running) + 1
  BY <1>3, <1>9, FS_AddElement
<1> HIDE DEF map1
<1> QED BY <1>1, <1>2, <1>3, <1>4, <1>6, <1>7, <1>8, <1>10 DEF Starts, e1, f1, x, map1

\* What both kinds of rounds do.
Begun ==
  /\ m_expiration_point' \in Seq(Nat) /\ target' \in Seq(Nat) /\ Len(target') = Len(m_expiration_point')
  /\ Started \subseteq Started'
  /\ m_map' \in Seq(Entries)
  /\ running0' \subseteq Started' /\ m_pqueue' \subseteq Started'
  /\ Targets' /\ Queues'
  /\ running0' = running1' /\ running0' # {}
  /\ running_timers_0' = Cardinality(running0') /\ expired \cap running0' = {}
  /\ Cardinality(Nulls(m_map')) = Cardinality(Nulls(m_map))

LEMMA StartXBegun ==
  ASSUME Inv, pc = "loop", NEW index \in DOMAIN durations, StartX(index), UNCHANGED m_canceled_1
  PROVE  Begun
<1> DEFINE x == Len(m_expiration_point) + 1
           time == n + durations[index]
<1>1. Types /\ Targets /\ Queues /\ Counts /\ running0 = running1
  BY DEF Inv, Phases
<1>2. time \in Nat
  BY <1>1, DurationsAssumption DEF Types
<1>3. /\ m_expiration_point' = Append(m_expiration_point, time) /\ target' = Append(target, 0)
      /\ m_map' = push0(m_map, time, x) /\ m_pqueue' = m_pqueue \cup {x}
      /\ running0' = running0 \cup {x} /\ running1' = running1 \cup {x}
      /\ running_timers_0' = running_timers_0 + 1
  BY DEF StartX
<1>4. /\ m_expiration_point \in Seq(Nat) /\ target \in Seq(Nat) /\ Len(target) = Len(m_expiration_point)
      /\ TargetsOf(target) /\ m_map \in Seq(Entries) /\ running0 \in SUBSET (1 .. Len(m_expiration_point))
      /\ Holds(m_map, running0, m_expiration_point) /\ 0 \in 0 .. Len(m_expiration_point)
  BY <1>1 DEF Types, Targets, Queues, Started
<1> HIDE DEF time
<1>5. /\ m_expiration_point' \in Seq(Nat) /\ target' \in Seq(Nat)
      /\ Len(m_expiration_point') = x /\ Len(target') = x
      /\ TargetsOf(target') /\ m_map' \in Seq(Entries) /\ Holds(m_map', running0', m_expiration_point')
      /\ Cardinality(Nulls(m_map')) = Cardinality(Nulls(m_map))
      /\ running0' \in SUBSET (1 .. x) /\ Started \subseteq 1 .. x /\ x \notin Started /\ x \in 1 .. x
      /\ Cardinality(running0') = Cardinality(running0) + 1
  <2>1. Starts(m_expiration_point, target, m_map, running0, time, 0)
    BY <1>2, <1>4, StartTimer
  <2> QED BY <1>3, <2>1 DEF Starts, Started
<1> HIDE DEF x
<1>6. Started' = 1 .. x
  BY <1>5 DEF Started
<1>7. Queues'
  <2>1. x \notin m_canceled_1 /\ m_pqueue \ m_canceled_1 = running1
    BY <1>1, <1>5 DEF Types, Queues
  <2> QED BY <1>3, <1>5, <2>1 DEF Queues
<1>8. m_pqueue' \subseteq Started' /\ expired \cap running0' = {} /\ running0' # {} /\ running0' = running1'
  BY <1>1, <1>3, <1>5, <1>6 DEF Types, Counts
<1>9. running_timers_0' = Cardinality(running0')
  BY <1>1, <1>3, <1>5 DEF Counts
<1> QED BY <1>5, <1>6, <1>7, <1>8, <1>9 DEF Begun, Targets

LEMMA StartXYBegun ==
  ASSUME Inv, pc = "loop", NEW index \in DOMAIN durations, index > 1, StartXY(index), UNCHANGED m_canceled_1
  PROVE  Begun
<1> DEFINE x == Len(m_expiration_point) + 1
           y == x + 1
           xtime == n + durations[index]
           ytime == n + durations[index - 1]
           e1 == Append(m_expiration_point, xtime)
           f1 == Append(target, 0)
           map1 == push0(m_map, xtime, x)
           running == running0 \cup {x}
<1>1. Types /\ Targets /\ Queues /\ Counts /\ running0 = running1
  BY DEF Inv, Phases
<1>2. xtime \in Nat /\ ytime \in Nat
  <2>1. index - 1 \in DOMAIN durations
    BY DurationsAssumption
  <2> QED BY <1>1, <2>1, DurationsAssumption DEF Types
<1>3. /\ m_expiration_point' = m_expiration_point \o <<xtime, ytime>> /\ target' = target \o <<0, x>>
      /\ m_map' = push0(map1, ytime, y) /\ m_pqueue' = m_pqueue \cup {x, y}
      /\ running0' = running0 \cup {x, y} /\ running1' = running1 \cup {x, y}
      /\ running_timers_0' = running_timers_0 + 2
  BY DEF StartXY
<1>4. /\ m_expiration_point \in Seq(Nat) /\ target \in Seq(Nat) /\ Len(target) = Len(m_expiration_point)
      /\ TargetsOf(target) /\ m_map \in Seq(Entries) /\ running0 \in SUBSET (1 .. Len(m_expiration_point))
      /\ Holds(m_map, running0, m_expiration_point) /\ 0 \in 0 .. Len(m_expiration_point)
      /\ x \in Nat /\ x \in Int
  BY <1>1 DEF Types, Targets, Queues, Started
<1>5. m_expiration_point' = Append(e1, ytime) /\ target' = Append(f1, x)
  <2>1. ASSUME NEW q \in Seq(Nat), NEW a \in Nat, NEW b \in Nat PROVE q \o <<a, b>> = Append(Append(q, a), b)
    OBVIOUS
  <2>2. 0 \in Nat
    OBVIOUS
  <2> HIDE DEF xtime, ytime, x
  <2> QED BY <1>2, <1>3, <1>4, <2>1, <2>2
<1> HIDE DEF xtime, ytime
<1>6. Starts(m_expiration_point, target, m_map, running0, xtime, 0)
  BY <1>2, <1>4, StartTimer
<1>7. /\ e1 \in Seq(Nat) /\ f1 \in Seq(Nat) /\ Len(e1) = x /\ Len(f1) = x /\ x \in 1 .. x
      /\ TargetsOf(f1) /\ f1[x] = 0
      /\ map1 \in Seq(Entries) /\ Holds(map1, running, e1)
      /\ Cardinality(Nulls(map1)) = Cardinality(Nulls(m_map))
      /\ running \in SUBSET (1 .. x) /\ Started \subseteq 1 .. x /\ x \notin Started
      /\ Cardinality(running) = Cardinality(running0) + 1
  BY <1>6 DEF Starts, Started
<1> HIDE DEF e1, f1, map1, running, x
<1>8. Starts(e1, f1, map1, running, ytime, x)
  <2>1. Len(f1) = Len(e1) /\ x \in 0 .. Len(e1) /\ running \in SUBSET (1 .. Len(e1)) /\ f1[x] = 0
    BY <1>4, <1>7
  <2> QED BY <1>2, <1>7, <2>1, StartTimer
<1>9. /\ m_expiration_point' \in Seq(Nat) /\ target' \in Seq(Nat)
      /\ Len(m_expiration_point') = y /\ Len(target') = y
      /\ TargetsOf(target') /\ m_map' \in Seq(Entries) /\ Holds(m_map', running \cup {y}, m_expiration_point')
      /\ Cardinality(Nulls(m_map')) = Cardinality(Nulls(map1))
      /\ running \cup {y} \in SUBSET (1 .. y) /\ 1 .. x \subseteq 1 .. y /\ y \notin 1 .. x /\ y \in 1 .. y
      /\ Cardinality(running \cup {y}) = Cardinality(running) + 1
  BY <1>3, <1>5, <1>7, <1>8 DEF Starts
<1> HIDE DEF y
<1>10. Started' = 1 .. y /\ running0' = running \cup {y} /\ running1' = running0'
  BY <1>1, <1>3, <1>9 DEF Started, running
<1>11. Queues'
  <2>1. x \notin m_canceled_1 /\ y \notin m_canceled_1 /\ m_pqueue \ m_canceled_1 = running1
    BY <1>1, <1>7, <1>9 DEF Types, Queues
  <2>2. m_pqueue' \ m_canceled_1' = running1'
    BY <1>3, <2>1
  <2> QED BY <1>9, <1>10, <2>2 DEF Queues
<1>12. m_pqueue' \subseteq Started' /\ Started \subseteq Started' /\ expired \cap running0' = {} /\ running0' # {}
  <2>1. y \notin Started /\ Started \subseteq 1 .. y /\ x \in 1 .. y
    BY <1>7, <1>9
  <2>2. m_pqueue \subseteq Started /\ expired \subseteq Started /\ expired \cap running0 = {}
    BY <1>1 DEF Types, Counts
  <2>3. m_pqueue' \subseteq 1 .. y
    BY <1>3, <1>9, <2>1, <2>2
  <2>4. expired \cap running0' = {} /\ running0' # {}
    BY <1>3, <1>7, <2>1, <2>2
  <2> QED BY <1>10, <2>1, <2>3, <2>4
<1>13. running_timers_0' = Cardinality(running0')
  <2>1. IsFiniteSet(running0) /\ Cardinality(running0) \in Nat
    <3>1. IsFiniteSet(1 .. Len(m_expiration_point))
      BY <1>4, FS_Interval
    <3> QED BY <1>4, <3>1, FS_Subset, FS_CardinalityType
  <2>2. running_timers_0' = Cardinality(running0) + 2
    BY <1>1, <1>3 DEF Counts
  <2>3. Cardinality(running0') = Cardinality(running0) + 1 + 1
    BY <1>7, <1>9, <1>10
  <2> QED BY <2>1, <2>2, <2>3
<1>14. /\ Cardinality(Nulls(m_map')) = Cardinality(Nulls(m_map)) /\ Len(target') = Len(m_expiration_point')
       /\ running0' \subseteq Started'
  BY <1>7, <1>9, <1>10
<1> QED BY <1>9, <1>10, <1>11, <1>12, <1>13, <1>14 DEF Begun, Targets

LEMMA RoundInv ==
  ASSUME Inv, NEW index \in DOMAIN durations, Round(index) PROVE Inv'
<1>1. /\ pc = "loop" /\ calls' \in CallsOf(index) /\ pc' = IF calls' = 0 THEN "loop" ELSE "first0"
      /\ n' = n + 1
      /\ UNCHANGED <<m_canceled_1, now, last_time_point, expired_timers_0, canceled_removed_0, canceled_timers_0,
                     expired, failed>>
  BY DEF Round
<1>2. Begun
  <2>1. CASE HasY(index)
    <3>1. StartXY(index) /\ index > 1
      BY <2>1 DEF Round, HasY
    <3> QED BY <1>1, <3>1, StartXYBegun
  <2>2. CASE ~HasY(index)
    <3>1. StartX(index)
      BY <2>2 DEF Round
    <3> QED BY <1>1, <3>1, StartXBegun
  <2> QED BY <2>1, <2>2
<1>3. calls' \in Nat
  BY <1>1 DEF CallsOf
<1>4. Types'
  BY <1>1, <1>2, <1>3 DEF Inv, Types, Begun
<1>5. Phases'
  BY <1>1, <1>2, <1>3 DEF Phases, Begun
<1>6. Counts'
  BY <1>1, <1>2 DEF Inv, Counts, Begun
<1> QED BY <1>1, <1>2, <1>4, <1>5, <1>6 DEF Inv, Begun

-----------------------------------------------------------------------------
(* Implementation 0                                                          *)

\* The first entry of the map is the next timer to expire.
LEMMA NextTimer ==
  ASSUME NEW map \in Seq(Entries), NEW running, NEW e, Holds(map, running, e), map # <<>>, map[1].timer # 0,
         0 \notin running
  PROVE  map[1].timer \in running /\ \A x \in running : e[map[1].timer] <= e[x]
<1>1. Len(map) \in Nat \ {0} /\ \A k \in 1 .. Len(map) : map[k] \in Entries
  OBVIOUS
<1>2. 1 \in 1 .. Len(map) /\ map[1].timer \in running /\ map[1].time = e[map[1].timer] /\ map[1].time \in Nat
  BY <1>1 DEF Holds, Entries
<1>3. ASSUME NEW x \in running PROVE e[map[1].timer] <= e[x]
  <2>1. PICK k \in 1 .. Len(map) : map[k].timer = x
    BY DEF Holds
  <2>2. map[k].timer # 0 /\ map[k].time = e[x]
    BY <1>3, <2>1 DEF Holds
  <2> QED BY <1>1, <1>2, <2>1, <2>2 DEF Holds
<1> QED BY <1>2, <1>3

LEMMA Stopped ==
  ASSUME Types, Targets, NEW running \in SUBSET Started, NEW timer \in running
  PROVE  /\ stopped(timer, running) \subseteq running /\ timer \in stopped(timer, running)
         /\ \A x \in stopped(timer, running) : x # timer => x = target[timer] /\ target[x] = 0
         /\ target[timer] \notin running \ stopped(timer, running)
         /\ 0 \notin running /\ IsFiniteSet(running) /\ Cardinality(running) \in Nat
         /\ IsFiniteSet(stopped(timer, running)) /\ Cardinality(stopped(timer, running)) \in Nat
         /\ Cardinality(running \ stopped(timer, running)) = Cardinality(running) - Cardinality(stopped(timer, running))
<1> DEFINE gone == stopped(timer, running)
<1>1. gone \subseteq running /\ timer \in gone /\ target[timer] \notin running \ gone
  BY DEF stopped
<1>2. Started \subseteq Nat \ {0}
  BY DEF Started
<1>3. \A x \in gone : x # timer => x = target[timer] /\ target[x] = 0
  <2>1. timer \in 1 .. Len(target) /\ 0 \notin running
    BY <1>2 DEF Types, Started
  <2> QED BY <2>1 DEF stopped, Targets, TargetsOf
<1>4. IsFiniteSet(running)
  <2>1. IsFiniteSet(Started)
    BY FS_Interval DEF Started, Types
  <2> QED BY <2>1, FS_Subset
<1>5. IsFiniteSet(gone) /\ Cardinality(gone) \in Nat /\ Cardinality(running) \in Nat
  BY <1>1, <1>4, FS_Subset, FS_CardinalityType
<1>6. running \cap gone = gone
  BY <1>1
<1>7. Cardinality(running \ gone) = Cardinality(running) - Cardinality(gone)
  BY <1>4, <1>6, FS_Difference
<1> QED BY <1>1, <1>2, <1>3, <1>4, <1>5, <1>7

\* A timer expires; when the running timers are those of implementation 1 or it is at now, the
\* rest of the invariant holds.
LEMMA Expire0 ==
  ASSUME Inv, NEW timer, timer = m_map[1].timer, m_map # <<>>, timer # 0, expire0(timer),
         pc \in {"first0", "also0"}, pc = "also0" => m_expiration_point[timer] = now,
         pc' = "also0", now' = m_expiration_point[timer], failed' = failed, UNCHANGED <<n, calls, timers, impl1>>
  PROVE  Inv'
<1> DEFINE gone == stopped(timer, running0)
<1>1. Types /\ Targets /\ Queues /\ Phases /\ Counts /\ failed = {}
  BY DEF Inv
<1>2. m_map \in Seq(Entries) /\ Holds(m_map, running0, m_expiration_point) /\ 0 \notin running0 /\ running0 \subseteq Started
  BY <1>1 DEF Types, Queues, Started
<1>3. timer \in running0 /\ \A x \in running0 : m_expiration_point[timer] <= m_expiration_point[x]
  BY <1>2, NextTimer
<1>4. /\ running0' = running0 \ gone
      /\ m_map' = Drop(NullOut(m_map, gone))
      /\ running_timers_0' = running_timers_0 - Cardinality(gone)
      /\ canceled_timers_0' = canceled_timers_0 + Cardinality(gone)
      /\ expired_timers_0' = expired_timers_0 + 1
      /\ last_time_point' = m_expiration_point[timer]
      /\ expired' = expired \cup {timer} /\ canceled_removed_0' = canceled_removed_0
  <2>1. Len(m_map) \in Nat \ {0}
    BY <1>2
  <2>2. Len(NullOut(m_map, gone)) = Len(m_map)
    BY <2>1 DEF NullOut
  <2>3. \A k \in 1 .. Len(m_map) - 1 : k + 1 \in 1 .. Len(m_map)
    BY <2>1
  <2>4. m_map' = Drop(NullOut(m_map, gone))
    BY <2>2, <2>3 DEF expire0, Drop, NullOut
  <2> QED BY <2>4 DEF expire0
<1>5. /\ gone \subseteq running0 /\ timer \in gone /\ \A x \in gone : x # timer => x = target[timer] /\ target[x] = 0
      /\ target[timer] \notin running0 \ gone
      /\ IsFiniteSet(running0) /\ Cardinality(running0) \in Nat /\ Cardinality(gone) \in Nat
      /\ Cardinality(running0 \ gone) = Cardinality(running0) - Cardinality(gone)
  <2>1. running0 \in SUBSET Started
    BY <1>2
  <2> QED BY <1>1, <1>3, <2>1, Stopped
<1>6. UNCHANGED <<n, calls, m_expiration_point, target, m_pqueue, running1, m_canceled_1, Started>>
  BY DEF timers, impl1, Started
<1>7. m_expiration_point[timer] \in Nat /\ \A x \in Started : m_expiration_point[x] \in Nat
  <2>1. \A x \in Started : m_expiration_point[x] \in Nat
    BY <1>1 DEF Types, Started
  <2> QED BY <1>2, <1>3, <2>1
<1> HIDE DEF gone
<1> DEFINE map0 == NullOut(m_map, gone)
<1>8. /\ map0 \in Seq(Entries) /\ Len(map0) = Len(m_map) /\ Holds(map0, running0 \ gone, m_expiration_point)
      /\ Cardinality(Nulls(map0)) = Cardinality(Nulls(m_map)) + Cardinality(gone)
  BY <1>2, <1>5, NullOutHolds
<1>9. map0 # <<>> /\ map0[1].timer = 0
  <2>1. 1 \in 1 .. Len(m_map) /\ m_map[1] \in Entries
    BY <1>2
  <2>2. map0[1] = [m_map[1] EXCEPT !.timer = 0]
    BY <1>5, <2>1 DEF NullOut
  <2> QED BY <1>8, <2>1, <2>2, NullEntry
<1> HIDE DEF map0
<1>10. /\ m_map' \in Seq(Entries) /\ Holds(m_map', running0', m_expiration_point)
       /\ Cardinality(Nulls(m_map')) = Cardinality(Nulls(map0)) - 1
  <2>1. m_map' = Drop(map0)
    BY <1>4 DEF map0
  <2>2. Drop(map0) \in Seq(Entries)
    BY <1>8, <1>9, DropIsTail
  <2>3. 0 \notin running0 \ gone
    BY <1>2
  <2>4. Holds(Drop(map0), running0 \ gone, m_expiration_point) /\ Cardinality(Nulls(Drop(map0))) = Cardinality(Nulls(map0)) - 1
    BY <1>8, <1>9, <2>3, DropHolds
  <2> QED BY <1>4, <2>1, <2>2, <2>4
<1>11. Types'
  BY <1>1, <1>2, <1>3, <1>4, <1>6, <1>7, <1>10 DEF Types
<1>12. Targets' /\ Queues'
  BY <1>1, <1>6, <1>10 DEF Targets, Queues
<1>13. Counts'
  <2>1. /\ running_timers_0 = Cardinality(running0) /\ expired \cap running0 = {}
        /\ expired_timers_0 = Cardinality(expired) /\ expired_timers_0 \in Nat /\ canceled_removed_0 \in Nat
        /\ canceled_timers_0 = expired_timers_0 + canceled_removed_0 + Cardinality(Nulls(m_map))
    BY <1>1 DEF Counts
  <2>2. Cardinality(expired \cup {timer}) = Cardinality(expired) + 1
    <3>1. IsFiniteSet(Started)
      BY <1>1, FS_Interval DEF Types, Started
    <3>2. IsFiniteSet(expired) /\ timer \notin expired
      BY <1>1, <1>3, <2>1, <3>1, FS_Subset DEF Types
    <3> QED BY <3>2, FS_AddElement
  <2>3. Cardinality(Nulls(m_map)) \in Nat
    BY <1>2, NullsFinite
  <2>4. canceled_timers_0' = expired_timers_0' + canceled_removed_0' + Cardinality(Nulls(m_map'))
    BY <1>4, <1>5, <1>8, <1>10, <2>1, <2>3
  <2>5. expired' \cap running0' = {}
    BY <1>4, <1>5, <2>1
  <2> QED BY <1>4, <1>5, <2>1, <2>2, <2>4, <2>5 DEF Counts
<1>14. Expiring'
  <2>1. running1 \ running0' = (running1 \ running0) \cup gone /\ running0' \subseteq running1 /\ running0 \subseteq running1
    <3>1. running0 \subseteq running1
      BY <1>1 DEF Phases, Expiring
    <3> QED BY <1>4, <1>5, <3>1
  <2>2. \A x \in running1 : m_expiration_point[x] >= now'
    <3>1. CASE pc = "first0"
      BY <1>1, <1>2, <1>3, <1>7, <3>1 DEF Phases
    <3>2. CASE pc = "also0"
      BY <1>1, <3>2 DEF Phases, Expiring
    <3> QED BY <3>1, <3>2
  <2>3. timer \in running1 /\ m_expiration_point[timer] = now'
    BY <1>3, <2>1
  <2>4. \A x \in gone : m_expiration_point[x] = now' \/ target[timer] = x
    BY <1>5, <2>3
  <2>5. \A x \in running1 \ running0' :
          m_expiration_point[x] = now' \/ \E y \in running1 \ running0' : m_expiration_point[y] = now' /\ target[y] = x
    <3>1. ASSUME NEW x \in gone
          PROVE  m_expiration_point[x] = now' \/ \E y \in running1 \ running0' : m_expiration_point[y] = now' /\ target[y] = x
      BY <1>5, <2>1, <2>4
    <3>2. ASSUME NEW x \in running1 \ running0, pc = "also0"
          PROVE  m_expiration_point[x] = now' \/ \E y \in running1 \ running0' : m_expiration_point[y] = now' /\ target[y] = x
      BY <1>1, <2>1, <3>2 DEF Phases, Expiring
    <3>3. pc = "first0" => running1 \ running0 = {}
      BY <1>1 DEF Phases
    <3> QED BY <2>1, <3>1, <3>2, <3>3
  <2>6. \A y \in running1 \ running0' : target[y] \notin running0'
    <3>1. \A y \in gone : target[y] \notin running0'
      BY <1>2, <1>4, <1>5
    <3>2. \A y \in running1 \ running0 : target[y] \notin running0
      BY <1>1 DEF Phases, Expiring
    <3> QED BY <1>4, <2>1, <3>1, <3>2
  <2> QED BY <1>4, <1>6, <2>1, <2>2, <2>3, <2>5, <2>6 DEF Expiring
<1>15. Phases'
  <2>1. calls' > 0
    BY <1>1, <1>6 DEF Phases
  <2> QED BY <1>14, <2>1 DEF Phases
<1> QED BY <1>1, <1>11, <1>12, <1>13, <1>15 DEF Inv

LEMMA RemoveCanceled0 ==
  ASSUME Inv, m_map # <<>>, m_map[1].timer = 0, remove_canceled0,
         UNCHANGED <<n, pc, calls, timers, impl1, now, failed>>
  PROVE  Inv'
<1>1. Types /\ Targets /\ Queues /\ Phases /\ Counts /\ failed = {}
  BY DEF Inv
<1>2. m_map \in Seq(Entries) /\ Holds(m_map, running0, m_expiration_point) /\ 0 \notin running0
  BY <1>1 DEF Types, Queues, Started
<1>3. /\ m_map' = Drop(m_map) /\ m_map' \in Seq(Entries) /\ canceled_removed_0' = canceled_removed_0 + 1
      /\ UNCHANGED <<running0, running_timers_0, expired_timers_0, canceled_timers_0, expired, last_time_point>>
  BY <1>2, DropIsTail DEF remove_canceled0
<1>4. /\ Holds(m_map', running0, m_expiration_point)
      /\ Cardinality(Nulls(m_map')) = Cardinality(Nulls(m_map)) - 1
  BY <1>2, <1>3, DropHolds
<1>5. UNCHANGED <<m_expiration_point, target, m_pqueue, running1, m_canceled_1, Started>>
  BY DEF timers, impl1, Started
<1>6. Types'
  BY <1>1, <1>3, <1>5 DEF Types
<1>7. Targets' /\ Queues'
  BY <1>1, <1>3, <1>4, <1>5 DEF Targets, Queues
<1>8. Phases'
  BY <1>1, <1>3, <1>5 DEF Phases, Expiring, Following
<1>9. Counts'
  <2>1. Cardinality(Nulls(m_map)) \in Nat
    BY <1>2, NullsFinite
  <2> QED BY <1>1, <1>3, <1>4, <2>1 DEF Counts
<1> QED BY <1>1, <1>6, <1>7, <1>8, <1>9 DEF Inv

\* The steps that change nothing but pc keep all of the invariant but Phases.
LEMMA OnlyPhase ==
  ASSUME Inv, UNCHANGED <<n, timers, impl0, impl1, now, failed>>, calls' \in Nat, Phases',
         pc' \in {"loop", "first0", "also0", "first1", "also1", "return"}
  PROVE  Inv'
<1>1. UNCHANGED <<n, m_expiration_point, target, m_map, running0, running_timers_0, expired_timers_0,
                  canceled_removed_0, canceled_timers_0, expired, last_time_point, m_pqueue, running1, m_canceled_1,
                  now, failed, Started>>
  BY DEF timers, impl0, impl1, counters0, Started
<1> QED BY <1>1 DEF Inv, Types, Targets, Queues, Counts

\* An empty map holds no running timers.
LEMMA EmptyMap == Queues /\ m_map = <<>> => running0 = {}
BY DEF Queues, Holds

LEMMA First0Inv == Inv /\ First0 => Inv'
<1> SUFFICES ASSUME Inv, First0 PROVE Inv'
  OBVIOUS
<1> DEFINE timer == m_map[1].timer
<1>1. /\ pc = "first0" /\ UNCHANGED <<n, calls, timers, impl1>>
      /\ Types /\ Queues /\ Phases /\ failed = {}
  BY DEF First0, Inv
<1>2. m_map # <<>>
  BY <1>1, EmptyMap DEF Phases
<1>3. CASE timer = 0
  <2>1. remove_canceled0 /\ UNCHANGED <<now, pc, failed>>
    BY <1>2, <1>3 DEF First0
  <2> QED BY <1>1, <1>2, <1>3, <2>1, RemoveCanceled0
<1>4. CASE timer # 0
  <2>1. Assert("running0", timer \in running0) /\ expire0(timer) /\ now' = m_expiration_point[timer] /\ pc' = "also0"
    BY <1>2, <1>4 DEF First0
  <2>2. timer \in running0
    <3>1. m_map \in Seq(Entries) /\ Holds(m_map, running0, m_expiration_point) /\ 0 \notin running0
      BY <1>1 DEF Types, Queues, Started
    <3> QED BY <1>2, <1>4, <3>1, NextTimer
  <2>3. failed' = failed
    BY <2>1, <2>2 DEF Assert
  <2> QED BY <1>1, <1>2, <1>4, <2>1, <2>3, Expire0
<1> QED BY <1>3, <1>4

LEMMA Also0Inv == Inv /\ Also0 => Inv'
<1> SUFFICES ASSUME Inv, Also0 PROVE Inv'
  OBVIOUS
<1> DEFINE timer == m_map[1].timer
           due == m_expiration_point[timer] = now
<1>1. /\ pc = "also0" /\ UNCHANGED <<n, calls, timers, now, impl1>>
      /\ Types /\ Queues /\ Phases /\ Expiring /\ failed = {}
  BY DEF Also0, Inv, Phases
<1>2. /\ m_map \in Seq(Entries) /\ Holds(m_map, running0, m_expiration_point) /\ 0 \notin running0
      /\ calls \in Nat /\ calls > 0 /\ \A x \in running0 : m_expiration_point[x] \in Nat
  BY <1>1 DEF Types, Queues, Started, Phases
<1>3. ASSUME pc' = "first1", UNCHANGED <<impl0, failed>>, \A x \in running0 : m_expiration_point[x] > now PROVE Inv'
  <2>1. UNCHANGED <<running0, running1, m_expiration_point, target, last_time_point, now>>
    BY <1>1, <1>3 DEF impl0, impl1, timers
  <2>2. Phases'
    BY <1>1, <1>2, <1>3, <2>1 DEF Phases, Expiring
  <2> QED BY <1>1, <1>2, <1>3, <2>2, OnlyPhase
<1>4. CASE m_map = <<>>
  <2>1. pc' = "first1" /\ UNCHANGED <<impl0, failed>>
    BY <1>4 DEF Also0
  <2> QED BY <1>1, <1>3, <1>4, <2>1, EmptyMap
<1>5. CASE m_map # <<>> /\ timer = 0
  <2>1. remove_canceled0 /\ UNCHANGED <<pc, failed>>
    BY <1>5 DEF Also0
  <2> QED BY <1>1, <1>5, <2>1, RemoveCanceled0
<1>6. CASE m_map # <<>> /\ timer # 0
  <2>1. timer \in running0 /\ \A x \in running0 : m_expiration_point[timer] <= m_expiration_point[x]
    BY <1>2, <1>6, NextTimer
  <2>2. m_expiration_point[timer] >= now /\ m_expiration_point[timer] \in Nat /\ now \in Nat
    BY <1>1, <1>2, <2>1 DEF Expiring, Types
  <2>3. failed' = failed
    BY <1>6, <2>1, <2>2 DEF Also0, Assert
  <2>4. CASE due
    <3>1. expire0(timer) /\ pc' = pc
      BY <1>6, <2>4 DEF Also0
    <3> QED BY <1>1, <1>6, <2>3, <2>4, <3>1, Expire0
  <2>5. CASE ~due
    <3>1. pc' = "first1" /\ UNCHANGED impl0
      BY <1>6, <2>5 DEF Also0
    <3>2. \A x \in running0 : m_expiration_point[x] > now
      BY <1>2, <2>1, <2>2, <2>5
    <3> QED BY <1>3, <2>3, <3>1, <3>2
  <2> QED BY <2>4, <2>5
<1> QED BY <1>4, <1>5, <1>6

-----------------------------------------------------------------------------
(* Implementation 1                                                          *)

\* A timer at the top of the queue that was not stopped is the next one to expire.
LEMMA TopOfQueue ==
  ASSUME Types, Queues, NEW timer \in tops, timer \notin m_canceled_1
  PROVE  /\ timer \in running1 /\ m_expiration_point[timer] \in Nat
         /\ \A x \in running1 : m_expiration_point[timer] <= m_expiration_point[x]
BY DEF Types, Queues, tops, Started

LEMMA RemoveCanceled1 ==
  ASSUME Inv, NEW timer \in m_canceled_1, remove_canceled1(timer), UNCHANGED <<n, pc, calls, timers, impl0, now>>
  PROVE  Inv'
<1>1. Types /\ Targets /\ Queues /\ Phases /\ Counts /\ failed = {}
  BY DEF Inv
<1>2. /\ UNCHANGED <<m_expiration_point, target, m_map, running0, running_timers_0, expired_timers_0,
                     canceled_removed_0, canceled_timers_0, expired, last_time_point, running1, m_canceled_1,
                     failed, Started>>
      /\ m_pqueue' = m_pqueue \ {timer}
  BY DEF timers, impl0, counters0, Started, remove_canceled1
<1>3. Types'
  BY <1>1, <1>2 DEF Types
<1>4. Queues'
  BY <1>1, <1>2 DEF Queues
<1>5. Phases'
  BY <1>1, <1>2 DEF Phases, Expiring, Following
<1> QED BY <1>1, <1>2, <1>3, <1>4, <1>5 DEF Inv, Targets, Counts

LEMMA Expire1 ==
  ASSUME Inv, NEW timer \in running1, expire1(timer), Following, timer \notin m_canceled_1,
         m_expiration_point[timer] = now, pc' = "also1", calls > 0, UNCHANGED <<n, calls, timers, impl0, now>>
  PROVE  Inv'
<1> DEFINE gone == stopped(timer, running1)
<1>1. Types /\ Targets /\ Queues /\ Phases /\ Counts /\ failed = {}
  BY DEF Inv
<1>2. /\ UNCHANGED <<m_expiration_point, target, m_map, running0, running_timers_0, expired_timers_0,
                     canceled_removed_0, canceled_timers_0, expired, last_time_point, Started>>
      /\ running1' = running1 \ gone /\ m_canceled_1' = m_canceled_1 \cup (gone \ {timer})
      /\ m_pqueue' = m_pqueue \ {timer}
  BY DEF timers, impl0, counters0, Started, expire1
<1>3. failed' = failed
  BY DEF expire1, Assert, Following
<1>4. /\ gone \subseteq running1 /\ timer \in gone /\ \A x \in gone : x # timer => x = target[timer] /\ target[x] = 0
      /\ 0 \notin running1
  <2>1. running1 \in SUBSET Started
    BY <1>1 DEF Types
  <2> QED BY <1>1, <2>1, Stopped
<1>5. target[timer] \notin running1 \ gone
  BY DEF stopped
<1> HIDE DEF gone
<1>6. Types'
  BY <1>1, <1>2, <1>4 DEF Types
<1>7. Queues'
  BY <1>1, <1>2, <1>4 DEF Queues
<1>8. Following'
  <2>1. running0 \subseteq running1 \ gone
    <3>1. timer \notin running0
      BY <1>1 DEF Following, Types
    <3>2. target[timer] \notin running0
      BY DEF Following
    <3> QED BY <1>4, <3>1, <3>2 DEF Following
  <2>2. ASSUME NEW x \in (running1 \ gone) \ running0, m_expiration_point[x] # now
        PROVE  \E y \in running1 \ gone : m_expiration_point[y] = now /\ target[y] = x
    <3>1. PICK y \in running1 : m_expiration_point[y] = now /\ target[y] = x
      BY <2>2 DEF Following
    <3>2. y # timer
      BY <1>5, <2>2, <3>1
    <3>3. y \notin gone
      BY <1>4, <2>2, <3>1, <3>2
    <3> QED BY <3>1, <3>3
  <2> QED BY <1>2, <2>1, <2>2 DEF Following
<1>9. Phases'
  BY <1>8 DEF Phases
<1> QED BY <1>1, <1>2, <1>3, <1>6, <1>7, <1>9 DEF Inv, Targets, Counts

LEMMA First1Inv == Inv /\ First1 => Inv'
<1> SUFFICES ASSUME Inv, First1 PROVE Inv'
  OBVIOUS
<1>1. /\ pc = "first1" /\ UNCHANGED <<n, calls, timers, impl0>>
      /\ Types /\ Queues /\ Phases /\ Expiring /\ failed = {} /\ calls > 0
      /\ \A x \in running0 : m_expiration_point[x] > now
  BY DEF First1, Inv, Phases
<1>2. m_pqueue # {}
  BY <1>1 DEF Queues, Expiring
<1>3. PICK timer \in tops :
        IF timer \in m_canceled_1 THEN remove_canceled1(timer) /\ UNCHANGED <<now, pc>>
        ELSE expire1(timer) /\ now' = m_expiration_point[timer] /\ pc' = "also1"
  BY <1>2 DEF First1
<1>4. CASE timer \in m_canceled_1
  BY <1>1, <1>3, <1>4, RemoveCanceled1
<1>5. CASE timer \notin m_canceled_1
  <2>1. /\ timer \in running1 /\ m_expiration_point[timer] \in Nat
        /\ \A x \in running1 : m_expiration_point[timer] <= m_expiration_point[x]
    BY <1>1, <1>5, TopOfQueue
  <2>2. m_expiration_point[timer] = now /\ now' = now
    BY <1>1, <1>3, <1>5, <2>1 DEF Expiring, Types
  <2>3. Following
    <3>1. ASSUME NEW y \in running1, m_expiration_point[y] = now PROVE target[y] \notin running0
      <4>1. y \notin running0
        BY <1>1, <3>1 DEF Types
      <4> QED BY <1>1, <4>1 DEF Expiring
    <3> QED BY <1>1, <3>1 DEF Expiring, Following
  <2> QED BY <1>1, <1>3, <1>5, <2>1, <2>2, <2>3, Expire1
<1> QED BY <1>4, <1>5

LEMMA Also1Inv == Inv /\ Also1 => Inv'
<1> SUFFICES ASSUME Inv, Also1 PROVE Inv'
  OBVIOUS
<1>1. /\ pc = "also1" /\ UNCHANGED <<n, calls, timers, now, impl0>>
      /\ Types /\ Queues /\ Phases /\ Following /\ failed = {} /\ calls > 0
  BY DEF Also1, Inv, Phases
<1>2. ASSUME pc' = "return", UNCHANGED <<impl1, failed>>, \A x \in running1 : m_expiration_point[x] > now PROVE Inv'
  <2>1. UNCHANGED <<running0, running1, m_expiration_point, now, calls>>
    BY <1>1, <1>2 DEF impl0, impl1, timers
  <2>2. running0 = running1
    <3>1. \A x \in running1 : m_expiration_point[x] # now
      BY <1>1, <1>2 DEF Types
    <3> QED BY <1>1, <3>1 DEF Following
  <2>3. Phases'
    BY <1>1, <1>2, <2>1, <2>2 DEF Phases
  <2>4. calls' \in Nat
    BY <1>1, <2>1 DEF Types
  <2> QED BY <1>1, <1>2, <2>3, <2>4, OnlyPhase
<1>3. CASE m_pqueue = {} /\ pc' = "return" /\ UNCHANGED <<impl1, failed>>
  <2>1. running1 = {}
    BY <1>1, <1>3 DEF Queues
  <2> QED BY <1>2, <1>3, <2>1
<1>4. ASSUME NEW timer \in tops,
             IF timer \in m_canceled_1 THEN remove_canceled1(timer) /\ UNCHANGED pc
             ELSE IF m_expiration_point[timer] # now
               THEN Assert("order1", m_expiration_point[timer] >= now) /\ pc' = "return" /\ UNCHANGED impl1
             ELSE expire1(timer) /\ UNCHANGED pc
      PROVE  Inv'
  <2>1. CASE timer \in m_canceled_1
    BY <1>1, <1>4, <2>1, RemoveCanceled1
  <2>2. CASE timer \notin m_canceled_1
    <3>1. /\ timer \in running1 /\ m_expiration_point[timer] \in Nat /\ now \in Nat
          /\ \A x \in running1 : m_expiration_point[timer] <= m_expiration_point[x]
          /\ \A x \in running1 : m_expiration_point[x] \in Nat
      <4>1. (\A x \in Started : m_expiration_point[x] \in Nat) /\ running1 \subseteq Started /\ now \in Nat
        BY <1>1 DEF Types, Started
      <4> QED BY <1>1, <2>2, <4>1, TopOfQueue
    <3>2. m_expiration_point[timer] >= now
      BY <1>1, <3>1 DEF Following
    <3>3. CASE m_expiration_point[timer] # now
      <4>1. failed' = failed /\ pc' = "return" /\ UNCHANGED impl1
        BY <1>4, <2>2, <3>2, <3>3 DEF Assert
      <4>2. \A x \in running1 : m_expiration_point[x] > now
        BY <3>1, <3>2, <3>3
      <4> QED BY <1>2, <4>1, <4>2
    <3>4. CASE m_expiration_point[timer] = now
      <4>1. expire1(timer) /\ pc' = "also1"
        BY <1>1, <1>4, <2>2, <3>4
      <4> QED BY <1>1, <2>2, <3>1, <3>4, <4>1, Expire1
    <3> QED BY <3>3, <3>4
  <2> QED BY <2>1, <2>2
<1> QED BY <1>3, <1>4 DEF Also1

LEMMA ReturnInv == Inv /\ Return => Inv'
<1> SUFFICES ASSUME Inv, Return PROVE Inv'
  OBVIOUS
<1>1. /\ pc = "return" /\ UNCHANGED <<n, timers, impl0, impl1, now, failed>>
      /\ Types /\ Phases /\ running0 = running1 /\ calls > 0
      /\ calls' = IF running0 = {} THEN 0 ELSE calls - 1
      /\ pc' = IF calls' = 0 THEN "loop" ELSE "first0"
  BY DEF Return, Inv, Phases
<1>2. calls' \in Nat /\ UNCHANGED <<running0, running1>>
  BY <1>1 DEF Types, impl0, impl1
<1>3. Phases'
  <2>1. CASE calls' = 0
    BY <1>1, <1>2, <2>1 DEF Phases
  <2>2. CASE calls' # 0
    <3>1. pc' = "first0" /\ running0 # {} /\ calls' > 0
      BY <1>1, <1>2, <2>2 DEF Types
    <3> QED BY <1>1, <1>2, <3>1 DEF Phases
  <2> QED BY <2>1, <2>2
<1> QED BY <1>1, <1>2, <1>3, OnlyPhase

LEMMA Inductive == Spec => []Inv
<1>1. Inv /\ UNCHANGED vars => Inv'
  <2> SUFFICES ASSUME Inv, UNCHANGED vars PROVE Inv'
    OBVIOUS
  <2>1. UNCHANGED <<n, pc, calls, timers, impl0, impl1, now, failed>>
    BY DEF vars
  <2>2. Phases'
    BY <2>1 DEF Inv, Phases, Expiring, Following, timers, impl0, impl1
  <2> QED BY <2>1, <2>2, OnlyPhase DEF Inv, Types
<1>2. Inv /\ [Next]_vars => Inv'
  BY <1>1, RoundInv, First0Inv, Also0Inv, First1Inv, Also1Inv, ReturnInv DEF Next, Terminated
<1> QED BY <1>2, InitInv, PTL DEF Spec

-----------------------------------------------------------------------------

(***************************************************************************)
(* No assert of expire_next fails in either implementation: there is a     *)
(* timer to expire, timers expire in order, one that was stopped does not  *)
(* expire, and implementation 1 expires timers at the time at which        *)
(* implementation 0 did.                                                   *)
(***************************************************************************)
THEOREM TimerAssertsHold == Spec => []AssertsHold
<1>1. Inv => AssertsHold
  BY DEF Inv, AssertsHold
<1> QED BY <1>1, Inductive, PTL

(***************************************************************************)
(* After every call of expire_next the same timers run in both             *)
(* implementations, although they expire the timers of one moment in       *)
(* different orders and a timer can stop one of the same moment.           *)
(***************************************************************************)
THEOREM ImplementationsAgree == Spec => []SameRunning
<1>1. Inv => SameRunning
  BY DEF Inv, Phases, SameRunning
<1> QED BY <1>1, Inductive, PTL

(***************************************************************************)
(* The multimap stays sorted and names every running timer once, at its    *)
(* time, and a stopped timer not at all; the priority queue holds the      *)
(* running timers and some that were canceled.                             *)
(***************************************************************************)
THEOREM QueuesAreRight == Spec => []QueuesHoldRunning
<1>1. Inv => QueuesHoldRunning
  <2> SUFFICES ASSUME Inv PROVE QueuesHoldRunning
    OBVIOUS
  <2>1. Types /\ Queues /\ DOMAIN m_map = 1 .. Len(m_map) /\ Timer = Started /\ 0 \notin Started
    BY DEF Inv, Types, Timer, Started
  <2>2. ASSUME NEW x \in Timer
        PROVE  Cardinality({k \in DOMAIN m_map : m_map[k].timer = x}) = IF x \in running0 THEN 1 ELSE 0
    <3>1. CASE x \in running0
      <4>1. PICK k \in 1 .. Len(m_map) : m_map[k].timer = x
        BY <2>1, <3>1 DEF Queues, Holds
      <4>2. {j \in DOMAIN m_map : m_map[j].timer = x} = {k}
        <5>1. x # 0
          BY <2>1, <2>2
        <5>2. \A j \in 1 .. Len(m_map) : m_map[j].timer = x => j = k
          BY <2>1, <4>1, <5>1 DEF Queues, Holds
        <5> QED BY <2>1, <4>1, <5>2
      <4> QED BY <3>1, <4>2, FS_Singleton
    <3>2. CASE x \notin running0
      <4>1. {k \in DOMAIN m_map : m_map[k].timer = x} = {}
        BY <2>1, <2>2, <3>2 DEF Queues, Holds
      <4> QED BY <3>2, <4>1, FS_EmptySet
    <3> QED BY <3>1, <3>2
  <2> QED BY <2>1, <2>2 DEF QueuesHoldRunning, Queues, Holds
<1> QED BY <1>1, Inductive, PTL

(***************************************************************************)
(* The numbers that main() prints add up at any moment.                    *)
(***************************************************************************)
THEOREM NumbersAddUp == Spec => []CountersAddUp
<1>1. Inv => CountersAddUp
  <2> SUFFICES ASSUME Inv PROVE CountersAddUp
    OBVIOUS
  <2>1. Counts /\ DOMAIN m_map = 1 .. Len(m_map)
    BY DEF Inv, Types
  <2>2. Nulls(m_map) = {k \in DOMAIN m_map : m_map[k].timer = 0}
    BY <2>1 DEF Nulls
  <2> QED BY <2>1, <2>2 DEF Counts, CountersAddUp
<1> QED BY <1>1, Inductive, PTL

(***************************************************************************)
(* expire_next leaves no timer behind that is due at the time of the one   *)
(* that it let expire.                                                     *)
(***************************************************************************)
THEOREM NoneLeftBehind == Spec => []AllDueExpired
<1>1. Inv => AllDueExpired
  <2>1. Inv => Phases
    BY DEF Inv
  <2> QED BY <2>1 DEF Phases, AllDueExpired
<1> QED BY <1>1, Inductive, PTL

=============================================================================
