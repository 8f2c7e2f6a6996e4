------------------------ MODULE TournamentTreeProofs ------------------------
(***************************************************************************)
(* The repair of tree_prop.cc is right for any integers: the five values   *)
(* of the program give every order of old and new value and neighbours,    *)
(* the proof needs no such argument.                                       *)
(*                                                                         *)
(* While a loop is at node i, the nodes below i are right for the new      *)
(* value and the node i and those above it are still right for the old     *)
(* value; RepairInv says so for the three nodes of the path.               *)
(***************************************************************************)
EXTENDS MCTimerDesigns, TLAPS

\* The values before the change.
old == [cache EXCEPT ![1] = old_v]

\* Node t[0], and node t[1], still name a leaf that was the smallest below it.
TopWasRight ==
  \A l \in Tree!Leafs : old[t[0]] <= old[l]
LeftWasRight ==
  /\ t[1] \in 1 .. 3
  /\ \A l \in 1 .. 3 : old[t[1]] <= old[l]
  /\ t[0] \in {t[1], 4}
  /\ TopWasRight

\* Node t[3], and node t[1], name the smallest leaf below it.
PairIsRight ==
  t[3] \in {1, 2} /\ cache[t[3]] <= cache[1] /\ cache[t[3]] <= cache[2]
LeftIsRight ==
  t[1] \in {t[3], 3} /\ cache[t[1]] <= cache[t[3]] /\ cache[t[1]] <= cache[3]

LessInv ==
  /\ nv = cache[1] /\ nv < old_v
  /\ i = 3 => Tree!is_sane(old, t)
  /\ i = 1 => t[3] = 1 /\ PairIsRight /\ LeftWasRight
  /\ i = 0 => t[3] = 1 /\ t[1] = 1 /\ PairIsRight /\ LeftIsRight /\ TopWasRight

GreaterInv ==
  /\ cache[1] > old_v /\ nv = cache[in]
  /\ i = 3 => in = 1 /\ si = 2 /\ Tree!is_sane(old, t)
  /\ i = 1 => in = t[3] /\ si = 3 /\ PairIsRight /\ LeftWasRight
  /\ i = 0 => in = t[1] /\ si = 4 /\ PairIsRight /\ LeftIsRight /\ TopWasRight

RepairInv ==
  /\ t[4] = 3 /\ t[2] = 4
  /\ tree_at \in {"change", "test"} => Tree!is_sane(cache, t)
  /\ tree_at = "less" => LessInv
  /\ tree_at = "greater" => GreaterInv

Inv == Tree!TypeOK /\ RepairInv

-----------------------------------------------------------------------------

LEMMA LeafFacts == Tree!Leafs = {1, 2, 3, 4} /\ Tree!Nodes = {0, 1, 2, 3, 4} /\ 1 .. 3 = {1, 2, 3}
BY DEF Tree!Leafs, Tree!Nodes

\* A sane tree has the smallest value on top, of the whole tree and of the left part.
LEMMA SaneTop ==
  ASSUME NEW c \in [Tree!Leafs -> Int], NEW tr \in [Tree!Nodes -> Tree!Leafs], Tree!is_sane(c, tr)
  PROVE  /\ \A l \in Tree!Leafs : c[tr[0]] <= c[l]
         /\ tr[1] \in 1 .. 3
         /\ \A l \in 1 .. 3 : c[tr[1]] <= c[l]
         /\ tr[0] \in {tr[1], 4}
BY LeafFacts DEF Tree!is_sane, Tree!min

LEMMA PathParents == Tree!p(3) = 1 /\ Tree!p(1) = 0 /\ Tree!s(3) = 4 /\ Tree!s(1) = 2
BY DEF Tree!p, Tree!s

LEMMA InitInv == Start => Inv
BY ValuesAssumption, LeafFacts
   DEF Start, Tree!Init, Inv, Tree!TypeOK, RepairInv, Tree!interval, Tree!interval_to_parent_index, Tree!is_sane

LEMMA ChangeInv ==
  ASSUME Inv, NEW new_v \in Values, Tree!Change(new_v)
  PROVE  Inv'
<1> USE ValuesAssumption, LeafFacts
<1>1. Tree!TypeOK'
  BY DEF Inv, Tree!TypeOK, Tree!Change, Tree!interval, Tree!interval_to_parent_index
<1>2. old' = cache
  BY DEF Inv, Tree!TypeOK, Tree!Change, Tree!interval, old
<1>3. Tree!is_sane(old', t')
  BY <1>2 DEF Inv, RepairInv, Tree!Change
<1>4. /\ i' = 3 /\ in' = 1 /\ si' = 2 /\ nv' = new_v /\ cache'[1] = new_v
      /\ old_v' = cache[1] /\ t' = t /\ new_v # cache[1]
      /\ tree_at' = IF new_v < cache[1] THEN "less" ELSE "greater"
  BY DEF Inv, Tree!TypeOK, Tree!Change, Tree!interval, Tree!interval_to_parent_index
<1>5. new_v \in Int /\ cache[1] \in Int
  BY DEF Inv, Tree!TypeOK
<1>6. t'[4] = 3 /\ t'[2] = 4
  BY <1>4 DEF Inv, RepairInv
<1>7. tree_at' = "less" => LessInv'
  BY <1>3, <1>4, <1>5 DEF LessInv
<1>8. tree_at' = "greater" => GreaterInv'
  BY <1>3, <1>4, <1>5 DEF GreaterInv
<1> QED BY <1>1, <1>4, <1>6, <1>7, <1>8 DEF Inv, RepairInv

LEMMA LessTypes ==
  ASSUME Inv, Tree!Less
  PROVE  Tree!TypeOK' /\ t'[4] = 3 /\ t'[2] = 4
BY LeafFacts, PathParents DEF Inv, Tree!TypeOK, RepairInv, Tree!Less, Tree!interval

LEMMA LessStepInv ==
  ASSUME Inv, Tree!Less
  PROVE  Inv'
<1> USE ValuesAssumption, LeafFacts, PathParents
<1>1. /\ cache \in [Tree!Leafs -> Int] /\ t \in [Tree!Nodes -> Tree!Leafs]
      /\ old_v \in Int /\ nv \in Int /\ i \in {0, 1, 3}
      /\ t[4] = 3 /\ t[2] = 4
      /\ LessInv
  BY DEF Inv, Tree!TypeOK, RepairInv, Tree!Less
<1>2. /\ old \in [Tree!Leafs -> Int]
      /\ old[1] = old_v /\ old[2] = cache[2] /\ old[3] = cache[3] /\ old[4] = cache[4]
  BY <1>1 DEF old
<1>3. cache' = cache /\ old_v' = old_v /\ nv' = nv /\ old' = old
  BY DEF Tree!Less, old
<1>4. CASE i = 3
  <2>1. /\ Tree!is_sane(old, t)
        /\ nv = cache[1] /\ nv < old_v
    BY <1>1, <1>4 DEF LessInv
  <2>2. LeftWasRight
    BY <1>1, <1>2, <2>1, SaneTop DEF LeftWasRight, TopWasRight
  <2>3. CASE nv <= cache[t[3]]
    <3>1. /\ t'[3] = 1 /\ t'[1] = t[1] /\ t'[0] = t[0]
          /\ i' = 1 /\ tree_at' = "less"
      BY <1>1, <1>4, <2>3 DEF Tree!Less, Tree!interval
    <3>2. PairIsRight'
      BY <1>1, <1>2, <1>3, <2>1, <2>3, <3>1 DEF PairIsRight, Tree!is_sane, Tree!min
    <3>3. LeftWasRight'
      BY <1>3, <2>2, <3>1 DEF LeftWasRight, TopWasRight
    <3> QED BY <1>3, <2>1, <3>1, <3>2, <3>3, LessTypes DEF Inv, RepairInv, LessInv
  <2>4. CASE ~(nv <= cache[t[3]])
    <3>1. t' = t /\ tree_at' = "test"
      BY <1>4, <2>4 DEF Tree!Less
    <3>2. Tree!is_sane(cache, t)
      BY <1>1, <1>2, <2>1, <2>4 DEF Tree!is_sane, Tree!min
    <3> QED BY <1>3, <3>1, <3>2, LessTypes DEF Inv, RepairInv
  <2> QED BY <2>3, <2>4
<1>5. CASE i = 1
  <2>1. /\ t[3] = 1 /\ PairIsRight /\ LeftWasRight
        /\ nv = cache[1] /\ nv < old_v
    BY <1>1, <1>5 DEF LessInv
  <2>2. CASE nv <= cache[t[1]]
    <3>1. /\ t'[3] = 1 /\ t'[1] = 1 /\ t'[0] = t[0]
          /\ i' = 0 /\ tree_at' = "less"
      BY <1>1, <1>5, <2>1, <2>2 DEF Tree!Less, Tree!interval
    <3>2. PairIsRight'
      BY <1>3, <2>1, <3>1 DEF PairIsRight
    <3>3. LeftIsRight'
      BY <1>1, <1>2, <1>3, <2>1, <2>2, <3>1 DEF LeftIsRight, LeftWasRight
    <3>4. TopWasRight'
      BY <1>3, <2>1, <3>1 DEF LeftWasRight, TopWasRight
    <3> QED BY <1>3, <2>1, <3>1, <3>2, <3>3, <3>4, LessTypes DEF Inv, RepairInv, LessInv
  <2>3. CASE ~(nv <= cache[t[1]])
    <3>1. t' = t /\ tree_at' = "test"
      BY <1>5, <2>3 DEF Tree!Less
    <3>2. t[1] = 3
      BY <1>1, <2>1, <2>3 DEF PairIsRight, LeftWasRight
    <3>3. Tree!is_sane(cache, t)
      BY <1>1, <1>2, <2>1, <2>3, <3>2 DEF Tree!is_sane, Tree!min, PairIsRight, LeftWasRight, TopWasRight
    <3> QED BY <1>3, <3>1, <3>3, LessTypes DEF Inv, RepairInv
  <2> QED BY <2>2, <2>3
<1>6. CASE i = 0
  <2>1. /\ t[3] = 1 /\ t[1] = 1 /\ PairIsRight /\ LeftIsRight /\ TopWasRight
        /\ nv = cache[1] /\ nv < old_v
    BY <1>1, <1>6 DEF LessInv
  <2>2. /\ t'[3] = 1 /\ t'[1] = 1 /\ tree_at' = "test"
        /\ t'[0] = IF nv <= cache[t[0]] THEN 1 ELSE t[0]
    BY <1>1, <1>6, <2>1 DEF Tree!Less, Tree!interval
  <2>3. Tree!is_sane(cache, t')
    BY <1>1, <1>2, <2>1, <2>2, LessTypes DEF Tree!is_sane, Tree!min, PairIsRight, LeftIsRight, TopWasRight
  <2> QED BY <1>3, <2>2, <2>3, LessTypes DEF Inv, RepairInv
<1> QED BY <1>1, <1>4, <1>5, <1>6

LEMMA GreaterTypes ==
  ASSUME Inv, Tree!Greater
  PROVE  Tree!TypeOK' /\ t'[4] = 3 /\ t'[2] = 4
BY LeafFacts, PathParents DEF Inv, Tree!TypeOK, RepairInv, Tree!Greater, Tree!min

LEMMA GreaterStepInv ==
  ASSUME Inv, Tree!Greater
  PROVE  Inv'
<1> USE ValuesAssumption, LeafFacts, PathParents
<1> DEFINE sv == cache[si]
           stops == nv > sv /\ t[i] = si
<1>1. /\ cache \in [Tree!Leafs -> Int] /\ t \in [Tree!Nodes -> Tree!Leafs]
      /\ old_v \in Int /\ nv \in Int /\ i \in {0, 1, 3}
      /\ in \in Tree!Leafs /\ si \in Tree!Leafs
      /\ t[4] = 3 /\ t[2] = 4
      /\ GreaterInv
  BY DEF Inv, Tree!TypeOK, RepairInv, Tree!Greater
<1>2. /\ old \in [Tree!Leafs -> Int]
      /\ old[1] = old_v /\ old[2] = cache[2] /\ old[3] = cache[3] /\ old[4] = cache[4]
  BY <1>1 DEF old
<1>3. cache' = cache /\ old_v' = old_v /\ old' = old
  BY DEF Tree!Greater, old
<1>4. cache[1] > old_v /\ nv = cache[in]
  BY <1>1 DEF GreaterInv
<1>5. CASE i = 3
  <2>1. in = 1 /\ si = 2 /\ Tree!is_sane(old, t)
    BY <1>1, <1>5 DEF GreaterInv
  <2>2. LeftWasRight
    BY <1>1, <1>2, <2>1, SaneTop DEF LeftWasRight, TopWasRight
  <2>3. CASE stops
    <3>1. t' = t /\ tree_at' = "test"
      BY <2>3 DEF Tree!Greater
    <3>2. Tree!is_sane(cache, t)
      BY <1>1, <1>2, <1>4, <1>5, <2>1, <2>3 DEF Tree!is_sane, Tree!min
    <3> QED BY <1>3, <3>1, <3>2, GreaterTypes DEF Inv, RepairInv
  <2>4. CASE ~stops
    <3>1. /\ in' = (IF nv > sv THEN 2 ELSE 1) /\ nv' = Tree!min(nv, sv)
          /\ t'[3] = in' /\ t'[1] = t[1] /\ t'[0] = t[0]
          /\ i' = 1 /\ si' = 3 /\ tree_at' = "greater"
      BY <1>1, <1>5, <2>1, <2>4 DEF Tree!Greater
    <3>2. PairIsRight' /\ nv' = cache'[in']
      BY <1>1, <1>3, <1>4, <2>1, <3>1 DEF PairIsRight, Tree!min
    <3>3. LeftWasRight'
      BY <1>3, <2>2, <3>1 DEF LeftWasRight, TopWasRight
    <3> QED BY <1>3, <1>4, <3>1, <3>2, <3>3, GreaterTypes DEF Inv, RepairInv, GreaterInv
  <2> QED BY <2>3, <2>4
<1>6. CASE i = 1
  <2>1. in = t[3] /\ si = 3 /\ PairIsRight /\ LeftWasRight
    BY <1>1, <1>6 DEF GreaterInv
  <2>2. CASE stops
    <3>1. t' = t /\ tree_at' = "test"
      BY <2>2 DEF Tree!Greater
    <3>2. Tree!is_sane(cache, t)
      BY <1>1, <1>2, <1>4, <1>6, <2>1, <2>2 DEF Tree!is_sane, Tree!min, PairIsRight, LeftWasRight, TopWasRight
    <3> QED BY <1>3, <3>1, <3>2, GreaterTypes DEF Inv, RepairInv
  <2>3. CASE ~stops
    <3>1. /\ in' = (IF nv > sv THEN 3 ELSE t[3]) /\ nv' = Tree!min(nv, sv)
          /\ t'[3] = t[3] /\ t'[1] = in' /\ t'[0] = t[0]
          /\ i' = 0 /\ si' = 4 /\ tree_at' = "greater"
      BY <1>1, <1>6, <2>1, <2>3 DEF Tree!Greater
    <3>2. PairIsRight'
      BY <1>3, <2>1, <3>1 DEF PairIsRight
    <3>3. LeftIsRight' /\ nv' = cache'[in']
      BY <1>1, <1>3, <1>4, <2>1, <3>1 DEF LeftIsRight, PairIsRight, Tree!min
    <3>4. TopWasRight'
      BY <1>3, <2>1, <3>1 DEF LeftWasRight, TopWasRight
    <3> QED BY <1>3, <1>4, <3>1, <3>2, <3>3, <3>4, GreaterTypes DEF Inv, RepairInv, GreaterInv
  <2> QED BY <2>2, <2>3
<1>7. CASE i = 0
  <2>1. in = t[1] /\ si = 4 /\ PairIsRight /\ LeftIsRight /\ TopWasRight
    BY <1>1, <1>7 DEF GreaterInv
  <2>2. /\ t'[3] = t[3] /\ t'[1] = t[1] /\ tree_at' = "test"
        /\ t'[0] = IF nv > sv THEN 4 ELSE t[1]
    BY <1>1, <1>7, <2>1 DEF Tree!Greater
  <2>3. Tree!is_sane(cache, t')
    BY <1>1, <1>4, <2>1, <2>2, GreaterTypes DEF Tree!is_sane, Tree!min, PairIsRight, LeftIsRight
  <2> QED BY <1>3, <2>2, <2>3, GreaterTypes DEF Inv, RepairInv
<1> QED BY <1>1, <1>5, <1>6, <1>7

LEMMA StepInv == Inv /\ [Tree!Next]_treeVars => Inv'
<1> SUFFICES ASSUME Inv, [Tree!Next]_treeVars PROVE Inv'
  OBVIOUS
<1>1. CASE \E new_v \in Values : Tree!Change(new_v)
  BY <1>1, ChangeInv
<1>2. CASE Tree!Less
  BY <1>2, LessStepInv
<1>3. CASE Tree!Greater
  BY <1>3, GreaterStepInv
<1>4. CASE Tree!Test
  BY <1>4 DEF Tree!Test, Inv, Tree!TypeOK, RepairInv
<1>5. CASE UNCHANGED treeVars
  BY <1>5 DEF treeVars, Inv, Tree!TypeOK, RepairInv, LessInv, GreaterInv, PairIsRight, LeftIsRight,
              LeftWasRight, TopWasRight, old
<1> QED BY <1>1, <1>2, <1>3, <1>4, <1>5 DEF Tree!Next

\* While timer_test runs, the tree stays as it is.
LEMMA TreeStep == Inv /\ [Step]_allVars => Inv'
<1>1. [Step]_allVars => [Tree!Next]_treeVars
  BY DEF Step, TimerTestStep, TreePropStep, InTimerTest, allVars, treeVars
<1> QED BY <1>1, StepInv

-----------------------------------------------------------------------------

\* Type correctness: every index the loops of tree_prop.cc use is in range, and the
\* asserts of p(), s() and interval_to_parent_index() hold.
THEOREM TypeCorrect == TimerDesigns => []Tree!TypeOK
<1>1. Inv => Tree!TypeOK
  BY DEF Inv
<1> QED BY <1>1, InitInv, TreeStep, PTL DEF TimerDesigns

\* "Success!": for any integers, both repair loops of tree_prop.cc leave a sane tree.
THEOREM RepairCorrect == TimerDesigns => []SaneAfterRepair
<1>1. Inv => SaneAfterRepair
  BY DEF Inv, RepairInv, SaneAfterRepair, Tree!SaneAfterRepair
<1> QED BY <1>1, InitInv, TreeStep, PTL DEF TimerDesigns

\* And the leaf on top of the tree then has the smallest value.
THEOREM TopCorrect == TimerDesigns => []Tree!TopIsSmallest
<1>1. Inv => Tree!TopIsSmallest
  <2> SUFFICES ASSUME Inv, tree_at \in {"change", "test"}
               PROVE  \A l \in Tree!Leafs : cache[t[0]] <= cache[l]
    BY DEF Tree!TopIsSmallest
  <2>1. cache \in [Tree!Leafs -> Int] /\ t \in [Tree!Nodes -> Tree!Leafs] /\ Tree!is_sane(cache, t)
    BY ValuesAssumption DEF Inv, Tree!TypeOK, RepairInv
  <2> QED BY <2>1, SaneTop
<1> QED BY <1>1, InitInv, TreeStep, PTL DEF TimerDesigns

=============================================================================
