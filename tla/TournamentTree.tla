--------------------------- MODULE TournamentTree ---------------------------
(***************************************************************************)
(* tree_prop.cc: the design study for the tree of the running timers.      *)
(* cache[1] .. cache[4] are the values (expiration points); a node of the  *)
(* tree t holds the index of the smaller of its two children:              *)
(*                                                                         *)
(*        cache[1] cache[2]  cache[3]  cache[4]                            *)
(*             \    /           |         |                                *)
(*              t[3]          t[4]        |                                *)
(*                 \          /           |                                *)
(*                   t[1]               t[2]                               *)
(*                       \             /                                   *)
(*                            t[0]                                         *)
(*                                                                         *)
(* The program changes cache[1] in every sane tree over five values and    *)
(* repairs the path from t[3] to t[0], with one loop for a value that      *)
(* became less and one for a value that became greater.  Here the values   *)
(* are any integers, and an iteration of a loop is a step.                 *)
(***************************************************************************)
EXTENDS Integers

CONSTANT Values     \* 100, 200, 300, 400 and 500 in the program

VARIABLES
  cache, t,
  old_v,          \* what cache[1] was
  nv, i, in, si,  \* the variables of the two loops
  pc              \* "change", "less", "greater" or "test"

vars == <<cache, t, old_v, nv, i, in, si, pc>>

Leafs == 1 .. 4
Nodes == 0 .. 4

min(a, b) == IF a <= b THEN a ELSE b

\* The indices of the parent and of the sibling of a node.
p(n) == (n + 1) \div 2 - 1
s(n) == IF n = 1 THEN 2 ELSE 7 - n

interval == 1
interval_to_parent_index(n) == 3

is_sane(c, tr) ==
  /\ tr[4] = 3 /\ tr[2] = 4
  /\ tr[3] \in {1, 2}          /\ c[tr[3]] = min(c[1], c[2])
  /\ tr[1] \in {tr[3], tr[4]}  /\ c[tr[1]] = min(c[tr[3]], c[tr[4]])
  /\ tr[0] \in {tr[1], tr[2]}  /\ c[tr[0]] = min(c[tr[1]], c[tr[2]])

-----------------------------------------------------------------------------

\* The seven outer loops of main(): every sane tree over the values.
Init ==
  /\ cache \in [Leafs -> Values]
  /\ t \in [Nodes -> Leafs]
  /\ is_sane(cache, t)
  /\ old_v = cache[1]
  /\ nv = old_v /\ i = interval_to_parent_index(interval)
  /\ in = interval /\ si = 3 - interval
  /\ pc = "change"

\* cache[interval] = new_v, and the variables of the loop that follows.
Change(new_v) ==
  /\ pc = "change" /\ new_v # cache[interval]
  /\ old_v' = cache[interval]
  /\ cache' = [cache EXCEPT ![interval] = new_v]
  /\ nv' = new_v
  /\ i' = interval_to_parent_index(interval)
  /\ in' = interval
  /\ si' = 3 - interval
  /\ pc' = IF new_v < cache[interval] THEN "less" ELSE "greater"
  /\ UNCHANGED t

\* while (nv <= cache[t[i]]): the value became less.
Mutant_stop_at_equal ==
  /\ pc = "less"
  /\ IF nv < cache[t[i]] /\ i # 0
       THEN t' = [t EXCEPT ![i] = interval] /\ i' = p(i) /\ UNCHANGED pc
       ELSE pc' = "test" /\ UNCHANGED <<t, i>>
  /\ UNCHANGED <<cache, old_v, nv, in, si>>

Mutant_no_break_at_top ==
  /\ pc = "less"
  /\ t' = IF nv <= cache[t[i]] THEN [t EXCEPT ![i] = interval] ELSE t
  /\ IF nv <= cache[t[i]] THEN i' = (IF i = 0 THEN 0 ELSE p(i)) /\ UNCHANGED pc
                           ELSE pc' = "test" /\ UNCHANGED i
  /\ UNCHANGED <<cache, old_v, nv, in, si>>

Less ==
  /\ pc = "less"
  /\ t' = IF nv <= cache[t[i]] THEN [t EXCEPT ![i] = interval] ELSE t
  /\ IF nv <= cache[t[i]] /\ i # 0 THEN i' = p(i) /\ UNCHANGED pc
                                   ELSE pc' = "test" /\ UNCHANGED i
  /\ UNCHANGED <<cache, old_v, nv, in, si>>

\* for(;;): the value became greater.  The sibling wins when its value is smaller; if it
\* was in the node already, nothing changes from there on.
Greater ==
  LET sv == cache[si]
  IN  /\ pc = "greater"
      /\ IF nv > sv /\ t[i] = si
           THEN pc' = "test" /\ UNCHANGED <<t, nv, i, in, si>>
           ELSE /\ nv' = min(nv, sv)
                /\ in' = IF nv > sv THEN si ELSE in
                /\ t' = [t EXCEPT ![i] = in']
                /\ IF i = 0 THEN pc' = "test" /\ UNCHANGED <<i, si>>
                            ELSE si' = t[s(i)] /\ i' = p(i) /\ UNCHANGED pc
      /\ UNCHANGED <<cache, old_v>>

\* The test of the result.  The program goes on with another sane tree; all of them are
\* initial states, and here the repaired tree is the next one.
Test ==
  /\ pc = "test"
  /\ pc' = "change"
  /\ UNCHANGED <<cache, t, old_v, nv, i, in, si>>

Next == (\E new_v \in Values : Change(new_v)) \/ Less \/ Greater \/ Test

\* A program that has started one of its loops goes on with it.
Spec == Init /\ [][Next]_vars /\ WF_vars(Less \/ Greater)

-----------------------------------------------------------------------------

\* The values the variables can have; i is a node on the path from t[3] to t[0].
TypeOK ==
  /\ cache \in [Leafs -> Values]
  /\ t \in [Nodes -> Leafs]
  /\ old_v \in Values /\ nv \in Values
  /\ i \in {0, 1, 3}
  /\ in \in Leafs /\ si \in Leafs
  /\ pc \in {"change", "less", "greater", "test"}

\* When a loop is done the tree is sane: "Success!".
SaneAfterRepair == pc \in {"change", "test"} => is_sane(cache, t)

\* The top of the tree is what the timers use: then it is a leaf with the smallest value.
TopIsSmallest ==
  pc \in {"change", "test"} => \A l \in Leafs : cache[t[0]] <= cache[l]

\* The loops end.
RepairEnds == pc \in {"less", "greater"} ~> pc = "test"

=============================================================================
