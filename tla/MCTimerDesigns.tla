--------------------------- MODULE MCTimerDesigns ---------------------------
(***************************************************************************)
(* The two programs about the containers of running timers, one at a time: *)
(* timer_test and the design study tree_prop.  A behaviour is a run of one *)
(* of them, and the variables of the other stay as they are.               *)
(***************************************************************************)
EXTENDS MCTimers

CONSTANT Values

VARIABLES
  program,        \* which program was started
  cache, t, old_v, nv, i, in, si, tree_at

Tree == INSTANCE TournamentTree WITH pc <- tree_at

\* tree_prop compares values as integers.
ASSUME ValuesAssumption == Values \subseteq Int

treeVars == <<cache, t, old_v, nv, i, in, si, tree_at>>
allVars == <<program, vars, treeVars>>

\* The other program has the tree in which all values are equal.
Start ==
  /\ program \in {"timer_test", "tree_prop"}
  /\ Init /\ Tree!Init
  /\ program = "timer_test" =>
       /\ \A l \in Tree!Leafs : cache[l] = CHOOSE v \in Values : TRUE
       /\ \A node \in {0, 1, 3} : t[node] = 1

InTimerTest == program = "timer_test" /\ UNCHANGED <<program, treeVars>>
InTreeProp == program = "tree_prop" /\ UNCHANGED <<program, vars>>

TimerTestStep == InTimerTest /\ Next
TreePropStep == InTreeProp /\ Tree!Next

Step == TimerTestStep \/ TreePropStep

\* tree_prop goes on with a loop that it has started.
TimerDesigns == Start /\ [][Step]_allVars /\ WF_allVars(InTreeProp /\ (Tree!Less \/ Tree!Greater))

-----------------------------------------------------------------------------

\* In tree_prop, both loops leave a sane tree behind: "Success!".
SaneAfterRepair == Tree!SaneAfterRepair

\* In tree_prop, both loops end.
RepairEnds == Tree!RepairEnds

=============================================================================
