--------------------------- MODULE TaskConditions ---------------------------
(***************************************************************************)
(* The condition protocol of AIStatefulTask, wait(conditions) and          *)
(* signal(conditions), as the programs of this repository use it.  The     *)
(* class itself is in a submodule (statefultask), so these operators are   *)
(* external: they are fixed by the 66 scripts of wait_signal_test.cxx,     *)
(* which WaitSignalTest replays against them.                              *)
(*                                                                         *)
(* A task's condition word is a record: `idle' are the conditions the task *)
(* sleeps on (any one of them wakes it) and `skip' the conditions that     *)
(* were signalled before the task waited for them, so that the next wait   *)
(* for one of them is skipped.  Both are sets of condition bits.           *)
(***************************************************************************)

Fresh == [idle |-> {}, skip |-> {}]

ConditionWords(Conditions) ==
  [idle : SUBSET Conditions, skip : SUBSET Conditions]

waiting(t) == t.idle # {}

(***************************************************************************)
(* wait(c): go to sleep on c, unless one of c has already been signalled.  *)
(* Pending signals for c are used up either way.  Only a running task      *)
(* calls wait (the diagram of wait_signal_test.cxx says "assert").         *)
(***************************************************************************)
wait(t, c) ==
  [idle |-> IF t.skip \cap c = {} THEN c ELSE {}, skip |-> t.skip \ c]

(***************************************************************************)
(* signal(c): returns true, and wakes the task, iff the task sleeps on one *)
(* of c; otherwise the signal is remembered.                               *)
(***************************************************************************)
wakes(t, c) == t.idle \cap c # {}

signal(t, c) ==
  IF wakes(t, c) THEN [t EXCEPT !.idle = {}]
                 ELSE [t EXCEPT !.skip = @ \cup c]

=============================================================================
