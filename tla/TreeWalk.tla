------------------------------- MODULE TreeWalk -------------------------------
(***************************************************************************)
(* What exploring a tree of choices promises: each run ends at a leaf that *)
(* no earlier run ended at, until none is left.                            *)
(***************************************************************************)
EXTENDS Naturals

VARIABLES
  todo,  \* the leaves no run has ended at
  runs,  \* how many runs have ended
  done   \* the exploration is over

vars == <<todo, runs, done>>

Init == runs = 0 /\ ~done

Run ==
  /\ ~done
  /\ \E leaf \in todo : todo' = todo \ {leaf} /\ done' = (todo = {leaf})
  /\ runs' = runs + 1

Spec == Init /\ [][Run]_vars /\ WF_vars(Run)
===============================================================================
