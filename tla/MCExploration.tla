----------------------------- MODULE MCExploration -----------------------------
(***************************************************************************)
(* Programs for Exploration: trees, explored with up to three crashes, and *)
(* at random with one crash (or, in another run, two).                     *)
(***************************************************************************)
EXTENDS Exploration

Run(t, crashes, random, runs) ==
  [tree |-> t, numcrashes |-> crashes, random |-> random, runs |-> runs]

\* Without what a program would do after choices it never has.
Pruned(pr) ==
  [pr EXCEPT !.tree = [p \in DOMAIN @ |-> IF Reachable(pr, p) THEN @[p] ELSE End]]

\* Every tree of up to three binary choices.
SmallTrees == [Paths(2) \cap Seq({0, 1}) -> {e \in Event : e.size =< 2}]

\* Longer ones, with larger choices: each is one event after another.
RegularTrees ==
  {[p \in Paths(MaxDepth - 1) |-> events[Len(p)]] :
     events \in [0 .. MaxDepth - 1 -> Event \ {End}]}

\* Programs that crash once and go different ways from then on.
ForkedTrees ==
  {[p \in Paths(2) |->
      CASE Len(p) = 0 -> [kind |-> "endDirty", size |-> 1]
        [] Len(p) = 1 -> fork
        [] Len(p) = 2 -> then[p[2]]] :
     fork \in Event, then \in [Choice -> Event]}

AtRandom(crashes) == {Pruned(Run(t, crashes, TRUE, 3)) : t \in SmallTrees}

Mixed ==
  {Pruned(Run(t, 3, FALSE, 0)) : t \in SmallTrees \cup RegularTrees \cup ForkedTrees}
    \cup AtRandom(1)

TwoRandomCrashes == AtRandom(2)
===============================================================================
