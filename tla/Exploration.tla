------------------------------ MODULE Exploration ------------------------------
(***************************************************************************)
(* Backtracking over the choices of a program that crashes and restarts:   *)
(* NodeStack, and the parts of ModelChecker that drive it.                 *)
(*                                                                         *)
(* The program is a tree.  What an execution does next is a function of    *)
(* the choices made so far in it and in the executions that crashed before *)
(* it (path): pass a crash point, load something with several possible     *)
(* writes, or end, having written something since its last crash point or  *)
(* not.  Rolling back to the snapshot and running again with the same      *)
(* choices does the same thing again.  prog also holds the parameters the  *)
(* checker was started with.                                               *)
(***************************************************************************)
EXTENDS Integers, FiniteSets, SequencesExt

CONSTANTS
  MaxDepth,    \* bound: choices of all executions together
  MaxChoices,  \* bound: choices of one load
  Programs     \* what is run: trees and parameters

ASSUME ExplorationAssumption ==
  /\ MaxDepth \in Nat
  /\ MaxChoices \in Nat /\ MaxChoices >= 2

VARIABLES
  prog,         \* the program and the parameters
  path,         \* choices made since the first execution of this run started
  nodestack,    \* NodeStack of the running execution
  prevContext,  \* those of the executions that crashed before it, oldest first
  replaystack,  \* those of executions still to be crashed again
  numcrashes,
  state,        \* "run", or "done": _Exit
  execution_number,
  ended         \* history: the paths at which runs ended

vars == <<prog, path, nodestack, prevContext, replaystack, numcrashes, state, execution_number, ended>>

Event ==
  [kind : {"load"}, size : 2 .. MaxChoices] \cup [kind : {"crashpoint"}, size : {2}]
    \cup [kind : {"end", "endDirty"}, size : {1}]

End == [kind |-> "end", size |-> 1]

Choice == 0 .. MaxChoices - 1
Paths(d) == UNION {[1 .. k -> Choice] : k \in 0 .. d}

\* Loads and crash points come before MaxDepth.
ASSUME ProgramsAssumption ==
  \A pr \in Programs :
    /\ pr.numcrashes \in Nat /\ pr.random \in BOOLEAN /\ pr.runs \in Nat
    /\ \A p \in DOMAIN pr.tree : pr.tree[p] \in Event /\ Len(p) < MaxDepth

NumCrashes == prog.numcrashes  \* params.numcrashes
Random     == prog.random      \* params.randomExecution >= 0
MaxRuns    == prog.runs        \* params.randomExecution

\* What the program pr does after choices p.
At(pr, p) == IF p \in DOMAIN pr.tree THEN pr.tree[p] ELSE End

\* The crashes among the choices p: choice 0 of a crash point or of an end.
Crashes(pr, p) ==
  Cardinality({k \in DOMAIN p :
    p[k] = 0 /\ At(pr, SubSeq(p, 1, k - 1)).kind \in {"crashpoint", "endDirty"}})

\* The choices there are after p.  Before any crash a load has one; after the
\* last one allowed nothing crashes.
Options(pr, p) ==
  LET e == At(pr, p)
      c == Crashes(pr, p)
  IN  CASE e.kind = "load"       -> IF c = 0 THEN {0} ELSE 0 .. e.size - 1
        [] e.kind = "crashpoint" -> IF c < pr.numcrashes THEN {0, 1} ELSE {1}
        [] e.kind = "endDirty"   -> IF c < pr.numcrashes THEN {0} ELSE {}
        [] e.kind = "end"        -> {}

Reachable(pr, p) == \A k \in DOMAIN p : p[k] \in Options(pr, SubSeq(p, 1, k - 1))

Leaves(pr) ==
  LET reach[k \in 0 .. MaxDepth] ==
        IF k = 0 THEN {<<>>}
        ELSE UNION {{Append(p, c) : c \in Options(pr, p)} : p \in reach[k - 1]}
  IN  {p \in UNION {reach[k] : k \in 0 .. MaxDepth} : Options(pr, p) = {}}

-------------------------------------------------------------------------------
(* NodeStack.  Pointers to nodes are positions in nodes, 0 for NULL.       *)

NewStack == [nodes |-> <<>>, head |-> 0, last |-> 0, curr |-> 0]

reset_execution(ns) == [ns EXCEPT !.curr = ns.last, !.last = 0, !.head = 0]

repeat_prev_execution(ns) == [ns EXCEPT !.curr = 0]

has_another_execution(ns) == ns.last # 0

\* Mutants of has_more_choices: random mode forgotten; off by one.
has_more_at_random(node) == node.idx + 1 < node.size
has_one_more(node) == ~Random /\ node.idx < node.size

has_more_choices(node) == ~Random /\ node.idx + 1 < node.size

\* Mutant of explore_next: keeps the nodes behind the one that changes.
explore_next_keeping(ns, size) ==
  LET at    == ns.head + 1
      fresh == ns.head = Len(ns.nodes)
      back  == ~fresh /\ at = ns.curr
      nodes == IF fresh THEN Append(ns.nodes, [idx |-> 0, size |-> size])
               ELSE IF back THEN [ns.nodes EXCEPT ![at].idx = @ + 1]
               ELSE ns.nodes
  IN  [nodes |-> nodes, head |-> at,
       last  |-> IF has_more_choices(nodes[at]) THEN at ELSE ns.last,
       curr  |-> IF back THEN 0 ELSE ns.curr]

\* The next node: a new one, the one to change, or one to repeat.
explore_next(ns, size) ==
  LET at    == ns.head + 1
      fresh == ns.head = Len(ns.nodes)
      back  == ~fresh /\ at = ns.curr
      nodes == IF fresh THEN Append(ns.nodes, [idx |-> 0, size |-> size])
               ELSE IF back THEN SubSeq([ns.nodes EXCEPT ![at].idx = @ + 1], 1, at)
               ELSE ns.nodes
  IN  [nodes |-> nodes, head |-> at,
       last  |-> IF has_more_choices(nodes[at]) THEN at ELSE ns.last,
       curr  |-> IF back THEN 0 ELSE ns.curr]

\* get_choice on the node just explored.
get_choices(ns) ==
  LET node == ns.nodes[ns.head] IN IF Random THEN 0 .. node.size - 1 ELSE {node.idx}

-------------------------------------------------------------------------------
(* ModelChecker.                                                           *)

Init ==
  /\ prog \in Programs
  /\ path = <<>>
  /\ nodestack = NewStack
  /\ prevContext = <<>> /\ replaystack = <<>>
  /\ numcrashes = 0
  /\ state = "run" /\ execution_number = 1 /\ ended = {}

next == At(prog, path)

\* doCrash and startChecker: the execution with node stack ns becomes a prior
\* one and a new one starts, on the next stack to replay if there is one.
startAfterCrash(ns) ==
  /\ prevContext' = Append(prevContext, ns)
  /\ numcrashes' = numcrashes + 1
  /\ nodestack' = IF replaystack = <<>> THEN NewStack
                  ELSE IF Len(replaystack) > 1 THEN repeat_prev_execution(Head(replaystack))
                  ELSE Head(replaystack)
  /\ replaystack' = IF replaystack = <<>> THEN <<>> ELSE Tail(replaystack)

\* handle_read: a load with one choice has no node.
Load ==
  /\ state = "run" /\ next.kind = "load"
  /\ LET size == IF prevContext = <<>> THEN 1 ELSE next.size
         ns   == IF size = 1 THEN nodestack ELSE explore_next(nodestack, size)
     IN  /\ nodestack' = ns
         /\ \E c \in IF size = 1 THEN {0} ELSE get_choices(ns) : path' = Append(path, c)
  /\ UNCHANGED <<prog, prevContext, replaystack, numcrashes, state, execution_number, ended>>

\* shouldInsertCrash before anything else: no crash is allowed here.
CrashPointOff ==
  /\ state = "run" /\ next.kind = "crashpoint" /\ (numcrashes >= NumCrashes \/ Random)
  /\ path' = Append(path, 1)
  /\ UNCHANGED <<prog, nodestack, prevContext, replaystack, numcrashes, state, execution_number, ended>>

CrashPoint ==
  /\ state = "run" /\ next.kind = "crashpoint" /\ numcrashes < NumCrashes /\ ~Random
  /\ LET ns == explore_next(nodestack, 2)
     IN  \E c \in get_choices(ns) :
           /\ path' = Append(path, c)
           /\ IF c = 0
              THEN startAfterCrash(ns)
              ELSE nodestack' = ns /\ UNCHANGED <<prevContext, replaystack, numcrashes>>
  /\ UNCHANGED <<prog, state, execution_number, ended>>

\* Mutant of RandomCrash: in the last execution too.
RandomCrashAlways ==
  /\ state = "run" /\ next.kind = "crashpoint" /\ numcrashes < NumCrashes /\ Random
  /\ path' = Append(path, 0)
  /\ LET ns == explore_next(nodestack, 2)
     IN  startAfterCrash([ns EXCEPT !.last = ns.head])
  /\ UNCHANGED <<prog, state, execution_number, ended>>

\* Random mode, past nextCrashPoint: always crashes, and marks the node.
RandomCrash ==
  /\ state = "run" /\ next.kind = "crashpoint" /\ numcrashes < NumCrashes
  /\ Random /\ execution_number < MaxRuns
  /\ path' = Append(path, 0)
  /\ LET ns == explore_next(nodestack, 2)
     IN  startAfterCrash([ns EXCEPT !.last = ns.head])
  /\ UNCHANGED <<prog, state, execution_number, ended>>

\* handleChosenThread at the end of the program: one last crash, without a node.
LastCrash ==
  /\ state = "run" /\ next.kind = "endDirty" /\ numcrashes < NumCrashes
  /\ path' = Append(path, 0)
  /\ startAfterCrash(nodestack)
  /\ UNCHANGED <<prog, state, execution_number, ended>>

Finishing == state = "run" /\ (next.kind = "end" \/ (next.kind = "endDirty" /\ numcrashes >= NumCrashes))

\* The stacks of the chain of executions, and the deepest with a choice left.
stacks == Append(prevContext, nodestack)
backtrackable == {k \in DOMAIN stacks : has_another_execution(stacks[k])}

\* Mutant of restart: the stacks are pushed in the wrong order.
restartReversed(k) ==
  /\ replaystack' = replaystack \o Reverse([j \in 1 .. k - 1 |-> reset_execution(stacks[j + 1])])
  /\ nodestack' = IF replaystack' = <<>> THEN reset_execution(stacks[1])
                  ELSE repeat_prev_execution(reset_execution(stacks[1]))
  /\ prevContext' = <<>> /\ path' = <<>> /\ numcrashes' = 0
  /\ UNCHANGED state

\* Start over: execution k of the chain is to take its next choice after those
\* before it have crashed as they did.
restart(k) ==
  /\ replaystack' = [j \in 1 .. k - 1 |-> reset_execution(stacks[j + 1])] \o replaystack
  /\ nodestack' = IF replaystack' = <<>> THEN reset_execution(stacks[1])
                  ELSE repeat_prev_execution(reset_execution(stacks[1]))
  /\ prevContext' = <<>> /\ path' = <<>> /\ numcrashes' = 0
  /\ UNCHANGED state

finish_execution ==
  /\ Finishing
  /\ execution_number' = execution_number + 1
  /\ ended' = ended \cup {path}
  /\ CASE backtrackable # {}                             -> restart(Max(backtrackable))
       [] backtrackable = {} /\ Random /\ MaxRuns >= execution_number' -> restart(1)
       [] OTHER -> state' = "done"
                   /\ UNCHANGED <<path, nodestack, prevContext, replaystack, numcrashes>>
  /\ UNCHANGED prog

Next == Load \/ CrashPointOff \/ CrashPoint \/ RandomCrash \/ LastCrash \/ finish_execution

\* One thread of control that goes on until it calls _Exit.
Spec == Init /\ [][Next]_vars /\ WF_vars(Next)

-------------------------------------------------------------------------------
(* Properties.                                                             *)

StackOK(ns) ==
  /\ DOMAIN ns = {"nodes", "head", "last", "curr"}
  /\ \A k \in DOMAIN ns.nodes : ns.nodes[k].size \in 2 .. MaxChoices
                              /\ (~Random => ns.nodes[k].idx \in 0 .. ns.nodes[k].size - 1)
  /\ {ns.head, ns.last, ns.curr} \subseteq 0 .. Len(ns.nodes)

\* The shape of the state: node pointers point into their stack.
TypeOK ==
  /\ path \in Paths(MaxDepth)
  /\ \A k \in DOMAIN stacks : StackOK(stacks[k])
  /\ \A k \in DOMAIN replaystack : StackOK(replaystack[k])
  /\ numcrashes \in 0 .. NumCrashes /\ execution_number \in Nat \ {0}
  /\ state \in {"run", "done"} /\ ended \subseteq Paths(MaxDepth)

\* Runs as asked for by --random=N: at least one.
asked == 1 .. Max({1, MaxRuns})

\* What is still to be explored: combinations of choices, at random just runs.
todo == IF Random THEN asked \ (1 .. execution_number - 1) ELSE Leaves(prog) \ ended
done == state = "done"
Walk == INSTANCE TreeWalk WITH runs <- execution_number - 1

\* Every combination of choices is run exactly once, and then the checker stops;
\* at random, it makes as many runs as asked for.
ExploresTree == Walk!Spec

\* finish_execution: if (params.randomExecution >= 0) ASSERT(replaystack.empty()).
RandomNeverReplays == Random => replaystack = <<>>

===============================================================================
