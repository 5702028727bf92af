----------------------------- MODULE ActionList -----------------------------
(***************************************************************************)
(* src/Collection/actionlist.cc: the trace of an execution, a linked list  *)
(* in the order of the sequence numbers, with a radix tree over the bits   *)
(* of the sequence number that finds the place of an action that is added  *)
(* late (a store leaves its buffer with the number it got when it was      *)
(* issued, and all initial values have number 0).  A node of the list is   *)
(* named by its action.  A tree node is <<shift, high>>: its children are  *)
(* indexed by the ALLBITS bits from shift on, and high is what the bits    *)
(* above them spell.                                                       *)
(***************************************************************************)
EXTENDS Integers, FiniteSets, SequencesExt

CONSTANTS
    Actions,         \* positive integers; 0 is NULL
    Clock,           \* the sequence number of every action
    ALLBITS,         \* bits per level of the tree
    MODELCLOCKBITS   \* width of a sequence number, a multiple of ALLBITS

VARIABLES
    count,           \* the tree nodes there are, with their number of children
    leaf,            \* the action to which the tree leads for a sequence number
    next, prev,      \* the links of the list
    head, tail, size,
    order            \* history: the actions, stably sorted

vars == <<count, leaf, next, prev, head, tail, size, order>>

NULL == 0
ALLNODESIZE == 2 ^ ALLBITS
ALLMASK == ALLNODESIZE - 1
Root == <<MODELCLOCKBITS - ALLBITS, 0>>

\* modelclock_t arithmetic wraps.
Minus(index, d) == (index - d) % 2 ^ MODELCLOCKBITS

\* (index >> shift) & ALLMASK
Digit(index, shift) == (index \div 2 ^ shift) % ALLNODESIZE

Parent(ptr) == <<ptr[1] + ALLBITS, ptr[2] \div ALLNODESIZE>>
Child(ptr, d) == <<ptr[1] - ALLBITS, ptr[2] * ALLNODESIZE + d>>

\* children[d] != NULL, in a tree with the nodes of the function nodes.
HasChild(nodes, ptr, d) ==
    IF ptr[1] = 0 THEN Child(ptr, d)[2] \in DOMAIN leaf
    ELSE Child(ptr, d) \in DOMAIN nodes

\* The last action below ptr that is not beyond index.
RECURSIVE Descend(_, _, _)
Descend(nodes, ptr, index) ==
    LET d == Digit(index, ptr[1])
    IN  IF ~HasChild(nodes, ptr, d) THEN Descend(nodes, ptr, Minus(index, 2 ^ ptr[1]))
        ELSE IF ptr[1] = 0 THEN leaf[Child(ptr, d)[2]]
        ELSE Descend(nodes, Child(ptr, d), index)

\* Search to the left on one level; when the index went negative there, its
\* bits above have been decremented already and the search goes on above.
RECURSIVE Climb(_, _, _)
Climb(nodes, ptr, index) ==
    LET d == Digit(index, ptr[1])
    IN  IF d = ALLMASK
        THEN IF ptr = Root THEN NULL ELSE Climb(nodes, Parent(ptr), index)
        ELSE IF ~HasChild(nodes, ptr, d) THEN Climb(nodes, ptr, Minus(index, 2 ^ ptr[1]))
        ELSE IF ptr[1] = 0 THEN leaf[Child(ptr, d)[2]]
        ELSE Descend(nodes, Child(ptr, d), index)

findPrev(nodes, ptr, index) == Climb(nodes, ptr, Minus(index, 1))

\* The tree nodes that lead to a sequence number.
Path(clock) ==
    {<<shift, clock \div 2 ^ (shift + ALLBITS)>> :
        shift \in {ALLBITS * l : l \in 0 .. MODELCLOCKBITS \div ALLBITS - 1}}

\* The tree with the nodes of the path, and one child more where it is new.
WithPath(clock) ==
    [p \in DOMAIN count \union Path(clock) |->
        (IF p \in DOMAIN count THEN count[p] ELSE 0)
        + IF p \in Path(clock) /\ ~HasChild(count, p, Digit(clock, p[1])) THEN 1 ELSE 0]

\* Mutant of decrementCount: emptied nodes stay in the tree.
decrementLeafOnly(nodes, ptr) == [nodes EXCEPT ![ptr] = @ - 1]

RECURSIVE decrementCount(_, _)
decrementCount(nodes, ptr) ==
    IF nodes[ptr] = 1 /\ ptr # Root
    THEN decrementCount([p \in DOMAIN nodes \ {ptr} |-> nodes[p]], Parent(ptr))
    ELSE [nodes EXCEPT ![ptr] = @ - 1]

-----------------------------------------------------------------------------
Empty ==
    /\ count = (Root :> 0) /\ leaf = <<>> /\ next = <<>> /\ prev = <<>>
    /\ head = NULL /\ tail = NULL /\ size = 0
    /\ order = <<>>

Init == Empty

\* addAction: behind the last action of its number, else behind the last one
\* of a smaller number, else in front.
addAction(a) ==
    LET clock == Clock[a]
        before == IF clock \in DOMAIN leaf THEN leaf[clock]
                  ELSE findPrev(WithPath(clock), <<0, clock \div ALLNODESIZE>>, clock)
        after == IF before = NULL THEN head ELSE next[before]
    IN  /\ a \notin DOMAIN next
        /\ count' = WithPath(clock)
        /\ leaf' = (clock :> a) @@ leaf
        /\ next' = (a :> after) @@ (IF before = NULL THEN next ELSE [next EXCEPT ![before] = a])
        /\ prev' = (a :> before) @@ (IF after = NULL THEN prev ELSE [prev EXCEPT ![after] = a])
        /\ head' = IF before = NULL THEN a ELSE head
        /\ tail' = IF after = NULL THEN a ELSE tail
        /\ size' = size + 1
        /\ order' = SelectSeq(order, LAMBDA b : Clock[b] <= clock) \o <<a>>
                    \o SelectSeq(order, LAMBDA b : Clock[b] > clock)

\* The actions that removeAction looks at: from the one the tree leads to
\* back to the first of the same number.
RECURSIVE SameNumber(_, _)
SameNumber(a, clock) ==
    IF a = NULL \/ Clock[a] # clock THEN {} ELSE {a} \union SameNumber(prev[a], clock)

\* removeAction: an action that is not there is ignored.  The tree changes
\* only when the action was the last of its number.
removeAction(a) ==
    LET clock == Clock[a]
        p == prev[a]
        n == next[a]
    IN  IF clock \notin DOMAIN leaf \/ a \notin SameNumber(leaf[clock], clock)
        THEN UNCHANGED vars
        ELSE /\ next' = [b \in DOMAIN next \ {a} |-> IF b = p THEN n ELSE next[b]]
             /\ prev' = [b \in DOMAIN prev \ {a} |-> IF b = n THEN p ELSE prev[b]]
             /\ head' = IF p = NULL THEN n ELSE head
             /\ tail' = IF n = NULL THEN p ELSE tail
             /\ size' = size - 1
             /\ IF leaf[clock] # a
                THEN UNCHANGED <<count, leaf>>
                ELSE IF p # NULL /\ Clock[p] = clock
                THEN leaf' = [leaf EXCEPT ![clock] = p] /\ UNCHANGED count
                ELSE /\ leaf' = [c \in DOMAIN leaf \ {clock} |-> leaf[c]]
                     /\ count' = decrementCount(count, <<0, clock \div ALLNODESIZE>>)
             /\ order' = Remove(order, a)

\* clear and clearAndDeleteActions
clear ==
    /\ count' = (Root :> 0) /\ leaf' = <<>> /\ next' = <<>> /\ prev' = <<>>
    /\ head' = NULL /\ tail' = NULL /\ size' = 0
    /\ order' = <<>>

Next ==
    \/ \E a \in Actions : addAction(a)
    \/ \E a \in Actions : removeAction(a)
    \/ clear

Spec == Init /\ [][Next]_vars

-----------------------------------------------------------------------------
RECURSIVE Walk(_, _)
Walk(a, link) == IF a = NULL THEN <<>> ELSE <<a>> \o Walk(link[a], link)

\* However late actions come, the list is sorted by sequence number with
\* equal numbers in the order they were added, both ways; the tree leads to
\* the last action of every number, and has a node, with the right count,
\* exactly on the paths to the numbers in the list: findPrev, which never
\* looks at counts, would otherwise run past the last child of a node.
TraceIsSorted ==
    LET clocks == {Clock[a] : a \in Range(order)}
    IN  /\ Walk(head, next) = order
        /\ Walk(tail, prev) = Reverse(order)
        /\ size = Len(order)
        /\ \A i, j \in DOMAIN order : i < j => Clock[order[i]] <= Clock[order[j]]
        /\ DOMAIN leaf = clocks
        /\ \A i \in DOMAIN order :
             leaf[Clock[order[i]]] = order[i]
               <=> i = Len(order) \/ Clock[order[i + 1]] # Clock[order[i]]
        /\ DOMAIN count = {Root} \union UNION {Path(c) : c \in clocks}
        /\ \A p \in DOMAIN count :
             count[p] = Cardinality({d \in 0 .. ALLMASK : HasChild(count, p, d)})
=============================================================================
