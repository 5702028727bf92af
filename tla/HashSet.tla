------------------------------ MODULE HashSet ------------------------------
(***************************************************************************)
(* src/Collection/hashset.h: a hash table from keys to the nodes of a      *)
(* doubly linked list in insertion order, and its iterator.  The iterator  *)
(* moves on before it hands out a key, so that the key can be removed.     *)
(***************************************************************************)
EXTENDS Integers, FiniteSets, SequencesExt

CONSTANTS
    Keys,            \* the keys that are added; they may include 0
    Hash, InitialCapacity,
    Nodes            \* addresses of list nodes; 0 is NULL

VARIABLES
    table, node, list, tail,
    it,              \* the iterator, <<curr, last>>, or <<>> when there is none
    order,           \* history: the keys in the order of their insertion
    seen             \* history: the keys of the set that the iterator has returned

vars == <<table, node, list, tail, it, order, seen>>

\* The table of the set, whose values are nodes.
Table == INSTANCE HashTable WITH
    Keys <- Keys \ {0}, Values <- Nodes, MaxCapacity <- 1024, map <- <<>>

NULL == 0

Init ==
    /\ table = Table!NewTable(InitialCapacity)
    /\ node = <<>> /\ list = NULL /\ tail = NULL
    /\ it = <<>> /\ order = <<>> /\ seen = <<>>

\* add, of a key that is not there: a node n from malloc goes to the tail.
Add(k, n) ==
    /\ Table!get(table, k) = NULL
    /\ node' = [m \in DOMAIN node \union {n} |->
                  IF m = n THEN [key |-> k, prev |-> tail, next |-> NULL]
                  ELSE IF m = tail THEN [node[m] EXCEPT !.next = n] ELSE node[m]]
    /\ list' = IF tail = NULL THEN n ELSE list
    /\ tail' = n
    /\ table' = Table!put(table, k, n)
    /\ order' = Append(order, k)
    /\ UNCHANGED <<it, seen>>

\* The list without the node n.
Unlinked(n) ==
    LET p == node[n].prev
        q == node[n].next
    IN  [m \in DOMAIN node \ {n} |->
           [node[m] EXCEPT !.next = IF m = p THEN q ELSE @,
                           !.prev = IF m = q THEN p ELSE @]]

\* remove, of a key that is there; its node is freed.
RemoveKey(k) ==
    LET n == Table!get(table, k)
    IN  /\ n # NULL
        /\ table' = Table!remove(table, k)
        /\ node' = Unlinked(n)
        /\ list' = IF node[n].prev = NULL THEN node[n].next ELSE list
        /\ tail' = IF node[n].next = NULL THEN node[n].prev ELSE tail
        /\ order' = Remove(order, k)
        /\ seen' = Remove(seen, k)

\* Mutant of RemoveOutside: the tail is not moved when the last key goes.
RemoveOutsideKeepsTail(k) ==
    /\ it = <<>>
    /\ LET n == Table!get(table, k)
       IN  /\ n # NULL
           /\ table' = Table!remove(table, k)
           /\ node' = Unlinked(n)
           /\ list' = IF node[n].prev = NULL THEN node[n].next ELSE list
           /\ order' = Remove(order, k)
    /\ UNCHANGED <<tail, it, seen>>

\* Nothing in src/ removes keys of a set behind an iterator's back.
RemoveOutside(k) == it = <<>> /\ RemoveKey(k) /\ UNCHANGED it

Iterate ==
    /\ it = <<>>
    /\ it' = <<list, NULL>>
    /\ seen' = <<>>
    /\ UNCHANGED <<table, node, list, tail, order>>

IterNext ==
    /\ it # <<>> /\ it[1] # NULL
    /\ it' = <<node[it[1]].next, it[1]>>
    /\ seen' = Append(seen, node[it[1]].key)
    /\ UNCHANGED <<table, node, list, tail, order>>

\* The iterator's remove, called at most once for each key it returned.
IterRemove ==
    /\ it # <<>> /\ it[2] # NULL
    /\ RemoveKey(node[it[2]].key)
    /\ it' = <<it[1], NULL>>

IterEnd ==
    /\ it # <<>> /\ it[1] = NULL
    /\ it' = <<>> /\ seen' = <<>>
    /\ UNCHANGED <<table, node, list, tail, order>>

Reset ==
    /\ it = <<>>
    /\ table' = Table!reset(table)
    /\ node' = <<>> /\ list' = NULL /\ tail' = NULL /\ order' = <<>>
    /\ UNCHANGED <<it, seen>>

Next ==
    \/ \E k \in Keys, n \in Nodes \ DOMAIN node : Add(k, n)
    \/ \E k \in Keys : RemoveOutside(k)
    \/ Iterate \/ IterNext \/ IterRemove \/ IterEnd
    \/ Reset

Spec == Init /\ [][Next]_vars

-----------------------------------------------------------------------------
\* The keys from node n on, following one of the links.
RECURSIVE Walk(_, _)
Walk(n, link) ==
    IF n \notin DOMAIN node THEN <<>>
    ELSE <<node[n].key>> \o Walk(IF link = "next" THEN node[n].next ELSE node[n].prev, link)

\* The list holds the keys in the order of insertion, both ways, the table
\* leads from every key to its own node, and an iteration that removes keys
\* as it goes and meets keys added behind it still has ahead of it exactly
\* the keys it has not returned.
SetIsOrdered ==
    /\ {list, tail} \ {NULL} \subseteq DOMAIN node
    /\ Walk(list, "next") = order
    /\ Walk(tail, "prev") = Reverse(order)
    /\ Cardinality(DOMAIN node) = Len(order)
    /\ table.size = Len(order)
    /\ \A k \in Keys :
         IF k \in Range(order) THEN node[Table!get(table, k)].key = k
         ELSE Table!get(table, k) = NULL
    /\ it # <<>> /\ it[1] # NULL => order = seen \o Walk(it[1], "next")
=============================================================================
