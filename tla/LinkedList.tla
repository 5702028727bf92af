----------------------------- MODULE LinkedList -----------------------------
(***************************************************************************)
(* ModelList of src/Collection/stl-model.h (SnapList is the same class on  *)
(* the snapshotted heap): a doubly linked list with positions.  Store and  *)
(* flush buffers are SnapLists that are erased from the middle, write      *)
(* lists are ModelLists that are inserted into the middle.                 *)
(***************************************************************************)
EXTENDS Integers, SequencesExt

CONSTANTS Nodes      \* positive integers, the addresses of nodes; 0 is NULL

VARIABLES
    next, prev,      \* of the nodes allocated; a node stands for its value too
    head, tail, size,
    order            \* history: the list as a sequence

vars == <<next, prev, head, tail, size, order>>

NULL == 0

Init ==
    /\ next = <<>> /\ prev = <<>>
    /\ head = NULL /\ tail = NULL /\ size = 0
    /\ order = <<>>

\* A new node t between p and n; either may be NULL.
Link(t, p, n) ==
    /\ next' = [m \in DOMAIN next \cup {t} |-> IF m = t THEN n ELSE IF m = p THEN t ELSE next[m]]
    /\ prev' = [m \in DOMAIN prev \cup {t} |-> IF m = t THEN p ELSE IF m = n THEN t ELSE prev[m]]
    /\ size' = size + 1

\* The node t is taken out and deleted.
Unlink(t) ==
    /\ next' = [m \in DOMAIN next \ {t} |-> IF m = prev[t] THEN next[t] ELSE next[m]]
    /\ prev' = [m \in DOMAIN prev \ {t} |-> IF m = next[t] THEN prev[t] ELSE prev[m]]
    /\ size' = size - 1

Place(t) == CHOOSE i \in DOMAIN order : order[i] = t

push_front(t) ==
    /\ Link(t, NULL, head)
    /\ head' = t
    /\ tail' = IF head = NULL THEN t ELSE tail
    /\ order' = <<t>> \o order

\* push_back and add_back
push_back(t) ==
    /\ Link(t, tail, NULL)
    /\ tail' = t
    /\ head' = IF tail = NULL THEN t ELSE head
    /\ order' = Append(order, t)

pop_front ==
    /\ head # NULL
    /\ Unlink(head)
    /\ head' = next[head]
    /\ tail' = IF next[head] = NULL THEN NULL ELSE tail
    /\ order' = Tail(order)

pop_back ==
    /\ tail # NULL
    /\ Unlink(tail)
    /\ tail' = prev[tail]
    /\ head' = IF prev[tail] = NULL THEN NULL ELSE head
    /\ order' = Front(order)

insertAfter(m, t) ==
    /\ Link(t, m, next[m])
    /\ tail' = IF next[m] = NULL THEN t ELSE tail
    /\ UNCHANGED head
    /\ order' = InsertAt(order, Place(m) + 1, t)

insertBefore(m, t) ==
    /\ Link(t, prev[m], m)
    /\ head' = IF prev[m] = NULL THEN t ELSE head
    /\ UNCHANGED tail
    /\ order' = InsertAt(order, Place(m), t)

erase(m) ==
    /\ Unlink(m)
    /\ head' = IF head = m THEN next[m] ELSE head
    /\ tail' = IF tail = m THEN prev[m] ELSE tail
    /\ order' = RemoveAt(order, Place(m))

clear ==
    /\ next' = <<>> /\ prev' = <<>>
    /\ head' = NULL /\ tail' = NULL /\ size' = 0
    /\ order' = <<>>

Next ==
    \/ \E t \in Nodes \ DOMAIN next :
         \/ push_front(t)
         \/ push_back(t)
         \/ \E m \in DOMAIN next : insertAfter(m, t) \/ insertBefore(m, t)
    \/ pop_front \/ pop_back
    \/ \E m \in DOMAIN next : erase(m)
    \/ clear

Spec == Init /\ [][Next]_vars

-----------------------------------------------------------------------------
\* From node m on the link leads through the nodes of s, and ends.
Spells(m, link, s) ==
    /\ m = IF s = <<>> THEN NULL ELSE s[1]
    /\ \A i \in DOMAIN s : link[s[i]] = IF i < Len(s) THEN s[i + 1] ELSE NULL

\* Followed either way the links spell the sequence that the calls describe,
\* also after an erase at an end or of the only node.
ListIsSequence ==
    /\ Spells(head, next, order)
    /\ Spells(tail, prev, Reverse(order))
    /\ size = Len(order) /\ DOMAIN next = Range(order)
=============================================================================
