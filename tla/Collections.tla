----------------------------- MODULE Collections -----------------------------
(***************************************************************************)
(* The collections that store buffers, write lists, node stacks and        *)
(* shadow tables are kept in, side by side: a hash table, a list and a     *)
(* vector (hashtable.h, stl-model.h).                                      *)
(***************************************************************************)
EXTENDS Integers, Sequences

CONSTANTS
    TableKeys, TableValues, TableHash, TableCapacity, TableLimit,
    ListNodes,
    VectorItems, VectorGarbage, VectorCapacity, VectorLimit

VARIABLES
    table, map,
    lNext, lPrev, lHead, lTail, lSize, lOrder,
    array, vSize, vOrder

tableVars == <<table, map>>
listVars == <<lNext, lPrev, lHead, lTail, lSize, lOrder>>
vectorVars == <<array, vSize, vOrder>>
collectionsVars == <<tableVars, listVars, vectorVars>>

Table == INSTANCE HashTable WITH
    Keys <- TableKeys, Values <- TableValues, Hash <- TableHash,
    InitialCapacity <- TableCapacity, MaxCapacity <- TableLimit

List == INSTANCE LinkedList WITH
    Nodes <- ListNodes, next <- lNext, prev <- lPrev, head <- lHead, tail <- lTail,
    size <- lSize, order <- lOrder

Vector == INSTANCE GrowVector WITH
    Items <- VectorItems, Garbage <- VectorGarbage, InitialCapacity <- VectorCapacity,
    MaxSize <- VectorLimit, size <- vSize, order <- vOrder

\* The null key has a node of its own.  From 4 bins on a table that holds one
\* entry more than half of them, before it is resized, has an empty bin.
ASSUME CollectionsAssumption ==
    /\ 0 \notin TableKeys /\ \A k \in TableKeys : TableHash[k] \in Nat
    /\ TableCapacity \in Nat /\ TableCapacity >= 4
    /\ ListNodes \subseteq Nat \ {0}
    /\ VectorCapacity \in Nat \ {0} /\ VectorLimit \in Nat

CollectionsInit == Table!Init /\ List!Init /\ Vector!Init

TableStep == Table!Next /\ UNCHANGED <<listVars, vectorVars>>
ListStep == List!Next /\ UNCHANGED <<tableVars, vectorVars>>
VectorStep == Vector!Next /\ UNCHANGED <<tableVars, listVars>>

CollectionsNext == TableStep \/ ListStep \/ VectorStep

CollectionsSpec == CollectionsInit /\ [][CollectionsNext]_collectionsVars

-----------------------------------------------------------------------------
\* A table answers as the dictionary does that the calls on it describe, after
\* any puts, removals and resizings (hashtable.h).
TableIsMap == Table!TableIsMap

\* Lists and vectors spell the sequences that the calls on them describe, after
\* insertions and removals anywhere and any growth (stl-model.h).
ListsAreSequences == List!ListIsSequence /\ Vector!VectorIsSequence
=============================================================================
