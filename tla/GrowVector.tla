----------------------------- MODULE GrowVector -----------------------------
(***************************************************************************)
(* SnapVector of src/Collection/stl-model.h (ModelVector is the same class *)
(* on the other heap, without remove).  A realloc brings cells of unknown  *)
(* content, and pop_back, clear and a smaller resize leave old content     *)
(* behind size; both are Garbage here, so that no one may rely on them.    *)
(***************************************************************************)
EXTENDS Integers, SequencesExt

CONSTANTS
    Items,           \* what is stored; 0 is the content of zeroed cells
    Garbage,         \* the content of cells that were never written
    InitialCapacity, \* positive
    MaxSize          \* bound on the size explored

VARIABLES
    array,           \* all cells, as a sequence
    size,
    order            \* history: the vector as a sequence

vars == <<array, size, order>>

capacity == Len(array)

\* Cells from index n on hold nothing that may be read.
Forget(a, n) == [i \in DOMAIN a |-> IF i > n THEN Garbage ELSE a[i]]

realloc(a, n) == [i \in 1 .. n |-> IF i <= Len(a) THEN a[i] ELSE Garbage]

\* resize: shrinking only moves the end, growing beyond the capacity takes
\* twice the room asked for, and the new cells are zeroed.
resized(a, n, psize) ==
    IF psize <= n THEN a
    ELSE LET b == IF psize > Len(a) THEN realloc(a, 2 * psize) ELSE a
         IN  [i \in DOMAIN b |-> IF i > n /\ i <= psize THEN 0 ELSE b[i]]

Init ==
    /\ array = [i \in 1 .. InitialCapacity |-> Garbage]
    /\ size = 0
    /\ order = <<>>

Settle(a, n) == array' = Forget(a, n) /\ size' = n

push_back(v) ==
    LET a == IF size >= capacity THEN realloc(array, 2 * capacity) ELSE array
    IN  /\ Settle([a EXCEPT ![size + 1] = v], size + 1)
        /\ order' = Append(order, v)

pop_back ==
    /\ size > 0
    /\ Settle(array, size - 1)
    /\ order' = Front(order)

resize(psize) ==
    /\ Settle(resized(array, size, psize), psize)
    /\ order' = [i \in 1 .. psize |-> IF i <= Len(order) THEN order[i] ELSE 0]

\* setExpand, and set when the index is within the vector; indices from 0.
setExpand(index, v) ==
    LET n == IF index >= size THEN index + 1 ELSE size
    IN  /\ Settle([resized(array, size, n) EXCEPT ![index + 1] = v], n)
        /\ order' = [i \in 1 .. n |-> IF i = index + 1 THEN v
                                      ELSE IF i <= Len(order) THEN order[i] ELSE 0]

\* insertAt: the cells from the end down to the index move up by one.
insertAt(index, v) ==
    LET a == resized(array, size, size + 1)
    IN  /\ index <= size
        /\ Settle([i \in DOMAIN a |-> IF i = index + 1 THEN v
                                      ELSE IF i > index + 1 /\ i <= size + 1
                                      THEN a[i - 1] ELSE a[i]], size + 1)
        /\ order' = InsertAt(order, index + 1, v)

\* Mutant of removedAt: moves the cells up to the one before the last.
removedShort(index) ==
    [i \in DOMAIN array |-> IF i > index /\ i + 1 < size THEN array[i + 1] ELSE array[i]]

\* removeAt: the cells behind the index move down by one.
removedAt(index) ==
    [i \in DOMAIN array |-> IF i > index /\ i < size THEN array[i + 1] ELSE array[i]]

removeAt(index) ==
    /\ index < size
    /\ Settle(removedAt(index), size - 1)
    /\ order' = RemoveAt(order, index + 1)

\* remove: the first cell with this content, if there is one.
remove(v) ==
    LET found == {i \in 1 .. size : array[i] = v}
    IN  IF found = {} THEN UNCHANGED vars
        ELSE /\ Settle(removedAt(Min(found) - 1), size - 1)
             /\ order' = RemoveAt(order, Min({i \in DOMAIN order : order[i] = v}))

clear == Settle(array, 0) /\ order' = <<>>

Next ==
    \/ \E v \in Items : size < MaxSize /\ push_back(v)
    \/ pop_back
    \/ \E n \in 0 .. MaxSize : resize(n)
    \/ \E i \in 0 .. MaxSize - 1, v \in Items : setExpand(i, v)
    \/ \E i \in 0 .. MaxSize - 1, v \in Items : size < MaxSize /\ insertAt(i, v)
    \/ \E i \in 0 .. MaxSize - 1 : removeAt(i)
    \/ \E v \in Items : remove(v)
    \/ clear

Spec == Init /\ [][Next]_vars

-----------------------------------------------------------------------------
\* The first size cells are the sequence that the calls describe, so no cell
\* is lost when the array is moved and none is read that was never written,
\* and the vector stays within its array.
VectorIsSequence ==
    /\ size <= capacity
    /\ SubSeq(array, 1, size) = order
=============================================================================
