---------------------------- MODULE MCContainers ----------------------------
(***************************************************************************)
(* What lies below the checker, in one run: the collections, the           *)
(* allocator, the persistent memory library and the kernel threads.  which *)
(* says which of them is exercised, the others stay in their initial       *)
(* states.                                                                 *)
(***************************************************************************)
EXTENDS TLC, Collections, PmemCopy, PersistentMemory, HelperThread

CONSTANT Components

VARIABLES
    which,
    sTable, sNode, sList, sTail, sIt, sOrder, sSeen,
    tCount, tLeaf, tNext, tPrev, tHead, tTail, tSize, tOrder,
    heap, live

setVars == <<sTable, sNode, sList, sTail, sIt, sOrder, sSeen>>
traceVars == <<tCount, tLeaf, tNext, tPrev, tHead, tTail, tSize, tOrder>>
heapVars == <<heap, live>>
threadVars == <<vars, kernelVars>>

\* Keys 1 and 2 have the same hash and 0 is looked for at the same place; the
\* others follow on, past the end of the table.
MCHash == [k \in 0 .. 5 |-> <<0, 3, 3, 2, 7, 0>>[k + 1]]

\* Numbers 0 (initial values), neighbours, equal ones and some in other
\* subtrees.
MCClock == [a \in 1 .. 6 |-> <<0, 3, 3, 4, 6, 13>>[a]]

\* The content of a cell of a vector that was never written.
Unwritten == -1

Set == INSTANCE HashSet WITH
    Keys <- 0 .. 3, Nodes <- 1 .. 4, Hash <- MCHash, InitialCapacity <- 4,
    table <- sTable, node <- sNode, list <- sList, tail <- sTail, it <- sIt,
    order <- sOrder, seen <- sSeen

Trace == INSTANCE ActionList WITH
    Actions <- 1 .. 6, Clock <- MCClock, ALLBITS <- 1, MODELCLOCKBITS <- 4,
    count <- tCount, leaf <- tLeaf, next <- tNext, prev <- tPrev,
    head <- tHead, tail <- tTail, size <- tSize, order <- tOrder

Heap == INSTANCE Heap WITH
    Base <- 68, Size <- 24, Externs <- {TRUE, FALSE}, MStateSize <- 6, TREEBIN_SHIFT <- 3,
    Granularity <- 24, TrimThreshold <- 40, MmapBases <- {44, 92}, Requests <- {3, 13},
    Alignments <- {8}, MaxLive <- 3, MaxBesideAligned <- 0, MaxBesideResized <- 1

\* Two persistent lines and half a line of other memory; ranges that lie in one
\* line or cross the border, at even and odd places, and overlaps of both kinds.
PersistentPart == 0 .. 31
Destinations == {<<1, 3>>, <<1, 14>>, <<14, 3>>, <<8, 8>>, <<12, 14>>, <<33, 5>>}

\* Room for the names and the memory of two files.
FourBlocks == 1 .. 4

Symmetry == Permutations(Threads) \cup Permutations(Paths)

ContainersInit ==
    /\ which \in Components
    /\ CollectionsInit /\ Set!Init /\ Trace!Init
    /\ CopyInit /\ FilesInit /\ KernelInit
    /\ IF which = "heap" THEN Heap!Init ELSE heap = <<>> /\ live = <<>>

CollectionStep ==
    /\ \/ which = "table" /\ TableStep
       \/ which = "list" /\ ListStep
       \/ which = "vector" /\ VectorStep
    /\ UNCHANGED <<which, setVars, traceVars, heapVars, copyVars, fileVars, threadVars>>

SetStep ==
    /\ which = "set" /\ Set!Next
    /\ UNCHANGED <<which, collectionsVars, traceVars, heapVars, copyVars, fileVars, threadVars>>

TraceStep ==
    /\ which = "trace" /\ Trace!Next
    /\ UNCHANGED <<which, collectionsVars, setVars, heapVars, copyVars, fileVars, threadVars>>

HeapStep ==
    /\ which = "heap" /\ Heap!Next
    /\ UNCHANGED <<which, collectionsVars, setVars, traceVars, copyVars, fileVars, threadVars>>

CopyStep ==
    /\ which = "copy" /\ CopyNext
    /\ UNCHANGED <<which, collectionsVars, setVars, traceVars, heapVars, fileVars, threadVars>>

FileStep ==
    /\ which = "files" /\ FilesNext
    /\ UNCHANGED <<which, collectionsVars, setVars, traceVars, heapVars, copyVars, threadVars>>

KernelStep ==
    /\ which = "kernel" /\ KernelNext
    /\ UNCHANGED <<which, collectionsVars, setVars, traceVars, heapVars, copyVars, fileVars>>

ContainersNext ==
    \/ CollectionStep \/ SetStep \/ TraceStep \/ HeapStep
    \/ CopyStep \/ FileStep \/ KernelStep

containersVars ==
    <<which, collectionsVars, setVars, traceVars, heapVars, copyVars, fileVars,
      threadVars>>

ContainersSpec == ContainersInit /\ [][ContainersNext]_containersVars

\* The set of threads or objects met so far and the trace spell what the calls
\* on them describe (hashset.h, actionlist.cc).
SetIsOrdered == which = "set" => Set!SetIsOrdered
TraceIsSorted == which = "trace" => Trace!TraceIsSorted

\* The allocator's chunks, bins and blocks (malloc.c).
HeapIsTiled == which = "heap" => Heap!HeapIsTiled
BlocksAreKept == which = "heap" => Heap!BlocksAreKept
TreesFindBestFit == which = "heap" => Heap!TreesFindBestFit
=============================================================================
