-------------------------- MODULE PersistentMemory --------------------------
(***************************************************************************)
(* What outlives a crash: the persistent region with its allocator and its *)
(* table of files (libpmem.cc, vmem.cc), the checker's table of regions    *)
(* (model.cc) and the processes that run the executions (snapshot.cc).     *)
(* Every execution runs in a process forked from the snapshot; the region  *)
(* and the tables are in memory shared by these processes.                 *)
(*                                                                         *)
(* The allocator (Heap) hands out blocks of the region, as long as there   *)
(* are any.  The copy of a file's name is written with instrumented        *)
(* stores, between which other threads run and crashes happen.             *)
(***************************************************************************)
EXTENDS Integers, Sequences

CONSTANTS
    Paths, Threads,
    Region            \* the blocks the persistent region has room for, from 1 on

ASSUME FilesAssumption == Region \subseteq Nat \ {0}

VARIABLES
    used,             \* mallocSpace: the blocks handed out
    fileIDMap,        \* of the paths in it, number and block of the name's copy
    regionID,         \* regionID[i + 1] is the address of region i
    blocks,           \* the blocks the program may still release
    call,             \* call[t]: the call of thread t that is writing a name
    mIDToRollback,    \* set by the process that asks for another execution
    process,          \* "run", "exit" (its parent waits for it), "over"
    mapped            \* history: the address each path was given, see Forget

fileVars == <<used, fileIDMap, regionID, blocks, call, mIDToRollback, process, mapped>>

callVars == <<mIDToRollback, process>>

Null == 0
NoRollback == -1
Snapshot == 0
Idle == [path |-> "none"]

\* The page inside block b that pmdk_pagealigned_calloc returns.
PageIn(b) == -b
BlockOf(a) == IF a < 0 THEN -a ELSE a

\* mspace_malloc: the lowest free block, so that memory is reused at once.
Allocatable == {b \in Region \ used : \A c \in Region \ used : b =< c}

\* Mutant: numbers from 0 on, which stands for a path without a number.
RegionsSoFar == Len(regionID)

getNextRegionID == Len(regionID) + 1

getRegionFromID(id) == IF id >= Len(regionID) THEN Null ELSE regionID[id + 1]

setExpand(id, a) ==
    [i \in 1 .. (IF id >= Len(regionID) THEN id + 1 ELSE Len(regionID)) |->
        CASE i = id + 1 -> a [] i =< Len(regionID) /\ i # id + 1 -> regionID[i] [] OTHER -> Null]

\* fileIDMap->get: the number of a path, 0 where it has none.
idOf(p) == IF p \in DOMAIN fileIDMap THEN fileIDMap[p].id ELSE 0

\* fileIDMap->put: of a path that another call has put, only the number changes.
Put(p, id, key) ==
    [q \in DOMAIN fileIDMap \cup {p} |->
        IF q # p THEN fileIDMap[q]
        ELSE [id |-> id, key |-> IF idOf(p) = 0 THEN key ELSE fileIDMap[p].key]]

\* pmem_init, and the regions startExecution clears with it.
pmem_init ==
    /\ used' = {} /\ blocks' = {}
    /\ fileIDMap' = <<>> /\ regionID' = <<>> /\ mapped' = <<>>

FilesInit ==
    /\ used = {} /\ blocks = {}
    /\ fileIDMap = <<>> /\ regionID = <<>> /\ mapped = <<>>
    /\ call = [t \in Threads |-> Idle]
    /\ mIDToRollback = NoRollback
    /\ process = "run"

-----------------------------------------------------------------------------
\* Calls of the program.

Runs(t) == process = "run" /\ call[t] = Idle

\* A path that has no number yet gets the next one, and its name is copied into
\* the region with stores of the program; a is Null for pmem_map_file, which
\* allocates the file's memory later.
Enter(t, p, a) ==
    \E b \in Allocatable :
        /\ used' = used \cup {b}
        /\ call' = [u \in Threads |->
             IF u = t THEN [path |-> p, id |-> getNextRegionID, key |-> b, addr |-> a,
                            alone |-> \A v \in Threads : call[v] = Idle]
             ELSE IF call[u] = Idle THEN Idle ELSE [call[u] EXCEPT !.alone = FALSE]]

\* A path that has a number is given its region again, without any change.
pmem_map_file(t, p) ==
    /\ Runs(t) /\ idOf(p) = 0
    /\ Enter(t, p, Null)
    /\ UNCHANGED <<callVars, fileIDMap, regionID, blocks, mapped>>

\* A program registers memory it has allocated, and for one path only.
pmem_register_file(t, p, a) ==
    /\ Runs(t) /\ idOf(p) = 0
    /\ BlockOf(a) \in blocks
    /\ \A q \in DOMAIN mapped : BlockOf(mapped[q]) # BlockOf(a)
    /\ BlockOf(a) \notin {BlockOf(call[u].addr) : u \in {v \in Threads : call[v] # Idle}}
    /\ Enter(t, p, a)
    /\ UNCHANGED <<callVars, fileIDMap, regionID, blocks, mapped>>

\* The name is written: the path is entered, the memory allocated and its
\* address recorded without another thread running in between.
Entered(t, a) ==
    LET c == call[t] IN
    /\ fileIDMap' = Put(c.path, c.id, c.key)
    /\ regionID' = setExpand(c.id, a)
    /\ call' = [call EXCEPT ![t] = Idle]
    /\ mapped' = [q \in DOMAIN mapped \cup (IF c.alone THEN {c.path} ELSE {})
                    |-> IF q = c.path THEN a ELSE mapped[q]]

MapFileEnds(t) ==
    /\ process = "run" /\ call[t] # Idle /\ call[t].addr = Null
    /\ \E b \in Allocatable :
         /\ used' = used \cup {b}
         /\ blocks' = blocks \cup {b}
         /\ Entered(t, b)
    /\ UNCHANGED callVars

RegisterFileEnds(t) ==
    /\ process = "run" /\ call[t] # Idle /\ call[t].addr # Null
    /\ Entered(t, call[t].addr)
    /\ UNCHANGED <<callVars, used, blocks>>

pmdk_malloc(t) ==
    /\ Runs(t)
    /\ \E b \in Allocatable : used' = used \cup {b} /\ blocks' = blocks \cup {b}
    /\ UNCHANGED <<callVars, fileIDMap, regionID, call, mapped>>

\* malloc and calloc, memalign and posix_memalign of vmem.cc fill the block with
\* plain stores.
malloc(t) == pmdk_malloc(t)

memalign(t) == pmdk_malloc(t)

\* Block b is released.  Neither unmap nor free takes a path out of the tables:
\* what the program was told of those whose memory or name was in b, and of one
\* that is being entered with b, no longer holds.
Forget(b) ==
    /\ mapped' = [q \in {p \in DOMAIN mapped : b \notin {BlockOf(mapped[p]), fileIDMap[p].key}} |-> mapped[q]]
    /\ call' = [u \in Threads |->
         IF call[u] # Idle THEN [call[u] EXCEPT !.alone = @ /\ b \notin {call[u].key, BlockOf(call[u].addr)}]
         ELSE Idle]

Release(b) ==
    /\ used' = used \ {b} /\ blocks' = blocks \ {b}
    /\ Forget(b)
    /\ UNCHANGED process

\* mspace_free of the page inside a block, or of a free block, is an error that
\* aborts the process.
Abort ==
    /\ process' = "exit"
    /\ UNCHANGED <<used, blocks, mapped, call>>

\* The addresses the program has: of its blocks and of the paths it may map
\* again, to the address they had, whatever has become of that.
Known(a) == BlockOf(a) \in blocks \/ \E p \in DOMAIN fileIDMap : getRegionFromID(idOf(p)) = a

pmem_unmap(t, a) ==
    /\ Runs(t) /\ Known(a)
    /\ IF a \in used THEN Release(a) ELSE Abort
    /\ UNCHANGED <<fileIDMap, regionID, mIDToRollback>>

free(t, b) ==
    /\ Runs(t) /\ b \in blocks
    /\ Release(b)
    /\ UNCHANGED <<fileIDMap, regionID, mIDToRollback>>

\* The block grows where it is (nothing changes) or moves.
realloc(t, b) ==
    /\ Runs(t) /\ b \in blocks
    /\ \E c \in Allocatable :
         /\ used' = (used \ {b}) \cup {c}
         /\ blocks' = (blocks \ {b}) \cup {c}
    /\ Forget(b)
    /\ UNCHANGED <<callVars, fileIDMap, regionID>>

-----------------------------------------------------------------------------
\* Executions and their processes.

\* reset_to_initial_state: fork_roll_back leaves its mark in the shared memory
\* and ends the process.
RollBack ==
    /\ process = "run"
    /\ mIDToRollback' = Snapshot
    /\ process' = "exit"
    /\ call' = [t \in Threads |-> Idle]

\* The next execution finds the region and the tables as they are.
doCrash == RollBack /\ UNCHANGED <<used, fileIDMap, regionID, blocks, mapped>>

\* Another run follows: it begins with the first execution again, for which
\* startExecution calls pmem_init.
startExecution == RollBack /\ pmem_init

\* The search is over: the process ends without the mark.
SearchOver ==
    /\ process = "run"
    /\ process' = "exit"
    /\ UNCHANGED <<used, fileIDMap, regionID, blocks, call, mIDToRollback, mapped>>

\* fork_loop in the parent and, in the new child, the return of take_snapshot.
fork_loop ==
    /\ process = "exit" /\ mIDToRollback = Snapshot
    /\ process' = "run"
    /\ mIDToRollback' = NoRollback
    /\ UNCHANGED <<used, fileIDMap, regionID, blocks, call, mapped>>

\* Without the mark the parent ends too, and the shared memory with it.
LoopEnds ==
    /\ process = "exit" /\ mIDToRollback # Snapshot
    /\ process' = "over"
    /\ pmem_init
    /\ call' = [t \in Threads |-> Idle]
    /\ UNCHANGED mIDToRollback

FilesNext ==
    \/ \E t \in Threads :
         \/ \E p \in Paths : pmem_map_file(t, p)
         \/ \E p \in Paths, b \in blocks : \E a \in {b, PageIn(b)} : pmem_register_file(t, p, a)
         \/ MapFileEnds(t) \/ RegisterFileEnds(t)
         \/ pmdk_malloc(t) \/ malloc(t) \/ memalign(t)
         \/ \E b \in Region : \E a \in {b, PageIn(b)} : pmem_unmap(t, a)
         \/ \E b \in blocks : free(t, b) \/ realloc(t, b)
    \/ doCrash \/ startExecution \/ SearchOver \/ fork_loop \/ LoopEnds

FilesSpec == FilesInit /\ [][FilesNext]_fileVars

-----------------------------------------------------------------------------
\* A file whose call did not overlap with another one and whose
\* memory nobody released keeps, across crashes, its number, its memory and its name: mapping
\* it again returns the same address (Test/testpmdk.cc:25), and no other file
\* or block of the program shares its memory (pmem_map_file, setRegion).
FilesKeepTheirMemory ==
    \A p \in DOMAIN mapped :
        /\ idOf(p) # 0
        /\ getRegionFromID(idOf(p)) = mapped[p]
        /\ {BlockOf(mapped[p]), fileIDMap[p].key} \subseteq used
        /\ BlockOf(mapped[p]) # fileIDMap[p].key
        /\ fileIDMap[p].key \notin blocks
        /\ \A q \in DOMAIN mapped \ {p} :
             /\ fileIDMap[p].key \notin {fileIDMap[q].key, BlockOf(mapped[q])}
             /\ BlockOf(mapped[p]) # BlockOf(mapped[q])
=============================================================================
