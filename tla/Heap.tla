------------------------------- MODULE Heap -------------------------------
(***************************************************************************)
(* The allocator of src/Memory/malloc.c as the checker builds it (mspaces  *)
(* only, no footers, no locks, 8-byte alignment).  Three spaces are made   *)
(* with it: the checker's own heap, shared by the forked executions, the   *)
(* snapshotted heap and the persistent memory of the program under test.   *)
(*                                                                         *)
(* The unit is the word.  A chunk at p has the foot of its predecessor in  *)
(* word p, its head in word p + 1 and its payload from word p + 2 to the   *)
(* foot word of its successor.  A head that no chunk begins with any more  *)
(* is payload and is dropped; so is a foot behind a chunk in use.          *)
(* A space is the record h: chunk heads, top, dv, small bins, tree bins    *)
(* and segments.  The bit maps of the bins say which are not empty.        *)
(* A tree bin is a function from the path to a node (its turns, 0 or 1)    *)
(* to the ring of chunks of that node's size, the one in the tree first.   *)
(***************************************************************************)
EXTENDS Integers, FiniteSets, SequencesExt

CONSTANTS
    Base, Size,      \* the first segment of a space
    Externs,         \* whether it may be the caller's (TRUE) or mapped (FALSE)
    MStateSize,      \* words of the space's own record, at the start of it
    TREEBIN_SHIFT,   \* chunks of 2 ^ TREEBIN_SHIFT words are large
    Granularity,     \* of the segments requested from the system
    TrimThreshold,   \* topmost free memory beyond which segments are trimmed
    MmapBases,       \* where the system may place a segment; a request may fail
    Requests,        \* sizes asked for, below the threshold of direct mmap
    Alignments,      \* asked of memalign, powers of two
    MaxLive,         \* bound on the blocks allocated at a time
    MaxBesideAligned, \* bound on the blocks allocated when memalign is called
    MaxBesideResized \* bound on the other blocks allocated when realloc is called

VARIABLES
    heap,            \* the space
    live             \* history: the request for each block, by its chunk

vars == <<heap, live>>

NULL == 0
Failed == -1
MIN_CHUNK_SIZE == 4
CHUNK_OVERHEAD == 1
SegmentSize == 5     \* a segment record, padded
TOP_FOOT_SIZE == SegmentSize + MIN_CHUNK_SIZE
MAX_SIZE_T == 2 ^ 16 - 1

\* Mutant of request2size: forgets the head of the chunk.
request2payload(req) == IF req < MIN_CHUNK_SIZE THEN MIN_CHUNK_SIZE ELSE req

request2size(req) == IF req + CHUNK_OVERHEAD < MIN_CHUNK_SIZE
                     THEN MIN_CHUNK_SIZE ELSE req + CHUNK_OVERHEAD

granularity_align(s) == ((s + Granularity - 1) \div Granularity) * Granularity

Minus(a, b) == (a - b) % (MAX_SIZE_T + 1)     \* size_t arithmetic wraps

-----------------------------------------------------------------------------
(* Heads and feet. *)

NoHead == [size |-> 0, cinuse |-> FALSE, pinuse |-> FALSE, foot |-> 0]
HeadOf(h, p) == IF p \in DOMAIN h.chunk THEN h.chunk[p] ELSE NoHead
WithHead(h, p, head) == [h EXCEPT !.chunk = (p :> head) @@ @]
chunksize(h, p) == h.chunk[p].size

\* The bit that tells p whether its predecessor is in use, and then holds
\* part of its payload in p's foot word.
SetPinuse(h, p, b) ==
    WithHead(h, p, [HeadOf(h, p) EXCEPT !.pinuse = b, !.foot = IF b THEN 0 ELSE @])

set_size_and_pinuse_of_inuse_chunk(h, p, s) ==
    WithHead(h, p, [size |-> s, cinuse |-> TRUE, pinuse |-> TRUE, foot |-> 0])

set_inuse_and_pinuse(h, p, s) ==
    SetPinuse(set_size_and_pinuse_of_inuse_chunk(h, p, s), p + s, TRUE)

set_inuse(h, p, s) ==
    SetPinuse(WithHead(h, p, [HeadOf(h, p) EXCEPT !.size = s, !.cinuse = TRUE]), p + s, TRUE)

set_size_and_pinuse_of_free_chunk(h, p, s) ==
    WithHead(WithHead(h, p + s, [HeadOf(h, p + s) EXCEPT !.foot = s]),
             p, [size |-> s, cinuse |-> FALSE, pinuse |-> TRUE, foot |-> 0])

set_free_with_pinuse(h, p, s, n) ==
    set_size_and_pinuse_of_free_chunk(SetPinuse(h, n, FALSE), p, s)

\* Chunk p has become part of its predecessor.
Absorb(h, p) == [h EXCEPT !.chunk = [q \in DOMAIN @ \ {p} |-> @[q]]]

\* The topmost chunk: its successor is a head that stands for the room at
\* the end of the segment, and no foot is kept.
SetTop(h, p, s) ==
    [WithHead(h, p, [size |-> s, cinuse |-> FALSE, pinuse |-> TRUE, foot |-> 0])
        EXCEPT !.top = p, !.topsize = s]

init_top(h, p, s) ==
    [WithHead(SetTop(h, p, s), p + s, [NoHead EXCEPT !.size = TOP_FOOT_SIZE])
        EXCEPT !.trim_check = TrimThreshold]

-----------------------------------------------------------------------------
(* Bins. *)

is_small(s) == s < 2 ^ TREEBIN_SHIFT

insert_small_chunk(h, p, s) == [h EXCEPT !.small[s] = <<p>> \o @]

unlink_small_chunk(h, p, s) == [h EXCEPT !.small[s] = Remove(@, p)]

\* Two bins for each power of two.
compute_tree_index(s) ==
    LET x == s \div 2 ^ TREEBIN_SHIFT
        k == CHOOSE j \in 0 .. x : 2 ^ j <= x /\ x < 2 ^ (j + 1)
    IN  IF x = 0 THEN 0 ELSE 2 * k + ((s \div 2 ^ (k + TREEBIN_SHIFT - 1)) % 2)

\* The bit of a size that chooses the child of a node at a depth of bin i.
Turn(s, i, depth) ==
    LET bit == i \div 2 + TREEBIN_SHIFT - 2 - depth
    IN  IF bit < 0 THEN 0 ELSE (s \div 2 ^ bit) % 2

Way(s, i, depth) == [d \in 1 .. depth |-> Turn(s, i, d - 1)]

\* A chunk goes to the first free place on its way, or behind the first
\* chunk of its size.
insert_large_chunk(h, x, s) ==
    LET i == compute_tree_index(s)
        T == h.tree[i]
        depth == CHOOSE d \in 0 .. TREEBIN_SHIFT + i :
                   /\ \/ Way(s, i, d) \notin DOMAIN T
                      \/ chunksize(h, T[Way(s, i, d)][1]) = s
                   /\ \A e \in 0 .. d - 1 : /\ Way(s, i, e) \in DOMAIN T
                                            /\ chunksize(h, T[Way(s, i, e)][1]) # s
        path == Way(s, i, depth)
        ring == IF path \in DOMAIN T THEN <<T[path][1], x>> \o Tail(T[path]) ELSE <<x>>
    IN  [h EXCEPT !.tree[i] = (path :> ring) @@ T]

Child(path, b) == Append(path, b)

\* The leaf found by turning right wherever possible.
RECURSIVE Rightmost(_, _)
Rightmost(T, path) ==
    IF Child(path, 1) \in DOMAIN T THEN Rightmost(T, Child(path, 1))
    ELSE IF Child(path, 0) \in DOMAIN T THEN Rightmost(T, Child(path, 0))
    ELSE path

\* Mutant of unlink_large_chunk: the tail of the ring takes the place of x,
\* and a node with children but no ring is dropped with them.
unlink_without_leaf(h, x, s) ==
    LET i == compute_tree_index(s)
        T == h.tree[i]
        path == CHOOSE p \in DOMAIN T : x \in Range(T[p])
        ring == Remove(T[path], x)
        U == IF ring # <<>> THEN [T EXCEPT ![path] = ring]
             ELSE [p \in {q \in DOMAIN T : ~IsPrefix(path, q)} |-> T[p]]
    IN  [h EXCEPT !.tree[i] = U]

\* The next of the ring, else a leaf from below, takes the place of x.
unlink_large_chunk(h, x, s) ==
    LET i == compute_tree_index(s)
        T == h.tree[i]
        path == CHOOSE p \in DOMAIN T : x \in Range(T[p])
        ring == T[path]
        leaf == Rightmost(T, path)
        U == IF x # ring[1] THEN [T EXCEPT ![path] = Remove(@, x)]
             ELSE IF Len(ring) > 1
             THEN [T EXCEPT ![path] = <<Last(ring)>> \o SubSeq(ring, 2, Len(ring) - 1)]
             ELSE [p \in DOMAIN T \ {leaf} |-> IF p = path THEN T[leaf] ELSE T[p]]
    IN  [h EXCEPT !.tree[i] = U]

insert_chunk(h, p, s) ==
    IF is_small(s) THEN insert_small_chunk(h, p, s) ELSE insert_large_chunk(h, p, s)

unlink_chunk(h, p, s) ==
    IF is_small(s) THEN unlink_small_chunk(h, p, s) ELSE unlink_large_chunk(h, p, s)

SetDv(h, p, s) == [h EXCEPT !.dv = p, !.dvsize = s]

replace_dv(h, p, s) ==
    SetDv(IF h.dvsize # 0 THEN insert_small_chunk(h, h.dv, h.dvsize) ELSE h, p, s)

-----------------------------------------------------------------------------
(* Finding room in the trees.  A candidate is <<chunk, remainder>>. *)

LargestTree == compute_tree_index(4 * Size)

NonEmptyTrees(h) == {i \in DOMAIN h.tree : h.tree[i] # <<>>}

Better(h, T, path, nb, v) ==
    LET rem == Minus(chunksize(h, T[path][1]), nb)
    IN  IF rem < v[2] THEN <<T[path][1], rem>> ELSE v

\* The smallest chunk of a subtree lies on the way that turns left wherever
\* possible.
RECURSIVE Leftmost(_, _, _, _, _)
Leftmost(h, T, path, nb, v) ==
    LET w == Better(h, T, path, nb, v)
    IN  IF Child(path, 0) \in DOMAIN T THEN Leftmost(h, T, Child(path, 0), nb, w)
        ELSE IF Child(path, 1) \in DOMAIN T THEN Leftmost(h, T, Child(path, 1), nb, w)
        ELSE w

\* Mutant of SearchBin: the right subtrees are not remembered.
RECURSIVE SearchWayOnly(_, _, _, _, _, _, _)
SearchWayOnly(h, T, i, path, nb, v, rst) ==
    LET w == Better(h, T, path, nb, v)
        turn == Child(path, Turn(nb, i, Len(path)))
    IN  IF w[2] = 0 \/ turn \notin DOMAIN T THEN w
        ELSE SearchWayOnly(h, T, i, turn, nb, w, rst)

\* Down the way of nb in its own bin; rst is the deepest right subtree not
\* taken, which holds the least sizes above nb.
RECURSIVE SearchBin(_, _, _, _, _, _, _)
SearchBin(h, T, i, path, nb, v, rst) ==
    LET w == Better(h, T, path, nb, v)
        turn == Child(path, Turn(nb, i, Len(path)))
        right == Child(path, 1)
        rst1 == IF right \in DOMAIN T /\ right # turn THEN <<right>> ELSE rst
    IN  IF w[2] = 0 \/ (turn \notin DOMAIN T /\ rst1 = <<>>) THEN w
        ELSE IF turn \notin DOMAIN T THEN Leftmost(h, T, rst1[1], nb, w)
        ELSE SearchBin(h, T, i, turn, nb, w, rst1)

\* The candidate of tmalloc_large: from the bin of nb, else from the next one.
BestLarge(h, nb) ==
    LET i == compute_tree_index(nb)
        none == <<NULL, Minus(0, nb)>>
        own == IF h.tree[i] = <<>> THEN none
               ELSE SearchBin(h, h.tree[i], i, <<>>, nb, none, <<>>)
        later == {j \in NonEmptyTrees(h) : j > i}
    IN  IF own[1] # NULL \/ later = {} THEN own
        ELSE Leftmost(h, h.tree[Min(later)], <<>>, nb, none)

\* The candidate of tmalloc_small: the smallest chunk of all trees.
BestSmall(h, nb) ==
    LET T == h.tree[Min(NonEmptyTrees(h))]
    IN  Leftmost(h, T, <<>>, nb, <<NULL, MAX_SIZE_T>>)

-----------------------------------------------------------------------------
(* Giving back.  Free neighbours are merged; the result says where the     *)
(* merged chunk is, and whether it is still to go into a bin.              *)

Coalesced(h, p, psize, binned) == [h |-> h, p |-> p, size |-> psize, binned |-> binned]

MergeForward(h, p, psize) ==
    LET next == p + psize
        g == Absorb(h, next)
        n == h.chunk[next]
    IN  IF n.cinuse THEN Coalesced(set_free_with_pinuse(h, p, psize, next), p, psize, TRUE)
        ELSE IF next = h.top
        THEN LET g1 == SetTop(g, p, h.topsize + psize)
             IN  Coalesced(IF p = h.dv THEN SetDv(g1, NULL, 0) ELSE g1, p, g1.topsize, FALSE)
        ELSE IF next = h.dv
        THEN LET s == h.dvsize + psize
             IN  Coalesced(set_size_and_pinuse_of_free_chunk(SetDv(g, p, s), p, s), p, s, FALSE)
        ELSE LET s == psize + n.size
                 g1 == set_size_and_pinuse_of_free_chunk(
                         Absorb(unlink_chunk(h, next, n.size), next), p, s)
             IN  IF p = h.dv THEN Coalesced(SetDv(g1, p, s), p, s, FALSE)
                 ELSE Coalesced(g1, p, s, TRUE)

Merge(h, p, psize) ==
    LET foot == h.chunk[p].foot
        prev == p - foot
        next == p + psize
        g == Absorb(h, p)
    IN  IF h.chunk[p].pinuse THEN MergeForward(h, p, psize)
        ELSE IF prev # h.dv
        THEN MergeForward(Absorb(unlink_chunk(h, prev, foot), p), prev, psize + foot)
        ELSE IF h.chunk[next].cinuse /\ h.chunk[next].pinuse
        THEN Coalesced(set_free_with_pinuse(SetDv(g, prev, psize + foot),
                                            prev, psize + foot, next),
                       prev, psize + foot, FALSE)
        ELSE MergeForward(g, prev, psize + foot)

Binned(c) == IF c.binned THEN insert_chunk(c.h, c.p, c.size) ELSE c.h

dispose_chunk(h, p, psize) == Binned(Merge(h, p, psize))

-----------------------------------------------------------------------------
(* Taking.  The result of a request is the space and the chunk, or NULL. *)

Got(h, p) == [h |-> h, p |-> p]

\* nb words from the front of the chunk p of nb + rem words, which is in no
\* bin; the remainder goes to Keep, or stays when too small for a chunk.
Split(h, p, nb, rem, Keep(_, _, _)) ==
    IF rem < MIN_CHUNK_SIZE THEN Got(set_inuse_and_pinuse(h, p, nb + rem), p)
    ELSE Got(Keep(set_size_and_pinuse_of_free_chunk(
                     set_size_and_pinuse_of_inuse_chunk(h, p, nb), p + nb, rem),
                  p + nb, rem), p)

UseDv(h, nb) ==
    Split(SetDv(h, NULL, 0), h.dv, nb, h.dvsize - nb, SetDv)

\* The remainder of top stays top, however small.
UseTop(h, nb) ==
    Got(set_size_and_pinuse_of_inuse_chunk(SetTop(h, h.top + nb, h.topsize - nb), h.top, nb),
        h.top)

\* The same for a candidate of the trees.
SplitBest(h, v, nb, Keep(_, _, _)) ==
    Split(unlink_large_chunk(h, v[1], v[2] + nb), v[1], nb, v[2], Keep)

tmalloc_small(h, nb) == SplitBest(h, BestSmall(h, nb), nb, replace_dv)

\* None when dv fits better.
UnlessDv(h, v, nb) == IF v[2] < Minus(h.dvsize, nb) THEN v ELSE <<NULL, v[2]>>

tmalloc_large(h, nb) ==
    LET Take(v) == IF v[1] = NULL THEN Got(h, NULL) ELSE SplitBest(h, v, nb, insert_chunk)
    IN  Take(UnlessDv(h, BestLarge(h, nb), nb))

NonEmptyBins(h, least) == {i \in DOMAIN h.small : i >= least /\ h.small[i] # <<>>}

UseSmallBin(h, i, nb) ==
    LET p == h.small[i][1]
    IN  Split(unlink_small_chunk(h, p, i), p, nb, i - nb, replace_dv)

(* Memory from the system. *)

SegmentAt(h, a) ==
    CHOOSE i \in DOMAIN h.segs : h.segs[i].base <= a /\ a < h.segs[i].base + h.segs[i].size

\* The old top becomes a chunk for the old segment record, three fenceposts
\* and, when it was large enough, a free chunk.
Fences(h, p, old_end) ==
    FoldLeft(LAMBDA g, a : WithHead(g, a, [size |-> 1, cinuse |-> TRUE, pinuse |-> TRUE, foot |-> 0]),
             h, [n \in 1 .. old_end - p - 1 |-> p + n - 1])

add_segment(h, tbase, tsize) ==
    LET old_top == h.top
        seg == h.segs[SegmentAt(h, old_top)]
        old_end == seg.base + seg.size
        asp == old_end - TOP_FOOT_SIZE
        csp == IF asp < old_top + MIN_CHUNK_SIZE THEN old_top ELSE asp
        g1 == init_top(h, tbase, tsize - TOP_FOOT_SIZE)
        g2 == [set_size_and_pinuse_of_inuse_chunk(g1, csp, SegmentSize) EXCEPT
                 !.segs = <<[base |-> tbase, size |-> tsize, extern |-> FALSE, at |-> h.segs[1].at],
                            [h.segs[1] EXCEPT !.at = csp]>> \o Tail(h.segs)]
        \* when the record takes the place of the whole old top, the head of
        \* the room at the end is overwritten
        g3 == Fences(IF csp = asp THEN g2 ELSE Absorb(g2, asp), csp + SegmentSize, old_end)
    IN  IF csp = old_top THEN g3
        ELSE insert_chunk(set_free_with_pinuse(g3, old_top, csp - old_top, csp),
                          old_top, csp - old_top)

\* The new region ends where a segment begins: what is left of it is merged
\* with the first chunk there.
prepend_alloc(h, newbase, oldbase, nb) ==
    LET p == newbase
        q == p + nb
        qsize == oldbase - q
        g == set_size_and_pinuse_of_inuse_chunk(h, p, nb)
        old == h.chunk[oldbase]
    IN  IF oldbase = h.top
        THEN Got(SetTop(Absorb(g, oldbase), q, h.topsize + qsize), p)
        ELSE IF oldbase = h.dv
        THEN Got(set_size_and_pinuse_of_free_chunk(
                    SetDv(Absorb(g, oldbase), q, h.dvsize + qsize), q, h.dvsize + qsize), p)
        ELSE LET free == ~old.cinuse
                 s == IF free THEN qsize + old.size ELSE qsize
                 g1 == IF free THEN Absorb(unlink_chunk(g, oldbase, old.size), oldbase) ELSE g
             IN  Got(insert_chunk(set_free_with_pinuse(g1, q, s, q + s), q, s), p)

\* tbase is where the system places the region, or Failed.
sys_alloc(h, nb, tbase) ==
    LET tsize == granularity_align(nb + TOP_FOOT_SIZE + 1)
        below == {i \in DOMAIN h.segs : h.segs[i].base + h.segs[i].size = tbase}
        above == {i \in DOMAIN h.segs : h.segs[i].base = tbase + tsize}
        Mapped(is) == is # {} /\ ~h.segs[Min(is)].extern
        Extend(i, base) == [h EXCEPT !.segs[i].base = base, !.segs[i].size = @ + tsize]
    IN  IF tbase = Failed THEN Got(h, NULL)
        ELSE IF Mapped(below) /\ SegmentAt(h, h.top) = Min(below)
        THEN UseTop(init_top(Absorb(Extend(Min(below), h.segs[Min(below)].base),
                                    h.top + h.topsize),
                             h.top, h.topsize + tsize), nb)
        ELSE IF Mapped(above)
        THEN prepend_alloc(Extend(Min(above), tbase), tbase, h.segs[Min(above)].base, nb)
        ELSE UseTop(add_segment(h, tbase, tsize), nb)

\* A small request takes a bin of its size or the next one, else dv, else the
\* next chunk that fits; a large one the best fit of the trees and dv.
mspace_malloc(h, req, tbase) ==
    LET nb == request2size(req)
        bins == NonEmptyBins(h, nb)
        large == tmalloc_large(h, nb)
    IN  IF is_small(nb) /\ bins # {} /\ Min(bins) <= nb + 1
        THEN LET i == Min(bins)
                 p == h.small[i][1]
             IN  Got(set_inuse_and_pinuse(unlink_small_chunk(h, p, i), p, i), p)
        ELSE IF is_small(nb) /\ nb > h.dvsize /\ bins # {}
        THEN UseSmallBin(h, Min(bins), nb)
        ELSE IF is_small(nb) /\ nb > h.dvsize /\ NonEmptyTrees(h) # {}
        THEN tmalloc_small(h, nb)
        ELSE IF ~is_small(nb) /\ NonEmptyTrees(h) # {} /\ large.p # NULL
        THEN large
        ELSE IF nb <= h.dvsize THEN UseDv(h, nb)
        ELSE IF nb < h.topsize THEN UseTop(h, nb)
        ELSE sys_alloc(h, nb, tbase)

-----------------------------------------------------------------------------
(* Giving back to the system, which may refuse (gives). *)

MappedAt(h, a) == ~h.segs[SegmentAt(h, a)].extern

InSegment(seg, p) == seg.base <= p /\ p < seg.base + seg.size

\* A mapped segment other than the first whose first chunk is free and
\* reaches its record is unmapped.
Unused(h, seg) ==
    LET p == seg.base
    IN  /\ ~seg.extern /\ seg # h.segs[1]
        /\ ~h.chunk[p].cinuse /\ h.chunk[p].pinuse
        /\ p + chunksize(h, p) >= seg.base + seg.size - TOP_FOOT_SIZE

release_unused_segments(h, gives) ==
    FoldLeft(LAMBDA g, seg :
        LET p == seg.base
            size == chunksize(g, p)
            g1 == IF p = g.dv THEN SetDv(g, NULL, 0) ELSE unlink_large_chunk(g, p, size)
        IN  IF ~Unused(g, seg) THEN g
            ELSE IF gives
            THEN [g1 EXCEPT !.segs = Remove(@, seg),
                            !.chunk = [q \in {c \in DOMAIN @ : ~InSegment(seg, c)} |-> @[q]]]
            ELSE insert_large_chunk(g1, p, size),
      h, h.segs)

\* The end of a mapped topmost segment is cut off in units of Granularity,
\* unless a segment's record lies in it.
sys_trim(h, gives) ==
    LET pad == TOP_FOOT_SIZE
        extra == ((h.topsize - pad + Granularity - 1) \div Granularity - 1) * Granularity
        i == SegmentAt(h, h.top)
        pinned == \E j \in 2 .. Len(h.segs) : InSegment(h.segs[i], h.segs[j].at)
        cut == IF gives /\ h.topsize > pad /\ MappedAt(h, h.top) /\ ~pinned
               THEN extra ELSE 0
        g1 == IF cut = 0 THEN h
              ELSE init_top([Absorb(h, h.top + h.topsize) EXCEPT !.segs[i].size = @ - cut],
                            h.top, h.topsize - cut)
        g2 == release_unused_segments(g1, gives)
    IN  IF cut = 0 /\ g2.segs = h.segs /\ g2.topsize > g2.trim_check
        THEN [g2 EXCEPT !.trim_check = MAX_SIZE_T] ELSE g2

\* checks: the count of large chunks freed has reached its limit.
Freed(c, checks, gives) ==
    IF c.binned /\ ~is_small(c.size) /\ checks
    THEN release_unused_segments(Binned(c), gives)
    ELSE IF ~c.binned /\ c.p = c.h.top /\ c.h.topsize > c.h.trim_check
    THEN sys_trim(c.h, gives)
    ELSE Binned(c)

mspace_free(h, p, checks, gives) == Freed(Merge(h, p, chunksize(h, p)), checks, gives)

-----------------------------------------------------------------------------
(* Resizing and aligning. *)

\* The words of the chunk at p beyond nb are given back.
GiveBackTail(h, p, nb) ==
    LET rest == chunksize(h, p) - nb
    IN  dispose_chunk(set_inuse(set_inuse(h, p, nb), p + nb, rest), p + nb, rest)

\* NULL when the block cannot grow where it is.
try_realloc_chunk(h, p, nb) ==
    LET old == chunksize(h, p)
        next == p + old
        n == h.chunk[next]
        whole == old + n.size
        g == Absorb(h, next)
    IN  IF old >= nb
        THEN Got(IF old - nb >= MIN_CHUNK_SIZE THEN GiveBackTail(h, p, nb) ELSE h, p)
        ELSE IF next = h.top
        THEN IF whole > nb THEN Got(SetTop(set_inuse(g, p, nb), p + nb, whole - nb), p)
             ELSE Got(h, NULL)
        ELSE IF n.cinuse \/ whole < nb THEN Got(h, NULL)
        ELSE IF next = h.dv
        THEN LET r == p + nb
                 rest == whole - nb
             IN  IF rest >= MIN_CHUNK_SIZE
                 THEN Got(SetDv(SetPinuse(set_size_and_pinuse_of_free_chunk(
                                            set_inuse(g, p, nb), r, rest), p + whole, FALSE),
                                r, rest), p)
                 ELSE Got(SetDv(set_inuse(g, p, whole), NULL, 0), p)
        ELSE LET g1 == set_inuse(Absorb(unlink_chunk(h, next, n.size), next), p, whole)
             IN  Got(IF whole - nb < MIN_CHUNK_SIZE THEN g1 ELSE GiveBackTail(g1, p, nb), p)

mspace_realloc(h, p, bytes, tbase, checks, gives) ==
    LET Moved(new) == IF new.p = NULL THEN new
                      ELSE Got(mspace_free(new.h, p, checks, gives), new.p)
        InPlace(got) == IF got.p # NULL THEN got ELSE Moved(mspace_malloc(h, bytes, tbase))
    IN  InPlace(try_realloc_chunk(h, p, request2size(bytes)))

\* A chunk with room for an aligned one in it; what lies before it, at least
\* a chunk, and what is spare behind it are given back.
internal_memalign(h, alignment, bytes, tbase) ==
    LET a == IF alignment < MIN_CHUNK_SIZE THEN MIN_CHUNK_SIZE ELSE alignment
        nb == request2size(bytes)
        At(p) == LET br == ((p + 2 + a - 1) \div a) * a - 2
                 IN  IF (p + 2) % a = 0 THEN p
                     ELSE IF br - p >= MIN_CHUNK_SIZE THEN br ELSE br + a
        Lead(g, p, q) ==
            IF q = p THEN g
            ELSE dispose_chunk(set_inuse(set_inuse(g, q, chunksize(g, p) - (q - p)), p, q - p),
                               p, q - p)
        Spare(g, q) == IF chunksize(g, q) > nb + MIN_CHUNK_SIZE THEN GiveBackTail(g, q, nb) ELSE g
        Aligned(got) == IF got.p = NULL THEN got
                        ELSE Got(Spare(Lead(got.h, got.p, At(got.p)), At(got.p)), At(got.p))
    IN  Aligned(mspace_malloc(h, nb + a + MIN_CHUNK_SIZE - CHUNK_OVERHEAD, tbase))

-----------------------------------------------------------------------------
\* Where the system may put a region for a request of nb words.
Places(h, nb) ==
    LET tsize == granularity_align(nb + TOP_FOOT_SIZE + 1)
    IN  {Failed} \cup
        {b \in MmapBases : \A i \in DOMAIN h.segs :
            b + tsize <= h.segs[i].base \/ h.segs[i].base + h.segs[i].size <= b}

init_user_mstate(extern) ==
    init_top([chunk |-> Base :> [size |-> MStateSize, cinuse |-> TRUE, pinuse |-> TRUE, foot |-> 0],
              top |-> NULL, topsize |-> 0, dv |-> NULL, dvsize |-> 0,
              small |-> [s \in MIN_CHUNK_SIZE .. 2 ^ TREEBIN_SHIFT - 1 |-> <<>>],
              tree |-> [i \in 0 .. LargestTree |-> <<>>],
              segs |-> <<[base |-> Base, size |-> Size, extern |-> extern, at |-> NULL]>>,
              trim_check |-> TrimThreshold],
             Base + MStateSize, Size - MStateSize - TOP_FOOT_SIZE)

Init ==
    /\ \E extern \in Externs : heap = init_user_mstate(extern)
    /\ live = <<>>

\* A request that fails leaves the program's blocks as they are.
Answer(got, kept, req, align) ==
    /\ heap' = got.h
    /\ live' = IF got.p = NULL THEN live
               ELSE (got.p :> [req |-> req, align |-> align]) @@ kept

Malloc ==
    /\ Cardinality(DOMAIN live) < MaxLive
    /\ \E req \in Requests :
         \E got \in {mspace_malloc(heap, req, tbase) : tbase \in Places(heap, request2size(req))} :
           Answer(got, live, req, 1)

Memalign ==
    /\ Cardinality(DOMAIN live) <= MaxBesideAligned
    /\ \E req \in Requests, a \in Alignments :
         \E tbase \in Places(heap, request2size(request2size(req) + a + MIN_CHUNK_SIZE - CHUNK_OVERHEAD)) :
           Answer(internal_memalign(heap, a, req, tbase), live, req, a)

Without(f, p) == [q \in DOMAIN f \ {p} |-> f[q]]

Free ==
    \E p \in DOMAIN live :
        /\ heap' \in {mspace_free(heap, p, checks, gives) : checks, gives \in BOOLEAN}
        /\ live' = Without(live, p)

Realloc ==
  /\ Cardinality(DOMAIN live) <= MaxBesideResized + 1
  /\ \E p \in DOMAIN live, req \in Requests :
      \E got \in {mspace_realloc(heap, p, req, tbase, checks, gives) :
                     tbase \in Places(heap, request2size(req)), checks, gives \in BOOLEAN} :
        Answer(got, Without(live, p), req, 1)

Next == Malloc \/ Memalign \/ Free \/ Realloc

Spec == Init /\ [][Next]_vars

-----------------------------------------------------------------------------
(* The consistency that a debug build of malloc.c checks (its do_check       *)
(* functions), and what the callers rely on.                               *)

Chunks == DOMAIN heap.chunk
FreeChunks == {p \in Chunks : /\ ~heap.chunk[p].cinuse
                              /\ p # heap.top + heap.topsize}
Fenceposts == {p \in Chunks : heap.chunk[p].cinuse /\ heap.chunk[p].size = 1}

SegmentIsTiled(seg) ==
    LET C == {p \in Chunks : InSegment(seg, p)}
        end == seg.base + seg.size
    IN  /\ seg.base \in C
        /\ \A p \in C : \/ p + chunksize(heap, p) \in C
                        \/ p \in Fenceposts /\ p + 2 = end
                        \/ p = heap.top + heap.topsize /\ p + TOP_FOOT_SIZE = end
        /\ \A q \in C \ {seg.base} : \E p \in C : p + chunksize(heap, p) = q

NeighboursAgree ==
    \A p \in Chunks \ {heap.top + heap.topsize} :
      LET c == heap.chunk[p]
          n == HeadOf(heap, p + c.size)
      IN  p + c.size \in Chunks =>
            /\ n.pinuse = c.cinuse
            /\ ~c.cinuse /\ p # heap.top => n.foot = c.size
            /\ p \in FreeChunks /\ p # heap.top => p + c.size # heap.top /\ n.cinuse

TreeChunks == UNION {Range(ring) : ring \in UNION {Range(heap.tree[i]) : i \in DOMAIN heap.tree}}
SmallChunks == UNION {Range(heap.small[s]) : s \in DOMAIN heap.small}
Dv == IF heap.dvsize = 0 THEN {} ELSE {heap.dv}

BinsHoldTheFree ==
    /\ SmallChunks \cup TreeChunks \cup Dv \cup {heap.top} = FreeChunks
    /\ (SmallChunks \cup TreeChunks) \cap (Dv \cup {heap.top}) = {}
    /\ \A s \in DOMAIN heap.small :
          /\ IsInjective(heap.small[s])
          /\ \A p \in Range(heap.small[s]) : chunksize(heap, p) = s
    /\ \A i \in DOMAIN heap.tree : \A path \in DOMAIN heap.tree[i] :
          LET ring == heap.tree[i][path]
              s == chunksize(heap, ring[1])
          IN  /\ path # <<>> => Front(path) \in DOMAIN heap.tree[i]
              /\ IsInjective(ring)
              /\ \A p \in Range(ring) : chunksize(heap, p) = s
              /\ ~is_small(s) /\ compute_tree_index(s) = i /\ path = Way(s, i, Len(path))
              /\ \A other \in DOMAIN heap.tree[i] \ {path} :
                    chunksize(heap, heap.tree[i][other][1]) # s

\* Whatever was split, merged, prepended or unmapped, the chunks of every
\* segment lie end to end, each knows whether its predecessor is in use and
\* how long a free one is, no two free ones touch, and dv, top and the bins
\* hold each free chunk once, in the bin and on the way of its size
\* (malloc.c:3196-3455).
HeapIsTiled ==
    /\ \A i \in DOMAIN heap.segs : SegmentIsTiled(heap.segs[i])
    /\ \A p \in Chunks : \E i \in DOMAIN heap.segs : InSegment(heap.segs[i], p)
    /\ NeighboursAgree
    /\ heap.topsize = chunksize(heap, heap.top)
    /\ heap.dvsize # 0 => heap.dvsize = chunksize(heap, heap.dv)
    /\ BinsHoldTheFree

\* Every block the program holds is a chunk in use that is large enough and
\* aligned as asked, and nothing else is in use but the space's own records:
\* no call loses a chunk or hands one out twice.
BlocksAreKept ==
    /\ \A p \in DOMAIN live :
          /\ p \in Chunks /\ heap.chunk[p].cinuse
          /\ chunksize(heap, p) - CHUNK_OVERHEAD >= live[p].req
          /\ (p + 2) % live[p].align = 0
    /\ {p \in Chunks : heap.chunk[p].cinuse} \ Fenceposts
          = DOMAIN live \cup {Base} \cup {heap.segs[i].at : i \in 2 .. Len(heap.segs)}

\* The searches of the trees, which look at one path and one subtree only,
\* find a smallest chunk that is large enough (malloc.c:4408, 4479).
TreesFindBestFit ==
    LET Fits(nb) == {chunksize(heap, p) : p \in {q \in TreeChunks : chunksize(heap, q) >= nb}}
    IN  /\ \A nb \in 2 ^ TREEBIN_SHIFT .. Size :
              LET v == BestLarge(heap, nb)
              IN  IF Fits(nb) = {} THEN v[1] = NULL
                  ELSE v[1] \in TreeChunks /\ v[2] + nb = Min(Fits(nb))
                                           /\ chunksize(heap, v[1]) = v[2] + nb
        /\ \A nb \in MIN_CHUNK_SIZE .. 2 ^ TREEBIN_SHIFT - 1 :
              Fits(nb) # {} => LET v == BestSmall(heap, nb)
                               IN  /\ v[1] \in TreeChunks
                                   /\ chunksize(heap, v[1]) = v[2] + nb
                                   /\ v[2] + nb = Min(Fits(nb))
=============================================================================
