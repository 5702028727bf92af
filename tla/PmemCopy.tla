------------------------------ MODULE PmemCopy ------------------------------
(***************************************************************************)
(* The stores and flushes that the library makes for a program (libpmem.cc *)
(* and persistentmemory.cc): memory is copied and filled in pieces of 8,   *)
(* 4, 2 or 1 bytes, each an instrumented load and store, then flushed line *)
(* by line and fenced as the flags say.  The C library's functions are     *)
(* replaced by them where the destination is persistent.                   *)
(*                                                                         *)
(* One thread calls; the pieces and flushes are single steps, between      *)
(* which the scheduler may run others (ThreadMemory has the buffers they   *)
(* go through).  A byte holds an integer.                                  *)
(***************************************************************************)
EXTENDS Integers

CONSTANTS
    Size,              \* addresses are 0 .. Size - 1
    Pm,                \* those of the persistent region and the alternative one
    CACHE_LINE_SIZE,
    Ranges,            \* the destinations <<address, length>> of calls
    Sources,           \* the addresses copied from
    Fillers,           \* the bytes memory is filled with
    MaxCalls           \* bounds the calls of a behaviour

Address == 0 .. Size - 1
Fits(a, n) == a + n =< Size

ASSUME CopyAssumption ==
    /\ Size \in Nat /\ CACHE_LINE_SIZE \in Nat \ {0}
    /\ Pm \subseteq Address
    /\ \A r \in Ranges : r[1] \in Nat /\ r[2] \in Nat /\ Fits(r[1], r[2])
    /\ Sources \subseteq Nat /\ Fillers \subseteq 0 .. 255

NODRAIN == "PMEM_F_MEM_NODRAIN"
NOFLUSH == "PMEM_F_MEM_NOFLUSH"

\* The flags of the _persist and the _nodrain forms, and those memcpy, memmove
\* and memset give where the first byte of the destination is persistent.
Flags == {{}, {NODRAIN}, {NOFLUSH}}

VARIABLES
    mem,               \* the bytes as the program sees them
    unflushed,         \* the bytes stored since the last flush of their line
    undrained,         \* the lines flushed since the last fence
    op,                \* the call that runs or, in stage "done", has returned
    before,            \* history: mem when op was called
    calls

copyVars == <<mem, unflushed, undrained, op, before, calls>>

pmem_is_pmem(a) == a \in Pm
LineOf(a) == a - (a % CACHE_LINE_SIZE)
Extent(a, n) == a .. a + n - 1

CopyInit ==
    /\ mem = [a \in Address |-> a]
    /\ before = mem
    /\ unflushed = {} /\ undrained = {}
    /\ op = [stage |-> "done", f |-> "none", src |-> 0, dst |-> 0, n |-> 0, flags |-> {}, i |-> 0]
    /\ calls = 0

Call(f, src, dst, n, flags, stage) ==
    /\ op.stage = "done" /\ calls < MaxCalls
    /\ calls' = calls + 1
    /\ op' = [stage |-> stage, f |-> f, src |-> src, dst |-> dst, n |-> n, flags |-> flags, i |-> 0]
    /\ before' = mem
    /\ UNCHANGED <<mem, unflushed, undrained>>

-----------------------------------------------------------------------------
\* Calls.

pmem_memmove(src, dst, n, flags) ==
    /\ Fits(src, n) /\ pmem_is_pmem(dst)
    /\ Call("memmove", src, dst, n, flags, "copy")

pmem_memcpy(src, dst, n, flags) ==
    /\ Fits(src, n) /\ pmem_is_pmem(dst)
    /\ Extent(src, n) \cap Extent(dst, n) = {}
    /\ Call("memcpy", src, dst, n, flags, "copy")

\* The string of n characters is copied; its length was taken with plain reads.
\* The terminator is not copied.
strcpy(src, dst, n) ==
    /\ Fits(src, n + 1) /\ pmem_is_pmem(dst)
    /\ Extent(src, n + 1) \cap Extent(dst, n + 1) = {}
    /\ Call("strcpy", src, dst, n, {NOFLUSH}, "copy")

\* src holds the byte to fill with.
pmem_memset(c, dst, n, flags) ==
    /\ pmem_is_pmem(dst)
    /\ Call("memset", c, dst, n, flags, "fill")

bzero(dst, n) ==
    /\ pmem_is_pmem(dst)
    /\ Call("bzero", 0, dst, n, {NOFLUSH}, "fill")

\* The C library's function, whose result is new, in one step and unseen.
Real(f, src, dst, n, new) ==
    /\ op.stage = "done" /\ calls < MaxCalls
    /\ calls' = calls + 1
    /\ before' = mem
    /\ mem' = [a \in Address |-> IF a \in Extent(dst, n) THEN new[a] ELSE mem[a]]
    /\ op' = [stage |-> "done", f |-> f, src |-> src, dst |-> dst, n |-> n,
              flags |-> {NOFLUSH}, i |-> n]
    /\ UNCHANGED <<unflushed, undrained>>

memcpy(src, dst, n) ==
    IF pmem_is_pmem(dst) THEN pmem_memcpy(src, dst, n, {NOFLUSH})
    ELSE /\ Fits(src, n) /\ Extent(src, n) \cap Extent(dst, n) = {}
         /\ Real("memcpy", src, dst, n, [a \in Extent(dst, n) |-> mem[src + a - dst]])

memmove(src, dst, n) ==
    IF pmem_is_pmem(dst) THEN pmem_memmove(src, dst, n, {NOFLUSH})
    ELSE Fits(src, n) /\ Real("memmove", src, dst, n, [a \in Extent(dst, n) |-> mem[src + a - dst]])

memset(c, dst, n) ==
    IF pmem_is_pmem(dst) THEN pmem_memset(c, dst, n, {NOFLUSH})
    ELSE Real("memset", c, dst, n, [a \in Extent(dst, n) |-> c])

pmem_flush(a, n) == Call("flush", 0, a, n, {NODRAIN}, "flush")
pmem_persist(a, n) == Call("persist", 0, a, n, {}, "flush")
pmem_drain == Call("drain", 0, 0, 0, {}, "drain")

\* Nothing is done for memory whose first byte is not persistent.
pmem_msync(a, n) ==
    Call("msync", 0, a, n, {}, IF pmem_is_pmem(a) THEN "flush" ELSE "done")

-----------------------------------------------------------------------------
\* Steps of a call.

\* Mutant: a piece may reach past the end.
PieceOverrun(addresses) ==
    CHOOSE w \in {1, 2, 4, 8} :
        /\ \A a \in addresses : (a + op.i) % w = 0
        /\ \A v \in {2, 4, 8} : v > w => ~\A a \in addresses : (a + op.i) % v = 0

\* The widest piece at the place reached that all the addresses are aligned to.
Piece(addresses) ==
    CHOOSE w \in {1, 2, 4, 8} :
        /\ w = 1 \/ (op.i + w =< op.n /\ \A a \in addresses : (a + op.i) % w = 0)
        /\ \A v \in {2, 4, 8} :
             v > w => ~(op.i + v =< op.n /\ \A a \in addresses : (a + op.i) % v = 0)

\* The stage after the last piece: flags are looked at twice.
AfterCopy == IF NOFLUSH \notin op.flags THEN "flush" ELSE "done"
AfterFlush == IF op.flags = {} THEN "drain" ELSE "done"

\* A store of values at the w bytes from a on.
Store(a, w, values) ==
    /\ mem' = [b \in Address |-> IF b \in Extent(a, w) THEN values[b - a] ELSE mem[b]]
    /\ unflushed' = unflushed \cup (Extent(a, w) \cap Pm)

CopyPiece ==
    /\ op.stage = "copy" /\ op.i < op.n
    /\ LET w == Piece({op.src, op.dst}) IN
       /\ Store(op.dst + op.i, w, [k \in 0 .. w - 1 |-> mem[op.src + op.i + k]])
       /\ op' = [op EXCEPT !.i = @ + w]
    /\ UNCHANGED <<undrained, before, calls>>

\* The byte cs is doubled three times: cs2 << 16 is an int, so that widening it
\* extends the sign over the upper half of eight bytes.
Filled(cs, w) == [k \in 0 .. w - 1 |-> IF w = 8 /\ k >= 4 /\ cs >= 128 THEN 255 ELSE cs]

FillPiece ==
    /\ op.stage = "fill" /\ op.i < op.n
    /\ LET w == Piece({op.dst}) IN
       /\ Store(op.dst + op.i, w, Filled(op.src, w))
       /\ op' = [op EXCEPT !.i = @ + w]
    /\ UNCHANGED <<undrained, before, calls>>

Copied ==
    /\ op.stage \in {"copy", "fill"} /\ op.i >= op.n
    /\ op' = [op EXCEPT !.stage = AfterCopy, !.i = 0]
    /\ UNCHANGED <<mem, unflushed, undrained, before, calls>>

\* Mutant: the range is not rounded down to a line.
LineFromDst == op.dst + op.i * CACHE_LINE_SIZE

\* The lines from that of the first byte on, i counting them.
LineAt == LineOf(op.dst) + op.i * CACHE_LINE_SIZE

pmc_clflushopt ==
    /\ op.stage = "flush" /\ LineAt < op.dst + op.n
    /\ unflushed' = {a \in unflushed : LineOf(a) # LineOf(LineAt)}
    /\ undrained' = undrained \cup {LineOf(LineAt)}
    /\ op' = [op EXCEPT !.i = @ + 1]
    /\ UNCHANGED <<mem, before, calls>>

Flushed ==
    /\ op.stage = "flush" /\ LineAt >= op.dst + op.n
    /\ op' = [op EXCEPT !.stage = AfterFlush]
    /\ UNCHANGED <<mem, unflushed, undrained, before, calls>>

pmc_sfence ==
    /\ op.stage = "drain"
    /\ undrained' = {}
    /\ op' = [op EXCEPT !.stage = "done"]
    /\ UNCHANGED <<mem, unflushed, before, calls>>

CopyNext ==
    \/ \E r \in Ranges :
         \/ \E s \in Sources :
              \/ \E flags \in Flags :
                   pmem_memmove(s, r[1], r[2], flags) \/ pmem_memcpy(s, r[1], r[2], flags)
              \/ strcpy(s, r[1], r[2])
              \/ memcpy(s, r[1], r[2]) \/ memmove(s, r[1], r[2])
         \/ \E c \in Fillers :
              \/ \E flags \in Flags : pmem_memset(c, r[1], r[2], flags)
              \/ memset(c, r[1], r[2])
         \/ bzero(r[1], r[2])
         \/ pmem_flush(r[1], r[2]) \/ pmem_persist(r[1], r[2]) \/ pmem_msync(r[1], r[2])
    \/ pmem_drain
    \/ CopyPiece \/ FillPiece \/ Copied
    \/ pmc_clflushopt \/ Flushed \/ pmc_sfence

CopySpec == CopyInit /\ [][CopyNext]_copyVars

-----------------------------------------------------------------------------
\* The destination, unless it overlaps the end of the source, which is copied
\* upwards, or is filled with a byte whose sign is extended.
Faithful ==
    CASE op.f \in {"memmove", "memcpy", "strcpy"} ->
             ~(pmem_is_pmem(op.dst) /\ op.src < op.dst /\ op.dst < op.src + op.n)
      [] op.f = "memset" -> op.src < 128
      [] OTHER -> TRUE

Wanted(a) ==
    CASE op.f \in {"memmove", "memcpy", "strcpy"} -> before[op.src + a - op.dst]
      [] op.f \in {"memset", "bzero"} -> op.src
      [] OTHER -> before[a]

\* The pieces add up to the copy or fill that was asked for, whatever the
\* alignments of the two ends, and no piece strays outside it at any time
\* (pmem_memmove, pmem_memcpy, pmem_memset, strcpy, bzero).
CopiesAsAsked ==
    /\ \A a \in Address \ Extent(op.dst, op.n) : mem[a] = before[a]
    /\ op.stage = "done" /\ Faithful => \A a \in Extent(op.dst, op.n) : mem[a] = Wanted(a)

\* When a call without NOFLUSH returns, every persistent byte of its range has
\* been flushed since it was stored and, without NODRAIN, fenced, the last line
\* of a range that does not begin at a line included (pmem_flush, pmem_drain).
FlushesAsAsked ==
    op.stage = "done" /\ NOFLUSH \notin op.flags /\ (op.n > 0 => pmem_is_pmem(op.dst)) =>
        /\ Extent(op.dst, op.n) \cap unflushed = {}
        /\ NODRAIN \notin op.flags => \A a \in Extent(op.dst, op.n) : LineOf(a) \notin undrained
=============================================================================
