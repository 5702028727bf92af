-------------------------------- MODULE Address --------------------------------
(***************************************************************************)
(* Accesses to simulated memory and the address arithmetic the checker     *)
(* does on them.  An access is [addr, size]: a first byte and a number of  *)
(* bytes.  obj_wr_map keeps one list of writes per aligned word of         *)
(* WordSize bytes (8 in the code) and obj_to_cacheline one CacheLine per   *)
(* CacheLineSize bytes (64 in the code).                                   *)
(***************************************************************************)
EXTENDS Integers

CONSTANTS
  Loc,           \* the accesses the program makes
  WordSize,      \* bytes per word of obj_wr_map
  CacheLineSize  \* bytes per cache line

\* Only accesses that stay inside one word are modelled: alignAddress files an
\* access under the word of its first byte alone.
ASSUME AddressAssumption ==
  /\ WordSize \in Nat \ {0}
  /\ CacheLineSize \in Nat \ {0}
  /\ CacheLineSize % WordSize = 0
  /\ Loc \subseteq [addr : Nat, size : 1 .. WordSize]
  /\ \A l \in Loc : (l.addr % WordSize) + l.size =< WordSize

-------------------------------------------------------------------------------

alignAddress(l) == l.addr - (l.addr % WordSize)

getCacheID(l) == l.addr - (l.addr % CacheLineSize)

Word == {alignAddress(l) : l \in Loc}
Line == {getCacheID(l) : l \in Loc}

BytesAt(l) == l.addr .. (l.addr + l.size - 1)

Overlap(a, b) == a.addr < b.addr + b.size /\ b.addr < a.addr + a.size

\* Every byte of a is a byte of b.
Inside(a, b) == b.addr =< a.addr /\ a.addr + a.size =< b.addr + b.size

===============================================================================
