----------------------------- MODULE MCPersistRace -----------------------------
(***************************************************************************)
(* Small programs for PersistRace: two bytes in one line, one in another.  *)
(***************************************************************************)
EXTENDS PersistRace

StoreTo(b) == <<At("store", b, 1)>>
Both       == <<At("store", 0, 2)>>
Atomic(b)  == <<At("atomic", b, 1)>>
Clflush(l) == <<At("clflush", l, 1)>>
Clwb(l)    == <<At("clwb", l, 1)>>
Sfence     == <<At("sfence", 0, 0)>>
Mfence     == <<At("mfence", 0, 0)>>
Rmw(b)     == <<At("rmwr", b, 1), At("rmw", b, 1)>>
Cas(b)     == <<At("rmwr", b, 1), At("casfail", b, 1)>>
SeqCst(b)  == <<At("seqcst", b, 1)>>
LoadOf(b)  == <<At("load", b, 1)>>
Region     == <<At("persist", 0, 0)>>

Fences == {Sfence \o Mfence, Mfence, Rmw(2), Cas(2), SeqCst(2), Region}

\* A store, a flush and a fence, or in another order; another thread reads or
\* writes, and flushes.
First ==
  {a \o b \o c : a \in {StoreTo(0), Both, Clwb(0)},
                 b \in {Clwb(0), Clflush(0), StoreTo(0), Clwb(0) \o Atomic(1)}, c \in Fences}
Second ==
  {LoadOf(0) \o Clflush(0), LoadOf(0) \o Atomic(2), StoreTo(0) \o Sfence, Rmw(2)}

Programs == {<<p, q>> : p \in First, q \in Second}
===============================================================================
