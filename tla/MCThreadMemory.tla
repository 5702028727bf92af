---------------------------- MODULE MCThreadMemory ----------------------------
(***************************************************************************)
(* Small programs for ThreadMemory: words of 2 bytes, lines of 4.          *)
(***************************************************************************)
EXTENDS ThreadMemoryTSO, TLC

\* one byte
OneByte == {[addr |-> 0, size |-> 1]}

\* a word and its bytes
WordAndBytes == {[addr |-> 0, size |-> 2], [addr |-> 1, size |-> 1]}

Symmetry == Permutations(Thread)
===============================================================================
