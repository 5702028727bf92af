------------------------------ MODULE MCCrashReads -----------------------------
(***************************************************************************)
(* A small program for CrashReads: words of 2 bytes, lines of 4.           *)
(***************************************************************************)
EXTENDS CrashReads

\* a word, its second byte and a byte of the next word of the line
WordByteAndNext ==
  {[addr |-> 0, size |-> 2], [addr |-> 1, size |-> 1], [addr |-> 2, size |-> 1]}

===============================================================================
