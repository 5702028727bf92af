------------------------------ MODULE MCDataRace ------------------------------
(***************************************************************************)
(* Small programs for DataRace.  Each is a sequence of operations for each *)
(* of three threads.                                                       *)
(***************************************************************************)
EXTENDS DataRace

\* Three threads that read and write both bytes, or one of them under the mutex.
Plain == {At("store", 0, 2), At("load", 0, 2), At("load", 1, 1)}

\* Two threads with two operations each on two bytes, which the first accesses
\* atomically too.
Mixed ==
  {At("store", 0, 2), At("load", 0, 1), At("store", 1, 1), At("atomicstore", 0, 1),
   At("atomicload", 0, 1), At("rmw", 0, 1)}

Fences ==
  {At("seqcst", 0, 1), At("casfail", 0, 1), At("mfence", 0, 0)}

Locked(o) == <<At("lock", 0, 0), o, At("unlock", 0, 0)>>

TwoThreads ==
  {[t \in Thread |-> IF t = 1 THEN <<a, b>> ELSE IF t = 2 THEN <<c, d>> ELSE <<>>] :
     a \in Mixed \cup Fences, b, c \in Mixed, d \in Plain}

ThreeThreads ==
  {[t \in Thread |-> IF t = 1 THEN <<a, b>> ELSE IF t = 2 THEN <<c, d>> ELSE <<e>>] :
     a, b, c, d, e \in Plain}

UnderMutex ==
  {[t \in Thread |-> IF t = 1 THEN Locked(a) ELSE IF t = 2 THEN Locked(b) ELSE <<c>>] :
     a, b, c \in Plain}

\* Thread 1 reads byte 0, thread 2 reads it later, and thread 3 reads a store
\* that thread 2 issued before it knew of thread 1.
Relayed ==
  {[t \in Thread |-> IF t = 1 THEN <<At("load", 0, 1), At("atomicstore", 1, 1)>>
                    ELSE IF t = 2 THEN <<At("atomicstore", 2, 1), At("atomicload", 1, 1), At("load", 0, 1)>>
                    ELSE <<At("atomicload", 2, 1), At("store", 0, 1)>>]}

Programs == TwoThreads \cup ThreeThreads \cup UnderMutex \cup Relayed

\* After a crash, one thread writes what another reads.
WriteAndRead ==
  {[t \in Thread |-> IF t = 1 THEN <<At("store", 0, 2)>>
                    ELSE IF t = 2 THEN <<At("load", 1, 1)>> ELSE <<>>]}
===============================================================================
