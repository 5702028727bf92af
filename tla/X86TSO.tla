-------------------------------- MODULE X86TSO --------------------------------
(***************************************************************************)
(* The memory model the simulation promises the program: x86-TSO.  Every   *)
(* thread has a FIFO buffer of stores in front of one byte-addressed       *)
(* memory; a locked instruction holds the memory from its read to its      *)
(* write.  A power failure stops the memory and loses the buffers.         *)
(***************************************************************************)
EXTENDS Address, Sequences, FiniteSetsExt

CONSTANTS Thread, NoThread, Byte

VARIABLES
  memory,  \* the value of every byte
  buffer,  \* the stores of each thread that are not in memory yet
  lock,    \* the thread in the middle of a locked instruction
  on       \* FALSE from the power failure on

tsoVars == <<memory, buffer, lock, on>>

Addr == UNION {BytesAt(l) : l \in Loc}

Entry == UNION {[loc : {l}, val : [BytesAt(l) -> Byte]] : l \in Loc}

TSOInit ==
  /\ memory = [b \in Addr |-> 0]
  /\ buffer = [t \in Thread |-> <<>>]
  /\ lock = NoThread
  /\ on = TRUE

Update(e) == [b \in Addr |-> IF b \in DOMAIN e.val THEN e.val[b] ELSE memory[b]]

Store(t) ==
  /\ on
  /\ \E e \in Entry : buffer' = [buffer EXCEPT ![t] = Append(@, e)]
  /\ UNCHANGED <<memory, lock, on>>

\* While a thread is locked, the stores of the others stay in their buffers.
CommitStore(t) ==
  /\ on /\ buffer[t] # <<>> /\ lock \in {NoThread, t}
  /\ memory' = Update(Head(buffer[t]))
  /\ buffer' = [buffer EXCEPT ![t] = Tail(@)]
  /\ UNCHANGED <<lock, on>>

Lock(t) ==
  /\ on /\ lock = NoThread /\ buffer[t] = <<>>
  /\ lock' = t
  /\ UNCHANGED <<memory, buffer, on>>

LockedWrite ==
  /\ on /\ lock # NoThread
  /\ \E e \in Entry : memory' = Update(e)
  /\ lock' = NoThread
  /\ UNCHANGED <<buffer, on>>

\* A failed compare-and-swap: a locked instruction without a write.
Unlock ==
  /\ on /\ lock # NoThread
  /\ lock' = NoThread
  /\ UNCHANGED <<memory, buffer, on>>

PowerFailure == on /\ on' = FALSE /\ UNCHANGED <<memory, buffer, lock>>

LoseBuffer(t) ==
  /\ ~on
  /\ buffer' = [buffer EXCEPT ![t] = <<>>]
  /\ UNCHANGED <<memory, lock, on>>

TSONext ==
  \/ \E t \in Thread : Store(t) \/ CommitStore(t) \/ Lock(t) \/ LoseBuffer(t)
  \/ LockedWrite \/ Unlock \/ PowerFailure

TSOSpec == TSOInit /\ [][TSONext]_tsoVars

\* What thread t loads from byte b: its own newest buffered store, else memory.
Load(t, b) ==
  LET own == {k \in DOMAIN buffer[t] : b \in DOMAIN buffer[t][k].val}
  IN  IF own # {} THEN buffer[t][Max(own)].val[b] ELSE memory[b]
===============================================================================
