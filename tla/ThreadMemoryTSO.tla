---------------------------- MODULE ThreadMemoryTSO ----------------------------
(***************************************************************************)
(* ThreadMemory implements x86-TSO: the memory of the machine is what the  *)
(* newest entries of obj_wr_map hold, and its buffers are the stores among *)
(* the entries of the store buffers.                                       *)
(***************************************************************************)
EXTENDS ThreadMemory

MemoryByte(b) ==
  LET w == CHOOSE x \in Word : b \in x .. (x + WordSize - 1)
      s == wr[w]
  IN  IF s = <<>> THEN 0 ELSE ValAt(s[Max(Covering(s, b))], b)

\* What an operation of the trace is to the memory.
Effect(a) == [kind |-> a.kind, loc |-> a.loc, val |-> a.val]

\* The stores among the first operations of q, in order.
StoresUpTo(q) ==
  LET f[k \in 0 .. Len(q)] ==
        IF k = 0 THEN <<>>
        ELSE IF IsWrite(q[k]) THEN Append(f[k - 1], [loc |-> q[k].loc, val |-> q[k].val])
        ELSE f[k - 1]
  IN  f

StoresOf(q) == StoresUpTo(q)[Len(q)]

Stores(t) == StoresOf([k \in DOMAIN sb[t] |-> Effect(act[sb[t][k]])])

TSO == INSTANCE X86TSO WITH
  memory <- [b \in UNION {BytesAt(l) : l \in Loc} |-> MemoryByte(b)],
  buffer <- [t \in Thread |-> Stores(t)],
  lock   <- IF rmw # Null /\ job # "rmwr" THEN rmw.tid ELSE NoThread,
  on     <- ~hasCrashed /\ phase \notin {"crashed", "done"}

\* Every step of the buffers is a step of the x86-TSO machine or none: stores
\* reach memory in program order, a dropped silent store changes nothing,
\* nothing comes between the halves of an RMW and nothing follows a crash.
ImplementsTSO == TSO!TSOSpec

\* getLastWriteFromStoreBuffer and processWrites find, byte by byte, what an
\* x86-TSO load returns.
LoadsAgree ==
  \A t \in Thread, l \in Loc :
    Initialized(l) => \A b \in BytesAt(l) : ValAt(ReadFrom(t, l)[b], b) = TSO!Load(t, b)
===============================================================================
