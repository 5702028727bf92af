----------------------------- MODULE ThreadMemory -----------------------------
(***************************************************************************)
(* One execution of the simulated program, up to its crash: the x86-TSO    *)
(* store buffer and the clflushopt buffer of every thread (ThreadMemory),  *)
(* the global order of the writes (obj_wr_map), what each cache line is    *)
(* known to have written back (CacheLine.beginR) and the points where the  *)
(* checker decides whether to crash (shouldInsertCrash).                   *)
(*                                                                         *)
(* A ModelAction is the record act[i]; the buffers, the write lists and    *)
(* obj_to_last_write hold indices into act as the code holds pointers, 0   *)
(* being NULL in the latter and the ATOMIC_INIT action in a write list.    *)
(* Indices grow in the order in which the program issues its operations.   *)
(* The field issued is not the code's: the clock when a flush was issued.  *)
(*                                                                         *)
(* Emptying a buffer is a loop of the code that decides at each flush      *)
(* whether to crash.  It is modelled one iteration per step, under the     *)
(* control state (phase, cur, job, count); nothing else runs meanwhile,    *)
(* the checker being one thread of control.                                *)
(***************************************************************************)
EXTENDS Address, Sequences, FiniteSetsExt, Functions

CONSTANTS
  Thread,                \* the program's threads
  NoThread,              \* cur when no buffer is being emptied
  Byte,                  \* values the program stores in a byte; every byte is 0 at first
  Instr,                 \* the kinds of instruction the program uses
  MaxActs,               \* bound: operations issued in one execution
  BootSeq,               \* sequence numbers used up before the program's first operation
  CrashEnabled,          \* params.enableCrash and numcrashes < params.numcrashes
  FirstCrash,            \* params.firstCrash
  StoreBufferThreshold,  \* params.storebufferthreshold
  EvictMax,              \* params.evictmax
  ValueNone              \* VALUE_NONE, 0xdeadbeef: the default value of an action

Kind == {"write", "scwrite", "rmw", "clflush", "clflushopt", "sfence", "mfence", "read"}

\* ValueNone exceeds every sequence number an execution reaches.
ASSUME ThreadMemoryAssumption ==
  /\ IsFiniteSet(Thread) /\ NoThread \notin Thread
  /\ Instr \subseteq Kind \cup {"casfail"}
  /\ {MaxActs, FirstCrash, StoreBufferThreshold, EvictMax} \subseteq Nat
  /\ BootSeq \in Nat \ {0}
  /\ CrashEnabled \in BOOLEAN
  /\ ValueNone \in Nat /\ ValueNone > BootSeq + MaxActs

VARIABLES
  act,           \* every ModelAction of the execution
  sb,            \* ThreadMemory.storeBuffer
  fb,            \* ThreadMemory.flushBuffer
  obj_to_last_write,  \* ThreadMemory.obj_to_last_write
  lastsfence,    \* ThreadMemory.lastsfence
  flushcount,    \* ThreadMemory.flushcount
  wr,            \* ModelExecution.obj_wr_map
  begin,         \* CacheLine.beginR, 0 before the line has a CacheLine
  used,          \* used_sequence_numbers
  usage,         \* ModelExecution.storebufferusage
  noWriteSinceCrashCheck,
  hasCrashed,
  phase,         \* what the checker is doing
  cur,           \* the thread whose buffers are being emptied
  job,           \* on whose behalf they are emptied
  count,         \* emptyStoreBuffer: popped so far; random eviction: pops left
  rmw,           \* the RMW between its read and its write, or <<>>
  checkedAt      \* history: clock of the latest crash point that was explored

bufs == <<sb, fb, flushcount>>
mem  == <<wr, begin, used, noWriteSinceCrashCheck>>
ctl  == <<phase, cur, job, count>>
vars == <<act, sb, fb, obj_to_last_write, lastsfence, flushcount, wr, begin, used, usage,
          noWriteSinceCrashCheck, hasCrashed, phase, cur, job, count, rmw, checkedAt>>

Value == UNION {[BytesAt(l) -> Byte] : l \in Loc}
NoLoc == [addr |-> 0, size |-> 0]
Null  == <<>>

ModelAction ==
  [tid : Thread, kind : Kind, loc : Loc \cup {NoLoc}, val : Value \cup {Null}, seq : Nat,
   lastwrite : Nat, lastcommittedWrite : Nat, last_clflush : Nat, issued : Nat]

IsWrite(a)   == a.kind \in {"write", "scwrite", "rmw"}
IsCacheOp(a) == a.kind \in {"clflush", "clflushopt"}

Init ==
  /\ act = <<>>
  /\ sb = [t \in Thread |-> <<>>]
  /\ fb = [t \in Thread |-> <<>>]
  /\ obj_to_last_write = [t \in Thread |-> [l \in Line |-> 0]]
  /\ lastsfence = [t \in Thread |-> 0]
  /\ flushcount = [t \in Thread |-> 0]
  /\ wr = [w \in Word |-> <<>>]
  /\ begin = [l \in Line |-> 0]
  /\ used = BootSeq
  /\ usage = 0
  /\ noWriteSinceCrashCheck = FALSE
  /\ hasCrashed = FALSE
  /\ phase = "run" /\ cur = NoThread /\ job = "none" /\ count = 0
  /\ rmw = Null
  /\ checkedAt = 0

-------------------------------------------------------------------------------
(* Writes and reads of the current execution.                              *)

LocOf(i, w) == IF i = 0 THEN [addr |-> w, size |-> WordSize] ELSE act[i].loc

ValAt(i, b) == IF i = 0 THEN 0 ELSE act[i].val[b]

\* checkOverlap: entry i of a buffer or list holds a write to byte b.
Covers(i, b) == i = 0 \/ (IsWrite(act[i]) /\ b \in BytesAt(act[i].loc))

Covering(s, b) == {k \in DOMAIN s : Covers(s[k], b)}

\* Mutant of ReadFrom: no store forwarding.
ReadFromMemory(t, l) ==
  [b \in BytesAt(l) |->
     LET all == wr[alignAddress(l)] IN all[Max(Covering(all, b))]]

\* The write each byte is read from: the thread's own newest buffered one,
\* else the newest of the word's list.
ReadFrom(t, l) ==
  [b \in BytesAt(l) |->
     LET own == Covering(sb[t], b)
         all == wr[alignAddress(l)]
     IN  IF own # {} THEN sb[t][Max(own)] ELSE all[Max(Covering(all, b))]]

\* Mutant of IsSilent: compares with any earlier write, not the newest one.
IsSilentForAny(a) ==
  LET w == alignAddress(a.loc)
      s == wr[w]
  IN  \E k \in DOMAIN s :
        /\ Inside(a.loc, LocOf(s[k], w))
        /\ \A b \in BytesAt(a.loc) : ValAt(s[k], b) = a.val[b]

\* add_write_to_lists drops a store inside the newest overlapping write of the
\* word when it would not change a byte.
IsSilent(a) ==
  LET w == alignAddress(a.loc)
      s == wr[w]
  IN  \E k \in DOMAIN s :
        /\ \A j \in (k + 1) .. Len(s) : ~Overlap(a.loc, LocOf(s[j], w))
        /\ Inside(a.loc, LocOf(s[k], w))
        /\ \A b \in BytesAt(a.loc) : ValAt(s[k], b) = a.val[b]

\* Mutant of addWriteToLists: forgets that a write reached memory.
addWriteKeepingFlag(i) ==
  /\ wr' = IF IsSilent(act[i]) THEN wr
           ELSE [wr EXCEPT ![alignAddress(act[i].loc)] = Append(@, i)]
  /\ UNCHANGED noWriteSinceCrashCheck

addWriteToLists(i) ==
  IF IsSilent(act[i])
  THEN UNCHANGED <<wr, noWriteSinceCrashCheck>>
  ELSE /\ wr' = [wr EXCEPT ![alignAddress(act[i].loc)] = Append(@, i)]
       /\ noWriteSinceCrashCheck' = FALSE

\* initialize_curr_action: the action takes effect now.
Commit(i) ==
  /\ used' = used + 1
  /\ act' = [act EXCEPT ![i].seq = used + 1]

SeqNumOf(i) == IF i = 0 THEN 0 ELSE act[i].seq

-------------------------------------------------------------------------------
(* Crash points and flushes.                                               *)

NoCrashCheck ==
  ~CrashEnabled \/ noWriteSinceCrashCheck \/ used < FirstCrash

\* shouldInsertCrash returns FALSE: no node, or the node's choice is 1.
PassCrashPoint ==
  /\ noWriteSinceCrashCheck' = (noWriteSinceCrashCheck \/ ~NoCrashCheck)
  /\ checkedAt' = IF NoCrashCheck THEN checkedAt ELSE used

\* Mutants of persistCacheLine: a clflushopt counts as a clflush; the thread's
\* own last write to the line is forgotten.
persistAtFlush(i, l, now) == now

persistWithoutLastwrite(i, l, now) ==
  IF act[i].kind = "clflush"
  THEN now
  ELSE Max({begin[l], act[i].last_clflush, act[i].lastcommittedWrite})

\* persistCacheLine: how far the flush i of line l, effective at clock now,
\* lets the line be known as written back.
persistCacheLine(i, l, now) ==
  IF act[i].kind = "clflush"
  THEN now
  ELSE Max({begin[l], act[i].last_clflush, SeqNumOf(act[i].lastwrite), act[i].lastcommittedWrite})

evictCacheOp(i) ==
  /\ PassCrashPoint
  /\ Commit(i)
  /\ begin' = [begin EXCEPT ![getCacheID(act[i].loc)] =
                 persistCacheLine(i, getCacheID(act[i].loc), used + 1)]
  /\ UNCHANGED <<wr, hasCrashed>>

-------------------------------------------------------------------------------
(* emptyStoreBuffer and popFromStoreBuffer, one entry per step.            *)

Draining == phase = "sb" /\ sb[cur] # <<>> /\ (job = "pop" => count > 0)

head == Head(sb[cur])

Pop ==
  /\ sb' = [sb EXCEPT ![cur] = Tail(@)]
  /\ IF job = "pop" THEN usage' = usage - 1 /\ count' = count - 1
                    ELSE usage' = usage     /\ count' = count + 1
  /\ UNCHANGED <<phase, cur, job>>

EvictStore ==
  /\ Draining /\ IsWrite(act[head])
  /\ Pop
  /\ Commit(head)
  /\ addWriteToLists(head)
  /\ UNCHANGED <<fb, obj_to_last_write, lastsfence, flushcount, begin, hasCrashed, rmw, checkedAt>>

EvictClflush ==
  /\ Draining /\ act[head].kind = "clflush"
  /\ Pop
  /\ evictCacheOp(head)
  /\ flushcount' = [flushcount EXCEPT ![cur] = @ - 1]
  /\ UNCHANGED <<fb, obj_to_last_write, lastsfence, rmw>>

EvictFlushOpt ==
  /\ Draining /\ act[head].kind = "clflushopt"
  /\ Pop
  /\ act' = IF lastsfence[cur] = 0 THEN act
            ELSE [act EXCEPT ![head].last_clflush = SeqNumOf(lastsfence[cur])]
  /\ fb' = [fb EXCEPT ![cur] = Append(@, head)]
  /\ UNCHANGED <<obj_to_last_write, lastsfence, flushcount, mem, hasCrashed, rmw, checkedAt>>

\* The front of the flush buffer takes effect.
Flush ==
  /\ fb[cur] # <<>>
  /\ evictCacheOp(Head(fb[cur]))
  /\ fb' = [fb EXCEPT ![cur] = Tail(@)]
  /\ flushcount' = [flushcount EXCEPT ![cur] = @ - 1]
  /\ UNCHANGED <<sb, obj_to_last_write, lastsfence, usage, ctl, rmw>>

\* An sfence leaves the store buffer after the flush buffer is emptied.
FlushForSFence ==
  /\ Draining /\ act[head].kind = "sfence"
  /\ Flush

\* Mutant of EvictSFence: does not wait for the flush buffer.
EvictSFenceAtOnce ==
  /\ Draining /\ act[head].kind = "sfence"
  /\ Pop
  /\ lastsfence' = [lastsfence EXCEPT ![cur] = head]
  /\ Commit(head)
  /\ UNCHANGED <<fb, obj_to_last_write, flushcount, wr, begin, noWriteSinceCrashCheck, hasCrashed,
                 rmw, checkedAt>>

EvictSFence ==
  /\ Draining /\ act[head].kind = "sfence" /\ fb[cur] = <<>>
  /\ Pop
  /\ lastsfence' = [lastsfence EXCEPT ![cur] = head]
  /\ Commit(head)
  /\ UNCHANGED <<fb, obj_to_last_write, flushcount, wr, begin, noWriteSinceCrashCheck, hasCrashed,
                 rmw, checkedAt>>

\* Mutant of CrashInStoreBuffer: emptyStoreBuffer goes on after the crash.
CrashAndDrainOn ==
  /\ Draining /\ ~NoCrashCheck
  /\ \/ act[head].kind = "clflush" /\ UNCHANGED fb
     \/ /\ act[head].kind = "sfence" /\ fb[cur] # <<>>
        /\ fb' = [fb EXCEPT ![cur] = Tail(@)]
  /\ hasCrashed' = TRUE
  /\ Pop
  /\ UNCHANGED <<act, obj_to_last_write, lastsfence, flushcount, mem, rmw, checkedAt>>

\* The crash choice of shouldInsertCrash, at a clflush or at a flush an sfence
\* waits for.  Only the read half of an RMW does not look at the result and
\* goes on to the flush buffer.
CrashInStoreBuffer ==
  /\ Draining /\ ~NoCrashCheck
  /\ \/ act[head].kind = "clflush" /\ UNCHANGED fb
     \/ /\ act[head].kind = "sfence" /\ fb[cur] # <<>>
        /\ fb' = [fb EXCEPT ![cur] = Tail(@)]
  /\ hasCrashed' = TRUE
  /\ sb' = [sb EXCEPT ![cur] = Tail(@)]
  /\ usage' = IF job = "pop" THEN usage - 1 ELSE usage - (count + 1)
  /\ count' = 0
  /\ phase' = IF job = "rmwr" THEN "fb" ELSE "crashed"
  /\ UNCHANGED <<act, obj_to_last_write, lastsfence, flushcount, mem, cur, job, rmw, checkedAt>>

\* Mutant of StoreBufferEmptied: the read half of an RMW leaves its flush buffer
\* alone.
StoreBufferEmptiedForRMW ==
  /\ phase = "sb" /\ job # "pop" /\ sb[cur] = <<>>
  /\ usage' = usage - count
  /\ count' = 0
  /\ phase' = IF job = "rmwr" THEN "rmw" ELSE "fb"
  /\ cur' = IF job = "rmwr" THEN NoThread ELSE cur
  /\ job' = IF job = "rmwr" THEN "none" ELSE job
  /\ UNCHANGED <<act, bufs, obj_to_last_write, lastsfence, mem, hasCrashed, rmw, checkedAt>>

StoreBufferEmptied ==
  /\ phase = "sb" /\ job # "pop" /\ sb[cur] = <<>>
  /\ usage' = usage - count
  /\ count' = 0
  /\ phase' = "fb"
  /\ UNCHANGED <<act, bufs, obj_to_last_write, lastsfence, mem, hasCrashed, cur, job, rmw, checkedAt>>

\* Mutant of PopsDone: always returns to a pending RMW.
PopsDoneForRMW ==
  /\ phase = "sb" /\ job = "pop" /\ (count = 0 \/ sb[cur] = <<>>)
  /\ phase' = "rmwgo"
  /\ cur' = NoThread /\ job' = "none" /\ count' = 0
  /\ UNCHANGED <<act, bufs, obj_to_last_write, lastsfence, mem, usage, hasCrashed, rmw, checkedAt>>

PopsDone ==
  /\ phase = "sb" /\ job = "pop" /\ (count = 0 \/ sb[cur] = <<>>)
  /\ phase' = IF rmw = Null THEN "run" ELSE "rmwgo"
  /\ cur' = NoThread /\ job' = "none" /\ count' = 0
  /\ UNCHANGED <<act, bufs, obj_to_last_write, lastsfence, mem, usage, hasCrashed, rmw, checkedAt>>

-------------------------------------------------------------------------------
(* emptyFlushBuffer, and what follows it in the operation that asked.      *)

FlushNext == phase = "fb" /\ Flush

CrashInFlushBuffer ==
  /\ phase = "fb" /\ fb[cur] # <<>> /\ ~NoCrashCheck
  /\ hasCrashed' = TRUE
  /\ fb' = [fb EXCEPT ![cur] = Tail(@)]
  /\ phase' = "crashed"
  /\ UNCHANGED <<act, sb, obj_to_last_write, lastsfence, flushcount, mem, usage, cur, job, count,
                 rmw, checkedAt>>

\* The RMW whose drain decided to crash stops here.
FlushedAfterCrash ==
  /\ phase = "fb" /\ fb[cur] = <<>> /\ hasCrashed
  /\ phase' = "crashed"
  /\ UNCHANGED <<act, bufs, obj_to_last_write, lastsfence, mem, usage, hasCrashed, cur, job, count,
                 rmw, checkedAt>>

\* Mutant of FlushBufferEmptied: the fence that asked for it is dropped.
FlushBufferEmptiedForNobody ==
  /\ phase = "fb" /\ fb[cur] = <<>> /\ ~hasCrashed
  /\ rmw' = IF job = "rmwr" THEN [rmw EXCEPT !.from = ReadFrom(cur, rmw.loc)] ELSE rmw
  /\ phase' = IF job = "rmwr" THEN "rmw" ELSE "run"
  /\ cur' = NoThread /\ job' = "none"
  /\ UNCHANGED <<act, used, bufs, obj_to_last_write, lastsfence, wr, begin, noWriteSinceCrashCheck,
                 usage, hasCrashed, count, checkedAt>>

FlushBufferEmptied ==
  /\ phase = "fb" /\ fb[cur] = <<>> /\ ~hasCrashed
  /\ IF job = "fence" THEN Commit(Len(act)) ELSE UNCHANGED <<act, used>>
  /\ rmw' = IF job = "rmwr" THEN [rmw EXCEPT !.from = ReadFrom(cur, rmw.loc)] ELSE rmw
  /\ phase' = IF job = "rmwr" THEN "rmw" ELSE "run"
  /\ cur' = NoThread /\ job' = "none"
  /\ UNCHANGED <<bufs, obj_to_last_write, lastsfence, wr, begin, noWriteSinceCrashCheck, usage,
                 hasCrashed, count, checkedAt>>

-------------------------------------------------------------------------------
(* The program's instructions, when the scheduler runs the thread's action. *)

Action(t, k, l, v, s) ==
  [tid |-> t, kind |-> k, loc |-> l, val |-> v, seq |-> s,
   lastwrite |-> 0, lastcommittedWrite |-> 0, last_clflush |-> ValueNone, issued |-> 0]

CanIssue(k) == phase = "run" /\ k \in Instr /\ Len(act) < MaxActs

new == Len(act) + 1

\* emptyStoreBuffer() || emptyFlushBuffer() on behalf of thread t
StartDrain(t, j) == phase' = "sb" /\ cur' = t /\ job' = j /\ UNCHANGED count

\* Mutant of Enqueue: at the wrong end of the store buffer.
EnqueueFirst(t) ==
  /\ sb' = [sb EXCEPT ![t] = <<new>> \o @]
  /\ usage' = usage + 1

Enqueue(t) ==
  /\ sb' = [sb EXCEPT ![t] = Append(@, new)]
  /\ usage' = usage + 1

\* A word accessed for the first time gets its ATOMIC_INIT write.
EnsureInitialValue(w) ==
  /\ phase = "run" /\ wr[w] = <<>>
  /\ wr' = [wr EXCEPT ![w] = <<0>>]
  /\ noWriteSinceCrashCheck' = FALSE
  /\ UNCHANGED <<act, bufs, obj_to_last_write, lastsfence, begin, used, usage, hasCrashed, ctl,
                 rmw, checkedAt>>

Initialized(l) == wr[alignAddress(l)] # <<>>

\* A plain or (scwrite) sequentially consistent store: addWrite.
Write(t, k, l, v) ==
  /\ CanIssue(k) /\ Initialized(l)
  /\ act' = Append(act, Action(t, k, l, v, 0))
  /\ Enqueue(t)
  /\ obj_to_last_write' = [obj_to_last_write EXCEPT ![t][getCacheID(l)] = new]
  /\ IF k = "scwrite" THEN StartDrain(t, "seqcst") ELSE UNCHANGED ctl
  /\ UNCHANGED <<fb, lastsfence, flushcount, mem, hasCrashed, rmw, checkedAt>>

\* clflush, or clflushopt / clwb: addCacheOp.
CacheOp(t, k, l) ==
  /\ CanIssue(k)
  /\ act' = Append(act, [Action(t, k, l, Null, 0) EXCEPT
                           !.lastwrite = obj_to_last_write[t][getCacheID(l)],
                           !.lastcommittedWrite = used,
                           !.issued = used])
  /\ Enqueue(t)
  /\ flushcount' = [flushcount EXCEPT ![t] = @ + 1]
  /\ obj_to_last_write' = IF k = "clflush"
                          THEN [obj_to_last_write EXCEPT ![t][getCacheID(l)] = new]
                          ELSE obj_to_last_write
  /\ UNCHANGED <<fb, lastsfence, mem, hasCrashed, ctl, rmw, checkedAt>>

SFence(t) ==
  /\ CanIssue("sfence")
  /\ act' = Append(act, Action(t, "sfence", NoLoc, Null, 0))
  /\ Enqueue(t)
  /\ UNCHANGED <<fb, obj_to_last_write, lastsfence, flushcount, mem, hasCrashed, ctl, rmw, checkedAt>>

\* mfence, and the operations on threads and mutexes (is_locked_operation),
\* take effect once both buffers of the thread are empty.
MFence(t) ==
  /\ CanIssue("mfence")
  /\ act' = Append(act, Action(t, "mfence", NoLoc, Null, 0))
  /\ StartDrain(t, "fence")
  /\ UNCHANGED <<bufs, obj_to_last_write, lastsfence, mem, usage, hasCrashed, rmw, checkedAt>>

\* A load; before any crash there is one value to read, ReadFrom(t, l).
Read(t, l) ==
  /\ CanIssue("read") /\ Initialized(l)
  /\ act' = Append(act, Action(t, "read", l, Null, used + 1))
  /\ used' = used + 1
  /\ UNCHANGED <<bufs, obj_to_last_write, lastsfence, wr, begin, noWriteSinceCrashCheck, usage,
                 hasCrashed, ctl, rmw, checkedAt>>

\* Mutant of RMWRead: reads before its own stores have left the buffer.
RMWReadEarly(t, l) ==
  /\ CanIssue("rmw") /\ Initialized(l)
  /\ rmw' = [tid |-> t, loc |-> l, from |-> ReadFrom(t, l)]
  /\ phase' = "fb" /\ cur' = t /\ job' = "rmwr"
  /\ UNCHANGED <<act, bufs, obj_to_last_write, lastsfence, mem, count, usage, hasCrashed, checkedAt>>

\* ATOMIC_RMWR: both buffers are emptied, then the old value is read.
RMWRead(t, l) ==
  /\ CanIssue("rmw") /\ Initialized(l)
  /\ rmw' = [tid |-> t, loc |-> l, from |-> ReadFrom(t, l)]
  /\ StartDrain(t, "rmwr")
  /\ UNCHANGED <<act, bufs, obj_to_last_write, lastsfence, mem, usage, hasCrashed, checkedAt>>

\* ATOMIC_RMW: the buffers being empty, the store goes through the store
\* buffer straight to memory.
RMWWrite(v) ==
  /\ phase \in {"rmw", "rmwgo"} /\ "rmw" \in Instr
  /\ v \in [BytesAt(rmw.loc) -> Byte]
  /\ LET a == Action(rmw.tid, "rmw", rmw.loc, v, used + 1)
         w == alignAddress(rmw.loc)
     IN  /\ act' = Append(act, a)
         /\ wr' = IF IsSilent(a) THEN wr ELSE [wr EXCEPT ![w] = Append(@, new)]
         /\ noWriteSinceCrashCheck' = (noWriteSinceCrashCheck /\ IsSilent(a))
  /\ used' = used + 1
  /\ obj_to_last_write' = [obj_to_last_write EXCEPT ![rmw.tid][getCacheID(rmw.loc)] = new]
  /\ rmw' = Null /\ phase' = "run"
  /\ UNCHANGED <<bufs, lastsfence, begin, usage, hasCrashed, cur, job, count, checkedAt>>

\* ATOMIC_CAS_FAILED: the read alone remains, a load.
CASFail ==
  /\ phase \in {"rmw", "rmwgo"} /\ "casfail" \in Instr
  /\ act' = Append(act, Action(rmw.tid, "read", rmw.loc, Null, used + 1))
  /\ used' = used + 1
  /\ rmw' = Null /\ phase' = "run"
  /\ UNCHANGED <<bufs, obj_to_last_write, lastsfence, wr, begin, noWriteSinceCrashCheck, usage,
                 hasCrashed, cur, job, count, checkedAt>>

\* getNextThread, when no thread can run on without the scheduler: too many
\* operations are buffered, so some leave a buffer chosen at random.  It runs
\* once between the two halves of an RMW ("rmw", then "rmwgo").
EvictRandom(t, n) ==
  /\ phase \in {"run", "rmw"}
  /\ usage > StoreBufferThreshold * (Cardinality(Thread) + 1)
  /\ phase' = "sb" /\ cur' = t /\ job' = "pop" /\ count' = n
  /\ UNCHANGED <<act, bufs, obj_to_last_write, lastsfence, mem, usage, hasCrashed, rmw, checkedAt>>

-------------------------------------------------------------------------------
(* The end of the execution.                                               *)

\* The program has finished: one last crash, or none.
Finish ==
  /\ phase = "run"
  /\ phase' = IF CrashEnabled /\ ~noWriteSinceCrashCheck /\ used >= FirstCrash
              THEN "crashed" ELSE "done"
  /\ UNCHANGED <<act, bufs, obj_to_last_write, lastsfence, mem, usage, hasCrashed, cur, job, count,
                 rmw, checkedAt>>

\* freeActions: a crash loses what is still buffered.
FreeActions(t) ==
  /\ phase = "crashed"
  /\ sb[t] # <<>> \/ fb[t] # <<>> \/ flushcount[t] # 0
  /\ sb' = [sb EXCEPT ![t] = <<>>]
  /\ fb' = [fb EXCEPT ![t] = <<>>]
  /\ flushcount' = [flushcount EXCEPT ![t] = 0]
  /\ usage' = usage - Len(sb[t])
  /\ UNCHANGED <<act, obj_to_last_write, lastsfence, mem, hasCrashed, ctl, rmw, checkedAt>>

\* doCrash: the execution becomes a prior execution.
DoCrash ==
  /\ phase = "crashed"
  /\ \A t \in Thread : sb[t] = <<>> /\ fb[t] = <<>> /\ flushcount[t] = 0
  /\ phase' = "done"
  /\ UNCHANGED <<act, bufs, obj_to_last_write, lastsfence, mem, usage, hasCrashed, cur, job, count,
                 rmw, checkedAt>>

Terminated == phase = "done" /\ UNCHANGED vars

-------------------------------------------------------------------------------

Issue ==
  \/ \E w \in Word : EnsureInitialValue(w)
  \/ \E t \in Thread, l \in Loc :
       \/ \E k \in {"write", "scwrite"}, v \in [BytesAt(l) -> Byte] : Write(t, k, l, v)
       \/ \E k \in {"clflush", "clflushopt"} : CacheOp(t, k, l)
       \/ Read(t, l)
       \/ RMWRead(t, l)
  \/ \E t \in Thread : SFence(t) \/ MFence(t)
  \/ \E v \in Value : RMWWrite(v)
  \/ CASFail
  \/ \E t \in Thread, n \in 1 .. (EvictMax - 1) : EvictRandom(t, n)
  \/ Finish

\* The steps of the loops that, once entered, the code runs to their end.
Drain ==
  \/ EvictStore \/ EvictClflush \/ EvictFlushOpt \/ FlushForSFence \/ EvictSFence
  \/ CrashInStoreBuffer \/ StoreBufferEmptied \/ PopsDone
  \/ FlushNext \/ CrashInFlushBuffer \/ FlushedAfterCrash \/ FlushBufferEmptied
  \/ (\E t \in Thread : FreeActions(t)) \/ DoCrash

Next == Issue \/ Drain \/ Terminated

Spec == Init /\ [][Next]_vars

\* The loops run to completion in one call, with no other thread of control.
FairSpec == Spec /\ WF_vars(Drain)

-------------------------------------------------------------------------------
(* Properties.                                                             *)

Acts == DOMAIN act

ActsOK ==
  /\ act \in Seq(ModelAction)
  /\ \A i \in Acts :
       /\ act[i].kind \in {"sfence", "mfence"} \/ act[i].loc \in Loc
       /\ IsWrite(act[i]) => act[i].val \in [BytesAt(act[i].loc) -> Byte]
       /\ act[i].lastwrite \in 0 .. Len(act)

BuffersOK ==
  /\ sb \in [Thread -> Seq(Acts)]
  /\ \A t \in Thread : \A k \in DOMAIN sb[t] :
       act[sb[t][k]].kind \in {"write", "scwrite", "clflush", "clflushopt", "sfence"}
  /\ fb \in [Thread -> Seq(Acts)]
  /\ \A t \in Thread : \A k \in DOMAIN fb[t] : act[fb[t][k]].kind \in {"clflushopt"}

IndicesOK ==
  /\ obj_to_last_write \in [Thread -> [Line -> 0 .. Len(act)]]
  /\ lastsfence \in [Thread -> 0 .. Len(act)]
  /\ wr \in [Word -> Seq(0 .. Len(act))]

CountersOK ==
  /\ flushcount \in [Thread -> Int]
  /\ begin \in [Line -> Nat]
  /\ used \in Nat /\ usage \in Int /\ count \in Nat /\ checkedAt \in Nat
  /\ noWriteSinceCrashCheck \in BOOLEAN /\ hasCrashed \in BOOLEAN

ControlOK ==
  /\ phase \in {"run", "sb", "fb", "rmw", "rmwgo", "crashed", "done"}
  /\ job \in {"none", "fence", "seqcst", "rmwr", "pop"}
  /\ cur \in Thread \cup {NoThread}
  /\ phase \in {"sb", "fb"} => cur \in Thread
  /\ phase = "fb" => job # "pop"
  /\ phase \in {"sb", "fb"} /\ job = "fence" => Len(act) > 0
  /\ rmw = Null \/ /\ DOMAIN rmw = {"tid", "loc", "from"}
                   /\ rmw.tid \in Thread /\ rmw.loc \in Loc
  /\ phase \in {"rmw", "rmwgo"} \/ (phase \in {"sb", "fb"} /\ job = "rmwr") => rmw # Null

\* The shape of the state: indices point into act, buffers hold what the code
\* buffers, and the control state names a thread and an RMW when it needs them.
TypeOK == ActsOK /\ BuffersOK /\ IndicesOK /\ CountersOK /\ ControlOK

SameThread(i, j) == act[i].tid = act[j].tid
SameLine(i, j) == getCacheID(act[i].loc) = getCacheID(act[j].loc)
Committed(i) == act[i].seq # 0
Persisted(i) == Committed(i) /\ act[i].seq =< begin[getCacheID(act[i].loc)]

\* Stores, clflushes and sfences of a thread take effect in program order, none
\* before an earlier one, and every write list is in commit order.
StoreOrder ==
  /\ \A i, j \in Acts :
       i < j /\ SameThread(i, j) /\ Committed(j)
         /\ {act[i].kind, act[j].kind} \subseteq {"write", "scwrite", "rmw", "clflush", "sfence"}
       => Committed(i) /\ act[i].seq < act[j].seq
  /\ \A w \in Word : \A k \in DOMAIN wr[w] : k > 1 => SeqNumOf(wr[w][k - 1]) < SeqNumOf(wr[w][k])

\* A flush that has taken effect makes durable every write to its line that its
\* thread issued before it and every write of any thread that was in memory
\* when it was issued: no later crash can lose them.
FlushDurable ==
  \A f, w \in Acts :
    /\ IsCacheOp(act[f]) /\ Committed(f) /\ IsWrite(act[w]) /\ SameLine(f, w)
    /\ (SameThread(f, w) /\ w < f) \/ (Committed(w) /\ act[w].seq =< act[f].issued)
    => Persisted(w)

\* When an sfence has taken effect, and whenever the scheduler is about to run
\* the next operation after an mfence, RMW or seq_cst store, everything its
\* thread issued earlier has taken effect, clflushopts included.
FencesComplete ==
  \A i, m \in Acts :
    i < m /\ SameThread(i, m)
      /\ \/ act[m].kind = "sfence" /\ Committed(m)
         \/ act[m].kind \in {"mfence", "rmw", "scwrite"} /\ phase = "run"
    => Committed(i)

\* The converse of FlushDurable, without which crash states would be missed: a
\* line is only taken to be written back up to a write that some flush is
\* bound to have covered.  A clflushopt is bound to cover what precedes an
\* operation of its thread it cannot be reordered with.
CoverJustified ==
  \A w \in Acts :
    IsWrite(act[w]) /\ Persisted(w) /\ begin[getCacheID(act[w].loc)] # ValueNone
    => \E f \in Acts :
         /\ IsCacheOp(act[f]) /\ Committed(f) /\ SameLine(f, w)
         /\ \/ act[f].kind = "clflush" /\ act[w].seq < act[f].seq
            \/ act[w].seq =< act[f].issued
            \/ \E o \in Acts :
                 /\ o < f /\ SameThread(o, f) /\ act[w].seq =< act[o].seq
                 /\ \/ act[o].kind = "sfence"
                    \/ (IsWrite(act[o]) \/ act[o].kind = "clflush") /\ SameLine(o, f)

\* cacheline.h: beginR is the earliest point at which the line could have been
\* written out, a sequence number of the execution.
BeginIsAClock == \A l \in Line : begin[l] =< used

\* A crash point is skipped only if no write has reached memory since the last
\* one that was explored: the stores that a crash here could keep are those of
\* that point.
NoLostCrashPoint ==
  noWriteSinceCrashCheck => \A w \in Word : \A k \in DOMAIN wr[w] : SeqNumOf(wr[w][k]) =< checkedAt

\* process_write empties the store buffer after an RMW without looking for a
\* crash, "because there are no flushes left": both buffers are empty then.
NoFlushesLeft ==
  phase \in {"rmw", "rmwgo"} => sb[rmw.tid] = <<>> /\ fb[rmw.tid] = <<>>

\* action_select_next_thread: "RMW actions occur in two parts, and we cannot
\* split them": no store comes between the read and the write of an RMW.
RMWNotSplit ==
  phase \in {"rmw", "rmwgo"} => rmw.from = ReadFrom(rmw.tid, rmw.loc)

\* Once the checker has decided to crash no store reaches memory, so that the
\* next execution sees none that the crash preceded.
CrashFreezesStores == [][hasCrashed => wr' = wr]_vars

Unfenced == {i \in Acts : act[i].kind = "mfence" /\ ~Committed(i)}

\* Every mfence and locked operation takes effect, or the execution ends in a crash.
FenceCompletes == Unfenced # {} ~> (Unfenced = {} \/ phase = "done")

===============================================================================
