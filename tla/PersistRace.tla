------------------------------ MODULE PersistRace ------------------------------
(***************************************************************************)
(* The persistency race analysis (persistrace.cc) and the calls it is made *)
(* of.  While an execution runs, its threads' stores and flushes leave the *)
(* buffers (threadmemory.cc) and the analysis notes, for every store, the  *)
(* flushes known to cover it.  After the crash every load is told which    *)
(* stores it may read from; a nonatomic one that no flush covered in the   *)
(* part of the crashed execution the loads have seen so far is an error,   *)
(* one that no flush covered at all a warning.                             *)
(*                                                                         *)
(* acts holds the actions of the execution that crashes; stores, flushes   *)
(* and fences are known by their place in it, 0 is NULL.  A store stays    *)
(* within its line (see Address) and none is silent.  Loads after the      *)
(* crash are of single bytes.                                              *)
(***************************************************************************)
EXTENDS Integers, Sequences, FiniteSetsExt, SequencesExt, TLC

CONSTANTS
  N,              \* threads
  Address,        \* bytes
  CacheLineSize,  \* CACHELINESIZE
  Program,        \* what the threads may do: sequences of operations [op, b, n]
  ValueNone,      \* VALUE_NONE, what last_clflush is before it is set
  MaxOps          \* bound: operations after the crash

Thread == 1 .. N

getCacheID(b) == b \div CacheLineSize
Line          == {getCacheID(b) : b \in Address}
Bytes(a)      == a.b .. (a.b + a.n - 1)

Accesses  == {"store", "atomic", "seqcst", "load", "rmwr", "rmw", "casfail", "clflush", "clwb"}
Operation == [op : Accesses \cup {"sfence", "mfence", "persist"}, b : Nat, n : Nat]

\* "rmwr" is the first half of an RMW ("rmw") or of a CAS that fails ("casfail").
HalvesMeet(o, p) ==
  /\ o.op = "rmwr" <=> p.op \in {"rmw", "casfail"}
  /\ o.op = "rmwr" => p.b = o.b /\ p.n = o.n

\* An access stays within a line; no half is alone.
Issuable(s) ==
  /\ s \in Seq(Operation)
  /\ \A k \in DOMAIN s :
       /\ s[k].op \in Accesses =>
            s[k].n > 0 /\ \A b \in Bytes(s[k]) : b \in Address /\ getCacheID(b) = getCacheID(s[k].b)
       /\ k = 1 => s[k].op \notin {"rmw", "casfail"}
       /\ k > 1 => HalvesMeet(s[k - 1], s[k])
       /\ k = Len(s) => s[k].op # "rmwr"

ASSUME PersistRaceAssumption ==
  /\ {N, CacheLineSize} \subseteq Nat \ {0}
  /\ Address \subseteq Nat /\ IsFiniteSet(Address)
  /\ {ValueNone, MaxOps} \subseteq Nat
  /\ \A p \in Program : DOMAIN p = Thread /\ \A t \in Thread : Issuable(p[t])

VARIABLES
  \* the execution
  prog, pc,           \* the program and the next operation of every thread
  acts,               \* its actions
  used,               \* used_sequence_numbers
  last,               \* the clock vector of thrd_last_action
  storeBuffer, flushBuffer,
  lastsfence,
  obj_to_last_write,  \* the last store or clflush a thread issued, per line
  begin, end,         \* the window of every line
  \* PersistRace
  lastWrites, lastFlush, flushmap, pendingclwbs,
  beginRangeCV,       \* no entry is TLC's empty function
  \* the checker
  phase,              \* "running"; after the crash how it came about
  aborted,            \* the fence at which fenceExecutionAnalysis asserted
  ops,                \* counts to MaxOps
  \* ghosts
  observed,           \* the clocks of the crashed execution that loads have seen
  atomicSeen,         \* the latest atomic store read after the crash, per line
  report              \* the last load's choices and what was said of them

execVars == <<prog, pc, acts, last, storeBuffer, flushBuffer, lastsfence, obj_to_last_write>>
vars == <<execVars, used, begin, end, lastWrites, lastFlush, flushmap, pendingclwbs,
          beginRangeCV, phase, aborted, ops, observed, atomicSeen, report>>

IsWrite(a)       == a.op \in {"store", "atomic", "seqcst", "rmw"}
IsAtomicWrite(a) == a.op \in {"atomic", "seqcst", "rmw"}
IsClflush(a)     == a.op = "clflush"

ZeroCV     == [u \in Thread |-> 0]
NoEntry    == <<>>
EmptyReport == [cands |-> {}, errors |-> {}, warnings |-> {}, observed |-> ZeroCV,
                atomicSeen |-> 0]

merge(c, d) == [u \in Thread |-> IF d[u] > c[u] THEN d[u] ELSE c[u]]

Init ==
  /\ prog \in Program /\ pc = [t \in Thread |-> 1]
  /\ acts = <<>> /\ used = N
  /\ last = [t \in Thread |-> [u \in Thread |-> IF u = t THEN t ELSE 0]]
  /\ storeBuffer = [t \in Thread |-> <<>>] /\ flushBuffer = [t \in Thread |-> <<>>]
  /\ lastsfence = [t \in Thread |-> 0]
  /\ obj_to_last_write = [t \in Thread |-> [l \in Line |-> 0]]
  /\ begin = [l \in Line |-> 0] /\ end = [l \in Line |-> 0]
  /\ lastWrites = [b \in Address |-> 0] /\ lastFlush = [l \in Line |-> 0]
  /\ flushmap = {} /\ pendingclwbs = <<>> /\ beginRangeCV = NoEntry
  /\ phase = "running" /\ aborted = 0 /\ ops = 0
  /\ observed = ZeroCV /\ atomicSeen = [l \in Line |-> 0] /\ report = EmptyReport

-------------------------------------------------------------------------------
(* The analysis of the running execution.  x holds the variables that      *)
(* leaving a buffer changes.                                               *)

Now ==
  [acts |-> acts, used |-> used, last |-> last, storeBuffer |-> storeBuffer,
   flushBuffer |-> flushBuffer, lastsfence |-> lastsfence, begin |-> begin,
   lastWrites |-> lastWrites, flushmap |-> flushmap, pendingclwbs |-> pendingclwbs,
   aborted |-> aborted]

Becomes(x) ==
  /\ acts' = x.acts /\ used' = x.used /\ last' = x.last
  /\ storeBuffer' = x.storeBuffer /\ flushBuffer' = x.flushBuffer
  /\ lastsfence' = x.lastsfence /\ begin' = x.begin
  /\ lastWrites' = x.lastWrites /\ flushmap' = x.flushmap
  /\ pendingclwbs' = x.pendingclwbs /\ aborted' = x.aborted

happens_before(x, i, j) == x.acts[i].seq =< x.acts[j].cv[x.acts[i].t]

flushExistsBeforeCV(map, as, w, cv) == \E e \in map : e.w = w /\ as[e.f].seq =< cv[e.t]

\* For each of the stores ws, f becomes the flush of its thread.
updateFlushVector(x, ws, f) ==
  {e \in x.flushmap : ~(e.w \in ws /\ e.t = x.acts[f].t)}
    \cup {[w |-> w, t |-> x.acts[f].t, f |-> f] : w \in ws}

\* The latest stores to line l.
LastWritesOf(x, l) == {x.lastWrites[b] : b \in {a \in Address : getCacheID(a) = l}} \ {0}

NotYetFlushed(x, ws, f) ==
  {w \in ws : ~flushExistsBeforeCV(x.flushmap, x.acts, w, x.acts[f].cv)}

evictFlushBufferAnalysis(x, f) ==
  IF IsClflush(x.acts[f])
  THEN LET ws == {w \in LastWritesOf(x, getCacheID(x.acts[f].b)) : happens_before(x, w, f)}
       IN  [x EXCEPT !.flushmap = updateFlushVector(x, NotYetFlushed(x, ws, f), f)]
  ELSE [x EXCEPT !.pendingclwbs = Append(@, f)]

\* Mutant of evictStoreBufferAnalysis: only the first byte is noted.
evictFirstByteAnalysis(x, w) ==
  [x EXCEPT !.lastWrites = [@ EXCEPT ![x.acts[w].b] = w]]

evictStoreBufferAnalysis(x, w) ==
  [x EXCEPT !.lastWrites = [b \in Address |-> IF b \in Bytes(x.acts[w]) THEN w ELSE @[b]]]

\* Mutant of CoveredTo: always the clwb.
CoveredToItself(x, c) == c

\* The clwb covers what happens before the store its thread issued last; without
\* one, what happens before the clwb as it takes effect.
CoveredTo(x, c) == IF x.acts[c].lastwrite # 0 THEN x.acts[c].lastwrite ELSE c

\* Completes the clwbs of all threads that have left their flush buffers.
fenceExecutionAnalysis(x, f) ==
  LET pending == ToSet(x.pendingclwbs)
      ws == UNION {{w \in LastWritesOf(x, getCacheID(x.acts[c].b)) :
                      happens_before(x, w, CoveredTo(x, c))} : c \in pending}
  IN  IF \E c \in pending : x.acts[c].seq >= x.acts[f].seq
      THEN [x EXCEPT !.aborted = f]
      ELSE [x EXCEPT !.flushmap = updateFlushVector(x, NotYetFlushed(x, ws, f), f),
                     !.pendingclwbs = <<>>]

-------------------------------------------------------------------------------
(* Leaving the buffers.                                                    *)

\* remove_action_from_store_buffer: action i gets its sequence number.
TakeEffect(x, i) ==
  LET a == [x.acts[i] EXCEPT !.seq = x.used + 1, !.cv = [@ EXCEPT ![x.acts[i].t] = x.used + 1]]
  IN  [x EXCEPT !.used = @ + 1, !.acts = [@ EXCEPT ![i] = a],
                !.last = [@ EXCEPT ![a.t] = a.cv]]

\* persistCacheLine
earliestclock(x, c) ==
  LET a == x.acts[c]
  IN  Max({a.lastcommittedWrite, a.last_clflush}
            \cup {x.acts[i].seq : i \in {a.lastwrite} \ {0}})

persistCacheLine(x, f) ==
  LET l == getCacheID(x.acts[f].b)
  IN  IF IsClflush(x.acts[f]) THEN [x EXCEPT !.begin[l] = x.acts[f].seq]
      ELSE [x EXCEPT !.begin[l] = Max({@, earliestclock(x, f)})]

evictCacheOp(x, f) == evictFlushBufferAnalysis(persistCacheLine(TakeEffect(x, f), f), f)

popFromFlushBuffer(x, t) ==
  evictCacheOp([x EXCEPT !.flushBuffer[t] = Tail(@)], Head(x.flushBuffer[t]))

\* The first n clwbs of t's flush buffer leave it.
drainFlushBuffer(x, t, n) ==
  LET after[k \in 0 .. n] == IF k = 0 THEN x ELSE popFromFlushBuffer(after[k - 1], t)
  IN  after[n]

emptyFlushBuffer(x, t) == drainFlushBuffer(x, t, Len(x.flushBuffer[t]))

evictFlushOpt(x, c) ==
  LET t == x.acts[c].t
      y == [x EXCEPT !.flushBuffer[t] = Append(@, c)]
  IN  IF x.lastsfence[t] = 0 THEN y
      ELSE [y EXCEPT !.acts[c].last_clflush = x.acts[x.lastsfence[t]].seq]

evictSfence(x, f) ==
  LET t == x.acts[f].t
      y == TakeEffect([emptyFlushBuffer(x, t) EXCEPT !.lastsfence[t] = f], f)
  IN  fenceExecutionAnalysis(y, f)

evictOpFromStoreBuffer(x, i) ==
  CASE IsWrite(x.acts[i])         -> evictStoreBufferAnalysis(TakeEffect(x, i), i)
    [] x.acts[i].op = "sfence"    -> evictSfence(x, i)
    [] x.acts[i].op = "clflush"   -> evictCacheOp(x, i)
    [] x.acts[i].op = "clwb"      -> evictFlushOpt(x, i)

popFromStoreBuffer(x, t) ==
  evictOpFromStoreBuffer([x EXCEPT !.storeBuffer[t] = Tail(@)],
                         Head(x.storeBuffer[t]))

emptyStoreBuffer(x, t) ==
  LET after[k \in 0 .. Len(x.storeBuffer[t])] ==
        IF k = 0 THEN x ELSE popFromStoreBuffer(after[k - 1], t)
  IN  after[Len(x.storeBuffer[t])]

Empty(x, t) == emptyFlushBuffer(emptyStoreBuffer(x, t), t)

\* makeExecutionPersistent does so for every thread.
EmptyUpTo(x, n) ==
  LET after[t \in 0 .. n] == IF t = 0 THEN x ELSE Empty(after[t - 1], t)
  IN  after[n]

-------------------------------------------------------------------------------
(* The operations of the program.                                          *)

At(op, b, n) == [op |-> op, b |-> b, n |-> n]

Pending(t) == IF pc[t] =< Len(prog[t]) THEN prog[t][pc[t]] ELSE At("none", 0, 0)

\* Between the halves of an RMW no other thread is chosen.
HalfWay(t) == Pending(t).op \in {"rmw", "casfail"}

Does(t, kinds) ==
  /\ phase = "running" /\ aborted = 0
  /\ Pending(t).op \in kinds
  /\ \A u \in Thread \ {t} : ~HalfWay(u)
  /\ pc' = [pc EXCEPT ![t] = @ + 1]
  /\ UNCHANGED <<prog, end, lastFlush, phase, ops, atomicSeen, report>>

\* The action of t's next operation, coming after clock vector c.
NewAction(t, c) ==
  [op |-> Pending(t).op, b |-> Pending(t).b, n |-> Pending(t).n, t |-> t, seq |-> 0,
   cv |-> [c EXCEPT ![t] = 0], lastwrite |-> 0, lastcommittedWrite |-> 0,
   last_clflush |-> ValueNone]

With(x, a) == [x EXCEPT !.acts = Append(@, a)]

Buffered(x, t) == [x EXCEPT !.storeBuffer[t] = Append(@, Len(x.acts))]

NoRange == UNCHANGED <<beginRangeCV, observed>>

IssuedLast(t, l) == obj_to_last_write' = [obj_to_last_write EXCEPT ![t] = [@ EXCEPT ![l] = Len(acts) + 1]]

\* addWrite
Write(t) ==
  /\ Does(t, {"store", "atomic"})
  /\ Becomes(Buffered(With(Now, NewAction(t, last[t])), t))
  /\ IssuedLast(t, getCacheID(Pending(t).b))
  /\ NoRange

\* addCacheOp
CacheOp(t) ==
  LET l == getCacheID(Pending(t).b)
      a == [NewAction(t, last[t]) EXCEPT !.lastwrite = obj_to_last_write[t][l],
                                          !.lastcommittedWrite = used]
  IN  /\ Does(t, {"clflush", "clwb"})
      /\ Becomes(Buffered(With(Now, a), t))
      /\ IF Pending(t).op = "clflush" THEN IssuedLast(t, l) ELSE UNCHANGED obj_to_last_write
      /\ NoRange

\* process_store_fence
SFence(t) ==
  /\ Does(t, {"sfence"})
  /\ Becomes(Buffered(With(Now, NewAction(t, last[t])), t))
  /\ UNCHANGED obj_to_last_write /\ NoRange

\* An mfence or a locked operation.
Fence(t) ==
  LET x == Empty(With(Now, NewAction(t, last[t])), t)
      f == Len(acts) + 1
  IN  /\ Does(t, {"mfence"})
      /\ Becomes(fenceExecutionAnalysis(TakeEffect(x, f), f))
      /\ UNCHANGED obj_to_last_write /\ NoRange

\* A seq_cst store is a fence too, but one with an earlier number than the
\* clwbs it waits for.
SeqCstStore(t) ==
  LET x == Empty(Buffered(With(Now, NewAction(t, last[t])), t), t)
  IN  /\ Does(t, {"seqcst"})
      /\ Becomes(fenceExecutionAnalysis(x, Len(acts) + 1))
      /\ IssuedLast(t, getCacheID(Pending(t).b))
      /\ NoRange

\* The writes of the execution to byte b, as far as they have reached memory.
Writes(as, b) == {i \in DOMAIN as : IsWrite(as[i]) /\ as[i].seq # 0 /\ b \in Bytes(as[i])}

Newest(as, ws) == CHOOSE i \in ws : \A j \in ws : as[j].seq =< as[i].seq

\* The clock vector of a read of b by t: the store it reads from is merged.
ReadCV(x, t, b) ==
  IF (\E i \in ToSet(x.storeBuffer[t]) : IsWrite(x.acts[i]) /\ b \in Bytes(x.acts[i]))
     \/ Writes(x.acts, b) = {}
  THEN last[t]
  ELSE merge(last[t], x.acts[Newest(x.acts, Writes(x.acts, b))].cv)

Read(t) ==
  LET c == [ReadCV(Now, t, Pending(t).b) EXCEPT ![t] = used + 1]
  IN  /\ Does(t, {"load"})
      /\ Becomes([Now EXCEPT !.used = used + 1, !.last = [last EXCEPT ![t] = c]])
      /\ UNCHANGED obj_to_last_write /\ NoRange

\* The first half of an RMW or CAS: it empties the buffers and reads.
RMWRead(t) ==
  LET x == Empty(Now, t)
      c == [ReadCV(x, t, Pending(t).b) EXCEPT ![t] = 0]
  IN  /\ Does(t, {"rmwr"})
      /\ Becomes([With(x, NewAction(t, c)) EXCEPT !.last = [@ EXCEPT ![t] = c]])
      /\ UNCHANGED obj_to_last_write /\ NoRange

\* The thread's last action, an ATOMIC_RMWR.
HalfOf(t) == CHOOSE i \in DOMAIN acts : acts[i].t = t /\ acts[i].op = "rmwr"

\* The second: it becomes an ATOMIC_RMW, is stored and works as a fence.
RMW(t) ==
  LET i == HalfOf(t)
      x == Empty([Now EXCEPT !.acts[i].op = "rmw", !.storeBuffer[t] = Append(@, i)], t)
  IN  /\ Does(t, {"rmw"})
      /\ Becomes(fenceExecutionAnalysis(x, i))
      /\ obj_to_last_write' = [obj_to_last_write EXCEPT ![t] = [@ EXCEPT ![getCacheID(Pending(t).b)] = i]]
      /\ NoRange

\* or an ATOMIC_READ, and is none.
CASFail(t) ==
  LET i == HalfOf(t)
  IN  /\ Does(t, {"casfail"})
      /\ Becomes(Empty(TakeEffect([Now EXCEPT !.acts[i].op = "casread"], i), t))
      /\ UNCHANGED obj_to_last_write /\ NoRange

\* persistUntilAction: the first action counts for its own thread only.
persistUntilAction(range, t, cv) ==
  IF range = NoEntry THEN [u \in Thread |-> IF u = t THEN cv[t] ELSE 0] ELSE merge(range, cv)

\* setRegionFromID: makeExecutionPersistent.
Persist(t) ==
  LET x == EmptyUpTo(Now, N)
      range[u \in 0 .. N] ==
        IF u = 0 THEN beginRangeCV ELSE persistUntilAction(range[u - 1], u, x.last[u])
      seen[u \in 0 .. N] == IF u = 0 THEN observed ELSE merge(seen[u - 1], x.last[u])
  IN  /\ Does(t, {"persist"})
      /\ Becomes(x)
      /\ beginRangeCV' = range[N] /\ observed' = seen[N]
      /\ UNCHANGED obj_to_last_write

\* getNextThread evicts: popFromStoreBuffer.
Evict(t) ==
  /\ phase = "running" /\ aborted = 0
  /\ storeBuffer[t] # <<>>
  /\ Becomes(popFromStoreBuffer(Now, t))
  /\ UNCHANGED <<prog, pc, obj_to_last_write, end, lastFlush, phase, ops, atomicSeen, report>>
  /\ NoRange

-------------------------------------------------------------------------------
(* The crash and the loads after it.                                       *)

crashAnalysis(x) == [x EXCEPT !.pendingclwbs = <<>>]

Crashed(how, x) ==
  /\ phase = "running" /\ aborted = 0
  /\ phase' = how
  /\ Becomes([x EXCEPT !.used = N])
  /\ UNCHANGED <<prog, pc, obj_to_last_write, end, lastFlush, ops, atomicSeen, report>>
  /\ NoRange

\* take_step finds that the execution has crashed.
Crash == Crashed("crash", crashAnalysis(Now))

\* A crash point at a clwb of t's flush buffer, while that is being drained.
CutOff(how, x, t) ==
  \E n \in 0 .. (Len(x.flushBuffer[t]) - 1) :
    Crashed(how, IF how = "crash" THEN crashAnalysis(drainFlushBuffer(x, t, n))
                 ELSE drainFlushBuffer(x, t, n))

AtSfence(t) == storeBuffer[t] # <<>> /\ acts[Head(storeBuffer[t])].op = "sfence"

\* It is drained by an operation of t, the sfences t has buffered included, or by
\* one of any thread that makes the execution persistent.
CrashInDrain(t) ==
  /\ \A u \in Thread \ {t} : ~HalfWay(u)
  /\ \/ Pending(t).op \in {"mfence", "rmwr", "seqcst"} /\ AtSfence(t) /\ CutOff("crash", Now, t)
     \/ Pending(t).op \in {"mfence", "rmwr"} /\ CutOff("crash", emptyStoreBuffer(Now, t), t)
     \/ /\ Pending(t).op = "seqcst"
        /\ CutOff("crash", emptyStoreBuffer(Buffered(With(Now, NewAction(t, last[t])), t), t), t)
     \/ /\ Pending(t).op = "persist"
        /\ \E u \in Thread : \/ AtSfence(u) /\ CutOff("crash", EmptyUpTo(Now, u - 1), u)
                            \/ CutOff("crash", emptyStoreBuffer(EmptyUpTo(Now, u - 1), u), u)

\* popFromStoreBuffer wants to in getNextThread: a clflush, or an sfence that
\* waits for clwbs, is next.
CrashInEviction(t) ==
  \/ /\ storeBuffer[t] # <<>> /\ acts[Head(storeBuffer[t])].op = "clflush"
     /\ Crashed("eviction", Now)
  \/ AtSfence(t) /\ CutOff("eviction", Now, t)

\* The stores a load of b may read from, 0 being the initial value.
MayRead(b) ==
  LET l == getCacheID(b)
      ws == {w \in Writes(acts, b) : end[l] = 0 \/ acts[w].seq =< end[l]}
      old == {w \in ws : acts[w].seq =< begin[l]}
  IN  IF old = {} THEN ws \cup {0} ELSE (ws \ old) \cup {Newest(acts, old)}

\* Mutant of IsError: a flush anywhere in the crashed execution will do.
IsErrorUnordered(w) ==
  ~flushExistsBeforeCV(flushmap, acts, w, last[acts[w].t])

IsError(w) ==
  ~(beginRangeCV # NoEntry /\ flushExistsBeforeCV(flushmap, acts, w, beginRangeCV))

IsWarning(w) == ~\E e \in flushmap : e.w = w

\* mayReadFromAnalysis
mayReadFromAnalysis(b) ==
  LET suspects == {w \in MayRead(b) \ {0} : /\ ~IsAtomicWrite(acts[w])
                                            /\ acts[w].seq > lastFlush[getCacheID(b)]}
  IN  report' = [cands |-> MayRead(b), errors |-> {w \in suspects : IsError(w)},
                 warnings |-> {w \in suspects : IsWarning(w)}, observed |-> observed,
                 atomicSeen |-> atomicSeen[getCacheID(b)]]

\* Mutant of mergeLastFlush: nonatomic stores count as well.
mergeLastFlushAny(w, l) == lastFlush' = [lastFlush EXCEPT ![l] = Max({@, acts[w].seq})]

mergeLastFlush(w, l) ==
  lastFlush' = IF IsAtomicWrite(acts[w]) THEN [lastFlush EXCEPT ![l] = Max({@, acts[w].seq})]
               ELSE lastFlush

\* readFromWriteAnalysis, then process_read
ReadFrom(w, b) ==
  LET l == getCacheID(b)
      newer == {v \in Writes(acts, b) : acts[v].seq > acts[w].seq}
      limit == acts[Newest(acts, {v \in newer : \A u \in newer : acts[v].seq =< acts[u].seq})].seq
  IN  /\ mergeLastFlush(w, l)
      /\ beginRangeCV' = persistUntilAction(beginRangeCV, acts[w].t, acts[w].cv)
      /\ begin' = [begin EXCEPT ![l] = Max({@, acts[w].seq})]
      /\ end' = IF newer = {} \/ (end[l] # 0 /\ limit > end[l]) THEN end
                ELSE [end EXCEPT ![l] = limit - 1]
      /\ observed' = merge(observed, acts[w].cv)
      /\ atomicSeen' = IF IsAtomicWrite(acts[w])
                       THEN [atomicSeen EXCEPT ![l] = Max({@, acts[w].seq})] ELSE atomicSeen

\* The initial value is read: an atomic store without clocks.
ReadInitial(b) ==
  LET l == getCacheID(b)
      limits == {acts[v].seq - 1 : v \in Writes(acts, b)} \cup ({end[l]} \ {0})
  IN  /\ end' = IF limits = {} THEN end ELSE [end EXCEPT ![l] = Min(limits)]
      /\ beginRangeCV' = IF beginRangeCV = NoEntry THEN ZeroCV ELSE beginRangeCV
      /\ UNCHANGED <<lastFlush, begin, observed, atomicSeen>>

Recovering ==
  /\ phase # "running" /\ aborted = 0
  /\ ops < MaxOps /\ ops' = ops + 1
  /\ used' = used + 1
  /\ UNCHANGED <<execVars, lastWrites, flushmap, phase>>

Load(b) ==
  /\ Recovering
  /\ mayReadFromAnalysis(b)
  /\ \E w \in MayRead(b) : IF w = 0 THEN ReadInitial(b) ELSE ReadFrom(w, b)
  /\ UNCHANGED <<pendingclwbs, aborted>>

\* The next execution has stored nothing yet: its fence credits no store.
RecoveryFence ==
  /\ Recovering
  /\ IF \E c \in ToSet(pendingclwbs) : acts[c].seq >= used + 1
     THEN aborted' = used + 1 /\ UNCHANGED pendingclwbs
     ELSE pendingclwbs' = <<>> /\ UNCHANGED aborted
  /\ UNCHANGED <<begin, end, lastFlush, beginRangeCV, observed, atomicSeen, report>>

Next ==
  \/ \E t \in Thread : \/ Write(t) \/ CacheOp(t) \/ SFence(t) \/ Fence(t) \/ SeqCstStore(t)
                       \/ Read(t) \/ RMWRead(t) \/ RMW(t) \/ CASFail(t) \/ Persist(t)
                       \/ Evict(t) \/ CrashInDrain(t) \/ CrashInEviction(t)
  \/ Crash
  \/ \E b \in Address : Load(b)
  \/ RecoveryFence

Spec == Init /\ [][Next]_vars

-------------------------------------------------------------------------------
(* Properties.                                                             *)

Act == DOMAIN acts

\* The analysis' data point at actions of the kind they should: a byte's last
\* write is its newest one, a flush is filed under its own thread, and every
\* clwb that waits for a fence has left its thread's buffers.
TypeOK ==
  /\ \A b \in Address :
       lastWrites[b] = IF Writes(acts, b) = {} THEN 0 ELSE Newest(acts, Writes(acts, b))
  /\ \A e \in flushmap :
       /\ e.w \in Act /\ IsWrite(acts[e.w]) /\ e.f \in Act /\ acts[e.f].seq # 0
       /\ e.t = acts[e.f].t
       /\ \A d \in flushmap : d.w = e.w /\ d.t = e.t => d = e
  /\ \A c \in ToSet(pendingclwbs) :
       c \in Act /\ acts[c].op = "clwb" /\ acts[c].seq # 0
       /\ \A t \in Thread : c \notin ToSet(storeBuffer[t]) \cup ToSet(flushBuffer[t])
  /\ beginRangeCV = NoEntry \/ beginRangeCV \in [Thread -> Nat]

\* What a flush that has taken effect certainly wrote back of its line; a clwb
\* without an sfence before it has the filler in last_clflush.
WroteBackTo(f) ==
  IF IsClflush(acts[f]) THEN acts[f].seq
  ELSE Max({acts[f].lastcommittedWrite} \cup ({acts[f].last_clflush} \ {ValueNone})
             \cup {acts[i].seq : i \in {acts[f].lastwrite} \ {0}})

Flushes(w) ==
  {f \in Act : /\ acts[f].op \in {"clflush", "clwb"} /\ acts[f].seq # 0
               /\ getCacheID(acts[f].b) = getCacheID(acts[w].b)
               /\ WroteBackTo(f) >= acts[w].seq}

\* Known deviation: a clwb issued by a thread that has not stored to the line
\* yet is taken to cover the thread's stores up to the fence, later ones included.
CreditedTooSoon(w) ==
  \E c \in 1 .. w : /\ acts[c].op = "clwb" /\ acts[c].t = acts[w].t /\ acts[c].lastwrite = 0
                    /\ getCacheID(acts[c].b) = getCacheID(acts[w].b)

\* A store with a flush in flushmap has been written back.
CreditedIsPersisted ==
  \A e \in flushmap : Flushes(e.w) # {} \/ CreditedTooSoon(e.w)

\* Known deviation: the fence that completed the clwb is of another thread,
\* which had not flushed the store itself, and is what the loads have seen.
ForeignFence(w) ==
  /\ Flushes(w) # {}
  /\ \E e \in flushmap :
       /\ e.w = w /\ ~IsClflush(acts[e.f]) /\ acts[e.f].seq =< report.observed[e.t]
       /\ \A f \in Flushes(w) : acts[f].t = e.t => acts[f].seq > acts[e.f].seq

\* No persistency race is missed: a nonatomic store that a load may read from is
\* reported unless, in what the loads have seen of the crashed execution, it was
\* flushed, or an atomic store of its line was read that is newer.
NoRaceMissed ==
  \A w \in report.cands \ {0} :
    \/ IsAtomicWrite(acts[w]) \/ w \in report.errors
    \/ acts[w].seq =< report.atomicSeen
    \/ \E f \in Flushes(w) : acts[f].seq =< report.observed[acts[f].t]
    \/ CreditedTooSoon(w) \/ ForeignFence(w)

IsFence(a) == a.op \in {"sfence", "mfence", "rmw"}

\* Store w was flushed by a thread that issued it, the flush was fenced, and no
\* other store had overwritten it by then.
FlushedByItsThread(w) ==
  \E f, g \in Act :
    /\ w < f /\ f =< g /\ acts[f].t = acts[w].t /\ acts[g].t = acts[w].t
    /\ getCacheID(acts[f].b) = getCacheID(acts[w].b) /\ acts[g].seq # 0
    /\ \/ IsClflush(acts[f]) /\ g = f
       \/ acts[f].op = "clwb" /\ IsFence(acts[g])
    /\ \E b \in Bytes(acts[w]) :
         \A v \in Writes(acts, b) : acts[v].seq > acts[w].seq => acts[v].seq > acts[g].seq

\* No warning is given of a store whose thread flushed and fenced it in time.
NoFalseWarning == \A w \in report.warnings : ~FlushedByItsThread(w)

===============================================================================
