-------------------------- MODULE ThreadMemory_proofs --------------------------
(***************************************************************************)
(* Theorems about ThreadMemory, for every number of threads, set of        *)
(* accesses, program and bound.                                            *)
(***************************************************************************)
EXTENDS ThreadMemory, TLAPS, SequenceTheorems

Buffered == {"write", "scwrite", "clflush", "clflushopt", "sfence"}

\* The trace b extends a: nothing is removed, no action changes its kind.
Extends(a, b) ==
  /\ a \in Seq(ModelAction) /\ b \in Seq(ModelAction)
  /\ Len(a) =< Len(b)
  /\ \A i \in DOMAIN a : b[i].kind = a[i].kind

\* The buffers x hold actions of trace a, of the kinds in K.
Holds(a, x, K) ==
  /\ x \in [Thread -> Seq(DOMAIN a)]
  /\ \A t \in Thread : \A k \in DOMAIN x[t] : a[x[t][k]].kind \in K

-------------------------------------------------------------------------------
(* Lemmas about the operators of the model.                                *)

\* The greatest of four clocks is a clock.
LEMMA MaxOfClocks ==
  ASSUME NEW a \in Nat, NEW b \in Nat, NEW c \in Nat, NEW d \in Nat
  PROVE  /\ Max({a, b, c, d}) \in {a, b, c, d}
         /\ \A x \in {a, b, c, d} : x =< Max({a, b, c, d})
<1>1. \E x \in {a, b, c, d} : \A y \in {a, b, c, d} : x >= y
  OBVIOUS
<1> QED  BY <1>1 DEF Max

\* An appended action keeps act well-formed.
LEMMA AppendActs ==
  ASSUME ActsOK, NEW a \in ModelAction, act' = Append(act, a),
         a.kind \in {"sfence", "mfence"} \/ a.loc \in Loc,
         IsWrite(a) => a.val \in [BytesAt(a.loc) -> Byte],
         a.lastwrite \in 0 .. Len(act)
  PROVE  ActsOK' /\ Extends(act, act') /\ Len(act') = Len(act) + 1
<1>1. act' \in Seq(ModelAction) /\ Len(act') = Len(act) + 1
  BY DEF ActsOK
<1>2. \A i \in 1 .. Len(act) : act'[i] = act[i]
  BY DEF ActsOK
<1>3. act'[Len(act) + 1] = a
  BY DEF ActsOK
<1>4. ActsOK'
  BY <1>1, <1>2, <1>3 DEF ActsOK, Acts
<1> QED  BY <1>1, <1>2, <1>4 DEF Extends, Acts, ActsOK

\* So does giving an action its sequence number.
LEMMA CommitActs ==
  ASSUME ActsOK, used \in Nat, NEW i \in Acts, Commit(i)
  PROVE  ActsOK' /\ Extends(act, act') /\ Len(act') = Len(act) /\ used' \in Nat
<1>1. used' \in Nat
  BY DEF Commit
<1>2. act \in Seq(ModelAction) /\ i \in 1 .. Len(act)
  BY DEF ActsOK, Acts
<1>a. \A j \in 1 .. Len(act) : act[j] \in ModelAction
  BY <1>2
<1> DEFINE a == [act[i] EXCEPT !.seq = used + 1]
<1>3. a \in ModelAction /\ a.kind = act[i].kind /\ a.loc = act[i].loc
      /\ a.val = act[i].val /\ a.lastwrite = act[i].lastwrite
  BY <1>1, <1>2, <1>a DEF ModelAction, Commit
<1> HIDE DEF a
<1>b. act' = [act EXCEPT ![i] = a]
  BY DEF Commit, a
<1>4. act' \in Seq(ModelAction) /\ Len(act') = Len(act)
  BY <1>2, <1>3, <1>b
<1>5. \A j \in 1 .. Len(act) : /\ act'[j].kind = act[j].kind
                               /\ act'[j].loc = act[j].loc
                               /\ act'[j].val = act[j].val
                               /\ act'[j].lastwrite = act[j].lastwrite
  BY <1>2, <1>3, <1>b
<1>6. ActsOK'
  BY <1>4, <1>5 DEF ActsOK, Acts, IsWrite
<1> QED  BY <1>1, <1>4, <1>5, <1>6, <1>2 DEF Extends, Acts

\* Buffers stay valid while the trace grows, and when entries leave or join them.
LEMMA HoldsLater ==
  ASSUME NEW a, NEW b, Extends(a, b), NEW x, NEW K, Holds(a, x, K)
  PROVE  Holds(b, x, K)
<1>1. DOMAIN a \subseteq DOMAIN b
  BY DEF Extends
<1>2. \A s \in Seq(DOMAIN a) : s \in Seq(DOMAIN b)
  BY <1>1
<1>3. ASSUME NEW t \in Thread, NEW k \in DOMAIN x[t]
      PROVE  b[x[t][k]].kind = a[x[t][k]].kind
  <2>1. x[t] \in Seq(DOMAIN a)
    BY DEF Holds
  <2>2. x[t][k] \in DOMAIN a
    BY <1>3, <2>1
  <2> QED  BY <2>2 DEF Extends
<1> QED  BY <1>2, <1>3 DEF Holds

LEMMA HoldsTail ==
  ASSUME NEW a, NEW x, NEW K, Holds(a, x, K), NEW t \in Thread, x[t] # <<>>
  PROVE  /\ Holds(a, [x EXCEPT ![t] = Tail(@)], K)
         /\ Head(x[t]) \in DOMAIN a
         /\ a[Head(x[t])].kind \in K
<1> DEFINE y == [x EXCEPT ![t] = Tail(@)]
<1>1. x[t] \in Seq(DOMAIN a) /\ 1 \in DOMAIN x[t] /\ Head(x[t]) = x[t][1]
  BY DEF Holds
<1>2. Tail(x[t]) \in Seq(DOMAIN a)
      /\ \A k \in DOMAIN Tail(x[t]) : k + 1 \in DOMAIN x[t] /\ Tail(x[t])[k] = x[t][k + 1]
  <2>1. /\ Tail(x[t]) \in Seq(DOMAIN a)
        /\ Len(Tail(x[t])) = Len(x[t]) - 1
        /\ \A k \in 1 .. Len(Tail(x[t])) : Tail(x[t])[k] = x[t][k + 1]
    BY <1>1, HeadTailProperties, Zenon
  <2>2. DOMAIN x[t] = 1 .. Len(x[t]) /\ DOMAIN Tail(x[t]) = 1 .. Len(Tail(x[t]))
        /\ Len(x[t]) \in Nat
    BY <1>1, <2>1
  <2> QED  BY <2>1, <2>2
<1>3. y \in [Thread -> Seq(DOMAIN a)] /\ y[t] = Tail(x[t])
      /\ \A u \in Thread \ {t} : y[u] = x[u]
  BY <1>2 DEF Holds
<1>4. \A u \in Thread : \A k \in DOMAIN y[u] : a[y[u][k]].kind \in K
  BY <1>2, <1>3 DEF Holds
<1> QED  BY <1>1, <1>3, <1>4 DEF Holds

LEMMA HoldsAppend ==
  ASSUME NEW a, NEW x, NEW K, Holds(a, x, K), NEW t \in Thread,
         NEW i \in DOMAIN a, a[i].kind \in K
  PROVE  Holds(a, [x EXCEPT ![t] = Append(@, i)], K)
<1> DEFINE y == [x EXCEPT ![t] = Append(@, i)]
<1>1. x[t] \in Seq(DOMAIN a)
  BY DEF Holds
<1>2. Append(x[t], i) \in Seq(DOMAIN a)
      /\ \A k \in DOMAIN Append(x[t], i) :
            (k \in DOMAIN x[t] /\ Append(x[t], i)[k] = x[t][k]) \/ Append(x[t], i)[k] = i
  BY <1>1
<1>3. y \in [Thread -> Seq(DOMAIN a)] /\ y[t] = Append(x[t], i)
      /\ \A u \in Thread \ {t} : y[u] = x[u]
  BY <1>2 DEF Holds
<1>4. \A u \in Thread : \A k \in DOMAIN y[u] : a[y[u][k]].kind \in K
  BY <1>2, <1>3 DEF Holds
<1> QED  BY <1>3, <1>4 DEF Holds

LEMMA HoldsEmpty ==
  ASSUME NEW a, NEW x, NEW K, Holds(a, x, K), NEW t \in Thread
  PROVE  Holds(a, [x EXCEPT ![t] = <<>>], K)
BY DEF Holds

LEMMA IndicesStable ==
  ASSUME IndicesOK, Extends(act, act'), UNCHANGED <<obj_to_last_write, lastsfence, wr>>
  PROVE  IndicesOK'
<1>1. 0 .. Len(act) \subseteq 0 .. Len(act')
  BY DEF Extends
<1>2. \A s \in Seq(0 .. Len(act)) : s \in Seq(0 .. Len(act'))
  BY <1>1, SeqMonotonic, Zenon
<1>3. wr' \in [Word -> Seq(0 .. Len(act'))]
  <2>1. wr \in [Word -> Seq(0 .. Len(act))] /\ wr' = wr
    BY DEF IndicesOK
  <2> QED  BY <1>2, <2>1
<1>4. lastsfence' \in [Thread -> 0 .. Len(act')]
  BY <1>1 DEF IndicesOK
<1>5. obj_to_last_write' \in [Thread -> [Line -> 0 .. Len(act')]]
  <2>1. \A f \in [Line -> 0 .. Len(act)] : f \in [Line -> 0 .. Len(act')]
    BY <1>1
  <2> QED  BY <2>1 DEF IndicesOK
<1> QED  BY <1>3, <1>4, <1>5 DEF IndicesOK

\* An evicted clflushopt is told the clock of its thread's last sfence.
LEMMA SetLastClflush ==
  ASSUME ActsOK, NEW i \in Acts, NEW c \in Nat,
         act' = act \/ act' = [act EXCEPT ![i].last_clflush = c]
  PROVE  ActsOK' /\ Extends(act, act') /\ Len(act') = Len(act)
<1>1. act \in Seq(ModelAction) /\ i \in 1 .. Len(act)
  BY DEF ActsOK, Acts
<1>2. \A j \in 1 .. Len(act) : act[j] \in ModelAction
  BY <1>1
<1> DEFINE a == [act[i] EXCEPT !.last_clflush = c]
<1>3. a \in ModelAction /\ a.kind = act[i].kind /\ a.loc = act[i].loc
      /\ a.val = act[i].val /\ a.lastwrite = act[i].lastwrite
  BY <1>1, <1>2 DEF ModelAction
<1>4. act' = act \/ act' = [act EXCEPT ![i] = a]
  OBVIOUS
<1> HIDE DEF a
<1>5. act' \in Seq(ModelAction) /\ Len(act') = Len(act)
  BY <1>1, <1>3, <1>4
<1>6. \A j \in 1 .. Len(act) : /\ act'[j].kind = act[j].kind
                               /\ act'[j].loc = act[j].loc
                               /\ act'[j].val = act[j].val
                               /\ act'[j].lastwrite = act[j].lastwrite
  BY <1>1, <1>3, <1>4
<1>7. ActsOK'
  BY <1>5, <1>6 DEF ActsOK, Acts, IsWrite
<1> QED  BY <1>1, <1>5, <1>6, <1>7 DEF Extends

LEMMA BuffersAre ==
  /\ BuffersOK <=> Holds(act, sb, Buffered) /\ Holds(act, fb, {"clflushopt"})
  /\ BuffersOK' <=> Holds(act', sb', Buffered) /\ Holds(act', fb', {"clflushopt"})
BY DEF BuffersOK, Holds, Acts, Buffered

\* What a store that reaches memory does to the write lists.
LEMMA AddWriteType ==
  ASSUME ActsOK, IndicesOK, NEW i \in Acts, IsWrite(act[i]),
         noWriteSinceCrashCheck \in BOOLEAN, addWriteToLists(i)
  PROVE  wr' \in [Word -> Seq(0 .. Len(act))] /\ noWriteSinceCrashCheck' \in BOOLEAN
<1>1. act[i].loc \in Loc /\ i \in 0 .. Len(act)
  BY DEF ActsOK, Acts, IsWrite
<1>2. alignAddress(act[i].loc) \in Word
  BY <1>1 DEF Word
<1>3. wr \in [Word -> Seq(0 .. Len(act))]
  BY DEF IndicesOK
<1>4. Append(wr[alignAddress(act[i].loc)], i) \in Seq(0 .. Len(act))
  BY <1>1, <1>2, <1>3
<1>5. CASE IsSilent(act[i])
  BY <1>5, <1>3 DEF addWriteToLists
<1>6. CASE ~IsSilent(act[i])
  BY <1>6, <1>3, <1>4 DEF addWriteToLists
<1> QED  BY <1>5, <1>6

\* Sequence numbers and the clocks of a flush are clocks.
LEMMA ClockTypes ==
  ASSUME ActsOK, NEW i \in Acts
  PROVE  /\ act[i].seq \in Nat /\ SeqNumOf(i) \in Nat
         /\ act[i].last_clflush \in Nat /\ act[i].lastcommittedWrite \in Nat
         /\ SeqNumOf(act[i].lastwrite) \in Nat
<1>1. \A j \in Acts : act[j] \in ModelAction
  BY DEF ActsOK, Acts
<1>2. \A j \in Acts : act[j].seq \in Nat /\ act[j].last_clflush \in Nat
                     /\ act[j].lastcommittedWrite \in Nat
  BY <1>1 DEF ModelAction
<1>3. act[i].lastwrite = 0 \/ act[i].lastwrite \in Acts
  BY DEF ActsOK, Acts
<1> QED  BY <1>2, <1>3 DEF SeqNumOf

\* The clock up to which a flush lets a line be written back is a clock.
LEMMA PersistType ==
  ASSUME TypeOK, NEW i \in Acts, NEW l \in Line
  PROVE  persistCacheLine(i, l, used + 1) \in Nat
<1>1. /\ act[i].last_clflush \in Nat /\ act[i].lastcommittedWrite \in Nat
      /\ SeqNumOf(act[i].lastwrite) \in Nat
  BY ClockTypes DEF TypeOK
<1>5. begin[l] \in Nat /\ used + 1 \in Nat
  BY DEF TypeOK, CountersOK
<1>6. Max({begin[l], act[i].last_clflush, SeqNumOf(act[i].lastwrite), act[i].lastcommittedWrite}) \in Nat
  <2> DEFINE x == act[i].last_clflush
             y == SeqNumOf(act[i].lastwrite)
             z == act[i].lastcommittedWrite
  <2>1. x \in Nat /\ y \in Nat /\ z \in Nat /\ begin[l] \in Nat
    BY <1>1, <1>5
  <2> HIDE DEF x, y, z
  <2>2. Max({begin[l], x, y, z}) \in {begin[l], x, y, z}
    BY <2>1, MaxOfClocks, Zenon
  <2>3. Max({begin[l], x, y, z}) \in Nat
    BY <2>1, <2>2, Zenon
  <2> QED  BY <2>3 DEF x, y, z
<1> QED  BY <1>5, <1>6 DEF persistCacheLine

\* What a flush that takes effect does.
LEMMA EvictCacheOpType ==
  ASSUME TypeOK, NEW i \in Acts, IsCacheOp(act[i]), evictCacheOp(i)
  PROVE  /\ ActsOK' /\ Extends(act, act') /\ Len(act') = Len(act)
         /\ begin' \in [Line -> Nat] /\ used' \in Nat /\ checkedAt' \in Nat
         /\ noWriteSinceCrashCheck' \in BOOLEAN /\ wr' = wr /\ hasCrashed' = hasCrashed
<1>1. ActsOK' /\ Extends(act, act') /\ Len(act') = Len(act) /\ used' \in Nat
  BY CommitActs DEF evictCacheOp, TypeOK, CountersOK
<1>2. act[i].loc \in Loc
  BY DEF TypeOK, ActsOK, Acts, IsCacheOp
<1>3. getCacheID(act[i].loc) \in Line
  BY <1>2 DEF Line
<1>4. begin' \in [Line -> Nat]
  BY <1>3, PersistType DEF evictCacheOp, TypeOK, CountersOK
<1>5. noWriteSinceCrashCheck' \in BOOLEAN /\ checkedAt' \in Nat
  BY DEF evictCacheOp, PassCrashPoint, TypeOK, CountersOK
<1> QED  BY <1>1, <1>4, <1>5 DEF evictCacheOp

-------------------------------------------------------------------------------
(* Type correctness, action by action.                                     *)

LEMMA TypeInit == Init => TypeOK
<1> SUFFICES ASSUME Init PROVE TypeOK
  OBVIOUS
<1> USE DEF Init
<1>1. ActsOK
  BY DEF ActsOK, Acts
<1>2. BuffersOK
  BY DEF BuffersOK
<1>3. IndicesOK
  BY DEF IndicesOK
<1>4. CountersOK
  <2>1. BootSeq \in Nat
    BY ThreadMemoryAssumption
  <2>2. used \in Nat /\ usage \in Int /\ count \in Nat /\ checkedAt \in Nat
    BY <2>1
  <2>5. noWriteSinceCrashCheck \in BOOLEAN /\ hasCrashed \in BOOLEAN
    BY Zenon
  <2>3. flushcount \in [Thread -> Int]
    OBVIOUS
  <2>4. begin \in [Line -> Nat]
    OBVIOUS
  <2> QED  BY <2>2, <2>3, <2>4, <2>5 DEF CountersOK
<1>5. ControlOK
  BY DEF ControlOK, Null
<1> QED  BY <1>1, <1>2, <1>3, <1>4, <1>5 DEF TypeOK

LEMMA TypeStutter == TypeOK /\ UNCHANGED vars => TypeOK'
BY DEF TypeOK, ActsOK, BuffersOK, IndicesOK, CountersOK, ControlOK, Acts, vars

\* The popping of the store buffer of cur.
LEMMA TypePop ==
  ASSUME TypeOK, Draining, Pop
  PROVE  /\ head \in Acts /\ act[head].kind \in Buffered
         /\ Holds(act, sb', Buffered)
         /\ usage' \in Int /\ count' \in Nat
         /\ UNCHANGED <<phase, cur, job>> /\ phase = "sb" /\ cur \in Thread
<1>1. cur \in Thread /\ sb[cur] # <<>> /\ phase = "sb"
  BY DEF Draining, TypeOK, ControlOK
<1>2. Holds(act, sb, Buffered)
  BY BuffersAre DEF TypeOK
<1>3. Holds(act, sb', Buffered)
  BY <1>1, <1>2, HoldsTail DEF Pop
<1>4. head \in Acts /\ act[head].kind \in Buffered
  BY <1>1, <1>2, HoldsTail DEF head, Acts
<1>5. usage' \in Int /\ count' \in Nat
  BY DEF Pop, Draining, TypeOK, CountersOK
<1> QED  BY <1>1, <1>3, <1>4, <1>5 DEF Pop

LEMMA TypeEvict ==
  ASSUME TypeOK, EvictStore \/ EvictClflush \/ EvictFlushOpt \/ EvictSFence
  PROVE  TypeOK'
<1>1. Draining /\ Pop
  BY DEF EvictStore, EvictClflush, EvictFlushOpt, EvictSFence
<1>2. /\ head \in Acts /\ act[head].kind \in Buffered
      /\ Holds(act, sb', Buffered)
      /\ usage' \in Int /\ count' \in Nat
      /\ UNCHANGED <<phase, cur, job>> /\ phase = "sb" /\ cur \in Thread
  BY <1>1, TypePop
<1>3. ControlOK' /\ CountersOK' /\ ActsOK' /\ Extends(act, act') /\ IndicesOK'
      /\ Holds(act', fb', {"clflushopt"})
  <2>1. CASE EvictStore
    <3>1. ActsOK' /\ Extends(act, act') /\ Len(act') = Len(act) /\ used' \in Nat
      BY <2>1, <1>2, CommitActs DEF EvictStore, TypeOK, CountersOK
    <3>2. wr' \in [Word -> Seq(0 .. Len(act))] /\ noWriteSinceCrashCheck' \in BOOLEAN
      BY <2>1, <1>2, AddWriteType DEF EvictStore, TypeOK, CountersOK
    <3>3. ControlOK'
      BY <2>1, <1>2, <3>1 DEF EvictStore, TypeOK, ControlOK
    <3>4. CountersOK'
      BY <2>1, <1>2, <3>1, <3>2 DEF EvictStore, TypeOK, CountersOK
    <3>5. IndicesOK'
      BY <2>1, <3>1, <3>2 DEF EvictStore, TypeOK, IndicesOK
    <3>6. Holds(act', fb', {"clflushopt"})
      BY <2>1, <3>1, HoldsLater, BuffersAre DEF EvictStore, TypeOK
    <3> QED  BY <3>1, <3>3, <3>4, <3>5, <3>6
  <2>2. CASE EvictClflush
    <3>1. /\ ActsOK' /\ Extends(act, act') /\ Len(act') = Len(act)
          /\ begin' \in [Line -> Nat] /\ used' \in Nat /\ checkedAt' \in Nat
          /\ noWriteSinceCrashCheck' \in BOOLEAN /\ wr' = wr /\ hasCrashed' = hasCrashed
      BY <2>2, <1>2, EvictCacheOpType DEF EvictClflush, IsCacheOp
    <3>3. ControlOK'
      BY <2>2, <1>2, <3>1 DEF EvictClflush, TypeOK, ControlOK
    <3>4. CountersOK'
      BY <2>2, <1>2, <3>1 DEF EvictClflush, TypeOK, CountersOK
    <3>5. IndicesOK'
      BY <2>2, <3>1 DEF EvictClflush, TypeOK, IndicesOK
    <3>6. Holds(act', fb', {"clflushopt"})
      BY <2>2, <3>1, HoldsLater, BuffersAre DEF EvictClflush, TypeOK
    <3> QED  BY <3>1, <3>3, <3>4, <3>5, <3>6
  <2>3. CASE EvictFlushOpt
    <3>1. lastsfence[cur] = 0 \/ lastsfence[cur] \in Acts
      BY <1>2 DEF TypeOK, IndicesOK, Acts, ActsOK
    <3>2. SeqNumOf(lastsfence[cur]) \in Nat
      BY <3>1, ClockTypes DEF TypeOK, SeqNumOf
    <3>3. ActsOK' /\ Extends(act, act') /\ Len(act') = Len(act)
      BY <2>3, <1>2, <3>2, SetLastClflush DEF EvictFlushOpt, TypeOK
    <3>4. ControlOK'
      BY <2>3, <1>2, <3>3 DEF EvictFlushOpt, TypeOK, ControlOK
    <3>5. CountersOK'
      BY <2>3, <1>2 DEF EvictFlushOpt, mem, TypeOK, CountersOK
    <3>6. IndicesOK'
      BY <2>3, <3>3 DEF EvictFlushOpt, mem, TypeOK, IndicesOK
    <3>7. Holds(act, fb', {"clflushopt"})
      BY <2>3, <1>2, HoldsAppend, BuffersAre DEF EvictFlushOpt, TypeOK, Acts
    <3>8. Holds(act', fb', {"clflushopt"})
      BY <3>3, <3>7, HoldsLater
    <3> QED  BY <3>3, <3>4, <3>5, <3>6, <3>8
  <2>4. CASE EvictSFence
    <3>1. ActsOK' /\ Extends(act, act') /\ Len(act') = Len(act) /\ used' \in Nat
      BY <2>4, <1>2, CommitActs DEF EvictSFence, TypeOK, CountersOK
    <3>3. ControlOK'
      BY <2>4, <1>2, <3>1 DEF EvictSFence, TypeOK, ControlOK
    <3>4. CountersOK'
      BY <2>4, <1>2, <3>1 DEF EvictSFence, TypeOK, CountersOK
    <3>5. IndicesOK'
      BY <2>4, <1>2, <3>1 DEF EvictSFence, TypeOK, IndicesOK, Acts, ActsOK
    <3>6. Holds(act', fb', {"clflushopt"})
      BY <2>4, <3>1, HoldsLater, BuffersAre DEF EvictSFence, TypeOK
    <3> QED  BY <3>1, <3>3, <3>4, <3>5, <3>6
  <2> QED  BY <2>1, <2>2, <2>3, <2>4
<1>4. BuffersOK'
  BY <1>2, <1>3, HoldsLater, BuffersAre
<1> QED  BY <1>3, <1>4 DEF TypeOK

\* The front of the flush buffer of cur takes effect.
LEMMA TypeFlush ==
  ASSUME TypeOK, cur \in Thread, Flush
  PROVE  TypeOK'
<1>1. Holds(act, fb, {"clflushopt"}) /\ fb[cur] # <<>>
  BY BuffersAre DEF TypeOK, Flush
<1>2. /\ Head(fb[cur]) \in Acts /\ act[Head(fb[cur])].kind = "clflushopt"
      /\ Holds(act, fb', {"clflushopt"})
  <2>1. /\ Head(fb[cur]) \in DOMAIN act /\ act[Head(fb[cur])].kind \in {"clflushopt"}
        /\ Holds(act, [fb EXCEPT ![cur] = Tail(@)], {"clflushopt"})
    BY <1>1, HoldsTail, Zenon
  <2> QED  BY <2>1 DEF Flush, Acts
<1>3. /\ ActsOK' /\ Extends(act, act') /\ Len(act') = Len(act)
      /\ begin' \in [Line -> Nat] /\ used' \in Nat /\ checkedAt' \in Nat
      /\ noWriteSinceCrashCheck' \in BOOLEAN /\ wr' = wr /\ hasCrashed' = hasCrashed
  BY <1>2, EvictCacheOpType DEF Flush, IsCacheOp
<1>4. ControlOK'
  BY <1>3 DEF Flush, ctl, TypeOK, ControlOK
<1>5. CountersOK'
  BY <1>3 DEF Flush, ctl, TypeOK, CountersOK
<1>6. IndicesOK'
  BY <1>3 DEF Flush, TypeOK, IndicesOK
<1>7. Holds(act', fb', {"clflushopt"}) /\ Holds(act', sb', Buffered)
  BY <1>2, <1>3, HoldsLater, BuffersAre DEF Flush, TypeOK
<1>8. BuffersOK'
  BY <1>7, BuffersAre
<1> QED  BY <1>3, <1>4, <1>5, <1>6, <1>8 DEF TypeOK

\* Steps that leave the actions and the indices into them alone.
LEMMA TypeSameActs ==
  ASSUME TypeOK, UNCHANGED <<act, obj_to_last_write, lastsfence, wr>>,
         Holds(act, sb', Buffered), Holds(act, fb', {"clflushopt"}),
         CountersOK', ControlOK'
  PROVE  TypeOK'
<1>1. ActsOK'
  BY DEF TypeOK, ActsOK, Acts
<1>2. IndicesOK'
  BY DEF TypeOK, IndicesOK
<1>3. BuffersOK'
  BY BuffersAre
<1> QED  BY <1>1, <1>2, <1>3 DEF TypeOK

LEMMA TypeCrashes ==
  ASSUME TypeOK, CrashInStoreBuffer \/ CrashInFlushBuffer \/ FlushedAfterCrash
  PROVE  TypeOK'
<1>1. Holds(act, sb, Buffered) /\ Holds(act, fb, {"clflushopt"})
  BY BuffersAre DEF TypeOK
<1>2. phase \in {"sb", "fb"} /\ cur \in Thread
  BY DEF CrashInStoreBuffer, CrashInFlushBuffer, FlushedAfterCrash, Draining, TypeOK, ControlOK
<1>3. Holds(act, sb', Buffered)
  BY <1>1, <1>2, HoldsTail
     DEF CrashInStoreBuffer, CrashInFlushBuffer, FlushedAfterCrash, Draining, bufs
<1>4. Holds(act, fb', {"clflushopt"})
  BY <1>1, <1>2, HoldsTail
     DEF CrashInStoreBuffer, CrashInFlushBuffer, FlushedAfterCrash, bufs
<1>5. CountersOK'
  <2>1. noWriteSinceCrashCheck' \in BOOLEAN /\ hasCrashed' \in BOOLEAN
    BY Zenon DEF CrashInStoreBuffer, CrashInFlushBuffer, FlushedAfterCrash, mem, TypeOK, CountersOK
  <2>2. usage' \in Int /\ count' \in Nat
    BY DEF CrashInStoreBuffer, CrashInFlushBuffer, FlushedAfterCrash, TypeOK, CountersOK
  <2>3. UNCHANGED <<flushcount, begin, used, checkedAt>>
    BY DEF CrashInStoreBuffer, CrashInFlushBuffer, FlushedAfterCrash, mem, bufs
  <2> QED  BY <2>1, <2>2, <2>3 DEF TypeOK, CountersOK
<1>6. ControlOK'
  BY DEF CrashInStoreBuffer, CrashInFlushBuffer, FlushedAfterCrash, Draining, TypeOK, ControlOK
<1>7. UNCHANGED <<act, obj_to_last_write, lastsfence, wr>>
  BY DEF CrashInStoreBuffer, CrashInFlushBuffer, FlushedAfterCrash, mem
<1> QED  BY <1>3, <1>4, <1>5, <1>6, <1>7, TypeSameActs

\* The buffers unchanged, or emptied for one thread.
LEMMA TypeControl ==
  ASSUME TypeOK,
         StoreBufferEmptied \/ PopsDone \/ (\E t \in Thread : FreeActions(t)) \/ DoCrash
           \/ Finish \/ (\E t \in Thread, n \in 1 .. (EvictMax - 1) : EvictRandom(t, n))
           \/ (\E t \in Thread, l \in Loc : RMWRead(t, l))
  PROVE  TypeOK'
<1> USE DEF mem, bufs, ctl
<1>1. Holds(act, sb, Buffered) /\ Holds(act, fb, {"clflushopt"})
  BY BuffersAre DEF TypeOK
<1>2. CASE StoreBufferEmptied
  <2>1. CountersOK'
    BY <1>2 DEF StoreBufferEmptied, TypeOK, CountersOK
  <2>2. ControlOK'
    BY <1>2 DEF StoreBufferEmptied, TypeOK, ControlOK
  <2> QED  BY <1>1, <1>2, <2>1, <2>2, TypeSameActs DEF StoreBufferEmptied
<1>3. CASE PopsDone
  <2>1. CountersOK'
    BY <1>3 DEF PopsDone, TypeOK, CountersOK
  <2>2. ControlOK'
    BY <1>3 DEF PopsDone, TypeOK, ControlOK
  <2> QED  BY <1>1, <1>3, <2>1, <2>2, TypeSameActs DEF PopsDone
<1>4. ASSUME NEW t \in Thread, FreeActions(t) PROVE TypeOK'
  <2>1. CountersOK'
    <3>1. Len(sb[t]) \in Nat
      BY DEF TypeOK, BuffersOK
    <3> QED  BY <1>4, <3>1 DEF FreeActions, TypeOK, CountersOK
  <2>2. ControlOK'
    BY <1>4 DEF FreeActions, TypeOK, ControlOK
  <2>3. Holds(act, sb', Buffered) /\ Holds(act, fb', {"clflushopt"})
    BY <1>1, <1>4, HoldsEmpty DEF FreeActions
  <2> QED  BY <1>4, <2>1, <2>2, <2>3, TypeSameActs DEF FreeActions
<1>5. CASE DoCrash \/ Finish
  <2>1. CountersOK'
    BY <1>5 DEF DoCrash, Finish, TypeOK, CountersOK
  <2>2. ControlOK'
    BY <1>5 DEF DoCrash, Finish, TypeOK, ControlOK
  <2> QED  BY <1>1, <1>5, <2>1, <2>2, TypeSameActs DEF DoCrash, Finish
<1>6. ASSUME NEW t \in Thread, NEW n \in 1 .. (EvictMax - 1), EvictRandom(t, n) PROVE TypeOK'
  <2>1. CountersOK'
    BY <1>6, ThreadMemoryAssumption DEF EvictRandom, TypeOK, CountersOK
  <2>2. ControlOK'
    BY <1>6 DEF EvictRandom, TypeOK, ControlOK
  <2> QED  BY <1>1, <1>6, <2>1, <2>2, TypeSameActs DEF EvictRandom
<1>7. ASSUME NEW t \in Thread, NEW l \in Loc, RMWRead(t, l) PROVE TypeOK'
  <2>1. CountersOK'
    BY <1>7 DEF RMWRead, StartDrain, TypeOK, CountersOK
  <2>2. ControlOK'
    BY <1>7 DEF RMWRead, StartDrain, TypeOK, ControlOK, Null
  <2> QED  BY <1>1, <1>7, <2>1, <2>2, TypeSameActs DEF RMWRead
<1> QED  BY <1>2, <1>3, <1>4, <1>5, <1>6, <1>7

LEMMA TypeEmptied ==
  ASSUME TypeOK, FlushBufferEmptied
  PROVE  TypeOK'
<1>1. phase = "fb" /\ cur \in Thread
  BY DEF FlushBufferEmptied, TypeOK, ControlOK
<1>2. ActsOK' /\ Extends(act, act') /\ Len(act') = Len(act) /\ used' \in Nat
  <2>1. CASE job = "fence"
    <3>1. Len(act) \in Acts
      BY <1>1, <2>1 DEF TypeOK, ActsOK, ControlOK, Acts
    <3> QED  BY <2>1, <3>1, CommitActs DEF FlushBufferEmptied, TypeOK, CountersOK
  <2>2. CASE job # "fence"
    BY <2>2 DEF FlushBufferEmptied, TypeOK, CountersOK, ActsOK, Acts, Extends
  <2> QED  BY <2>1, <2>2
<1>3. IndicesOK'
  BY <1>2, IndicesStable DEF FlushBufferEmptied, TypeOK
<1>4. CountersOK'
  BY <1>2 DEF FlushBufferEmptied, bufs, TypeOK, CountersOK
<1>5. ControlOK'
  BY <1>1 DEF FlushBufferEmptied, TypeOK, ControlOK, Null
<1>6. Holds(act', sb', Buffered) /\ Holds(act', fb', {"clflushopt"})
  BY <1>2, HoldsLater, BuffersAre DEF FlushBufferEmptied, bufs, TypeOK
<1>7. BuffersOK'
  BY <1>6, BuffersAre
<1> QED  BY <1>2, <1>3, <1>4, <1>5, <1>7 DEF TypeOK

\* What the operations append to the trace is an action.
LEMMA ActionType ==
  ASSUME NEW t \in Thread, NEW k \in Kind, NEW l \in Loc \cup {NoLoc},
         NEW v \in Value \cup {Null}, NEW s \in Nat
  PROVE  Action(t, k, l, v, s) \in ModelAction
BY ThreadMemoryAssumption DEF Action, ModelAction

\* The issue of an operation: a joins the trace, perhaps a store buffer, and
\* perhaps becomes the last write of a line.
LEMMA TypeAppend ==
  ASSUME TypeOK, NEW a \in ModelAction, act' = Append(act, a),
         a.kind \in {"sfence", "mfence"} \/ a.loc \in Loc,
         IsWrite(a) => a.val \in [BytesAt(a.loc) -> Byte],
         a.lastwrite \in 0 .. Len(act),
         NEW t \in Thread,
         sb' = sb \/ (sb' = [sb EXCEPT ![t] = Append(@, new)] /\ a.kind \in Buffered),
         \/ obj_to_last_write' = obj_to_last_write
         \/ \E l \in Line : obj_to_last_write' = [obj_to_last_write EXCEPT ![t][l] = new],
         UNCHANGED <<fb, lastsfence>>,
         wr' \in [Word -> Seq(0 .. Len(act'))],
         CountersOK', ControlOK'
  PROVE  TypeOK'
<1>1. /\ ActsOK' /\ Extends(act, act') /\ Len(act') = Len(act) + 1
      /\ act \in Seq(ModelAction)
  BY AppendActs DEF TypeOK, ActsOK
<1>2. new \in DOMAIN act' /\ act'[new] = a /\ new \in 0 .. Len(act')
  BY <1>1 DEF new
<1>3. Holds(act', sb, Buffered) /\ Holds(act', fb', {"clflushopt"})
  BY <1>1, HoldsLater, BuffersAre DEF TypeOK
<1>4. Holds(act', sb', Buffered)
  <2>1. CASE sb' = sb
    BY <2>1, <1>3
  <2>2. CASE sb' = [sb EXCEPT ![t] = Append(@, new)] /\ a.kind \in Buffered
    <3>1. act'[new].kind \in Buffered
      BY <1>2, <2>2
    <3>2. Holds(act', [sb EXCEPT ![t] = Append(@, new)], Buffered)
      BY <1>2, <1>3, <3>1, HoldsAppend, Zenon
    <3> QED  BY <2>2, <3>2
  <2> QED  BY <2>1, <2>2
<1>5. BuffersOK'
  BY <1>3, <1>4, BuffersAre
<1>6. 0 .. Len(act) \subseteq 0 .. Len(act')
  BY <1>1
<1>7. obj_to_last_write' \in [Thread -> [Line -> 0 .. Len(act')]]
  <2>1. obj_to_last_write \in [Thread -> [Line -> 0 .. Len(act)]]
    BY DEF TypeOK, IndicesOK
  <2>2. \A f \in [Line -> 0 .. Len(act)] : f \in [Line -> 0 .. Len(act')]
    BY <1>6
  <2>3. obj_to_last_write \in [Thread -> [Line -> 0 .. Len(act')]]
    BY <2>1, <2>2
  <2>4. CASE obj_to_last_write' = obj_to_last_write
    BY <2>3, <2>4
  <2>5. ASSUME NEW l \in Line, obj_to_last_write' = [obj_to_last_write EXCEPT ![t][l] = new]
        PROVE  obj_to_last_write' \in [Thread -> [Line -> 0 .. Len(act')]]
    <3> DEFINE R == 0 .. Len(act')
    <3>1. new \in R /\ obj_to_last_write \in [Thread -> [Line -> R]]
      BY <1>2, <2>3
    <3> HIDE DEF R
    <3>2. [obj_to_last_write[t] EXCEPT ![l] = new] \in [Line -> R]
      BY <3>1
    <3>3. obj_to_last_write' \in [Thread -> [Line -> R]]
      BY <2>5, <3>1, <3>2
    <3> QED  BY <3>3 DEF R
  <2> QED  BY <2>4, <2>5
<1>8. lastsfence' \in [Thread -> 0 .. Len(act')]
  BY <1>6 DEF TypeOK, IndicesOK
<1>9. IndicesOK'
  BY <1>7, <1>8 DEF IndicesOK
<1> QED  BY <1>1, <1>5, <1>9 DEF TypeOK

\* The write lists of a longer trace.
LEMMA ListsLater ==
  ASSUME TypeOK, NEW n \in Nat, Len(act) =< n
  PROVE  wr \in [Word -> Seq(0 .. n)] /\ \A s \in Seq(0 .. Len(act)) : s \in Seq(0 .. n)
<1>1. Len(act) \in Nat
  BY DEF TypeOK, ActsOK
<1>2. 0 .. Len(act) \subseteq 0 .. n
  BY <1>1
<1>3. \A s \in Seq(0 .. Len(act)) : s \in Seq(0 .. n)
  BY <1>2, SeqMonotonic, Zenon
<1>4. wr \in [Word -> Seq(0 .. Len(act))]
  BY DEF TypeOK, IndicesOK
<1> QED  BY <1>3, <1>4

\* The word and the line of an access.
LEMMA LocTypes ==
  ASSUME NEW l \in Loc
  PROVE  alignAddress(l) \in Word /\ getCacheID(l) \in Line
BY DEF Word, Line

LEMMA TypeLists ==
  ASSUME TypeOK, \E w \in Word : EnsureInitialValue(w)
  PROVE  TypeOK'
<1>1. PICK w \in Word : EnsureInitialValue(w)
  OBVIOUS
<1>2. wr \in [Word -> Seq(0 .. Len(act))] /\ Len(act) \in Nat
  BY DEF TypeOK, IndicesOK, ActsOK
<1>3. <<0>> \in Seq(0 .. Len(act))
  BY <1>2
<1>4. wr' \in [Word -> Seq(0 .. Len(act))]
  BY <1>1, <1>2, <1>3 DEF EnsureInitialValue
<1>5. IndicesOK'
  BY <1>1, <1>4 DEF EnsureInitialValue, TypeOK, IndicesOK
<1>6. CountersOK'
  BY <1>1 DEF EnsureInitialValue, bufs, ctl, TypeOK, CountersOK
<1>7. ControlOK'
  BY <1>1 DEF EnsureInitialValue, ctl, TypeOK, ControlOK
<1>8. ActsOK' /\ BuffersOK'
  BY <1>1 DEF EnsureInitialValue, bufs, TypeOK, ActsOK, BuffersOK, Acts
<1> QED  BY <1>5, <1>6, <1>7, <1>8 DEF TypeOK

LEMMA TypeWrite ==
  ASSUME TypeOK, NEW t \in Thread, NEW l \in Loc, NEW k \in {"write", "scwrite"},
         NEW v \in [BytesAt(l) -> Byte], Write(t, k, l, v)
  PROVE  TypeOK'
<1> DEFINE a == Action(t, k, l, v, 0)
<1>1. v \in Value
  BY DEF Value
<1>2. a \in ModelAction
  BY <1>1, ActionType DEF Kind
<1>3. a.kind = k /\ a.loc = l /\ a.val = v /\ a.lastwrite = 0
  BY DEF Action
<1>4. act' = Append(act, a)
  BY DEF Write
<1> HIDE DEF a
<1>5. Len(act) \in Nat /\ Len(act') = Len(act) + 1
  BY <1>2, <1>4 DEF TypeOK, ActsOK
<1>6. wr' \in [Word -> Seq(0 .. Len(act'))]
  BY <1>5, ListsLater DEF Write, mem
<1>7. CountersOK'
  BY DEF Write, Enqueue, StartDrain, mem, ctl, TypeOK, CountersOK
<1>8. ControlOK'
  BY <1>5 DEF Write, StartDrain, ctl, CanIssue, TypeOK, ControlOK
<1>9. getCacheID(l) \in Line
  BY LocTypes
<1>10. /\ a.kind \in {"sfence", "mfence"} \/ a.loc \in Loc
       /\ IsWrite(a) => a.val \in [BytesAt(a.loc) -> Byte]
       /\ a.lastwrite \in 0 .. Len(act) /\ a.kind \in Buffered
  BY <1>3, <1>5 DEF Buffered
<1>11. /\ sb' = [sb EXCEPT ![t] = Append(@, new)]
       /\ \E m \in Line : obj_to_last_write' = [obj_to_last_write EXCEPT ![t][m] = new]
       /\ UNCHANGED <<fb, lastsfence>>
  BY <1>9 DEF Write, Enqueue
<1> QED  BY <1>2, <1>4, <1>6, <1>7, <1>8, <1>10, <1>11, TypeAppend, Zenon

LEMMA TypeCacheOp ==
  ASSUME TypeOK, NEW t \in Thread, NEW l \in Loc, NEW k \in {"clflush", "clflushopt"},
         CacheOp(t, k, l)
  PROVE  TypeOK'
<1> DEFINE b == Action(t, k, l, Null, 0)
           n == obj_to_last_write[t][getCacheID(l)]
           a == [b EXCEPT !.lastwrite = n, !.lastcommittedWrite = used, !.issued = used]
<1>1. b \in ModelAction /\ b.kind = k /\ b.loc = l
  BY ActionType DEF Kind, Action
<1>2. getCacheID(l) \in Line
  BY LocTypes
<1>3. n \in 0 .. Len(act) /\ used \in Nat /\ Len(act) \in Nat
  BY <1>2 DEF TypeOK, IndicesOK, CountersOK, ActsOK
<1>4. act' = Append(act, a)
  BY DEF CacheOp
<1> HIDE DEF b, n
<1>5. a \in ModelAction /\ a.kind = k /\ a.loc = l /\ a.lastwrite = n
  <2>1. n \in Nat
    BY <1>3
  <2> DEFINE c == [b EXCEPT !.lastwrite = n]
             d == [c EXCEPT !.lastcommittedWrite = used]
  <2>2. c \in ModelAction /\ c.kind = k /\ c.loc = l /\ c.lastwrite = n
    BY <1>1, <2>1 DEF ModelAction
  <2> HIDE DEF c
  <2>3. d \in ModelAction /\ d.kind = k /\ d.loc = l /\ d.lastwrite = n
    BY <1>3, <2>2 DEF ModelAction
  <2> HIDE DEF d
  <2>4. a = [d EXCEPT !.issued = used]
    BY DEF c, d
  <2> HIDE DEF a
  <2> QED  BY <1>3, <2>3, <2>4 DEF ModelAction
<1> HIDE DEF a
<1>6. Len(act') = Len(act) + 1
  BY <1>4, <1>5 DEF TypeOK, ActsOK
<1>7. wr' \in [Word -> Seq(0 .. Len(act'))]
  BY <1>3, <1>6, ListsLater DEF CacheOp, mem
<1>8. CountersOK'
  BY DEF CacheOp, Enqueue, mem, ctl, TypeOK, CountersOK
<1>9. ControlOK'
  BY <1>3, <1>6 DEF CacheOp, ctl, CanIssue, TypeOK, ControlOK
<1>10. ~IsWrite(a) /\ a.kind \in Buffered
  BY <1>5 DEF IsWrite, Buffered
<1> QED  BY <1>2, <1>3, <1>4, <1>5, <1>7, <1>8, <1>9, <1>10, TypeAppend DEF CacheOp, Enqueue

LEMMA TypeFences ==
  ASSUME TypeOK, NEW t \in Thread, SFence(t) \/ MFence(t)
  PROVE  TypeOK'
<1>1. PICK k \in {"sfence", "mfence"} : act' = Append(act, Action(t, k, NoLoc, Null, 0))
                                        /\ (sb' = sb \/ (k = "sfence" /\ Enqueue(t)))
  BY DEF SFence, MFence, bufs
<1> DEFINE a == Action(t, k, NoLoc, Null, 0)
<1>2. a \in ModelAction
  BY ActionType DEF Kind
<1>3. a.kind = k /\ a.lastwrite = 0
  BY DEF Action
<1> HIDE DEF a
<1>4. Len(act) \in Nat /\ Len(act') = Len(act) + 1
  BY <1>1, <1>2 DEF TypeOK, ActsOK, a
<1>5. wr' \in [Word -> Seq(0 .. Len(act'))]
  BY <1>4, ListsLater DEF SFence, MFence, mem
<1>6. CountersOK'
  BY DEF SFence, MFence, Enqueue, StartDrain, mem, ctl, bufs, TypeOK, CountersOK
<1>7. ControlOK'
  BY <1>4 DEF SFence, MFence, StartDrain, ctl, CanIssue, TypeOK, ControlOK
<1>8. ~IsWrite(a) /\ (k = "sfence" => a.kind \in Buffered)
  BY <1>3 DEF IsWrite, Buffered
<1>9. UNCHANGED <<fb, lastsfence, obj_to_last_write>>
  BY DEF SFence, MFence, bufs
<1> QED  BY <1>1, <1>2, <1>3, <1>4, <1>5, <1>6, <1>7, <1>8, <1>9, TypeAppend DEF Enqueue, a

\* A load, or the read that remains of a failed compare-and-swap.
LEMMA TypeRead ==
  ASSUME TypeOK, (\E t \in Thread, l \in Loc : Read(t, l)) \/ CASFail
  PROVE  TypeOK'
<1>1. PICK t \in Thread, l \in Loc : act' = Append(act, Action(t, "read", l, Null, used + 1))
  <2>1. CASE CASFail
    <3>1. rmw.tid \in Thread /\ rmw.loc \in Loc
      BY <2>1 DEF CASFail, TypeOK, ControlOK
    <3> QED  BY <2>1, <3>1 DEF CASFail
  <2> QED  BY <2>1 DEF Read
<1> DEFINE a == Action(t, "read", l, Null, used + 1)
<1>2. used + 1 \in Nat
  BY DEF TypeOK, CountersOK
<1>3. a \in ModelAction
  BY <1>2, ActionType DEF Kind
<1>4. a.kind = "read" /\ a.loc = l /\ a.lastwrite = 0
  BY DEF Action
<1> HIDE DEF a
<1>5. Len(act) \in Nat /\ Len(act') = Len(act) + 1
  BY <1>1, <1>3 DEF TypeOK, ActsOK, a
<1>6. wr' \in [Word -> Seq(0 .. Len(act'))]
  BY <1>5, ListsLater DEF Read, CASFail
<1>7. CountersOK'
  BY DEF Read, CASFail, bufs, ctl, TypeOK, CountersOK
<1>8. ControlOK'
  BY <1>5 DEF Read, CASFail, ctl, CanIssue, TypeOK, ControlOK
<1>9. UNCHANGED <<sb, fb, lastsfence, obj_to_last_write>>
  BY DEF Read, CASFail, bufs
<1> QED  BY <1>1, <1>3, <1>4, <1>5, <1>6, <1>7, <1>8, <1>9, TypeAppend DEF a, IsWrite

LEMMA TypeRMWWrite ==
  ASSUME TypeOK, NEW v, RMWWrite(v)
  PROVE  TypeOK'
<1> DEFINE a == Action(rmw.tid, "rmw", rmw.loc, v, used + 1)
           w == alignAddress(rmw.loc)
<1>1. /\ rmw.tid \in Thread /\ rmw.loc \in Loc /\ v \in [BytesAt(rmw.loc) -> Byte]
      /\ used + 1 \in Nat
  BY DEF RMWWrite, TypeOK, ControlOK, CountersOK
<1>2. v \in Value
  BY <1>1 DEF Value
<1>3. a \in ModelAction
  BY <1>1, <1>2, ActionType DEF Kind
<1>4. a.kind = "rmw" /\ a.loc = rmw.loc /\ a.val = v /\ a.lastwrite = 0
  BY DEF Action
<1>5. /\ act' = Append(act, a)
      /\ wr' = wr \/ wr' = [wr EXCEPT ![w] = Append(@, new)]
      /\ noWriteSinceCrashCheck' = (noWriteSinceCrashCheck /\ IsSilent(a))
  BY DEF RMWWrite
<1> HIDE DEF a
<1>6. Len(act) \in Nat /\ Len(act') = Len(act) + 1 /\ new \in 0 .. Len(act')
  BY <1>3, <1>5 DEF TypeOK, ActsOK, new
<1>7. wr' \in [Word -> Seq(0 .. Len(act'))]
  <2>1. w \in Word /\ wr \in [Word -> Seq(0 .. Len(act'))]
    BY <1>1, <1>6, LocTypes, ListsLater
  <2>2. Append(wr[w], new) \in Seq(0 .. Len(act'))
    BY <2>1, <1>6
  <2> HIDE DEF w
  <2> QED  BY <1>5, <2>1, <2>2
<1>8. noWriteSinceCrashCheck' \in BOOLEAN
  BY <1>5
<1>9. CountersOK'
  BY <1>8 DEF RMWWrite, bufs, TypeOK, CountersOK
<1>10. ControlOK'
  BY <1>6 DEF RMWWrite, TypeOK, ControlOK
<1>11. \E l \in Line : obj_to_last_write' = [obj_to_last_write EXCEPT ![rmw.tid][l] = new]
  BY <1>1, LocTypes DEF RMWWrite
<1>12. UNCHANGED <<sb, fb, lastsfence>>
  BY DEF RMWWrite, bufs
<1>13. /\ a.kind \in {"sfence", "mfence"} \/ a.loc \in Loc
       /\ IsWrite(a) => a.val \in [BytesAt(a.loc) -> Byte]
       /\ a.lastwrite \in 0 .. Len(act)
  BY <1>1, <1>4, <1>6
<1> QED  BY <1>1, <1>3, <1>5, <1>7, <1>9, <1>10, <1>11, <1>12, <1>13, TypeAppend

LEMMA TypeNext ==
  TypeOK /\ [Next]_vars => TypeOK'
<1> SUFFICES ASSUME TypeOK, [Next]_vars PROVE TypeOK'
  OBVIOUS
<1>1. CASE Issue
  BY <1>1, TypeLists, TypeWrite, TypeCacheOp, TypeFences, TypeRead, TypeRMWWrite, TypeControl
     DEF Issue
<1>2. CASE Drain
  <2>1. ASSUME FlushForSFence \/ FlushNext PROVE TypeOK'
    <3>1. cur \in Thread /\ Flush
      BY <2>1 DEF FlushForSFence, FlushNext, Draining, TypeOK, ControlOK
    <3> QED  BY <3>1, TypeFlush
  <2> QED  BY <1>2, <2>1, TypeEvict, TypeCrashes, TypeControl, TypeEmptied DEF Drain
<1>3. CASE Terminated \/ UNCHANGED vars
  BY <1>3, TypeStutter DEF Terminated
<1> QED  BY <1>1, <1>2, <1>3 DEF Next

\* Indices always point into the trace, the buffers hold what the code buffers,
\* and the control state names the thread and the RMW it needs.
THEOREM TypeCorrect == Spec => []TypeOK
<1>1. Init => TypeOK
  BY TypeInit
<1>2. TypeOK /\ [Next]_vars => TypeOK'
  BY TypeNext
<1> QED  BY <1>1, <1>2, PTL DEF Spec

-------------------------------------------------------------------------------
(* Control: what a decided crash still lets happen, and the RMW's buffers. *)

\* After the decision to crash only the flush buffer of an RMW is gone through.
CrashControl ==
  hasCrashed => phase \in {"crashed", "done"} \/ (phase = "fb" /\ job = "rmwr")

\* The buffers of thread t are empty.
Drained(t) == sb[t] = <<>> /\ fb[t] = <<>>

\* Which drain belongs to the RMW, and that its buffers stay empty afterwards.
RMWControl ==
  /\ phase \in {"rmw", "rmwgo"} => Drained(rmw.tid)
  /\ phase \in {"sb", "fb"} /\ job = "rmwr" => cur = rmw.tid
  /\ phase = "fb" /\ job = "rmwr" /\ ~hasCrashed => sb[cur] = <<>>
  /\ phase = "sb" /\ job = "pop" /\ rmw # Null => Drained(rmw.tid)

\* An RMW is pending only while its read or its write is to be done.
RMWPending ==
  /\ phase = "run" => rmw = Null
  /\ phase \in {"sb", "fb"} => job # "none"
  /\ phase \in {"sb", "fb"} /\ job \in {"fence", "seqcst"} => rmw = Null

Control == TypeOK /\ CrashControl /\ RMWControl /\ RMWPending

LEMMA ControlInit == Init => Control
<1> SUFFICES ASSUME Init PROVE Control
  OBVIOUS
<1>1. TypeOK
  BY TypeInit
<1> QED  BY <1>1 DEF Init, Control, CrashControl, RMWControl, RMWPending, Drained, Null

\* The entries of cur leave their buffers: no RMW waits with empty ones.
LEMMA ControlDrain ==
  ASSUME Control, phase = "sb" \/ phase = "fb", cur \in Thread,
         UNCHANGED <<phase, cur, job, rmw, hasCrashed>>,
         \A t \in Thread \ {cur} : sb'[t] = sb[t] /\ fb'[t] = fb[t],
         phase = "sb" => sb[cur] # <<>>,
         phase = "fb" => sb'[cur] = sb[cur],
         TypeOK'
  PROVE  Control'
<1>1. rmw # Null => rmw.tid \in Thread
  BY DEF Control, TypeOK, ControlOK
<1>2. CrashControl'
  BY DEF Control, CrashControl
<1>3. RMWControl'
  BY <1>1 DEF Control, RMWControl, Drained
<1> QED  BY <1>2, <1>3 DEF Control, RMWPending

LEMMA ControlNext ==
  Control /\ [Next]_vars => Control'
<1> SUFFICES ASSUME Control, [Next]_vars PROVE Control'
  OBVIOUS
<1>1. TypeOK /\ TypeOK'
  BY TypeNext DEF Control
<1>2. sb \in [Thread -> Seq(Acts)] /\ fb \in [Thread -> Seq(Acts)]
  BY <1>1 DEF TypeOK, BuffersOK
<1>3. CASE EvictStore \/ EvictClflush \/ EvictFlushOpt \/ EvictSFence \/ FlushForSFence \/ FlushNext
  <2>1. Draining \/ phase = "fb"
    BY <1>3 DEF EvictStore, EvictClflush, EvictFlushOpt, EvictSFence, FlushForSFence, FlushNext
  <2>2. cur \in Thread /\ (phase = "sb" => sb[cur] # <<>>)
    BY <1>1, <2>1 DEF Draining, TypeOK, ControlOK
  <2>3. UNCHANGED <<phase, cur, job, rmw, hasCrashed>>
    BY <1>3 DEF EvictStore, EvictClflush, EvictFlushOpt, EvictSFence, FlushForSFence, FlushNext,
                Pop, Flush, evictCacheOp, ctl
  <2>4. \A t \in Thread \ {cur} : sb'[t] = sb[t] /\ fb'[t] = fb[t]
    BY <1>2, <1>3 DEF EvictStore, EvictClflush, EvictFlushOpt, EvictSFence, FlushForSFence, FlushNext,
                Pop, Flush
  <2>5. phase = "fb" => sb'[cur] = sb[cur]
    BY <1>3 DEF EvictStore, EvictClflush, EvictFlushOpt, EvictSFence, FlushForSFence, FlushNext,
                Draining, Flush
  <2> QED  BY <1>1, <2>1, <2>2, <2>3, <2>4, <2>5, ControlDrain DEF Draining
<1>4. CASE CrashInStoreBuffer \/ CrashInFlushBuffer \/ FlushedAfterCrash
  BY <1>1, <1>4 DEF CrashInStoreBuffer, CrashInFlushBuffer, FlushedAfterCrash, Draining,
     Control, CrashControl, RMWControl, RMWPending
<1>5. CASE StoreBufferEmptied \/ PopsDone \/ FlushBufferEmptied
  <2>1. CASE StoreBufferEmptied
    BY <1>1, <2>1 DEF StoreBufferEmptied, bufs, Control, CrashControl, RMWControl, RMWPending
  <2>2. CASE PopsDone
    BY <1>1, <2>2 DEF PopsDone, bufs, Control, CrashControl, RMWControl, RMWPending, Drained, Null
  <2>3. CASE FlushBufferEmptied
    <3>1. job = "rmwr" => rmw'.tid = rmw.tid
      BY <1>1, <2>3 DEF FlushBufferEmptied, TypeOK, ControlOK
    <3>2. job # "rmwr" => rmw' = Null /\ phase' = "run"
      BY <1>1, <2>3 DEF FlushBufferEmptied, Control, RMWPending, TypeOK, ControlOK
    <3> QED  BY <1>1, <2>3, <3>1, <3>2
             DEF FlushBufferEmptied, bufs, Control, CrashControl, RMWControl, RMWPending, Drained
  <2> QED  BY <1>5, <2>1, <2>2, <2>3
<1>6. CASE (\E t \in Thread : FreeActions(t)) \/ DoCrash \/ Finish
  BY <1>1, <1>6 DEF FreeActions, DoCrash, Finish, ctl, Control, CrashControl, RMWControl, RMWPending
<1>7. ASSUME \/ \E w \in Word : EnsureInitialValue(w)
             \/ \E t \in Thread, l \in Loc, k \in {"write", "scwrite"} :
                  \E v \in [BytesAt(l) -> Byte] : Write(t, k, l, v)
             \/ \E t \in Thread, l \in Loc, k \in {"clflush", "clflushopt"} : CacheOp(t, k, l)
             \/ \E t \in Thread, l \in Loc : Read(t, l)
             \/ \E t \in Thread : SFence(t) \/ MFence(t)
      PROVE  Control'
  <2>1. phase = "run" /\ UNCHANGED <<rmw, hasCrashed>>
        /\ (UNCHANGED ctl \/ (phase' = "sb" /\ job' \in {"fence", "seqcst"}))
    BY <1>7 DEF EnsureInitialValue, Write, CacheOp, Read, SFence, MFence, CanIssue, StartDrain
  <2> QED  BY <1>1, <2>1 DEF ctl, Control, CrashControl, RMWControl, RMWPending
<1>8. CASE \E t \in Thread, l \in Loc : RMWRead(t, l)
  BY <1>1, <1>8 DEF RMWRead, StartDrain, CanIssue, Control, CrashControl, RMWControl, RMWPending
<1>9. CASE (\E v \in Value : RMWWrite(v)) \/ CASFail
  BY <1>1, <1>9 DEF RMWWrite, CASFail, Control, CrashControl, RMWControl, RMWPending
<1>10. CASE \E t \in Thread, n \in 1 .. (EvictMax - 1) : EvictRandom(t, n)
  BY <1>1, <1>10 DEF EvictRandom, bufs, Control, CrashControl, RMWControl, RMWPending, Drained
<1>11. CASE Terminated \/ UNCHANGED vars
  BY <1>1, <1>11 DEF Terminated, vars, Control, CrashControl, RMWControl, RMWPending, Drained
<1> QED  BY <1>3, <1>4, <1>5, <1>6, <1>7, <1>8, <1>9, <1>10, <1>11 DEF Next, Issue, Drain

\* Control is an invariant.
THEOREM ControlCorrect == Spec => []Control
<1> QED  BY ControlInit, ControlNext, PTL DEF Spec

\* The write of an RMW, which empties the store buffer without looking for a
\* crash, finds both buffers of its thread empty.
THEOREM NoFlushesLeftTheorem == Spec => []NoFlushesLeft
<1>1. Control => NoFlushesLeft
  BY DEF Control, RMWControl, Drained, NoFlushesLeft
<1> QED  BY <1>1, ControlCorrect, PTL

\* No store reaches memory once the checker has decided to crash.
THEOREM CrashFreezesStoresTheorem == Spec => CrashFreezesStores
<1>1. ASSUME Control, [Next]_vars, hasCrashed PROVE wr' = wr
  <2>1. phase \in {"fb", "crashed", "done"}
    BY <1>1 DEF Control, CrashControl
  <2>2. ~Issue \/ Finish
    <3>1. phase \notin {"run", "rmw", "rmwgo"}
      BY <2>1
    <3>2. \A w \in Word : ~EnsureInitialValue(w)
      BY <3>1 DEF EnsureInitialValue
    <3>3. \A t, k, l, v : ~Write(t, k, l, v) /\ ~CacheOp(t, k, l) /\ ~Read(t, l) /\ ~RMWRead(t, l)
      BY <3>1 DEF Write, CacheOp, Read, RMWRead, CanIssue
    <3>4. \A t, n, v : ~SFence(t) /\ ~MFence(t) /\ ~RMWWrite(v) /\ ~CASFail /\ ~EvictRandom(t, n)
      BY <3>1 DEF SFence, MFence, RMWWrite, CASFail, EvictRandom, CanIssue
    <3> QED  BY <3>2, <3>3, <3>4, Zenon DEF Issue
  <2>5. CASE Finish
    BY <2>5 DEF Finish, mem
  <2>3. CASE Drain
    BY <2>1, <2>3 DEF Drain, EvictStore, EvictClflush, EvictFlushOpt, FlushForSFence, EvictSFence,
       CrashInStoreBuffer, StoreBufferEmptied, PopsDone, FlushNext, Flush, evictCacheOp,
       CrashInFlushBuffer, FlushedAfterCrash, FlushBufferEmptied, FreeActions, DoCrash,
       Draining, mem
  <2>4. CASE Terminated \/ UNCHANGED vars
    BY <2>4 DEF Terminated, vars
  <2> QED  BY <1>1, <2>2, <2>3, <2>4, <2>5 DEF Next
<1>2. Control /\ [Next]_vars => [hasCrashed => wr' = wr]_vars
  BY <1>1
<1> QED  BY <1>2, ControlCorrect, PTL DEF Spec, CrashFreezesStores

-------------------------------------------------------------------------------
(***************************************************************************)
(* Operations take effect in program order and no crash point is lost.     *)
(* Both rest on what the buffers hold: the operations that have not taken  *)
(* effect, in the order in which they were issued.                         *)
(***************************************************************************)

In(s) == {s[k] : k \in DOMAIN s}

Ascending(s) == \A j, k \in DOMAIN s : j < k => s[j] < s[k]

\* Operation i waits in a buffer of thread t.
Waits(t, i) == i \in In(sb[t]) \/ i \in In(fb[t])

\* The buffers of a thread are in the order of issue, flushes that have left
\* its store buffer before what is still in it.
Ordered ==
  \A t \in Thread :
    /\ Ascending(sb[t]) /\ Ascending(fb[t])
    /\ \A i \in In(fb[t]), j \in In(sb[t]) : i < j

\* What waits is the thread's and has not taken effect.
Pending ==
  \A t \in Thread, i \in Acts : Waits(t, i) => act[i].seq = 0 /\ act[i].tid = t

\* Nor has the fence on whose behalf buffers are emptied.
FencePending ==
  phase \in {"sb", "fb"} /\ job = "fence" =>
    act[Len(act)].kind = "mfence" /\ act[Len(act)].seq = 0

\* Clocks are not from the future, and what is in memory has taken effect.
Clocks ==
  /\ \A i \in Acts : act[i].seq =< used
  /\ \A w \in Word : \A k \in DOMAIN wr[w] : wr[w][k] # 0 => act[wr[w][k]].seq > 0

\* Kinds of operations that take effect in program order.
Fifo == {"write", "scwrite", "rmw", "clflush", "sfence"}

\* Until a crash, whatever has not taken effect is still in the store buffer.
NoneDropped ==
  hasCrashed \/ phase \in {"crashed", "done"} \/
  \A i \in Acts : act[i].kind \in Fifo /\ act[i].seq = 0 => i \in In(sb[act[i].tid])

Order == Ordered /\ Pending /\ FencePending /\ Clocks

-------------------------------------------------------------------------------
(* Lemmas about ascending sequences.                                       *)

LEMMA AscendingTail ==
  ASSUME NEW S, S \subseteq Nat, NEW s \in Seq(S), s # <<>>, Ascending(s)
  PROVE  /\ Ascending(Tail(s))
         /\ Head(s) \in In(s) /\ In(Tail(s)) \subseteq In(s)
         /\ \A x \in In(s) : x = Head(s) \/ x \in In(Tail(s))
         /\ \A x \in In(Tail(s)) : Head(s) < x
<1>1. Len(s) \in Nat /\ Len(s) > 0 /\ DOMAIN s = 1 .. Len(s) /\ Head(s) = s[1]
  OBVIOUS
<1>2. DOMAIN Tail(s) = 1 .. (Len(s) - 1) /\ \A k \in DOMAIN Tail(s) : Tail(s)[k] = s[k + 1]
  <2>1. /\ Tail(s) \in Seq(S) /\ Len(Tail(s)) = Len(s) - 1
        /\ \A k \in 1 .. Len(Tail(s)) : Tail(s)[k] = s[k + 1]
    BY HeadTailProperties, Zenon
  <2> QED  BY <2>1, <1>1
<1>3. Ascending(Tail(s))
  BY <1>1, <1>2 DEF Ascending
<1>4. Head(s) \in In(s)
  BY <1>1 DEF In
<1>5. \A x \in In(Tail(s)) : x \in In(s) /\ Head(s) < x
  <2> SUFFICES ASSUME NEW k \in DOMAIN Tail(s) PROVE s[k + 1] \in In(s) /\ s[1] < s[k + 1]
    BY <1>1, <1>2 DEF In
  <2>1. k + 1 \in DOMAIN s /\ 1 \in DOMAIN s /\ 1 < k + 1
    BY <1>1, <1>2
  <2> QED  BY <2>1 DEF In, Ascending
<1>6. \A x \in In(s) : x = Head(s) \/ x \in In(Tail(s))
  <2> SUFFICES ASSUME NEW k \in DOMAIN s, k # 1 PROVE s[k] \in In(Tail(s))
    BY <1>1 DEF In
  <2>1. k - 1 \in DOMAIN Tail(s) /\ (k - 1) + 1 = k
    BY <1>1, <1>2
  <2>2. Tail(s)[k - 1] = s[k]
    BY <1>2, <2>1
  <2> QED  BY <2>1, <2>2 DEF In
<1> QED  BY <1>3, <1>4, <1>5, <1>6

LEMMA AscendingAppend ==
  ASSUME NEW s \in Seq(Nat), NEW i \in Nat, Ascending(s), \A x \in In(s) : x < i
  PROVE  /\ Ascending(Append(s, i))
         /\ In(s) \subseteq In(Append(s, i)) /\ i \in In(Append(s, i))
         /\ \A x \in In(Append(s, i)) : x \in In(s) \/ x = i
<1> DEFINE u == Append(s, i)
<1>1. /\ Len(s) \in Nat /\ DOMAIN s = 1 .. Len(s) /\ DOMAIN u = 1 .. (Len(s) + 1)
      /\ u[Len(s) + 1] = i /\ \A k \in DOMAIN s : u[k] = s[k]
  OBVIOUS
<1> HIDE DEF u
<1>2. \A k \in DOMAIN u : k \in DOMAIN s \/ k = Len(s) + 1
  BY <1>1
<1>3. Ascending(u)
  BY <1>1, <1>2 DEF Ascending, In
<1>4. In(s) \subseteq In(u) /\ i \in In(u) /\ \A x \in In(u) : x \in In(s) \/ x = i
  BY <1>1, <1>2 DEF In
<1> QED  BY <1>3, <1>4 DEF u

\* The buffers are sequences of indices.
LEMMA BufferSeqs ==
  ASSUME TypeOK, NEW t \in Thread
  PROVE  /\ Len(act) \in Nat /\ Acts = 1 .. Len(act) /\ Acts \subseteq Nat
         /\ sb[t] \in Seq(Acts) /\ fb[t] \in Seq(Acts)
         /\ sb[t] \in Seq(Nat) /\ fb[t] \in Seq(Nat)
         /\ In(sb[t]) \subseteq Acts /\ In(fb[t]) \subseteq Acts
         /\ \A i \in In(sb[t]) : act[i].kind \in Buffered
         /\ \A i \in In(fb[t]) : act[i].kind = "clflushopt"
<1>1. Len(act) \in Nat /\ Acts = 1 .. Len(act)
  BY DEF TypeOK, ActsOK, Acts
<1>2. sb[t] \in Seq(Acts) /\ fb[t] \in Seq(Acts)
  BY DEF TypeOK, BuffersOK
<1>3. sb[t] \in Seq(Nat) /\ fb[t] \in Seq(Nat)
  BY <1>1, <1>2
<1>4. In(sb[t]) \subseteq Acts /\ In(fb[t]) \subseteq Acts
  BY <1>2 DEF In
<1>5. /\ \A i \in In(sb[t]) : act[i].kind \in Buffered
      /\ \A i \in In(fb[t]) : act[i].kind = "clflushopt"
  BY DEF TypeOK, BuffersOK, In, Buffered
<1> QED  BY <1>1, <1>2, <1>3, <1>4, <1>5

-------------------------------------------------------------------------------
(* What a step does to the trace, as far as order is concerned.            *)

\* Nothing is issued and nothing takes effect.
SameClocks ==
  /\ DOMAIN act' = Acts /\ used' = used
  /\ \A i \in Acts : act'[i].kind = act[i].kind /\ act'[i].tid = act[i].tid /\ act'[i].seq = act[i].seq

\* Operation i takes effect.
TakesEffect(i) ==
  /\ DOMAIN act' = Acts /\ Len(act') = Len(act) /\ used' = used + 1
  /\ \A j \in Acts : act'[j].kind = act[j].kind /\ act'[j].tid = act[j].tid
  /\ \A j \in Acts \ {i} : act'[j].seq = act[j].seq
  /\ act'[i].seq = used + 1

\* Operation a is issued.
Issued(a) ==
  /\ act' = Append(act, a)
  /\ Len(act) \in Nat /\ Acts = 1 .. Len(act) /\ new = Len(act) + 1 /\ new \notin Acts
  /\ DOMAIN act' = Acts \cup {new} /\ Len(act') = new
  /\ act'[new] = a /\ \A i \in Acts : act'[i] = act[i]

LEMMA CommitClocks ==
  ASSUME TypeOK, NEW i \in Acts, Commit(i)
  PROVE  TakesEffect(i)
<1>1. act \in Seq(ModelAction) /\ i \in DOMAIN act /\ act' = [act EXCEPT ![i].seq = used + 1]
  BY DEF TypeOK, ActsOK, Acts, Commit
<1>2. act[i] \in ModelAction
  BY <1>1
<1>3. Len(act') = Len(act)
  BY CommitActs DEF TypeOK, CountersOK
<1>4. /\ DOMAIN act' = DOMAIN act /\ act'[i] = [act[i] EXCEPT !.seq = used + 1]
      /\ \A j \in DOMAIN act : j # i => act'[j] = act[j]
  BY <1>1
<1>5. act'[i].seq = used + 1 /\ act'[i].kind = act[i].kind /\ act'[i].tid = act[i].tid
  BY <1>2, <1>4 DEF ModelAction
<1> QED  BY <1>1, <1>3, <1>4, <1>5 DEF TakesEffect, Commit, Acts

LEMMA IssueClocks ==
  ASSUME TypeOK, NEW a, act' = Append(act, a)
  PROVE  Issued(a)
<1>1. act \in Seq(ModelAction)
  BY DEF TypeOK, ActsOK
<1>2. /\ Len(act) \in Nat /\ Acts = 1 .. Len(act)
      /\ Len(act') = Len(act) + 1 /\ DOMAIN act' = 1 .. (Len(act) + 1)
      /\ act'[Len(act) + 1] = a /\ \A i \in 1 .. Len(act) : act'[i] = act[i]
  BY <1>1 DEF Acts
<1> QED  BY <1>2 DEF Issued, new

LEMMA LastFlushClocks ==
  ASSUME TypeOK, NEW i \in Acts, NEW c, used' = used,
         act' = act \/ act' = [act EXCEPT ![i].last_clflush = c]
  PROVE  SameClocks
<1>1. act \in Seq(ModelAction) /\ i \in DOMAIN act
  BY DEF TypeOK, ActsOK, Acts
<1>2. act[i] \in ModelAction
  BY <1>1
<1>3. CASE act' = [act EXCEPT ![i].last_clflush = c]
  <2>1. /\ DOMAIN act' = DOMAIN act /\ act'[i] = [act[i] EXCEPT !.last_clflush = c]
        /\ \A j \in DOMAIN act : j # i => act'[j] = act[j]
    BY <1>1, <1>3
  <2>2. act'[i].seq = act[i].seq /\ act'[i].kind = act[i].kind /\ act'[i].tid = act[i].tid
    BY <1>2, <2>1 DEF ModelAction
  <2> QED  BY <1>1, <2>1, <2>2 DEF SameClocks, Acts
<1> QED  BY <1>1, <1>3 DEF SameClocks, Acts

-------------------------------------------------------------------------------
(* Order is kept.                                                          *)

\* Clocks, when the step commits at most i and adds at most i to a write list.
LEMMA ClocksKept ==
  ASSUME TypeOK, Clocks, SameClocks \/ \E j \in Acts : act[j].seq = 0 /\ TakesEffect(j),
         \/ wr' = wr
         \/ \E w \in Word : wr' = [wr EXCEPT ![w] = << 0 >>]
         \/ \E w \in Word, i \in Acts : wr' = [wr EXCEPT ![w] = Append(@, i)] /\ act'[i].seq > 0
  PROVE  Clocks'
<1>1. used \in Nat /\ wr \in [Word -> Seq(0 .. Len(act))] /\ Len(act) \in Nat /\ Acts = 1 .. Len(act)
  BY DEF TypeOK, CountersOK, IndicesOK, ActsOK, Acts
<1>2. \A i \in Acts : act[i].seq \in Nat
  BY ClockTypes DEF TypeOK
<1>3. \A i \in Acts' : act'[i].seq =< used'
  <2>1. Acts' = Acts
    BY DEF SameClocks, TakesEffect, Acts
  <2>2. CASE SameClocks
    BY <2>1, <2>2 DEF Clocks, SameClocks
  <2>3. ASSUME NEW j \in Acts, TakesEffect(j) PROVE \A i \in Acts : act'[i].seq =< used'
    <3>1. \A i \in Acts : act[i].seq =< used
      BY DEF Clocks
    <3>2. \A i \in Acts : act'[i].seq = act[i].seq \/ act'[i].seq = used + 1
      BY <2>3 DEF TakesEffect
    <3> QED  BY <1>1, <1>2, <3>1, <3>2, <2>3 DEF TakesEffect
  <2> QED  BY <2>1, <2>2, <2>3
<1>4. \A i \in Acts : act[i].seq > 0 => act'[i].seq > 0
  BY DEF SameClocks, TakesEffect
<1>5. ASSUME NEW w \in Word, NEW k \in DOMAIN wr[w], wr[w][k] # 0 PROVE act'[wr[w][k]].seq > 0
  <2>1. wr[w][k] \in Acts
    BY <1>1, <1>5
  <2> QED  BY <2>1, <1>4, <1>5 DEF Clocks
<1>6. ASSUME NEW w \in Word, NEW k \in DOMAIN wr'[w], wr'[w][k] # 0 PROVE act'[wr'[w][k]].seq > 0
  <2>1. CASE k \in DOMAIN wr[w] /\ wr'[w][k] = wr[w][k]
    BY <2>1, <1>5, <1>6
  <2>2. CASE \E i \in Acts : wr'[w][k] = i /\ act'[i].seq > 0
    BY <2>2
  <2>3. (k \in DOMAIN wr[w] /\ wr'[w][k] = wr[w][k]) \/ \E i \in Acts : wr'[w][k] = i /\ act'[i].seq > 0
    <3>1. CASE wr' = wr
      BY <3>1
    <3>2. CASE \E x \in Word : wr' = [wr EXCEPT ![x] = << 0 >>]
      BY <3>2, <1>1, <1>6
    <3>3. CASE \E x \in Word, i \in Acts : wr' = [wr EXCEPT ![x] = Append(@, i)] /\ act'[i].seq > 0
      <4>1. PICK x \in Word, i \in Acts : wr' = [wr EXCEPT ![x] = Append(@, i)] /\ act'[i].seq > 0
        BY <3>3
      <4>2. CASE w = x
        <5>1. wr'[w] = Append(wr[w], i) /\ wr[w] \in Seq(0 .. Len(act))
          BY <4>1, <4>2, <1>1
        <5>2. (k \in DOMAIN wr[w] /\ wr'[w][k] = wr[w][k]) \/ wr'[w][k] = i
          BY <5>1
        <5> QED  BY <5>2, <4>1
      <4>3. CASE w # x
        BY <4>1, <4>3, <1>1
      <4> QED  BY <4>2, <4>3
    <3> QED  BY <3>1, <3>2, <3>3
  <2> QED  BY <2>1, <2>2, <2>3
<1> QED  BY <1>3, <1>6 DEF Clocks

\* Buffers that lose their heads, or everything, stay ordered.
LEMMA OrderedRemove ==
  ASSUME TypeOK, Ordered,
         \A t \in Thread : /\ \/ sb'[t] \in {sb[t], <<>>}
                              \/ sb[t] # <<>> /\ sb'[t] = Tail(sb[t])
                           /\ \/ fb'[t] \in {fb[t], <<>>}
                              \/ fb[t] # <<>> /\ fb'[t] = Tail(fb[t])
  PROVE  /\ Ordered'
         /\ \A t \in Thread : In(sb'[t]) \subseteq In(sb[t]) /\ In(fb'[t]) \subseteq In(fb[t])
<1>1. ASSUME NEW s \in Seq(Acts), Ascending(s), NEW u, u \in {s, <<>>} \/ (s # <<>> /\ u = Tail(s))
      PROVE  Ascending(u) /\ In(u) \subseteq In(s)
  <2>1. CASE u = s
    BY <1>1, <2>1
  <2>2. CASE u = <<>>
    BY <2>2 DEF Ascending, In
  <2>3. CASE s # <<>> /\ u = Tail(s)
    <3>1. Acts \subseteq Nat
      BY DEF TypeOK, ActsOK, Acts
    <3> QED  BY <1>1, <2>3, <3>1, AscendingTail
  <2> QED  BY <1>1, <2>1, <2>2, <2>3
<1>2. \A t \in Thread : /\ Ascending(sb'[t]) /\ In(sb'[t]) \subseteq In(sb[t])
                        /\ Ascending(fb'[t]) /\ In(fb'[t]) \subseteq In(fb[t])
  <2> TAKE t \in Thread
  <2>1. sb[t] \in Seq(Acts) /\ fb[t] \in Seq(Acts) /\ Ascending(sb[t]) /\ Ascending(fb[t])
    BY BufferSeqs DEF Ordered
  <2>2. Ascending(sb'[t]) /\ In(sb'[t]) \subseteq In(sb[t])
    <3>1. sb'[t] \in {sb[t], <<>>} \/ (sb[t] # <<>> /\ sb'[t] = Tail(sb[t]))
      OBVIOUS
    <3> QED  BY <2>1, <3>1, <1>1
  <2>3. Ascending(fb'[t]) /\ In(fb'[t]) \subseteq In(fb[t])
    <3>1. fb'[t] \in {fb[t], <<>>} \/ (fb[t] # <<>> /\ fb'[t] = Tail(fb[t]))
      OBVIOUS
    <3> QED  BY <2>1, <3>1, <1>1
  <2> QED  BY <2>2, <2>3
<1>3. \A t \in Thread : \A i \in In(fb'[t]), j \in In(sb'[t]) : i < j
  BY <1>2 DEF Ordered
<1>4. Ordered'
  BY <1>2, <1>3 DEF Ordered
<1> QED  BY <1>2, <1>4

\* Nothing is issued or takes effect.
LEMMA OrderStays ==
  ASSUME TypeOK, Order, SameClocks, FencePending',
         \A t \in Thread : /\ \/ sb'[t] \in {sb[t], <<>>}
                              \/ sb[t] # <<>> /\ sb'[t] = Tail(sb[t])
                           /\ \/ fb'[t] \in {fb[t], <<>>}
                              \/ fb[t] # <<>> /\ fb'[t] = Tail(fb[t]),
         wr' = wr \/ \E w \in Word : wr' = [wr EXCEPT ![w] = << 0 >>]
  PROVE  Order'
<1>1. Ordered' /\ \A t \in Thread : In(sb'[t]) \subseteq In(sb[t]) /\ In(fb'[t]) \subseteq In(fb[t])
  BY OrderedRemove DEF Order
<1>2. Acts' = Acts
  BY DEF SameClocks, Acts
<1>3. ASSUME NEW t \in Thread, NEW i \in Acts, i \in In(sb'[t]) \/ i \in In(fb'[t])
      PROVE  act'[i].seq = 0 /\ act'[i].tid = t
  BY <1>1, <1>3 DEF Order, Pending, Waits, SameClocks
<1>4. Pending'
  BY <1>2, <1>3 DEF Pending, Waits
<1>5. Clocks'
  BY ClocksKept DEF Order
<1> QED  BY <1>1, <1>4, <1>5 DEF Order

\* The head of a buffer takes effect.
LEMMA OrderTakesEffect ==
  ASSUME TypeOK, Order, cur \in Thread, NEW i \in Acts, TakesEffect(i),
         \/ /\ sb[cur] # <<>> /\ i = Head(sb[cur])
            /\ sb' = [sb EXCEPT ![cur] = Tail(@)] /\ fb' = fb
         \/ /\ fb[cur] # <<>> /\ i = Head(fb[cur])
            /\ fb' = [fb EXCEPT ![cur] = Tail(@)] /\ sb' = sb,
         wr' = wr \/ \E w \in Word : wr' = [wr EXCEPT ![w] = Append(@, i)],
         UNCHANGED <<phase, job>>
  PROVE  Order'
<1>1. sb \in [Thread -> Seq(Acts)] /\ fb \in [Thread -> Seq(Acts)] /\ Acts \subseteq Nat
      /\ Len(act) \in Nat /\ Acts = 1 .. Len(act) /\ used \in Nat
  BY BufferSeqs DEF TypeOK, BuffersOK, CountersOK
<1>2. \A t \in Thread : /\ \/ sb'[t] \in {sb[t], <<>>}
                           \/ sb[t] # <<>> /\ sb'[t] = Tail(sb[t])
                        /\ \/ fb'[t] \in {fb[t], <<>>}
                           \/ fb[t] # <<>> /\ fb'[t] = Tail(fb[t])
  BY <1>1
<1>3. Ordered' /\ \A t \in Thread : In(sb'[t]) \subseteq In(sb[t]) /\ In(fb'[t]) \subseteq In(fb[t])
  BY <1>2, OrderedRemove DEF Order
<1>4. /\ i \in In(sb[cur]) \cup In(fb[cur]) /\ act[i].kind \in Buffered \cup {"clflushopt"}
      /\ i \notin In(sb'[cur]) \cup In(fb'[cur])
  <2>1. /\ \A j \in In(sb[cur]) : act[j].kind \in Buffered
        /\ \A j \in In(fb[cur]) : act[j].kind = "clflushopt"
    BY BufferSeqs
  <2>2. /\ Ascending(sb[cur]) /\ Ascending(fb[cur])
        /\ \A x \in In(fb[cur]), y \in In(sb[cur]) : x < y
    BY DEF Order, Ordered
  <2>3. CASE /\ sb[cur] # <<>> /\ i = Head(sb[cur])
             /\ sb' = [sb EXCEPT ![cur] = Tail(@)] /\ fb' = fb
    <3>1. i \in In(sb[cur]) /\ \A x \in In(Tail(sb[cur])) : i < x
      BY <2>3, <2>2, <1>1, AscendingTail
    <3>2. sb'[cur] = Tail(sb[cur]) /\ fb'[cur] = fb[cur]
      BY <2>3, <1>1
    <3> QED  BY <3>1, <3>2, <2>1, <2>2, <1>1
  <2>4. CASE /\ fb[cur] # <<>> /\ i = Head(fb[cur])
             /\ fb' = [fb EXCEPT ![cur] = Tail(@)] /\ sb' = sb
    <3>1. i \in In(fb[cur]) /\ \A x \in In(Tail(fb[cur])) : i < x
      BY <2>4, <2>2, <1>1, AscendingTail
    <3>2. fb'[cur] = Tail(fb[cur]) /\ sb'[cur] = sb[cur]
      BY <2>4, <1>1
    <3> QED  BY <3>1, <3>2, <2>1, <2>2, <1>1
  <2> QED  BY <2>3, <2>4
<1>5. act[i].seq = 0 /\ act[i].tid = cur
  BY <1>4 DEF Order, Pending, Waits
<1>6. Acts' = Acts
  BY DEF TakesEffect, Acts
<1>7. ASSUME NEW t \in Thread, NEW j \in Acts, j \in In(sb'[t]) \/ j \in In(fb'[t])
      PROVE  act'[j].seq = 0 /\ act'[j].tid = t
  <2>1. act[j].seq = 0 /\ act[j].tid = t
    BY <1>3, <1>7 DEF Order, Pending, Waits
  <2>2. j # i
    BY <2>1, <1>4, <1>5, <1>7
  <2> QED  BY <2>1, <2>2 DEF TakesEffect
<1>8. Pending'
  BY <1>6, <1>7 DEF Pending, Waits
<1>9. FencePending'
  <2> SUFFICES ASSUME phase \in {"sb", "fb"}, job = "fence"
               PROVE  act'[Len(act')].kind = "mfence" /\ act'[Len(act')].seq = 0
    BY DEF FencePending
  <2>1. act[Len(act)].kind = "mfence" /\ act[Len(act)].seq = 0
    BY DEF Order, FencePending
  <2>2. Len(act) \in Acts /\ Len(act) # i
    <3>1. Len(act) > 0
      BY DEF TypeOK, ControlOK
    <3> QED  BY <3>1, <2>1, <1>1, <1>4 DEF Buffered
  <2>3. Len(act') = Len(act)
    BY DEF TakesEffect
  <2> QED  BY <2>1, <2>2, <2>3 DEF TakesEffect
<1>10. Clocks'
  <2>1. act'[i].seq > 0
    BY <1>1 DEF TakesEffect
  <2> QED  BY <1>5, <2>1, ClocksKept DEF Order
<1> QED  BY <1>3, <1>8, <1>9, <1>10 DEF Order

\* A clflushopt moves from the store buffer to the flush buffer.
LEMMA OrderMoves ==
  ASSUME TypeOK, Order, EvictFlushOpt
  PROVE  Order'
<1> DEFINE s == sb[cur]
           h == Head(s)
<1>1. /\ cur \in Thread /\ s # <<>> /\ phase = "sb"
      /\ sb' = [sb EXCEPT ![cur] = Tail(@)] /\ fb' = [fb EXCEPT ![cur] = Append(@, h)]
      /\ UNCHANGED <<phase, job, used, wr>>
      /\ \E c : act' = act \/ act' = [act EXCEPT ![h].last_clflush = c]
  BY DEF EvictFlushOpt, Draining, Pop, head, mem, TypeOK, ControlOK
<1>2. sb \in [Thread -> Seq(Acts)] /\ fb \in [Thread -> Seq(Acts)] /\ Acts \subseteq Nat
      /\ s \in Seq(Acts) /\ fb[cur] \in Seq(Nat)
  BY <1>1, BufferSeqs DEF TypeOK, BuffersOK
<1>3. /\ Ascending(s) /\ Ascending(fb[cur])
      /\ \A x \in In(fb[cur]), y \in In(s) : x < y
  BY <1>1 DEF Order, Ordered
<1> HIDE DEF h
<1>4. /\ Ascending(Tail(s)) /\ h \in In(s) /\ In(Tail(s)) \subseteq In(s)
      /\ \A x \in In(Tail(s)) : h < x
  BY <1>1, <1>2, <1>3, AscendingTail DEF h
<1> DEFINE g == Append(fb[cur], h)
<1>5. h \in Acts /\ h \in Nat
  BY <1>1, <1>4, BufferSeqs
<1>6. /\ Ascending(g) /\ In(fb[cur]) \subseteq In(g) /\ h \in In(g)
      /\ \A x \in In(g) : x \in In(fb[cur]) \/ x = h
  <2>1. \A x \in In(fb[cur]) : x < h
    BY <1>3, <1>4
  <2> QED  BY <2>1, <1>2, <1>3, <1>5, AscendingAppend, Zenon
<1>7. /\ sb'[cur] = Tail(s) /\ fb'[cur] = g
      /\ \A t \in Thread \ {cur} : sb'[t] = sb[t] /\ fb'[t] = fb[t]
  BY <1>1, <1>2
<1> HIDE DEF g, s
<1>8. Ordered'
  <2>1. \A x \in In(g), y \in In(Tail(s)) : x < y
    BY <1>3, <1>4, <1>6
  <2> SUFFICES ASSUME NEW t \in Thread
               PROVE  /\ Ascending(sb'[t]) /\ Ascending(fb'[t])
                      /\ \A i \in In(fb'[t]), j \in In(sb'[t]) : i < j
    BY DEF Ordered
  <2>2. CASE t = cur
    BY <2>1, <2>2, <1>4, <1>6, <1>7
  <2>3. CASE t # cur
    BY <2>3, <1>7 DEF Order, Ordered
  <2> QED  BY <2>2, <2>3
<1>9. SameClocks
  BY <1>1, <1>5, LastFlushClocks
<1>10. Acts' = Acts
  BY <1>9 DEF SameClocks, Acts
<1>11. ASSUME NEW t \in Thread, NEW i \in Acts, i \in In(sb'[t]) \/ i \in In(fb'[t])
       PROVE  act'[i].seq = 0 /\ act'[i].tid = t
  <2>1. Waits(t, i)
    <3>1. CASE t = cur
      BY <3>1, <1>4, <1>6, <1>7, <1>11 DEF Waits, s
    <3>2. CASE t # cur
      BY <3>2, <1>7, <1>11 DEF Waits
    <3> QED  BY <3>1, <3>2
  <2> QED  BY <2>1, <1>9 DEF Order, Pending, SameClocks
<1>12. Pending'
  BY <1>10, <1>11 DEF Pending, Waits
<1>13. FencePending'
  <2> SUFFICES ASSUME job = "fence"
               PROVE  act'[Len(act')].kind = "mfence" /\ act'[Len(act')].seq = 0
    BY <1>1 DEF FencePending
  <2>1. act[Len(act)].kind = "mfence" /\ act[Len(act)].seq = 0
    BY <1>1 DEF Order, FencePending
  <2>2. Len(act') = Len(act) /\ Len(act) \in Acts
    <3>1. act \in Seq(ModelAction) /\ Len(act) > 0
      BY <1>1 DEF TypeOK, ActsOK, ControlOK
    <3> QED  BY <3>1, <1>1 DEF Acts
  <2> QED  BY <2>1, <2>2, <1>9 DEF SameClocks
<1>14. Clocks'
  BY <1>1, <1>9, ClocksKept DEF Order
<1> QED  BY <1>8, <1>12, <1>13, <1>14 DEF Order

\* The flush buffer of a fence is empty: the fence takes effect.
LEMMA OrderFence ==
  ASSUME TypeOK, Order, TakesEffect(Len(act)), phase = "fb", job = "fence",
         phase' = "run", UNCHANGED <<sb, fb, wr>>
  PROVE  Order'
<1> DEFINE m == Len(act)
<1>1. act[m].kind = "mfence" /\ act[m].seq = 0
  BY DEF Order, FencePending
<1>2. m \in Acts /\ Acts' = Acts
  <2>1. act \in Seq(ModelAction) /\ Len(act) > 0
    BY DEF TypeOK, ActsOK, ControlOK
  <2> QED  BY <2>1 DEF Acts, TakesEffect
<1> HIDE DEF m
<1>3. ASSUME NEW t \in Thread, NEW i \in Acts, Waits(t, i)
      PROVE  act'[i].seq = 0 /\ act'[i].tid = t
  <2>1. act[i].kind \in Buffered \cup {"clflushopt"}
    BY <1>3, BufferSeqs DEF Waits
  <2>2. i # m
    BY <1>1, <2>1 DEF Buffered
  <2> QED  BY <1>3, <2>2 DEF Order, Pending, TakesEffect, m
<1>4. Pending'
  BY <1>2, <1>3 DEF Pending, Waits
<1>5. Clocks'
  BY <1>1, <1>2, ClocksKept DEF Order, m
<1> QED  BY <1>4, <1>5 DEF Order, Ordered, FencePending

\* An operation is issued: it joins the store buffer, or takes effect, or
\* waits for the buffers to be emptied.
LEMMA OrderIssues ==
  ASSUME TypeOK, Order, NEW t \in Thread, NEW a, a.tid = t, Issued(a), fb' = fb,
         sb' = sb \/ (a.seq = 0 /\ sb' = [sb EXCEPT ![t] = Append(@, new)]),
         (a.seq = 0 /\ used' = used) \/ (a.seq = used + 1 /\ used' = used + 1),
         wr' = wr \/ (a.seq # 0 /\ \E w \in Word : wr' = [wr EXCEPT ![w] = Append(@, new)]),
         FencePending'
  PROVE  Order'
<1>1. /\ sb \in [Thread -> Seq(Acts)] /\ fb \in [Thread -> Seq(Acts)]
      /\ Len(act) \in Nat /\ Acts = 1 .. Len(act) /\ used \in Nat
      /\ wr \in [Word -> Seq(0 .. Len(act))]
  BY DEF TypeOK, BuffersOK, CountersOK, IndicesOK, Issued
<1>2. \A u \in Thread : In(sb[u]) \subseteq Acts /\ In(fb[u]) \subseteq Acts
  BY BufferSeqs
<1>3. /\ new = Len(act) + 1 /\ new \notin Acts /\ Acts' = Acts \cup {new}
      /\ act'[new] = a /\ \A i \in Acts : act'[i] = act[i] /\ i < new
  BY <1>1 DEF Issued, Acts, new
<1>4. \A u \in Thread :
        /\ fb'[u] = fb[u]
        /\ \/ sb'[u] = sb[u]
           \/ u = t /\ a.seq = 0 /\ sb'[u] = Append(sb[u], new)
  BY <1>1
<1>5. ASSUME NEW u \in Thread, sb'[u] = Append(sb[u], new)
      PROVE  /\ Ascending(sb'[u])
             /\ \A x \in In(sb'[u]) : x \in In(sb[u]) \/ x = new
  <2>1. Ascending(sb[u]) /\ sb[u] \in Seq(Nat) /\ new \in Nat
    BY <1>1, <1>3, BufferSeqs DEF Order, Ordered
  <2>2. \A x \in In(sb[u]) : x < new
    BY <1>2, <1>3
  <2> HIDE DEF new
  <2> QED  BY <1>5, <2>1, <2>2, AscendingAppend
<1>6. Ordered'
  <2> SUFFICES ASSUME NEW u \in Thread
               PROVE  /\ Ascending(sb'[u]) /\ Ascending(fb'[u])
                      /\ \A i \in In(fb'[u]), j \in In(sb'[u]) : i < j
    BY DEF Ordered
  <2>1. /\ Ascending(sb[u]) /\ Ascending(fb[u])
        /\ \A i \in In(fb[u]), j \in In(sb[u]) : i < j
    BY DEF Order, Ordered
  <2>2. \A i \in In(fb[u]) : i < new
    BY <1>2, <1>3
  <2>3. CASE sb'[u] = sb[u]
    BY <2>1, <2>3, <1>4
  <2>4. CASE sb'[u] = Append(sb[u], new)
    BY <2>1, <2>2, <2>4, <1>4, <1>5
  <2> QED  BY <2>3, <2>4, <1>4
<1>7. ASSUME NEW u \in Thread, NEW i \in Acts', i \in In(sb'[u]) \/ i \in In(fb'[u])
      PROVE  act'[i].seq = 0 /\ act'[i].tid = u
  <2>1. CASE i \in Acts
    <3>1. i # new
      BY <2>1, <1>3
    <3>2. Waits(u, i)
      BY <3>1, <1>4, <1>5, <1>7 DEF Waits
    <3> QED  BY <2>1, <3>2, <1>3 DEF Order, Pending
  <2>2. CASE i = new
    <3>1. sb'[u] # sb[u]
      BY <2>2, <1>2, <1>3, <1>4, <1>7
    <3> QED  BY <2>2, <3>1, <1>3, <1>4
  <2> QED  BY <2>1, <2>2, <1>3
<1>8. Pending'
  BY <1>7 DEF Pending, Waits
<1>9. \A i \in Acts' : act'[i].seq =< used'
  <2>1. \A i \in Acts : act[i].seq \in Nat /\ act[i].seq =< used
    BY ClockTypes DEF TypeOK, Order, Clocks
  <2>2. a.seq =< used' /\ used =< used' /\ used' \in Nat
    BY <1>1
  <2>3. ASSUME NEW i \in Acts PROVE act'[i].seq =< used'
    <3>1. act'[i].seq = act[i].seq
      BY <1>3
    <3>2. act[i].seq \in Nat /\ act[i].seq =< used /\ used \in Nat
      BY <2>1, <1>1
    <3> QED  BY <3>1, <3>2, <2>2
  <2> QED  BY <2>2, <2>3, <1>3
<1>10. ASSUME NEW w \in Word, NEW k \in DOMAIN wr[w], wr[w][k] # 0 PROVE act'[wr[w][k]].seq > 0
  <2>1. wr[w][k] \in Acts
    BY <1>1, <1>10
  <2> QED  BY <2>1, <1>3, <1>10 DEF Order, Clocks
<1>11. ASSUME NEW w \in Word, NEW k \in DOMAIN wr'[w], wr'[w][k] # 0 PROVE act'[wr'[w][k]].seq > 0
  <2>1. CASE wr' = wr
    BY <2>1, <1>10, <1>11
  <2>2. CASE a.seq # 0 /\ \E x \in Word : wr' = [wr EXCEPT ![x] = Append(@, new)]
    <3>1. a.seq > 0
      BY <2>2, <1>1
    <3>2. PICK x \in Word : wr' = [wr EXCEPT ![x] = Append(@, new)]
      BY <2>2
    <3>3. CASE w # x
      BY <3>2, <3>3, <1>1, <1>10, <1>11
    <3>4. CASE w = x
      <4>1. wr'[w] = Append(wr[w], new) /\ wr[w] \in Seq(0 .. Len(act))
        BY <3>2, <3>4, <1>1
      <4>2. (k \in DOMAIN wr[w] /\ wr'[w][k] = wr[w][k]) \/ wr'[w][k] = new
        BY <4>1
      <4> QED  BY <4>2, <3>1, <1>3, <1>10, <1>11
    <3> QED  BY <3>3, <3>4
  <2> QED  BY <2>1, <2>2
<1>12. Clocks'
  BY <1>9, <1>11 DEF Clocks
<1> QED  BY <1>6, <1>8, <1>12 DEF Order

LEMMA OrderInit == Init => Order
<1> SUFFICES ASSUME Init PROVE Order
  OBVIOUS
<1>1. Acts = {}
  BY DEF Init, Acts
<1>2. Ordered
  BY DEF Init, Ordered, Ascending, In
<1>3. Pending
  BY <1>1 DEF Pending
<1>4. FencePending
  BY DEF Init, FencePending
<1>5. Clocks
  BY <1>1 DEF Init, Clocks
<1> QED  BY <1>2, <1>3, <1>4, <1>5 DEF Order

\* An entry leaves a buffer because it takes effect.
LEMMA OrderEvict ==
  ASSUME TypeOK, Order, EvictStore \/ EvictClflush \/ EvictSFence \/ FlushForSFence \/ FlushNext
  PROVE  Order'
<1>1. cur \in Thread
  BY DEF EvictStore, EvictClflush, EvictSFence, FlushForSFence, FlushNext, Draining, TypeOK, ControlOK
<1>2. CASE EvictStore \/ EvictClflush \/ EvictSFence
  <2>1. /\ sb[cur] # <<>> /\ sb' = [sb EXCEPT ![cur] = Tail(@)] /\ fb' = fb
        /\ UNCHANGED <<phase, job>> /\ Commit(head)
    BY <1>2 DEF EvictStore, EvictClflush, EvictSFence, Draining, Pop, evictCacheOp
  <2>2. head \in Acts
    BY <1>2, TypePop DEF EvictStore, EvictClflush, EvictSFence
  <2>3. wr' = wr \/ \E w \in Word : wr' = [wr EXCEPT ![w] = Append(@, head)]
    <3>1. CASE EvictStore
      <4>1. act[head].loc \in Loc
        BY <2>2, <3>1 DEF EvictStore, IsWrite, TypeOK, ActsOK
      <4>2. alignAddress(act[head].loc) \in Word
        BY <4>1, LocTypes
      <4> QED  BY <3>1, <4>2 DEF EvictStore, addWriteToLists
    <3>2. CASE EvictClflush \/ EvictSFence
      BY <3>2 DEF EvictClflush, EvictSFence, evictCacheOp
    <3> QED  BY <1>2, <3>1, <3>2
  <2>4. TakesEffect(head)
    BY <2>1, <2>2, CommitClocks
  <2> QED  BY <1>1, <2>1, <2>2, <2>3, <2>4, OrderTakesEffect DEF head
<1>3. CASE FlushForSFence \/ FlushNext
  <2> DEFINE i == Head(fb[cur])
  <2>1. /\ fb[cur] # <<>> /\ fb' = [fb EXCEPT ![cur] = Tail(@)] /\ sb' = sb
        /\ UNCHANGED <<phase, job>> /\ Commit(i) /\ wr' = wr
    BY <1>3 DEF FlushForSFence, FlushNext, Flush, evictCacheOp, ctl
  <2>2. i \in Acts
    BY <1>1, <2>1, BuffersAre, HoldsTail DEF TypeOK, Acts
  <2>3. TakesEffect(i)
    BY <2>1, <2>2, CommitClocks
  <2> QED  BY <1>1, <2>1, <2>2, <2>3, OrderTakesEffect
<1> QED  BY <1>2, <1>3

\* Nothing is issued and nothing takes effect.
LEMMA OrderStutter ==
  ASSUME TypeOK, Order,
         \/ CrashInStoreBuffer \/ CrashInFlushBuffer \/ FlushedAfterCrash \/ StoreBufferEmptied
         \/ PopsDone \/ (FlushBufferEmptied /\ job # "fence")
         \/ (\E t \in Thread : FreeActions(t)) \/ DoCrash \/ Finish
         \/ (\E w \in Word : EnsureInitialValue(w))
         \/ (\E t \in Thread, l \in Loc : RMWRead(t, l))
         \/ (\E t \in Thread, n \in 1 .. (EvictMax - 1) : EvictRandom(t, n))
         \/ UNCHANGED vars
  PROVE  Order'
<1>1. act' = act /\ used' = used
  BY DEF CrashInStoreBuffer, CrashInFlushBuffer, FlushedAfterCrash, StoreBufferEmptied, PopsDone,
     FlushBufferEmptied, FreeActions, DoCrash, Finish, EnsureInitialValue, RMWRead, EvictRandom,
     mem, vars
<1>2. SameClocks
  BY <1>1 DEF SameClocks, Acts
<1>3. \/ UNCHANGED <<phase, job>>
      \/ phase' \notin {"sb", "fb"} \/ job' # "fence"
      \/ phase = "sb" /\ job' = job
  BY DEF CrashInStoreBuffer, CrashInFlushBuffer, FlushedAfterCrash, StoreBufferEmptied, PopsDone,
     FlushBufferEmptied, FreeActions, DoCrash, Finish, EnsureInitialValue, RMWRead, EvictRandom,
     StartDrain, ctl, vars
<1>4. FencePending'
  BY <1>1, <1>3 DEF FencePending, Order
<1>5. sb \in [Thread -> Seq(Acts)] /\ fb \in [Thread -> Seq(Acts)]
  BY DEF TypeOK, BuffersOK
<1>6. CASE CrashInStoreBuffer
  <2>1. /\ cur \in Thread /\ sb[cur] # <<>> /\ sb' = [sb EXCEPT ![cur] = Tail(@)] /\ wr' = wr
        /\ fb' = fb \/ (fb[cur] # <<>> /\ fb' = [fb EXCEPT ![cur] = Tail(@)])
    BY <1>6 DEF CrashInStoreBuffer, Draining, mem, TypeOK, ControlOK
  <2>2. \A t \in Thread : /\ \/ sb'[t] \in {sb[t], <<>>}
                             \/ sb[t] # <<>> /\ sb'[t] = Tail(sb[t])
                          /\ \/ fb'[t] \in {fb[t], <<>>}
                             \/ fb[t] # <<>> /\ fb'[t] = Tail(fb[t])
    BY <1>5, <2>1
  <2> QED  BY <1>2, <1>4, <2>1, <2>2, OrderStays
<1>7. CASE CrashInFlushBuffer
  <2>1. /\ cur \in Thread /\ sb' = sb /\ wr' = wr
        /\ fb[cur] # <<>> /\ fb' = [fb EXCEPT ![cur] = Tail(@)]
    BY <1>7 DEF CrashInFlushBuffer, mem, TypeOK, ControlOK
  <2>2. \A t \in Thread : /\ \/ sb'[t] \in {sb[t], <<>>}
                             \/ sb[t] # <<>> /\ sb'[t] = Tail(sb[t])
                          /\ \/ fb'[t] \in {fb[t], <<>>}
                             \/ fb[t] # <<>> /\ fb'[t] = Tail(fb[t])
    BY <1>5, <2>1
  <2> QED  BY <1>2, <1>4, <2>1, <2>2, OrderStays
<1>8. CASE \E t \in Thread : FreeActions(t)
  <2>1. PICK u \in Thread : /\ sb' = [sb EXCEPT ![u] = <<>>] /\ fb' = [fb EXCEPT ![u] = <<>>]
                            /\ wr' = wr
    BY <1>8 DEF FreeActions, mem
  <2>2. \A t \in Thread : /\ \/ sb'[t] \in {sb[t], <<>>}
                             \/ sb[t] # <<>> /\ sb'[t] = Tail(sb[t])
                          /\ \/ fb'[t] \in {fb[t], <<>>}
                             \/ fb[t] # <<>> /\ fb'[t] = Tail(fb[t])
    BY <1>5, <2>1
  <2> QED  BY <1>2, <1>4, <2>1, <2>2, OrderStays
<1>9. CASE /\ UNCHANGED <<sb, fb>>
           /\ wr' = wr \/ \E w \in Word : wr' = [wr EXCEPT ![w] = << 0 >>]
  <2>1. \A t \in Thread : sb'[t] \in {sb[t], <<>>} /\ fb'[t] \in {fb[t], <<>>}
    BY <1>9
  <2> QED  BY <1>2, <1>4, <1>9, <2>1, OrderStays
<1> QED  BY <1>6, <1>7, <1>8, <1>9
         DEF FlushedAfterCrash, StoreBufferEmptied, PopsDone, FlushBufferEmptied, DoCrash, Finish,
             EnsureInitialValue, RMWRead, EvictRandom, bufs, mem, vars

\* Thread t issues operation a, which joins the store buffer, waits for the
\* buffers to be emptied, or takes effect at once.
Issues(t, a) ==
  /\ Issued(a) /\ a.tid = t
  /\ phase \in {"run", "rmw", "rmwgo"} /\ UNCHANGED <<fb, hasCrashed>>
  /\ \/ /\ a.seq = 0 /\ UNCHANGED <<used, wr>>
        /\ \/ a.kind = "mfence" /\ sb' = sb
           \/ a.kind \in Buffered /\ sb' = [sb EXCEPT ![t] = Append(@, new)]
     \/ /\ a.seq = used + 1 /\ used' = used + 1 /\ sb' = sb
        /\ \/ a.kind = "read" /\ wr' = wr
           \/ /\ a.kind = "rmw" /\ t = rmw.tid /\ phase \in {"rmw", "rmwgo"}
              /\ wr' = wr \/ \E w \in Word : wr' = [wr EXCEPT ![w] = Append(@, new)]

LEMMA IssueShape ==
  ASSUME TypeOK,
         \/ \E t \in Thread, l \in Loc :
              \/ \E k \in {"write", "scwrite"} : \E v \in [BytesAt(l) -> Byte] : Write(t, k, l, v)
              \/ \E k \in {"clflush", "clflushopt"} : CacheOp(t, k, l)
              \/ Read(t, l)
         \/ \E t \in Thread : SFence(t) \/ MFence(t)
         \/ \E v \in Value : RMWWrite(v)
         \/ CASFail
  PROVE  FencePending' /\ \E t \in Thread : \E a : Issues(t, a)
<1>1. CASE \E t \in Thread, l \in Loc, k \in {"write", "scwrite"} :
             \E v \in [BytesAt(l) -> Byte] : Write(t, k, l, v)
  <2>1. PICK t \in Thread, l \in Loc, k \in {"write", "scwrite"} :
               \E v \in [BytesAt(l) -> Byte] : Write(t, k, l, v)
    BY <1>1
  <2>2. PICK v \in [BytesAt(l) -> Byte] : Write(t, k, l, v)
    BY <2>1
  <2> DEFINE a == Action(t, k, l, v, 0)
  <2>3. Issued(a) /\ a.tid = t /\ a.seq = 0 /\ a.kind \in Buffered
    BY <2>2, IssueClocks DEF Write, Action, Buffered
  <2>4. FencePending'
    BY <2>2 DEF Write, CanIssue, StartDrain, ctl, FencePending
  <2>5. /\ fb' = fb /\ used' = used /\ wr' = wr /\ sb' = [sb EXCEPT ![t] = Append(@, new)]
        /\ phase = "run" /\ hasCrashed' = hasCrashed
    BY <2>2 DEF Write, Enqueue, CanIssue, mem
  <2> HIDE DEF a
  <2> QED  BY <2>3, <2>4, <2>5 DEF Issues
<1>2. CASE \E t \in Thread, l \in Loc, k \in {"clflush", "clflushopt"} : CacheOp(t, k, l)
  <2>1. PICK t \in Thread, l \in Loc, k \in {"clflush", "clflushopt"} : CacheOp(t, k, l)
    BY <1>2
  <2> DEFINE a == [Action(t, k, l, Null, 0) EXCEPT
                     !.lastwrite = obj_to_last_write[t][getCacheID(l)],
                     !.lastcommittedWrite = used,
                     !.issued = used]
  <2>2. act' = Append(act, a)
    BY <2>1 DEF CacheOp
  <2>3. a.tid = t /\ a.seq = 0 /\ a.kind \in Buffered
    BY DEF Action, Buffered
  <2>4. FencePending'
    BY <2>1 DEF CacheOp, CanIssue, ctl, FencePending
  <2>5. /\ fb' = fb /\ used' = used /\ wr' = wr /\ sb' = [sb EXCEPT ![t] = Append(@, new)]
        /\ phase = "run" /\ hasCrashed' = hasCrashed
    BY <2>1 DEF CacheOp, Enqueue, CanIssue, mem
  <2> HIDE DEF a
  <2>6. Issued(a)
    BY <2>2, IssueClocks
  <2> QED  BY <2>3, <2>4, <2>5, <2>6 DEF Issues
<1>3. CASE \E t \in Thread : SFence(t)
  <2>1. PICK t \in Thread : SFence(t)
    BY <1>3
  <2> DEFINE a == Action(t, "sfence", NoLoc, Null, 0)
  <2>3. Issued(a) /\ a.tid = t /\ a.seq = 0 /\ a.kind \in Buffered
    BY <2>1, IssueClocks DEF SFence, Action, Buffered
  <2>4. FencePending'
    BY <2>1 DEF SFence, CanIssue, ctl, FencePending
  <2>5. /\ fb' = fb /\ used' = used /\ wr' = wr /\ sb' = [sb EXCEPT ![t] = Append(@, new)]
        /\ phase = "run" /\ hasCrashed' = hasCrashed
    BY <2>1 DEF SFence, Enqueue, CanIssue, mem
  <2> HIDE DEF a
  <2> QED  BY <2>3, <2>4, <2>5 DEF Issues
<1>4. CASE \E t \in Thread : MFence(t)
  <2>1. PICK t \in Thread : MFence(t)
    BY <1>4
  <2> DEFINE a == Action(t, "mfence", NoLoc, Null, 0)
  <2>3. Issued(a) /\ a.tid = t /\ a.seq = 0 /\ a.kind = "mfence"
    BY <2>1, IssueClocks DEF MFence, Action
  <2> HIDE DEF a
  <2>4. FencePending'
    BY <2>3 DEF Issued, FencePending
  <2>5. fb' = fb /\ used' = used /\ wr' = wr /\ sb' = sb
        /\ phase = "run" /\ hasCrashed' = hasCrashed
    BY <2>1 DEF MFence, CanIssue, bufs, mem
  <2> QED  BY <2>3, <2>4, <2>5 DEF Issues
<1>5. CASE (\E t \in Thread, l \in Loc : Read(t, l)) \/ CASFail
  <2>1. PICK t \in Thread, l \in Loc : act' = Append(act, Action(t, "read", l, Null, used + 1))
    <3>1. CASE CASFail
      BY <3>1 DEF CASFail, TypeOK, ControlOK
    <3> QED  BY <1>5, <3>1 DEF Read
  <2> DEFINE a == Action(t, "read", l, Null, used + 1)
  <2>3. Issued(a) /\ a.tid = t /\ a.kind = "read" /\ a.seq = used + 1
    BY <2>1, IssueClocks DEF Action
  <2>4. FencePending'
    BY <1>5 DEF Read, CASFail, CanIssue, ctl, FencePending
  <2>5. fb' = fb /\ sb' = sb /\ used' = used + 1 /\ wr' = wr
        /\ phase \in {"run", "rmw", "rmwgo"} /\ hasCrashed' = hasCrashed
    BY <1>5 DEF Read, CASFail, CanIssue, bufs
  <2> HIDE DEF a
  <2> QED  BY <2>3, <2>4, <2>5 DEF Issues
<1>6. CASE \E v \in Value : RMWWrite(v)
  <2>1. PICK v \in Value : RMWWrite(v)
    BY <1>6
  <2>2. rmw.tid \in Thread /\ alignAddress(rmw.loc) \in Word
    BY <2>1, LocTypes DEF RMWWrite, TypeOK, ControlOK
  <2> DEFINE a == Action(rmw.tid, "rmw", rmw.loc, v, used + 1)
  <2>3. Issued(a) /\ a.tid = rmw.tid /\ a.kind = "rmw" /\ a.seq = used + 1
    BY <2>1, IssueClocks DEF RMWWrite, Action
  <2>4. FencePending'
    BY <2>1 DEF RMWWrite, FencePending
  <2>5. /\ fb' = fb /\ sb' = sb /\ used' = used + 1
        /\ wr' = wr \/ \E w \in Word : wr' = [wr EXCEPT ![w] = Append(@, new)]
        /\ phase \in {"rmw", "rmwgo"} /\ hasCrashed' = hasCrashed
    BY <2>1, <2>2 DEF RMWWrite, bufs
  <2> HIDE DEF a
  <2> QED  BY <2>2, <2>3, <2>4, <2>5 DEF Issues
<1> QED  BY <1>1, <1>2, <1>3, <1>4, <1>5, <1>6

LEMMA OrderIssue ==
  ASSUME TypeOK, Order, FencePending', NEW t \in Thread, NEW a, Issues(t, a)
  PROVE  Order'
<1>1. a.seq = used + 1 => a.seq # 0
  BY DEF TypeOK, CountersOK
<1> QED  BY <1>1, OrderIssues DEF Issues

LEMMA OrderNext ==
  TypeOK /\ Order /\ [Next]_vars => Order'
<1> SUFFICES ASSUME TypeOK, Order, [Next]_vars PROVE Order'
  OBVIOUS
<1>1. CASE Issue
  BY <1>1, IssueShape, OrderIssue, OrderStutter DEF Issue
<1>2. CASE Drain
  <2>1. CASE FlushBufferEmptied /\ job = "fence"
    <3>1. /\ Commit(Len(act)) /\ phase = "fb" /\ phase' = "run" /\ UNCHANGED <<sb, fb, wr>>
      BY <2>1 DEF FlushBufferEmptied, bufs
    <3>2. Len(act) \in Acts
      <4>1. act \in Seq(ModelAction) /\ Len(act) > 0
        BY <2>1, <3>1 DEF TypeOK, ActsOK, ControlOK
      <4> QED  BY <4>1 DEF Acts
    <3> QED  BY <2>1, <3>1, <3>2, CommitClocks, OrderFence
  <2> QED  BY <1>2, <2>1, OrderEvict, OrderMoves, OrderStutter DEF Drain
<1>3. CASE Terminated \/ UNCHANGED vars
  BY <1>3, OrderStutter DEF Terminated
<1> QED  BY <1>1, <1>2, <1>3 DEF Next

THEOREM OrderCorrect == Spec => [](Control /\ Order)
<1>1. Init => Control /\ Order
  BY ControlInit, OrderInit
<1>2. Control /\ Order /\ [Next]_vars => (Control /\ Order)'
  BY ControlNext, OrderNext DEF Control
<1> QED  BY <1>1, <1>2, PTL DEF Spec

-------------------------------------------------------------------------------
(* Nothing is dropped before a crash.                                      *)

\* An entry that is in the buffer s is its head or stays.
LEMMA NoneDroppedDrain ==
  ASSUME TypeOK, Order, NoneDropped, UNCHANGED hasCrashed, cur \in Thread,
         phase \notin {"crashed", "done"},
         NEW h \in Acts,
         \/ sb' = sb
         \/ /\ sb[cur] # <<>> /\ h = Head(sb[cur]) /\ sb' = [sb EXCEPT ![cur] = Tail(@)]
            /\ act[h].kind \notin Fifo \/ act'[h].seq # 0,
         DOMAIN act' = Acts,
         \A i \in Acts : /\ act'[i].kind = act[i].kind /\ act'[i].tid = act[i].tid
                         /\ act'[i].seq = 0 => act[i].seq = 0
  PROVE  NoneDropped'
<1> SUFFICES ASSUME ~hasCrashed, NEW i \in Acts, act[i].kind \in Fifo, act'[i].seq = 0
             PROVE  i \in In(sb'[act[i].tid])
  BY DEF NoneDropped, Acts
<1> DEFINE t == act[i].tid
<1>1. i \in In(sb[t]) /\ t \in Thread
  <2>1. act[i].seq = 0 /\ act[i] \in ModelAction
    BY DEF TypeOK, ActsOK, Acts
  <2> QED  BY <2>1 DEF NoneDropped, ModelAction
<1> HIDE DEF t
<1>2. sb \in [Thread -> Seq(Acts)] /\ Acts \subseteq Nat
  BY BufferSeqs DEF TypeOK, BuffersOK
<1>3. CASE sb' = sb \/ t # cur
  BY <1>1, <1>2, <1>3 DEF t
<1>4. CASE t = cur /\ sb[cur] # <<>> /\ h = Head(sb[cur]) /\ sb' = [sb EXCEPT ![cur] = Tail(@)]
  <2>1. i # h \/ sb' = sb
    BY DEF t
  <2>2. Ascending(sb[cur]) /\ sb[cur] \in Seq(Acts)
    BY <1>2 DEF Order, Ordered
  <2>3. \A x \in In(sb[cur]) : x = h \/ x \in In(Tail(sb[cur]))
    BY <1>2, <1>4, <2>2, AscendingTail
  <2>4. sb'[cur] = Tail(sb[cur])
    BY <1>2, <1>4
  <2> QED  BY <1>1, <1>4, <2>1, <2>3, <2>4, <1>3 DEF t
<1> QED  BY <1>3, <1>4

LEMMA NoneDroppedIssue ==
  ASSUME TypeOK, NoneDropped, NEW t \in Thread, NEW a, a.tid = t, Issued(a),
         UNCHANGED hasCrashed, phase \notin {"crashed", "done"},
         \/ sb' = sb /\ (a.seq # 0 \/ a.kind \notin Fifo)
         \/ sb' = [sb EXCEPT ![t] = Append(@, new)]
  PROVE  NoneDropped'
<1> SUFFICES ASSUME ~hasCrashed, NEW i \in Acts', act'[i].kind \in Fifo, act'[i].seq = 0
             PROVE  i \in In(sb'[act'[i].tid])
  BY DEF NoneDropped
<1>1. sb \in [Thread -> Seq(Acts)] /\ \A u \in Thread : sb[u] \in Seq(Nat)
  BY BufferSeqs DEF TypeOK, BuffersOK
<1>2. \A u \in Thread : In(sb[u]) \subseteq In(sb'[u])
  <2> SUFFICES ASSUME NEW u \in Thread, sb'[u] = Append(sb[u], new)
               PROVE  In(sb[u]) \subseteq In(sb'[u])
    BY <1>1
  <2> DEFINE s == sb[u]
  <2>1. s \in Seq(Nat)
    BY <1>1
  <2> HIDE DEF s
  <2>2. /\ DOMAIN s \subseteq DOMAIN Append(s, new)
        /\ \A k \in DOMAIN s : Append(s, new)[k] = s[k]
    BY <2>1
  <2> QED  BY <2>2 DEF In, s
<1>3. CASE i \in Acts
  <2>1. act'[i] = act[i] /\ act[i] \in ModelAction
    BY <1>3 DEF Issued, TypeOK, ActsOK, Acts
  <2> QED  BY <1>2, <1>3, <2>1 DEF NoneDropped, ModelAction
<1>4. CASE i = new
  <2>1. act'[i] = a
    BY <1>4 DEF Issued
  <2>2. sb'[t] = Append(sb[t], new) /\ sb[t] \in Seq(Nat)
    BY <1>1, <2>1
  <2>3. new \in In(sb'[t])
    BY <2>2 DEF In
  <2> QED  BY <1>4, <2>1, <2>3
<1> QED  BY <1>3, <1>4 DEF Issued, Acts

\* Steps that leave the trace and the store buffers alone, or end the execution.
LEMMA NoneDroppedStutter ==
  ASSUME TypeOK, NoneDropped,
         \/ CrashInStoreBuffer \/ CrashInFlushBuffer \/ FlushedAfterCrash \/ StoreBufferEmptied
         \/ PopsDone \/ (FlushBufferEmptied /\ job # "fence")
         \/ (\E t \in Thread : FreeActions(t)) \/ DoCrash \/ Finish
         \/ (\E w \in Word : EnsureInitialValue(w))
         \/ (\E t \in Thread, l \in Loc : RMWRead(t, l))
         \/ (\E t \in Thread, n \in 1 .. (EvictMax - 1) : EvictRandom(t, n))
         \/ UNCHANGED vars
  PROVE  NoneDropped'
<1>1. \/ hasCrashed' \/ phase' \in {"crashed", "done"}
      \/ UNCHANGED <<act, sb, hasCrashed>> /\ (phase \in {"crashed", "done"} => phase' = phase)
  BY DEF CrashInStoreBuffer, CrashInFlushBuffer, FlushedAfterCrash, StoreBufferEmptied, PopsDone,
     FlushBufferEmptied, FreeActions, DoCrash, Finish, EnsureInitialValue, RMWRead, EvictRandom,
     StartDrain, CanIssue, bufs, mem, ctl, vars
<1> QED  BY <1>1 DEF NoneDropped, Acts

LEMMA NoneDroppedEvict ==
  ASSUME TypeOK, Order, NoneDropped,
         \/ EvictStore \/ EvictClflush \/ EvictFlushOpt \/ EvictSFence \/ FlushForSFence \/ FlushNext
         \/ (FlushBufferEmptied /\ job = "fence")
  PROVE  NoneDropped'
<1>1. cur \in Thread /\ phase \in {"sb", "fb"} /\ hasCrashed' = hasCrashed
  BY DEF EvictStore, EvictClflush, EvictFlushOpt, EvictSFence, FlushForSFence, FlushNext,
         FlushBufferEmptied, Draining, Flush, evictCacheOp, TypeOK, ControlOK
<1>2. used + 1 # 0
  BY DEF TypeOK, CountersOK
<1>3. ASSUME EvictStore \/ EvictClflush \/ EvictSFence PROVE NoneDropped'
  <2>1. /\ sb[cur] # <<>> /\ sb' = [sb EXCEPT ![cur] = Tail(@)] /\ Commit(head) /\ head = Head(sb[cur])
    BY <1>3 DEF EvictStore, EvictClflush, EvictSFence, Draining, Pop, evictCacheOp, head
  <2>2. head \in Acts
    BY <1>3, TypePop DEF EvictStore, EvictClflush, EvictSFence
  <2>3. TakesEffect(head)
    BY <2>1, <2>2, CommitClocks
  <2>4. \A i \in Acts : act'[i].seq = 0 => act[i].seq = 0
    BY <1>2, <2>3 DEF TakesEffect
  <2> QED  BY <1>1, <1>2, <2>1, <2>2, <2>3, <2>4, NoneDroppedDrain DEF TakesEffect
<1>4. ASSUME EvictFlushOpt PROVE NoneDropped'
  <2>1. /\ sb[cur] # <<>> /\ sb' = [sb EXCEPT ![cur] = Tail(@)] /\ head = Head(sb[cur])
        /\ act[head].kind \notin Fifo /\ used' = used
        /\ \E c : act' = act \/ act' = [act EXCEPT ![head].last_clflush = c]
    BY <1>4 DEF EvictFlushOpt, Draining, Pop, head, mem, Fifo
  <2>2. head \in Acts
    BY <1>4, TypePop DEF EvictFlushOpt
  <2>3. SameClocks
    BY <2>1, <2>2, LastFlushClocks
  <2> QED  BY <1>1, <2>1, <2>2, <2>3, NoneDroppedDrain DEF SameClocks
<1>5. ASSUME FlushForSFence \/ FlushNext \/ (FlushBufferEmptied /\ job = "fence") PROVE NoneDropped'
  <2>1. PICK i \in Acts : Commit(i)
    <3>1. CASE FlushForSFence \/ FlushNext
      <4>1. fb[cur] # <<>> /\ Commit(Head(fb[cur]))
        BY <3>1 DEF FlushForSFence, FlushNext, Flush, evictCacheOp
      <4> QED  BY <1>1, <4>1, BuffersAre, HoldsTail DEF TypeOK, Acts
    <3>2. CASE FlushBufferEmptied /\ job = "fence"
      <4>1. act \in Seq(ModelAction) /\ Len(act) > 0 /\ Commit(Len(act))
        BY <3>2 DEF FlushBufferEmptied, TypeOK, ActsOK, ControlOK
      <4> QED  BY <4>1 DEF Acts
    <3> QED  BY <1>5, <3>1, <3>2
  <2>2. sb' = sb
    BY <1>5 DEF FlushForSFence, FlushNext, FlushBufferEmptied, Flush, bufs
  <2>3. TakesEffect(i)
    BY <2>1, CommitClocks
  <2>4. \A j \in Acts : act'[j].seq = 0 => act[j].seq = 0
    BY <1>2, <2>3 DEF TakesEffect
  <2> QED  BY <1>1, <2>2, <2>3, <2>4, NoneDroppedDrain DEF TakesEffect
<1> QED  BY <1>3, <1>4, <1>5

LEMMA NoneDroppedNext ==
  TypeOK /\ Order /\ NoneDropped /\ [Next]_vars => NoneDropped'
<1> SUFFICES ASSUME TypeOK, Order, NoneDropped, [Next]_vars PROVE NoneDropped'
  OBVIOUS
<1>1. ASSUME NEW t \in Thread, NEW a, Issues(t, a) PROVE NoneDropped'
  <2>1. used + 1 # 0
    BY DEF TypeOK, CountersOK
  <2>2. \/ sb' = sb /\ (a.seq # 0 \/ a.kind \notin Fifo)
        \/ sb' = [sb EXCEPT ![t] = Append(@, new)]
    BY <1>1, <2>1 DEF Issues, Fifo
  <2>3. phase \notin {"crashed", "done"} /\ Issued(a) /\ a.tid = t /\ UNCHANGED hasCrashed
    BY <1>1 DEF Issues
  <2> QED  BY <2>2, <2>3, NoneDroppedIssue
<1>2. CASE Issue
  BY <1>1, <1>2, IssueShape, NoneDroppedStutter DEF Issue
<1>3. CASE Drain
  BY <1>3, NoneDroppedEvict, NoneDroppedStutter DEF Drain
<1>4. CASE Terminated \/ UNCHANGED vars
  BY <1>4, NoneDroppedStutter DEF Terminated
<1> QED  BY <1>2, <1>3, <1>4 DEF Next

-------------------------------------------------------------------------------
(* Operations take effect in program order.                                *)

\* Thread t has nothing before n that still has to take effect in order.
NoneBefore(t, n) ==
  \A i \in Acts : i < n /\ act[i].tid = t /\ act[i].kind \in Fifo => act[i].seq # 0

InOrder ==
  \A i, j \in Acts :
    i < j /\ act[i].tid = act[j].tid /\ act[j].seq # 0 /\ act[i].kind \in Fifo /\ act[j].kind \in Fifo
    => act[i].seq # 0 /\ act[i].seq < act[j].seq

\* The sequence number of entry x of a write list.
EntrySeq(x) == IF x = 0 THEN 0 ELSE act[x].seq

ListsSorted ==
  \A w \in Word : \A k \in DOMAIN wr[w] : k > 1 => EntrySeq(wr[w][k - 1]) < EntrySeq(wr[w][k])

LEMMA StoreOrderIs == /\ StoreOrder <=> InOrder /\ ListsSorted
                      /\ StoreOrder' <=> InOrder' /\ ListsSorted'
BY DEF StoreOrder, InOrder, ListsSorted, SameThread, Committed, Fifo, SeqNumOf, EntrySeq

\* When operation i takes effect and those of its thread that it must follow
\* have done so, program order is kept.
LEMMA InOrderCommits ==
  ASSUME TypeOK, Order, InOrder, NEW n \in Acts, act[n].seq = 0, TakesEffect(n),
         act[n].kind \in Fifo => NoneBefore(act[n].tid, n)
  PROVE  InOrder'
<1>1. used \in Nat /\ Acts \subseteq Nat /\ Acts' = Acts /\ \A i \in Acts : act[i].seq \in Nat /\ act[i].seq =< used
  <2>1. \A i \in Acts : act[i].seq \in Nat
    BY ClockTypes DEF TypeOK
  <2> QED  BY <2>1 DEF TypeOK, ActsOK, CountersOK, Order, Clocks, TakesEffect, Acts
<1> SUFFICES ASSUME NEW i \in Acts, NEW j \in Acts, i < j, act[i].tid = act[j].tid, act'[j].seq # 0,
                    act[i].kind \in Fifo, act[j].kind \in Fifo
             PROVE  act'[i].seq # 0 /\ act'[i].seq < act'[j].seq
  BY <1>1 DEF InOrder, TakesEffect
<1>2. CASE j = n
  <2>1. act[i].seq # 0 /\ i # n
    BY <1>1, <1>2 DEF NoneBefore
  <2> QED  BY <1>1, <1>2, <2>1 DEF TakesEffect
<1>3. CASE j # n
  <2>1. act'[j].seq = act[j].seq
    BY <1>3 DEF TakesEffect
  <2>2. act[i].seq # 0 /\ act[i].seq < act[j].seq
    BY <2>1 DEF InOrder
  <2> QED  BY <2>1, <2>2 DEF TakesEffect
<1> QED  BY <1>2, <1>3

LEMMA InOrderIssued ==
  ASSUME TypeOK, Order, InOrder, NEW t \in Thread, NEW a, Issues(t, a),
         a.kind = "rmw" => NoneBefore(t, new)
  PROVE  InOrder'
<1>1. used \in Nat /\ Acts \subseteq Nat /\ \A i \in Acts : act[i].seq \in Nat /\ act[i].seq =< used
  <2>1. \A i \in Acts : act[i].seq \in Nat
    BY ClockTypes DEF TypeOK
  <2> QED  BY <2>1 DEF TypeOK, ActsOK, CountersOK, Order, Clocks, Acts
<1>2. /\ Acts' = Acts \cup {new} /\ act'[new] = a /\ a.tid = t /\ new \in Nat
      /\ \A i \in Acts : i < new /\ act'[i] = act[i]
  BY DEF Issues, Issued, Acts
<1>3. a.seq # 0 /\ a.kind \in Fifo => a.kind = "rmw" /\ a.seq = used + 1
  BY DEF Issues, Fifo
<1> SUFFICES ASSUME NEW i \in Acts', NEW j \in Acts', i < j, act'[i].tid = act'[j].tid, act'[j].seq # 0,
                    act'[i].kind \in Fifo, act'[j].kind \in Fifo
             PROVE  act'[i].seq # 0 /\ act'[i].seq < act'[j].seq
  BY DEF InOrder
<1> HIDE DEF new
<1>4. CASE j = new
  <2>1. i \in Acts
    BY <1>2, <1>4
  <2>2. a.kind = "rmw" /\ a.seq = used + 1
    BY <1>2, <1>3, <1>4
  <2>3. act[i].seq # 0
    BY <1>2, <1>4, <2>1, <2>2 DEF NoneBefore
  <2> QED  BY <1>1, <1>2, <1>4, <2>1, <2>2, <2>3
<1>5. CASE j # new
  <2>1. i \in Acts /\ j \in Acts
    BY <1>1, <1>2, <1>5
  <2> QED  BY <1>2, <2>1 DEF InOrder
<1> QED  BY <1>4, <1>5

\* No entry of a write list changes its sequence number, none is above the clock.
LEMMA EntriesKept ==
  ASSUME TypeOK, Order,
         \/ SameClocks
         \/ \E n \in Acts : act[n].seq = 0 /\ TakesEffect(n)
         \/ \E t \in Thread : \E a : Issues(t, a),
         NEW w \in Word, NEW k \in DOMAIN wr[w]
  PROVE  EntrySeq(wr[w][k]) =< used /\ EntrySeq(wr[w][k]) \in Nat
         /\ (wr[w][k] # 0 => act'[wr[w][k]].seq = act[wr[w][k]].seq)
<1>1. wr[w][k] = 0 \/ wr[w][k] \in Acts
  BY DEF TypeOK, ActsOK, IndicesOK, Acts
<1>2. CASE wr[w][k] = 0
  BY <1>2 DEF EntrySeq, TypeOK, CountersOK
<1>3. CASE wr[w][k] \in Acts
  <2> DEFINE x == wr[w][k]
  <2>1. act[x].seq > 0 /\ act[x].seq \in Nat /\ act[x].seq =< used /\ x # 0
    <3>1. act[x].seq \in Nat
      BY <1>3, ClockTypes DEF TypeOK
    <3>2. x # 0
      BY <1>3 DEF TypeOK, ActsOK, Acts
    <3> QED  BY <1>3, <3>1, <3>2 DEF Order, Clocks
  <2>2. act'[x].seq = act[x].seq
    BY <1>3, <2>1 DEF SameClocks, TakesEffect, Issues, Issued
  <2> QED  BY <2>1, <2>2 DEF EntrySeq
<1> QED  BY <1>1, <1>2, <1>3

LEMMA ListsSortedStep ==
  ASSUME TypeOK, Order, ListsSorted,
         \/ SameClocks
         \/ \E n \in Acts : act[n].seq = 0 /\ TakesEffect(n)
         \/ \E t \in Thread : \E a : Issues(t, a),
         \/ wr' = wr
         \/ \E w \in Word : wr' = [wr EXCEPT ![w] = << 0 >>]
         \/ \E w \in Word, n \in Nat \ {0} :
              wr' = [wr EXCEPT ![w] = Append(@, n)] /\ act'[n].seq = used + 1
  PROVE  ListsSorted'
<1>1. wr \in [Word -> Seq(0 .. Len(act))] /\ used \in Nat
  BY DEF TypeOK, IndicesOK, CountersOK
<1> DEFINE E(x) == IF x = 0 THEN 0 ELSE act'[x].seq
<1>2. ASSUME NEW w \in Word, NEW k \in DOMAIN wr[w]
      PROVE  E(wr[w][k]) = EntrySeq(wr[w][k]) /\ E(wr[w][k]) \in Nat /\ E(wr[w][k]) =< used
  BY EntriesKept DEF EntrySeq
<1>3. SUFFICES ASSUME NEW w \in Word, NEW k \in DOMAIN wr'[w], k > 1
               PROVE  E(wr'[w][k - 1]) < E(wr'[w][k])
  BY DEF ListsSorted, EntrySeq
<1> HIDE DEF E
<1>4. wr[w] \in Seq(0 .. Len(act)) /\ Len(wr[w]) \in Nat /\ DOMAIN wr[w] = 1 .. Len(wr[w])
  BY <1>1
<1>5. ASSUME k \in DOMAIN wr[w], wr'[w][k] = wr[w][k], wr'[w][k - 1] = wr[w][k - 1]
      PROVE  E(wr'[w][k - 1]) < E(wr'[w][k])
  <2>1. k - 1 \in DOMAIN wr[w] /\ EntrySeq(wr[w][k - 1]) < EntrySeq(wr[w][k])
    BY <1>3, <1>4, <1>5, SMTT(20) DEF ListsSorted
  <2> QED  BY <1>2, <1>5, <2>1
<1>6. CASE wr'[w] = wr[w]
  BY <1>3, <1>5, <1>6
<1>7. CASE wr'[w] = << 0 >>
  BY <1>3, <1>7
<1>8. ASSUME NEW n \in Nat \ {0}, wr'[w] = Append(wr[w], n), act'[n].seq = used + 1
      PROVE  E(wr'[w][k - 1]) < E(wr'[w][k])
  <2>1. CASE k \in DOMAIN wr[w]
    <3>1. k - 1 \in DOMAIN wr[w]
      BY <1>3, <1>4, <2>1
    <3>2. wr'[w][k] = wr[w][k] /\ wr'[w][k - 1] = wr[w][k - 1]
      BY <1>4, <1>8, <2>1, <3>1
    <3> QED  BY <1>5, <2>1, <3>2
  <2>2. CASE k \notin DOMAIN wr[w]
    <3>1. k = Len(wr[w]) + 1 /\ k - 1 \in DOMAIN wr[w]
      BY <1>3, <1>4, <1>8, <2>2
    <3>2. wr'[w][k] = n /\ wr'[w][k - 1] = wr[w][k - 1]
      BY <1>4, <1>8, <3>1
    <3>3. E(n) = used + 1
      BY <1>8 DEF E
    <3>4. E(wr[w][k - 1]) \in Nat /\ E(wr[w][k - 1]) =< used
      BY <1>2, <3>1
    <3> QED  BY <1>1, <3>2, <3>3, <3>4
  <2> QED  BY <2>1, <2>2
<1> QED  BY <1>1, <1>6, <1>7, <1>8

\* What takes effect from a store buffer is first in it.
LEMMA HeadIsFirst ==
  ASSUME TypeOK, Order, NoneDropped, ~hasCrashed, phase = "sb", cur \in Thread, sb[cur] # <<>>
  PROVE  /\ head \in Acts /\ act[head].tid = cur /\ act[head].seq = 0
         /\ NoneBefore(cur, head)
<1>1. sb[cur] \in Seq(Acts) /\ Acts \subseteq Nat /\ Ascending(sb[cur])
  BY BufferSeqs DEF Order, Ordered
<1> DEFINE s == sb[cur]
<1> HIDE DEF s
<1>2. Head(s) \in In(s) /\ \A x \in In(s) : x = Head(s) \/ Head(s) < x
  BY <1>1, AscendingTail DEF s
<1>3. head \in In(sb[cur]) /\ \A x \in In(sb[cur]) : x = head \/ head < x
  BY <1>2 DEF head, s
<1>4. head \in Acts /\ act[head].tid = cur /\ act[head].seq = 0
  BY <1>3, BufferSeqs DEF Order, Pending, Waits
<1>5. NoneBefore(cur, head)
  <2> SUFFICES ASSUME NEW i \in Acts, i < head, act[i].tid = cur, act[i].kind \in Fifo, act[i].seq = 0
               PROVE  FALSE
    BY DEF NoneBefore
  <2>1. i \in In(sb[cur])
    BY DEF NoneDropped
  <2> QED  BY <1>1, <1>3, <1>4, <2>1
<1> QED  BY <1>4, <1>5

LEMMA StoreOrderCommits ==
  ASSUME TypeOK, Order, StoreOrder, NEW n \in Acts, act[n].seq = 0, Commit(n),
         act[n].kind \in Fifo => NoneBefore(act[n].tid, n),
         wr' = wr \/ \E w \in Word : wr' = [wr EXCEPT ![w] = Append(@, n)]
  PROVE  StoreOrder'
<1>1. TakesEffect(n)
  BY CommitClocks
<1>2. InOrder'
  BY <1>1, InOrderCommits, StoreOrderIs
<1>3. n \in Nat \ {0} /\ act'[n].seq = used + 1
  BY <1>1 DEF TypeOK, ActsOK, Acts, TakesEffect
<1>4. ListsSorted'
  BY <1>1, <1>3, ListsSortedStep, StoreOrderIs
<1> QED  BY <1>2, <1>4, StoreOrderIs

LEMMA StoreOrderStays ==
  ASSUME TypeOK, Order, StoreOrder, SameClocks,
         wr' = wr \/ \E w \in Word : wr' = [wr EXCEPT ![w] = << 0 >>]
  PROVE  StoreOrder'
<1>1. InOrder'
  BY StoreOrderIs DEF InOrder, SameClocks, Acts
<1>2. ListsSorted'
  BY ListsSortedStep, StoreOrderIs
<1> QED  BY <1>1, <1>2, StoreOrderIs

LEMMA StoreOrderIssues ==
  ASSUME Control, Order, NoneDropped, StoreOrder, NEW t \in Thread, NEW a, Issues(t, a)
  PROVE  StoreOrder'
<1>1. TypeOK
  BY DEF Control
<1>2. ASSUME a.kind = "rmw" PROVE NoneBefore(t, new)
  <2>1. CASE t = rmw.tid /\ phase \in {"rmw", "rmwgo"}
    <3>1. sb[t] = <<>> /\ ~hasCrashed
      BY <2>1 DEF Control, RMWControl, CrashControl, Drained
    <3>2. In(sb[t]) = {}
      BY <3>1 DEF In
    <3> QED  BY <2>1, <3>1, <3>2 DEF NoneDropped, NoneBefore
  <2> QED  BY <1>2, <2>1 DEF Issues, Buffered
<1>3. InOrder'
  BY <1>1, <1>2, InOrderIssued, StoreOrderIs
<1>4. ListsSorted'
  <2>1. /\ new \in Nat \ {0}
        /\ \/ wr' = wr
           \/ act'[new].seq = used + 1 /\ \E w \in Word : wr' = [wr EXCEPT ![w] = Append(@, new)]
    BY DEF Issues, Issued
  <2> HIDE DEF new
  <2> QED  BY <1>1, <2>1, ListsSortedStep, StoreOrderIs
<1> QED  BY <1>3, <1>4, StoreOrderIs

LEMMA StoreOrderEvict ==
  ASSUME Control, Order, NoneDropped, StoreOrder, EvictStore \/ EvictClflush \/ EvictSFence
  PROVE  StoreOrder'
<1>1. TypeOK /\ ~hasCrashed /\ phase = "sb" /\ cur \in Thread /\ sb[cur] # <<>>
  BY DEF Control, CrashControl, EvictStore, EvictClflush, EvictSFence, Draining, TypeOK, ControlOK
<1>2. head \in Acts /\ act[head].tid = cur /\ act[head].seq = 0 /\ NoneBefore(cur, head)
  BY <1>1, HeadIsFirst
<1>3. Commit(head)
  BY DEF EvictStore, EvictClflush, EvictSFence, evictCacheOp
<1>4. wr' = wr \/ \E w \in Word : wr' = [wr EXCEPT ![w] = Append(@, head)]
  <2>1. CASE EvictStore
    <3>1. act[head].loc \in Loc
      BY <1>1, <1>2, <2>1 DEF EvictStore, IsWrite, TypeOK, ActsOK
    <3>2. alignAddress(act[head].loc) \in Word
      BY <3>1, LocTypes
    <3> QED  BY <2>1, <3>2 DEF EvictStore, addWriteToLists
  <2>2. CASE EvictClflush \/ EvictSFence
    BY <2>2 DEF EvictClflush, EvictSFence, evictCacheOp
  <2> QED  BY <2>1, <2>2
<1> HIDE DEF head
<1> QED  BY <1>1, <1>2, <1>3, <1>4, StoreOrderCommits

\* A clflushopt or a fence takes effect.
LEMMA FlushShape ==
  ASSUME TypeOK, Order,
         FlushForSFence \/ FlushNext \/ (FlushBufferEmptied /\ job = "fence")
  PROVE  /\ wr' = wr
         /\ \E n \in Acts : Commit(n) /\ act[n].seq = 0 /\ act[n].kind \notin Fifo
<1>0. wr' = wr
  BY DEF FlushForSFence, FlushNext, FlushBufferEmptied, Flush, evictCacheOp
<1>1. CASE FlushForSFence \/ FlushNext
  <2> DEFINE n == Head(fb[cur])
  <2>1. fb[cur] # <<>> /\ Commit(n) /\ cur \in Thread
    BY <1>1 DEF FlushForSFence, FlushNext, Flush, evictCacheOp, Draining, TypeOK, ControlOK
  <2>2. fb[cur] \in Seq(Acts)
    BY <2>1, BufferSeqs
  <2>3. n \in In(fb[cur])
    BY <2>1, <2>2 DEF In
  <2>4. n \in Acts /\ act[n].kind = "clflushopt" /\ act[n].seq = 0
    BY <2>1, <2>3, BufferSeqs DEF Order, Pending, Waits
  <2> HIDE DEF n
  <2> QED  BY <1>0, <2>1, <2>4 DEF Fifo
<1>2. CASE FlushBufferEmptied /\ job = "fence"
  <2> DEFINE n == Len(act)
  <2>1. act \in Seq(ModelAction) /\ n > 0 /\ Commit(n)
    BY <1>2 DEF FlushBufferEmptied, TypeOK, ActsOK, ControlOK
  <2>2. act[n].kind = "mfence" /\ act[n].seq = 0
    BY <1>2 DEF FlushBufferEmptied, Order, FencePending
  <2>3. n \in Acts
    BY <2>1 DEF Acts
  <2> HIDE DEF n
  <2> QED  BY <1>0, <2>1, <2>2, <2>3 DEF Fifo
<1> QED  BY <1>0, <1>1, <1>2

\* Nothing takes effect.
LEMMA StutterShape ==
  ASSUME TypeOK,
         \/ CrashInStoreBuffer \/ CrashInFlushBuffer \/ FlushedAfterCrash \/ StoreBufferEmptied
         \/ PopsDone \/ (FlushBufferEmptied /\ job # "fence")
         \/ (\E t \in Thread : FreeActions(t)) \/ DoCrash \/ Finish
         \/ (\E w \in Word : EnsureInitialValue(w))
         \/ (\E t \in Thread, l \in Loc : RMWRead(t, l))
         \/ (\E t \in Thread, n \in 1 .. (EvictMax - 1) : EvictRandom(t, n))
         \/ EvictFlushOpt \/ UNCHANGED vars
  PROVE  /\ SameClocks
         /\ wr' = wr \/ \E w \in Word : wr' = [wr EXCEPT ![w] = << 0 >>]
<1>1. CASE EvictFlushOpt
  <2>1. /\ head \in Acts /\ used' = used /\ wr' = wr
        /\ \E c : act' = act \/ act' = [act EXCEPT ![head].last_clflush = c]
    BY <1>1, TypePop DEF EvictFlushOpt, mem
  <2> QED  BY <2>1, LastFlushClocks
<1>2. CASE ~EvictFlushOpt
  <2>1. /\ act' = act /\ used' = used
        /\ wr' = wr \/ \E w \in Word : wr' = [wr EXCEPT ![w] = << 0 >>]
    BY <1>2 DEF CrashInStoreBuffer, CrashInFlushBuffer, FlushedAfterCrash, StoreBufferEmptied,
       PopsDone, FlushBufferEmptied, FreeActions, DoCrash, Finish, EnsureInitialValue, RMWRead,
       EvictRandom, mem, vars
  <2> QED  BY <2>1 DEF SameClocks, Acts
<1> QED  BY <1>1, <1>2

LEMMA StoreOrderNext ==
  Control /\ Order /\ NoneDropped /\ StoreOrder /\ [Next]_vars => StoreOrder'
<1> SUFFICES ASSUME Control, Order, NoneDropped, StoreOrder, [Next]_vars PROVE StoreOrder'
  OBVIOUS
<1>1. TypeOK
  BY DEF Control
<1>2. ASSUME SameClocks, wr' = wr \/ \E w \in Word : wr' = [wr EXCEPT ![w] = << 0 >>]
      PROVE  StoreOrder'
  BY <1>1, <1>2, StoreOrderStays
<1>3. ASSUME wr' = wr, \E n \in Acts : Commit(n) /\ act[n].seq = 0 /\ act[n].kind \notin Fifo
      PROVE  StoreOrder'
  BY <1>1, <1>3, StoreOrderCommits
<1>4. CASE Issue
  BY <1>1, <1>2, <1>4, IssueShape, StutterShape, StoreOrderIssues DEF Issue
<1>5. CASE Drain
  BY <1>1, <1>2, <1>3, <1>5, StoreOrderEvict, FlushShape, StutterShape DEF Drain
<1>6. CASE Terminated \/ UNCHANGED vars
  BY <1>1, <1>2, <1>6, StutterShape DEF Terminated
<1> QED  BY <1>4, <1>5, <1>6 DEF Next

\* Stores, clflushes and sfences of a thread take effect in program order, and
\* write lists are in the order in which their entries took effect.
THEOREM StoreOrderTheorem == Spec => []StoreOrder
<1> DEFINE IInv == Control /\ Order /\ NoneDropped /\ StoreOrder
<1>1. Init => IInv
  <2> SUFFICES ASSUME Init PROVE NoneDropped /\ StoreOrder
    BY ControlInit, OrderInit
  <2>1. Acts = {}
    BY DEF Init, Acts
  <2> QED  BY <2>1 DEF Init, NoneDropped, StoreOrder
<1>2. IInv /\ [Next]_vars => IInv'
  BY ControlNext, OrderNext, NoneDroppedNext, StoreOrderNext DEF Control
<1> QED  BY <1>1, <1>2, PTL DEF Spec

-------------------------------------------------------------------------------
(* No crash point is lost.                                                 *)

\* A step that leaves the flag set adds no write, and what was in memory has
\* the sequence number it had.
LEMMA NoLostCrashPointStep ==
  ASSUME TypeOK, Order, NoLostCrashPoint,
         \/ SameClocks
         \/ \E n \in Acts : act[n].seq = 0 /\ TakesEffect(n)
         \/ \E t \in Thread : \E a : Issues(t, a),
         noWriteSinceCrashCheck' =>
           /\ wr' = wr
           /\ (noWriteSinceCrashCheck /\ checkedAt' = checkedAt) \/ checkedAt' = used
  PROVE  NoLostCrashPoint'
<1> DEFINE E(x) == IF x = 0 THEN 0 ELSE act'[x].seq
<1> SUFFICES ASSUME noWriteSinceCrashCheck', NEW w \in Word, NEW k \in DOMAIN wr'[w]
             PROVE  E(wr'[w][k]) =< checkedAt'
  BY DEF NoLostCrashPoint, SeqNumOf
<1>1. wr' = wr /\ k \in DOMAIN wr[w]
  OBVIOUS
<1>2. E(wr[w][k]) = EntrySeq(wr[w][k]) /\ EntrySeq(wr[w][k]) =< used
  BY <1>1, EntriesKept DEF EntrySeq
<1>3. noWriteSinceCrashCheck => EntrySeq(wr[w][k]) =< checkedAt
  BY <1>1 DEF NoLostCrashPoint, SeqNumOf, EntrySeq
<1> HIDE DEF E
<1> QED  BY <1>1, <1>2, <1>3

\* Every step is of one of three shapes.
LEMMA NextShape ==
  ASSUME TypeOK, Order, [Next]_vars
  PROVE  \/ SameClocks
         \/ \E n \in Acts : act[n].seq = 0 /\ TakesEffect(n)
         \/ \E t \in Thread : \E a : Issues(t, a)
<1>1. CASE EvictStore \/ EvictClflush \/ EvictSFence
  <2>1. cur \in Thread /\ Commit(head) /\ sb[cur] # <<>>
    BY <1>1 DEF EvictStore, EvictClflush, EvictSFence, evictCacheOp, Draining, TypeOK, ControlOK
  <2>2. head \in In(sb[cur]) /\ sb[cur] \in Seq(Acts)
    BY <2>1, BufferSeqs DEF head, In
  <2>3. head \in Acts /\ act[head].seq = 0
    BY <2>1, <2>2, BufferSeqs DEF Order, Pending, Waits
  <2> QED  BY <2>1, <2>3, CommitClocks
<1>2. CASE FlushForSFence \/ FlushNext \/ (FlushBufferEmptied /\ job = "fence")
  BY <1>2, FlushShape, CommitClocks
<1>3. CASE Issue
  BY <1>3, IssueShape, StutterShape DEF Issue
<1>4. CASE Drain
  BY <1>1, <1>2, <1>4, StutterShape DEF Drain
<1>5. CASE Terminated \/ UNCHANGED vars
  BY <1>5, StutterShape DEF Terminated
<1> QED  BY <1>3, <1>4, <1>5 DEF Next

\* The flag stays up, or goes up at a crash point that is explored.
LEMMA CrashCheckStep ==
  ASSUME [Next]_vars, noWriteSinceCrashCheck'
  PROVE  wr' = wr /\ ((noWriteSinceCrashCheck /\ checkedAt' = checkedAt) \/ checkedAt' = used)
<1>1. CASE Issue
  BY <1>1, ZenonT(60) DEF Issue, EnsureInitialValue, Write, CacheOp, SFence, MFence, Read, RMWRead, RMWWrite,
     CASFail, EvictRandom, Finish, mem
<1>2. CASE Drain
  BY <1>2 DEF Drain, EvictStore, addWriteToLists, EvictClflush, EvictFlushOpt, FlushForSFence,
     EvictSFence, CrashInStoreBuffer, StoreBufferEmptied, PopsDone, FlushNext, Flush, evictCacheOp,
     PassCrashPoint, CrashInFlushBuffer, FlushedAfterCrash, FlushBufferEmptied, FreeActions,
     DoCrash, mem
<1>3. CASE Terminated \/ UNCHANGED vars
  BY <1>3 DEF Terminated, vars
<1> QED  BY <1>1, <1>2, <1>3 DEF Next

\* A crash point is skipped only if no write has reached memory since the last
\* one that was explored.
THEOREM NoLostCrashPointTheorem == Spec => []NoLostCrashPoint
<1>1. Init => NoLostCrashPoint
  BY DEF Init, NoLostCrashPoint
<1>2. Control /\ Order /\ NoLostCrashPoint /\ [Next]_vars => NoLostCrashPoint'
  BY NextShape, CrashCheckStep, NoLostCrashPointStep DEF Control
<1> QED  BY <1>1, <1>2, OrderCorrect, PTL DEF Spec

-------------------------------------------------------------------------------
(***************************************************************************)
(* What fences and flushes guarantee: a fence leaves nothing of its thread *)
(* behind (FencesComplete), a flush that has taken effect makes durable    *)
(* what it must (FlushDurable), and a line is never taken to be written    *)
(* back further than some flush is bound to have covered (CoverJustified). *)
(***************************************************************************)

\* The execution still runs: no crash has been decided on.
Running == ~hasCrashed /\ phase \notin {"crashed", "done"}

\* Until a crash, an operation that has not taken effect waits in a buffer of
\* its thread or is the fence on whose behalf buffers are emptied.
NothingLost ==
  Running =>
    \A i \in Acts :
      \/ Committed(i)
      \/ Waits(act[i].tid, i)
      \/ i = Len(act) /\ phase \in {"sb", "fb"} /\ job = "fence" /\ act[i].kind = "mfence"

\* A drain that a fence or a seq_cst store asked for is of its thread's buffers,
\* and the flush buffer is gone through once the store buffer is empty.
DrainOwner ==
  /\ phase \in {"sb", "fb"} /\ job \in {"fence", "seqcst"} =>
       Len(act) > 0 /\ act[Len(act)].tid = cur
  /\ phase = "fb" /\ ~hasCrashed => sb[cur] = <<>>

\* All that the thread of m issued before it has taken effect.
Settled(m) == \A i \in Acts : i < m /\ act[i].tid = act[m].tid => act[i].seq # 0

\* The last operation of an execution that crashed, or the one that is drained for.
Awaits(m) == m = Len(act) /\ (~Running \/ (phase \in {"sb", "fb"} /\ job = "seqcst"))

Barrier(m) ==
  \/ act[m].kind \in {"sfence", "mfence", "rmw"} /\ act[m].seq # 0
  \/ act[m].kind = "scwrite" /\ ~Awaits(m)

FencesSettled == \A m \in Acts : Barrier(m) => Settled(m)

-------------------------------------------------------------------------------
(* What the actions remember of earlier ones.                              *)

\* Operation o of thread t orders the flushes of line l that follow it.
WritesTo(o, t, l) ==
  /\ act[o].kind \in {"write", "scwrite", "rmw", "clflush"}
  /\ act[o].tid = t /\ getCacheID(act[o].loc) = l

\* o is the last such operation before n, 0 if there is none.
IsLastWrite(o, n, t, l) ==
  /\ o = 0 \/ (o \in Acts /\ o < n /\ WritesTo(o, t, l))
  /\ \A w \in Acts : w < n /\ WritesTo(w, t, l) => w =< o

LastWrites == \A t \in Thread, l \in Line : IsLastWrite(obj_to_last_write[t][l], new, t, l)

\* The last sfence of a thread to leave its store buffer precedes what is in it.
LastSFences ==
  \A t \in Thread :
    /\ lastsfence[t] = 0 \/ (act[lastsfence[t]].kind = "sfence" /\ act[lastsfence[t]].tid = t)
    /\ \A i \in In(sb[t]) : lastsfence[t] < i

\* What a flush remembers: the clock and the thread's last write to the line
\* when it was issued, and the clock of an earlier sfence of its thread.
FlushMemory ==
  \A f \in Acts : IsCacheOp(act[f]) =>
    /\ act[f].issued = act[f].lastcommittedWrite /\ act[f].issued =< used
    /\ IsLastWrite(act[f].lastwrite, f, act[f].tid, getCacheID(act[f].loc))
    /\ \/ act[f].last_clflush = ValueNone
       \/ \E o \in Acts : /\ o < f /\ act[o].tid = act[f].tid /\ act[o].kind = "sfence"
                          /\ act[f].last_clflush =< act[o].seq

\* What waits in a flush buffer has nothing left before it in the store buffer.
FlushOptsFollow == \A t \in Thread : \A f \in In(fb[t]) : NoneBefore(t, f)

\* No two operations take effect at the same clock.
Distinct == \A i, j \in Acts : i # j /\ act[i].seq # 0 => act[i].seq # act[j].seq

\* Flush f of line l, which has taken effect, is bound to have written back
\* what was in memory at clock c.
Justifies(f, l, c) ==
  /\ IsCacheOp(act[f]) /\ act[f].seq # 0 /\ getCacheID(act[f].loc) = l
  /\ \/ act[f].kind = "clflush" /\ c =< act[f].seq
     \/ c =< act[f].issued
     \/ \E o \in Acts : /\ o < f /\ act[o].tid = act[f].tid /\ c =< act[o].seq
                        /\ act[o].kind = "sfence" \/ WritesTo(o, act[f].tid, l)

BeginJustified ==
  \A l \in Line : begin[l] \in {0, ValueNone} \/ \E f \in Acts : Justifies(f, l, begin[l])

Memory == LastWrites /\ LastSFences /\ FlushMemory /\ FlushOptsFollow /\ Distinct

-------------------------------------------------------------------------------
(* What every step does to the trace and to the crash decision.            *)

\* The trace grows: what an action is and what it remembered when it was
\* issued never changes, nor does its sequence number once it has one.
Grows ==
  /\ Acts \subseteq Acts' /\ Acts \subseteq Nat /\ Acts' \subseteq Nat
  /\ \A i \in Acts :
       /\ act'[i].kind = act[i].kind /\ act'[i].tid = act[i].tid /\ act'[i].loc = act[i].loc
       /\ act'[i].lastwrite = act[i].lastwrite /\ act'[i].issued = act[i].issued
       /\ act'[i].lastcommittedWrite = act[i].lastcommittedWrite
       /\ act[i].seq # 0 => act'[i].seq = act[i].seq
       /\ act[i].seq \in Nat /\ act'[i].seq \in Nat /\ act[i].seq =< act'[i].seq

LEMMA TraceGrows ==
  ASSUME TypeOK, TypeOK', Order, [Next]_vars
  PROVE  Grows
<1>1. \/ act' = act
      \/ \E i : act' = [act EXCEPT ![i].seq = used + 1]
      \/ \E i, c : act' = [act EXCEPT ![i].last_clflush = c]
      \/ \E a : act' = Append(act, a)
  <2>1. CASE Issue
    BY <2>1, ZenonT(60) DEF Issue, EnsureInitialValue, Write, CacheOp, SFence, MFence, Read, RMWRead, RMWWrite,
       CASFail, EvictRandom, Finish
  <2>2. CASE Drain
    BY <2>2 DEF Drain, EvictStore, EvictClflush, EvictFlushOpt, FlushForSFence, EvictSFence,
       CrashInStoreBuffer, StoreBufferEmptied, PopsDone, FlushNext, Flush, evictCacheOp, Commit,
       CrashInFlushBuffer, FlushedAfterCrash, FlushBufferEmptied, FreeActions, DoCrash
  <2>3. CASE Terminated \/ UNCHANGED vars
    BY <2>3 DEF Terminated, vars
  <2> QED  BY <2>1, <2>2, <2>3 DEF Next
<1>2. /\ act \in Seq(ModelAction) /\ act' \in Seq(ModelAction)
      /\ Len(act) \in Nat /\ Acts = 1 .. Len(act) /\ Len(act') \in Nat /\ Acts' = 1 .. Len(act')
  BY DEF TypeOK, ActsOK, Acts
<1>3. \A i \in Acts : act[i] \in ModelAction
  BY <1>2
<1>4. /\ Acts \subseteq Acts'
      /\ \A i \in Acts :
           /\ act'[i].kind = act[i].kind /\ act'[i].tid = act[i].tid /\ act'[i].loc = act[i].loc
           /\ act'[i].lastwrite = act[i].lastwrite /\ act'[i].issued = act[i].issued
           /\ act'[i].lastcommittedWrite = act[i].lastcommittedWrite
  <2>1. CASE act' = act
    BY <2>1, <1>2
  <2>2. CASE \E i : act' = [act EXCEPT ![i].seq = used + 1]
    <3>1. PICK i : act' = [act EXCEPT ![i].seq = used + 1]
      BY <2>2
    <3>2. DOMAIN act' = Acts /\ \A j \in Acts : act'[j] = IF j = i THEN [act[j] EXCEPT !.seq = used + 1]
                                                         ELSE act[j]
      BY <3>1, <1>2 DEF Acts
    <3> QED  BY <3>2, <1>3 DEF ModelAction, Acts
  <2>3. CASE \E i, c : act' = [act EXCEPT ![i].last_clflush = c]
    <3>1. PICK i, c : act' = [act EXCEPT ![i].last_clflush = c]
      BY <2>3
    <3>2. DOMAIN act' = Acts /\ \A j \in Acts : act'[j] = IF j = i THEN [act[j] EXCEPT !.last_clflush = c]
                                                         ELSE act[j]
      BY <3>1, <1>2 DEF Acts
    <3> QED  BY <3>2, <1>3 DEF ModelAction, Acts
  <2>4. CASE \E a : act' = Append(act, a)
    <3>1. PICK a : act' = Append(act, a)
      BY <2>4
    <3>2. Issued(a)
      BY <3>1, IssueClocks
    <3> QED  BY <3>2, <1>2 DEF Issued
  <2> QED  BY <1>1, <2>1, <2>2, <2>3, <2>4
<1>5. \A i \in Acts : act[i].seq # 0 => act'[i].seq = act[i].seq
  BY NextShape DEF SameClocks, TakesEffect, Issues, Issued
<1>6. \A i \in Acts : act[i].seq \in Nat /\ act'[i].seq \in Nat
  <2>1. \A i \in Acts' : act'[i] \in ModelAction
    BY <1>2
  <2> QED  BY <1>3, <1>4, <2>1 DEF ModelAction
<1> QED  BY <1>2, <1>4, <1>5, <1>6 DEF Grows

\* Nothing runs on after a crash.
LEMMA RunsOn ==
  ASSUME Control, [Next]_vars, Running'
  PROVE  Running
<1>1. CASE Issue
  <2>1. ASSUME NEW t \in Thread, NEW a, Issues(t, a) PROVE Running
    BY <2>1 DEF Issues, Running
  <2>2. CASE \/ \E w \in Word : EnsureInitialValue(w)
             \/ \E t \in Thread, l \in Loc : RMWRead(t, l)
             \/ \E t \in Thread, n \in 1 .. (EvictMax - 1) : EvictRandom(t, n)
             \/ Finish
    BY <2>2 DEF EnsureInitialValue, RMWRead, EvictRandom, Finish, CanIssue, Running
  <2> QED  BY <1>1, <2>1, <2>2, IssueShape DEF Issue, Control
<1>2. CASE Drain
  BY <1>2 DEF Drain, EvictStore, EvictClflush, EvictFlushOpt, FlushForSFence, EvictSFence,
     CrashInStoreBuffer, StoreBufferEmptied, PopsDone, FlushNext, Flush, evictCacheOp, Draining,
     CrashInFlushBuffer, FlushedAfterCrash, FlushBufferEmptied, FreeActions, DoCrash, Running, ctl
<1>3. CASE Terminated \/ UNCHANGED vars
  BY <1>3 DEF Terminated, vars, Running
<1> QED  BY <1>1, <1>2, <1>3 DEF Next

-------------------------------------------------------------------------------
(* Nothing is lost before a crash.                                         *)

\* The fence that waits for its thread's buffers.
WaitingFence(i) == i = Len(act) /\ phase \in {"sb", "fb"} /\ job = "fence" /\ act[i].kind = "mfence"

\* What waited goes on waiting or has taken effect.
LEMMA NothingLostKept ==
  ASSUME TypeOK, TypeOK', NothingLost, Running' => Running, Grows, Acts' = Acts,
         \A t \in Thread, i \in Acts : Waits(t, i) => Waits(t, i)' \/ act'[i].seq # 0,
         \A i \in Acts : WaitingFence(i) => WaitingFence(i)' \/ act'[i].seq # 0
  PROVE  NothingLost'
<1> SUFFICES ASSUME Running', NEW i \in Acts, act'[i].seq = 0
             PROVE  i \in In(sb'[act'[i].tid]) \/ i \in In(fb'[act'[i].tid]) \/ WaitingFence(i)'
  BY DEF NothingLost, Committed, WaitingFence, Waits
<1>1. Waits(act[i].tid, i) \/ WaitingFence(i)
  BY DEF NothingLost, Committed, WaitingFence, Grows
<1>2. act[i].tid \in Thread /\ act'[i].tid = act[i].tid
  <2>1. act[i] \in ModelAction
    BY DEF TypeOK, ActsOK, Acts
  <2> QED  BY <2>1 DEF ModelAction, Grows
<1>3. CASE WaitingFence(i)
  BY <1>3
<1>4. CASE Waits(act[i].tid, i)
  BY <1>2, <1>4 DEF Waits
<1> QED  BY <1>1, <1>3, <1>4

\* The head of a buffer is its first entry, the others are in its tail.
LEMMA HeadOrTail ==
  ASSUME TypeOK, Order, NEW t \in Thread
  PROVE  /\ sb[t] # <<>> => /\ Head(sb[t]) \in In(sb[t])
                           /\ \A x \in In(sb[t]) : x = Head(sb[t]) \/ (x \in In(Tail(sb[t])) /\ Head(sb[t]) < x)
         /\ fb[t] # <<>> => /\ Head(fb[t]) \in In(fb[t])
                           /\ \A x \in In(fb[t]) : x = Head(fb[t]) \/ (x \in In(Tail(fb[t])) /\ Head(fb[t]) < x)
<1>1. /\ sb[t] \in Seq(Acts) /\ fb[t] \in Seq(Acts) /\ Acts \subseteq Nat
      /\ Ascending(sb[t]) /\ Ascending(fb[t])
  BY BufferSeqs DEF Order, Ordered
<1>2. ASSUME sb[t] # <<>>
      PROVE  /\ Head(sb[t]) \in In(sb[t])
             /\ \A x \in In(sb[t]) : x = Head(sb[t]) \/ (x \in In(Tail(sb[t])) /\ Head(sb[t]) < x)
  BY <1>1, <1>2, AscendingTail
<1>3. ASSUME fb[t] # <<>>
      PROVE  /\ Head(fb[t]) \in In(fb[t])
             /\ \A x \in In(fb[t]) : x = Head(fb[t]) \/ (x \in In(Tail(fb[t])) /\ Head(fb[t]) < x)
  BY <1>1, <1>3, AscendingTail
<1> QED  BY <1>2, <1>3

LEMMA NothingLostDrains ==
  ASSUME TypeOK, TypeOK', Order, NothingLost, Running' => Running, Grows,
         EvictStore \/ EvictClflush \/ EvictFlushOpt \/ EvictSFence \/ FlushForSFence \/ FlushNext
  PROVE  NothingLost'
<1>1. /\ cur \in Thread /\ UNCHANGED <<phase, job>>
      /\ sb \in [Thread -> Seq(Acts)] /\ fb \in [Thread -> Seq(Acts)]
      /\ used + 1 # 0
  BY SMTT(20) DEF EvictStore, EvictClflush, EvictFlushOpt, EvictSFence, FlushForSFence, FlushNext, Draining,
     Pop, Flush, ctl, TypeOK, ControlOK, BuffersOK, CountersOK
<1>2. Acts' = Acts /\ Len(act') = Len(act)
  <2>1. act \in Seq(ModelAction)
    BY DEF TypeOK, ActsOK
  <2>2. \/ act' = act
        \/ \E i : act' = [act EXCEPT ![i].seq = used + 1]
        \/ \E i, c : act' = [act EXCEPT ![i].last_clflush = c]
    BY DEF EvictStore, EvictClflush, EvictFlushOpt, EvictSFence, FlushForSFence, FlushNext,
       Flush, evictCacheOp, Commit
  <2> QED  BY <2>1, <2>2 DEF Acts
<1>3. \A i \in Acts : WaitingFence(i) => WaitingFence(i)'
  BY <1>1, <1>2 DEF WaitingFence, Grows
<1>4. ASSUME NEW t \in Thread, NEW i \in Acts, Waits(t, i)
      PROVE  Waits(t, i)' \/ act'[i].seq # 0
  <2>1. CASE EvictStore \/ EvictClflush \/ EvictSFence
    <3>1. /\ sb[cur] # <<>> /\ sb' = [sb EXCEPT ![cur] = Tail(@)] /\ fb' = fb
          /\ Commit(Head(sb[cur]))
      BY <2>1 DEF EvictStore, EvictClflush, EvictSFence, Draining, Pop, evictCacheOp, head
    <3>2. CASE i = Head(sb[cur])
      <4>1. TakesEffect(i)
        BY <3>1, <3>2, CommitClocks
      <4> QED  BY <4>1, <1>1 DEF TakesEffect
    <3>3. CASE i # Head(sb[cur])
      BY <1>1, <1>4, <3>1, <3>3, HeadOrTail DEF Waits
    <3> QED  BY <3>2, <3>3
  <2>2. CASE FlushForSFence \/ FlushNext
    <3>1. /\ fb[cur] # <<>> /\ fb' = [fb EXCEPT ![cur] = Tail(@)] /\ sb' = sb
          /\ Commit(Head(fb[cur]))
      BY <2>2 DEF FlushForSFence, FlushNext, Flush, evictCacheOp
    <3>2. CASE i = Head(fb[cur])
      <4>1. TakesEffect(i)
        BY <3>1, <3>2, CommitClocks
      <4> QED  BY <4>1, <1>1 DEF TakesEffect
    <3>3. CASE i # Head(fb[cur])
      BY <1>1, <1>4, <3>1, <3>3, HeadOrTail DEF Waits
    <3> QED  BY <3>2, <3>3
  <2>3. CASE EvictFlushOpt
    <3> DEFINE h == Head(sb[cur])
    <3>1. /\ sb[cur] # <<>> /\ sb' = [sb EXCEPT ![cur] = Tail(@)]
          /\ fb' = [fb EXCEPT ![cur] = Append(@, h)]
      BY <2>3 DEF EvictFlushOpt, Draining, Pop, head
    <3>2. h \in In(sb[cur]) /\ \A x \in In(sb[cur]) : x = h \/ x \in In(Tail(sb[cur]))
      BY <1>1, <3>1, HeadOrTail
    <3> HIDE DEF h
    <3>3. In(fb[cur]) \subseteq In(Append(fb[cur], h)) /\ h \in In(Append(fb[cur], h))
      <4> DEFINE s == fb[cur]
      <4>1. s \in Seq(Acts)
        BY <1>1
      <4> HIDE DEF s
      <4>2. /\ Len(s) \in Nat /\ DOMAIN s = 1 .. Len(s) /\ DOMAIN Append(s, h) = 1 .. (Len(s) + 1)
            /\ Append(s, h)[Len(s) + 1] = h /\ \A k \in DOMAIN s : Append(s, h)[k] = s[k]
        BY <4>1
      <4>3. In(s) \subseteq In(Append(s, h)) /\ h \in In(Append(s, h))
        BY <4>2 DEF In
      <4> QED  BY <4>3 DEF s
    <3>4. CASE t = cur
      BY <1>1, <1>4, <3>1, <3>2, <3>3, <3>4 DEF Waits
    <3>5. CASE t # cur
      BY <1>1, <1>4, <3>1, <3>5 DEF Waits
    <3> QED  BY <3>4, <3>5
  <2> QED  BY <2>1, <2>2, <2>3
<1> QED  BY <1>2, <1>3, <1>4, NothingLostKept

\* The trace and the buffers stay, and so does a fence's wait, or it is over.
LEMMA NothingLostStutters ==
  ASSUME TypeOK, TypeOK', NothingLost, Running' => Running, Grows,
         Running' => /\ UNCHANGED <<act, sb, fb>>
                     /\ phase \in {"sb", "fb"} /\ job = "fence" => phase' \in {"sb", "fb"} /\ job' = job
  PROVE  NothingLost'
BY DEF NothingLost, Committed, Waits, Acts

\* An issued mfence or seq_cst store starts to empty the buffers of its thread.
IssuedDrains(t) ==
  /\ phase' = "sb" => cur' = t /\ Len(act') > 0 /\ act'[Len(act')].tid = t
  /\ act'[new].kind = "mfence" => phase' = "sb" /\ job' = "fence"
  /\ act'[new].kind = "scwrite" => phase' = "sb" /\ job' = "seqcst"
  /\ phase' \in {"run", "sb"}

LEMMA IssueDrains ==
  ASSUME TypeOK,
         \/ \E t \in Thread, l \in Loc :
              \/ \E k \in {"write", "scwrite"} : \E v \in [BytesAt(l) -> Byte] : Write(t, k, l, v)
              \/ \E k \in {"clflush", "clflushopt"} : CacheOp(t, k, l)
              \/ Read(t, l)
         \/ \E t \in Thread : SFence(t) \/ MFence(t)
         \/ \E v \in Value : RMWWrite(v)
         \/ CASFail
  PROVE  \E t \in Thread : \E a : Issues(t, a) /\ IssuedDrains(t)
<1>1. PICK t \in Thread : \E a : Issues(t, a)
  BY IssueShape
<1>2. PICK a : Issues(t, a)
  BY <1>1
<1>3. /\ act' = Append(act, a) /\ act'[new] = a /\ a.tid = t /\ Len(act') = new /\ new > 0
  BY <1>2 DEF Issues, Issued
<1>4. IssuedDrains(t)
  <2>1. CASE \E u \in Thread, l \in Loc, k \in {"write", "scwrite"} :
               \E v \in [BytesAt(l) -> Byte] : Write(u, k, l, v)
    <3>1. PICK u \in Thread, l \in Loc, k \in {"write", "scwrite"} :
                 \E v \in [BytesAt(l) -> Byte] : Write(u, k, l, v)
      BY <2>1
    <3>2. PICK v \in [BytesAt(l) -> Byte] : Write(u, k, l, v)
      BY <3>1
    <3>3. act' = Append(act, Action(u, k, l, v, 0))
      BY <3>2 DEF Write
    <3>4. act'[new] = Action(u, k, l, v, 0)
      BY <3>3, IssueClocks DEF Issued
    <3>5. a.kind = k /\ u = t
      BY <1>3, <3>4 DEF Action
    <3> QED  BY <3>2, <3>5, <1>3 DEF Write, CanIssue, StartDrain, ctl, IssuedDrains
  <2>2. CASE \E u \in Thread, l \in Loc, k \in {"clflush", "clflushopt"} : CacheOp(u, k, l)
    <3>1. PICK u \in Thread, l \in Loc, k \in {"clflush", "clflushopt"} : CacheOp(u, k, l)
      BY <2>2
    <3> DEFINE b == [Action(u, k, l, Null, 0) EXCEPT
                       !.lastwrite = obj_to_last_write[u][getCacheID(l)],
                       !.lastcommittedWrite = used,
                       !.issued = used]
    <3>2. b.kind = k
      BY DEF Action
    <3>3. act' = Append(act, b)
      BY <3>1 DEF CacheOp
    <3> HIDE DEF b
    <3>4. act'[new] = b
      BY <3>3, IssueClocks DEF Issued
    <3> QED  BY <3>1, <3>2, <3>4 DEF CacheOp, CanIssue, ctl, IssuedDrains
  <2>3. CASE \E u \in Thread : SFence(u) \/ MFence(u)
    <3>1. PICK u \in Thread, k \in {"sfence", "mfence"} :
            /\ act' = Append(act, Action(u, k, NoLoc, Null, 0)) /\ phase = "run"
            /\ IF k = "mfence" THEN StartDrain(u, "fence") ELSE UNCHANGED ctl
      BY <2>3 DEF SFence, MFence, CanIssue
    <3>2. act'[new] = Action(u, k, NoLoc, Null, 0)
      BY <3>1, IssueClocks DEF Issued
    <3>3. a.kind = k /\ u = t
      BY <1>3, <3>2 DEF Action
    <3> QED  BY <3>1, <3>3, <1>3 DEF StartDrain, ctl, IssuedDrains
  <2>4. CASE (\E u \in Thread, l \in Loc : Read(u, l)) \/ CASFail \/ \E v \in Value : RMWWrite(v)
    <3>1. a.kind \notin {"mfence", "scwrite"}
      <4>1. used' = used + 1 /\ used \in Nat
        BY <2>4 DEF Read, CASFail, RMWWrite, TypeOK, CountersOK
      <4> QED  BY <4>1, <1>2 DEF Issues
    <3>2. phase' = "run"
      BY <2>4 DEF Read, CASFail, RMWWrite, CanIssue, ctl
    <3> QED  BY <3>1, <3>2, <1>3 DEF IssuedDrains
  <2> QED  BY <2>1, <2>2, <2>3, <2>4
<1> QED  BY <1>2, <1>4

LEMMA NothingLostIssues ==
  ASSUME TypeOK, NothingLost, NEW t \in Thread, NEW a, Issues(t, a), IssuedDrains(t), Grows
  PROVE  NothingLost'
<1> SUFFICES ASSUME Running', NEW i \in Acts', act'[i].seq = 0
             PROVE  i \in In(sb'[act'[i].tid]) \/ i \in In(fb'[act'[i].tid]) \/ WaitingFence(i)'
  BY DEF NothingLost, Committed, WaitingFence, Waits
<1>1. /\ sb \in [Thread -> Seq(Acts)] /\ Acts' = Acts \cup {new} /\ act'[new] = a /\ a.tid = t
      /\ Len(act') = new
  BY DEF TypeOK, BuffersOK, Issues, Issued, Acts
<1>2. \A u \in Thread : sb'[u] = Append(sb[u], new) => In(sb[u]) \subseteq In(sb'[u]) /\ new \in In(sb'[u])
  <2> SUFFICES ASSUME NEW u \in Thread
               PROVE  In(sb[u]) \subseteq In(Append(sb[u], new)) /\ new \in In(Append(sb[u], new))
    OBVIOUS
  <2> DEFINE s == sb[u]
  <2>1. s \in Seq(Acts)
    BY <1>1
  <2> HIDE DEF s
  <2>2. /\ Len(s) \in Nat /\ DOMAIN s = 1 .. Len(s) /\ DOMAIN Append(s, new) = 1 .. (Len(s) + 1)
        /\ Append(s, new)[Len(s) + 1] = new /\ \A k \in DOMAIN s : Append(s, new)[k] = s[k]
    BY <2>1
  <2>3. In(s) \subseteq In(Append(s, new)) /\ new \in In(Append(s, new))
    BY <2>2 DEF In
  <2> QED  BY <2>3 DEF s
<1>3. CASE i = new
  <2>1. used \in Nat /\ a.seq = 0
    BY <1>1, <1>3 DEF TypeOK, CountersOK
  <2>2. \/ a.kind = "mfence"
        \/ sb' = [sb EXCEPT ![t] = Append(@, new)]
    BY <2>1 DEF Issues
  <2>3. CASE a.kind = "mfence"
    BY <2>3, <1>1, <1>3 DEF IssuedDrains, WaitingFence
  <2>4. CASE sb' = [sb EXCEPT ![t] = Append(@, new)]
    BY <2>4, <1>1, <1>2, <1>3
  <2> QED  BY <2>2, <2>3, <2>4
<1>4. CASE i \in Acts
  <2>1. act[i].seq = 0 /\ act'[i].tid = act[i].tid /\ act[i].tid \in Thread
    <3>1. act[i] \in ModelAction
      BY <1>4 DEF TypeOK, ActsOK, Acts
    <3> QED  BY <1>4, <3>1 DEF Grows, ModelAction
  <2>2. Running /\ phase \notin {"sb", "fb"}
    BY DEF Issues, Running
  <2>3. Waits(act[i].tid, i)
    BY <2>1, <2>2, <1>4 DEF NothingLost, Committed
  <2>4. fb' = fb /\ (sb' = sb \/ sb' = [sb EXCEPT ![t] = Append(@, new)])
    BY DEF Issues
  <2>5. CASE sb' = sb
    BY <2>1, <2>3, <2>4, <2>5 DEF Waits
  <2>6. CASE sb' = [sb EXCEPT ![t] = Append(@, new)]
    BY <2>1, <2>3, <2>4, <2>6, <1>1, <1>2 DEF Waits
  <2> QED  BY <2>4, <2>5, <2>6
<1> QED  BY <1>1, <1>3, <1>4

LEMMA NothingLostNext ==
  ASSUME Control, Control', Order, NothingLost, [Next]_vars
  PROVE  NothingLost'
<1>1. TypeOK /\ TypeOK' /\ (Running' => Running) /\ Grows
  BY TraceGrows, RunsOn DEF Control
<1>2. CASE Issue
  <2>1. ASSUME NEW t \in Thread, NEW a, Issues(t, a), IssuedDrains(t) PROVE NothingLost'
    BY <1>1, <2>1, NothingLostIssues
  <2>2. CASE \/ \E w \in Word : EnsureInitialValue(w)
             \/ \E t \in Thread, l \in Loc : RMWRead(t, l)
             \/ \E t \in Thread, n \in 1 .. (EvictMax - 1) : EvictRandom(t, n)
             \/ Finish
    <3>1. phase \notin {"sb", "fb"} /\ UNCHANGED <<act, sb, fb>>
      BY <2>2 DEF EnsureInitialValue, RMWRead, EvictRandom, Finish, CanIssue, bufs
    <3> QED  BY <1>1, <3>1, NothingLostStutters
  <2> QED  BY <1>1, <1>2, <2>1, <2>2, IssueDrains DEF Issue
<1>3. CASE Drain
  <2>1. CASE CrashInStoreBuffer \/ CrashInFlushBuffer \/ FlushedAfterCrash \/ DoCrash
             \/ \E t \in Thread : FreeActions(t)
    <3>1. ~Running'
      BY <2>1 DEF CrashInStoreBuffer, CrashInFlushBuffer, FlushedAfterCrash, DoCrash, FreeActions,
         Running, ctl
    <3> QED  BY <3>1 DEF NothingLost
  <2>2. CASE StoreBufferEmptied \/ PopsDone \/ (FlushBufferEmptied /\ job # "fence")
    <3>1. /\ UNCHANGED <<act, sb, fb>>
          /\ phase \in {"sb", "fb"} /\ job = "fence" => phase' \in {"sb", "fb"} /\ job' = job
      BY <2>2 DEF StoreBufferEmptied, PopsDone, FlushBufferEmptied, bufs
    <3> QED  BY <1>1, <3>1, NothingLostStutters
  <2>3. CASE FlushBufferEmptied /\ job = "fence"
    <3>1. Commit(Len(act)) /\ UNCHANGED <<sb, fb>> /\ Len(act) > 0 /\ act \in Seq(ModelAction)
      BY <2>3, <1>1 DEF FlushBufferEmptied, bufs, TypeOK, ControlOK, ActsOK
    <3>2. Len(act) \in Acts
      BY <3>1 DEF Acts
    <3>3. TakesEffect(Len(act)) /\ used + 1 # 0
      BY <1>1, <3>1, <3>2, CommitClocks DEF TypeOK, CountersOK
    <3>4. \A t \in Thread, i \in Acts : Waits(t, i) => Waits(t, i)'
      BY <3>1 DEF Waits
    <3>5. \A i \in Acts : WaitingFence(i) => act'[i].seq # 0
      BY <3>3 DEF WaitingFence, TakesEffect
    <3>6. Acts' = Acts
      BY <3>3 DEF TakesEffect, Acts
    <3> QED  BY <1>1, <3>4, <3>5, <3>6, NothingLostKept
  <2> QED  BY <1>1, <1>3, <2>1, <2>2, <2>3, NothingLostDrains DEF Drain
<1>4. CASE Terminated \/ UNCHANGED vars
  <2>1. UNCHANGED <<act, sb, fb, phase, job>>
    BY <1>4 DEF Terminated, vars
  <2> QED  BY <1>1, <2>1, NothingLostStutters
<1> QED  BY <1>2, <1>3, <1>4 DEF Next

-------------------------------------------------------------------------------
(* Fences leave nothing of their thread behind.                            *)

LEMMA DrainOwnerNext ==
  ASSUME Control, Control', Order, DrainOwner, [Next]_vars
  PROVE  DrainOwner'
<1>1. TypeOK /\ Grows /\ act \in Seq(ModelAction) /\ Acts = 1 .. Len(act) /\ Len(act) \in Nat
  BY TraceGrows DEF Control, TypeOK, ActsOK, Acts
<1>2. CASE Issue
  <2>1. ASSUME NEW t \in Thread, NEW a, Issues(t, a), IssuedDrains(t) PROVE DrainOwner'
    BY <2>1 DEF IssuedDrains, DrainOwner
  <2>2. CASE \/ \E w \in Word : EnsureInitialValue(w)
             \/ \E t \in Thread, l \in Loc : RMWRead(t, l)
             \/ \E t \in Thread, n \in 1 .. (EvictMax - 1) : EvictRandom(t, n)
             \/ Finish
    BY <2>2 DEF EnsureInitialValue, RMWRead, EvictRandom, Finish, CanIssue, StartDrain, ctl, DrainOwner
  <2> QED  BY <1>1, <1>2, <2>1, <2>2, IssueDrains DEF Issue
<1>3. CASE EvictStore \/ EvictClflush \/ EvictFlushOpt \/ EvictSFence \/ FlushForSFence \/ FlushNext
  <2>1. Len(act') = Len(act)
    <3>1. \/ act' = act
          \/ \E i : act' = [act EXCEPT ![i].seq = used + 1]
          \/ \E i, c : act' = [act EXCEPT ![i].last_clflush = c]
      BY <1>3 DEF EvictStore, EvictClflush, EvictFlushOpt, EvictSFence, FlushForSFence, FlushNext,
         Flush, evictCacheOp, Commit
    <3> QED  BY <1>1, <3>1
  <2>2. UNCHANGED <<phase, job, cur>> /\ (phase = "fb" => sb' = sb /\ hasCrashed' = hasCrashed)
    BY <1>3 DEF EvictStore, EvictClflush, EvictFlushOpt, EvictSFence, FlushForSFence, FlushNext,
       Draining, Pop, Flush, evictCacheOp, ctl
  <2>3. Len(act) > 0 => act'[Len(act)].tid = act[Len(act)].tid
    <3>1. Len(act) > 0 => Len(act) \in Acts
      BY <1>1
    <3> QED  BY <1>1, <3>1 DEF Grows
  <2> QED  BY <2>1, <2>2, <2>3 DEF DrainOwner
<1>4. CASE \/ CrashInStoreBuffer \/ StoreBufferEmptied \/ PopsDone \/ CrashInFlushBuffer
           \/ FlushedAfterCrash \/ FlushBufferEmptied \/ (\E t \in Thread : FreeActions(t)) \/ DoCrash
  BY <1>1, <1>4 DEF CrashInStoreBuffer, StoreBufferEmptied, PopsDone, CrashInFlushBuffer,
     FlushedAfterCrash, FlushBufferEmptied, FreeActions, DoCrash, bufs, ctl, DrainOwner, Draining
<1>5. CASE Terminated \/ UNCHANGED vars
  BY <1>5 DEF Terminated, vars, DrainOwner
<1> QED  BY <1>2, <1>3, <1>4, <1>5 DEF Next, Drain

\* The thread of an empty store and flush buffer has only its fence to wait for.
LEMMA DrainedSettles ==
  ASSUME TypeOK, NothingLost, Running, NEW t \in Thread, sb[t] = <<>>, fb[t] = <<>>,
         NEW i \in Acts, act[i].tid = t, act[i].seq = 0
  PROVE  WaitingFence(i)
<1>1. ~Waits(t, i)
  BY DEF Waits, In
<1> QED  BY <1>1 DEF NothingLost, Committed, WaitingFence

\* So has what precedes the head of a store buffer.
LEMMA HeadSettles ==
  ASSUME TypeOK, Order, NothingLost, Running, NEW t \in Thread, sb[t] # <<>>, fb[t] = <<>>
  PROVE  Settled(Head(sb[t])) /\ Head(sb[t]) \in Acts /\ act[Head(sb[t])].tid = t
<1> DEFINE h == Head(sb[t])
<1>1. h \in In(sb[t]) /\ \A x \in In(sb[t]) : x = h \/ h < x
  BY HeadOrTail
<1>2. h \in Acts /\ Acts = 1 .. Len(act) /\ Len(act) \in Nat /\ act[h].tid = t
  BY <1>1, BufferSeqs DEF Order, Pending, Waits
<1> HIDE DEF h
<1>3. ASSUME NEW i \in Acts, i < h, act[i].tid = t, act[i].seq = 0
      PROVE  FALSE
  <2>1. ~Waits(t, i)
    <3>1. i \notin In(fb[t])
      BY DEF In
    <3>2. i \notin In(sb[t])
      BY <1>1, <1>2, <1>3
    <3> QED  BY <3>1, <3>2 DEF Waits
  <2>2. i = Len(act)
    BY <1>3, <2>1 DEF NothingLost, Committed
  <2> QED  BY <1>2, <1>3, <2>2
<1>4. Settled(h)
  BY <1>2, <1>3 DEF Settled
<1> QED  BY <1>2, <1>4 DEF h

LEMMA SettledStays ==
  ASSUME Grows, NEW m \in Acts, Settled(m),
         Acts' = Acts \/ (Acts' = Acts \cup {new} /\ m < new)
  PROVE  Settled(m)'
<1> SUFFICES ASSUME NEW i \in Acts', i < m, act'[i].tid = act'[m].tid
             PROVE  act'[i].seq # 0
  BY DEF Settled
<1>1. i \in Acts
  <2> HIDE DEF new
  <2>1. i \in Nat /\ m \in Nat
    BY DEF Grows
  <2>2. i = new /\ m < new => FALSE
    BY <2>1
  <2> QED  BY <2>2
<1> QED  BY <1>1 DEF Grows, Settled

\* A step that issues nothing and after which no more operations are barriers
\* than before.
LEMMA FencesSettledKept ==
  ASSUME FencesSettled, Grows, Acts' = Acts,
         \A m \in Acts : Barrier(m)' => Barrier(m) \/ Settled(m)'
  PROVE  FencesSettled'
BY SettledStays DEF FencesSettled

\* Flushes and stores that take effect are no barriers.
LEMMA FencesSettledCommits ==
  ASSUME FencesSettled, Grows, Running' => Running, Len(act') = Len(act), NEW n \in Acts, TakesEffect(n),
         act[n].kind \notin {"sfence", "mfence", "rmw"} \/ Settled(n)',
         phase \in {"sb", "fb"} /\ job = "seqcst" => phase' \in {"sb", "fb"} /\ job' = job
  PROVE  FencesSettled'
<1>1. Acts' = Acts
  BY DEF TakesEffect, Acts
<1>2. ASSUME NEW m \in Acts, Barrier(m)', m # n PROVE Barrier(m)
  BY <1>2 DEF Barrier, Awaits, TakesEffect
<1>3. ASSUME Barrier(n)' PROVE Barrier(n) \/ Settled(n)'
  BY <1>3 DEF Barrier, Awaits, TakesEffect
<1> QED  BY <1>1, <1>2, <1>3, FencesSettledKept

LEMMA FencesSettledIssues ==
  ASSUME Control, Order, NothingLost, FencesSettled, Grows, Running' => Running,
         NEW t \in Thread, NEW a, Issues(t, a), IssuedDrains(t)
  PROVE  FencesSettled'
<1>0. PICK n : n = new
  OBVIOUS
<1>1. /\ Acts' = Acts \cup {n} /\ \A i \in Acts : i < n /\ act'[i] = act[i]
      /\ act'[n] = a /\ a.tid = t /\ Len(act') = n /\ n \notin Acts
      /\ Len(act) \in Nat /\ \A i \in Acts : i =< Len(act)
  BY <1>0 DEF Issues, Issued, Acts
<1>2. phase \notin {"sb", "fb"} /\ Running /\ used + 1 # 0
  BY DEF Issues, Control, CrashControl, Running, TypeOK, CountersOK
<1>3. ASSUME NEW m \in Acts, Barrier(m)' PROVE Settled(m)'
  <2>1. Barrier(m)
    <3>1. ~Awaits(m)
      BY <1>2 DEF Awaits
    <3> QED  BY <1>1, <1>3, <3>1 DEF Barrier
  <2>2. Settled(m)
    BY <2>1 DEF FencesSettled
  <2> QED  BY <1>0, <1>1, <2>2, SettledStays
<1>4. ASSUME Barrier(n)' PROVE Settled(n)'
  <2>1. act'[n].kind \in {"sfence", "mfence", "rmw"} /\ act'[n].seq # 0
    <3>1. act'[n].kind # "scwrite"
      BY <1>0, <1>1, <1>2, <1>4 DEF Barrier, Awaits, IssuedDrains, Running
    <3> QED  BY <1>4, <3>1 DEF Barrier
  <2>2. t = rmw.tid /\ phase \in {"rmw", "rmwgo"}
    <3>1. \/ act'[n].kind # "rmw" /\ (act'[n].kind \in Buffered \cup {"mfence"} => act'[n].seq = 0)
          \/ t = rmw.tid /\ phase \in {"rmw", "rmwgo"}
      BY <1>1, <1>2 DEF Issues, Buffered
    <3> QED  BY <2>1, <3>1 DEF Buffered
  <2>3. sb[t] = <<>> /\ fb[t] = <<>>
    BY <2>2 DEF Control, RMWControl, Drained
  <2>4. ASSUME NEW i \in Acts, act[i].tid = t PROVE act[i].seq # 0
    <3>1. act[i].seq = 0 => WaitingFence(i)
      BY <1>2, <2>3, <2>4, DrainedSettles DEF Control
    <3> QED  BY <1>2, <3>1 DEF WaitingFence
  <2> SUFFICES ASSUME NEW i \in Acts', i < n, act'[i].tid = t PROVE act'[i].seq # 0
    BY <1>1 DEF Settled
  <2>5. i # n
    BY <1>1
  <2> QED  BY <1>1, <2>4, <2>5
<1> QED  BY <1>1, <1>3, <1>4 DEF FencesSettled

LEMMA FencesSettledNext ==
  ASSUME Control, Control', Order, NothingLost, DrainOwner, FencesSettled, [Next]_vars
  PROVE  FencesSettled'
<1>1. /\ TypeOK /\ (Running' => Running) /\ Grows /\ act \in Seq(ModelAction)
      /\ Acts = 1 .. Len(act) /\ Len(act) \in Nat /\ used + 1 # 0
  BY TraceGrows, RunsOn DEF Control, TypeOK, ActsOK, Acts, CountersOK
\* Nothing takes effect and no seq_cst store stops waiting.
<1>2. ASSUME SameClocks, Len(act') = Len(act),
             phase \in {"sb", "fb"} /\ job = "seqcst"
               => (phase' \in {"sb", "fb"} /\ job' = job) \/ ~Running'
      PROVE  FencesSettled'
  <2>1. Acts' = Acts
    BY <1>2 DEF SameClocks, Acts
  <2>2. \A m \in Acts : Barrier(m)' => Barrier(m)
    BY <1>1, <1>2 DEF Barrier, Awaits, SameClocks
  <2> QED  BY <1>1, <2>1, <2>2, FencesSettledKept
<1>3. CASE Issue
  <2>1. ASSUME NEW t \in Thread, NEW a, Issues(t, a), IssuedDrains(t) PROVE FencesSettled'
    BY <1>1, <2>1, FencesSettledIssues
  <2>2. CASE \/ \E w \in Word : EnsureInitialValue(w)
             \/ \E t \in Thread, l \in Loc : RMWRead(t, l)
             \/ \E t \in Thread, n \in 1 .. (EvictMax - 1) : EvictRandom(t, n)
             \/ Finish
    <3>1. phase \notin {"sb", "fb"} /\ act' = act
      BY <2>2 DEF EnsureInitialValue, RMWRead, EvictRandom, Finish, CanIssue
    <3>2. SameClocks
      BY <1>1, <2>2, StutterShape
    <3> QED  BY <1>2, <3>1, <3>2
  <2> QED  BY <1>1, <1>3, <2>1, <2>2, IssueDrains DEF Issue
<1>4. CASE EvictStore \/ EvictClflush \/ EvictSFence
  <2>0. PICK h : h = Head(sb[cur])
    OBVIOUS
  <2>1. /\ cur \in Thread /\ sb[cur] # <<>> /\ Commit(h) /\ UNCHANGED <<phase, job>> /\ phase = "sb"
        /\ h = head
    BY <1>1, <1>4, <2>0 DEF EvictStore, EvictClflush, EvictSFence, Draining, Pop, evictCacheOp, TypeOK,
       ControlOK, head
  <2>2. Running
    BY <2>1 DEF Running, Control, CrashControl
  <2>3. h \in Acts
    BY <1>1, <1>4, <2>1, TypePop DEF EvictStore, EvictClflush, EvictSFence
  <2>4. TakesEffect(h)
    BY <1>1, <2>1, <2>3, CommitClocks
  <2>5. Len(act') = Len(act)
    BY <2>4 DEF TakesEffect
  <2>6. act[h].kind \notin {"sfence", "mfence", "rmw"} \/ Settled(h)'
    <3>1. CASE EvictSFence
      <4>1. fb[cur] = <<>>
        BY <3>1 DEF EvictSFence
      <4>2. Settled(h)
        BY <1>1, <2>0, <2>1, <2>2, <4>1, HeadSettles
      <4>3. Acts' = Acts
        BY <2>4 DEF TakesEffect, Acts
      <4> QED  BY <1>1, <2>3, <4>2, <4>3, SettledStays
    <3>2. CASE EvictStore \/ EvictClflush
      <4>1. act[h].kind \in Buffered /\ act[h].kind # "sfence"
        BY <1>1, <2>1, <3>2, TypePop DEF EvictStore, EvictClflush, IsWrite
      <4> QED  BY <4>1 DEF Buffered
    <3> QED  BY <1>4, <3>1, <3>2
  <2> QED  BY <1>1, <2>1, <2>3, <2>4, <2>5, <2>6, FencesSettledCommits
<1>5. CASE FlushForSFence \/ FlushNext
  <2>0. PICK h : h = Head(fb[cur])
    OBVIOUS
  <2>1. cur \in Thread /\ fb[cur] # <<>> /\ Commit(h) /\ UNCHANGED <<phase, job>>
    BY <1>1, <1>5, <2>0 DEF FlushForSFence, FlushNext, Flush, evictCacheOp, ctl, Draining, TypeOK, ControlOK
  <2>2. h \in Acts /\ act[h].kind = "clflushopt"
    <3>1. h \in In(fb[cur])
      BY <1>1, <2>0, <2>1, HeadOrTail
    <3> QED  BY <1>1, <2>1, <3>1, BufferSeqs
  <2>3. TakesEffect(h)
    BY <1>1, <2>1, <2>2, CommitClocks
  <2>4. Len(act') = Len(act)
    BY <2>3 DEF TakesEffect
  <2> QED  BY <1>1, <2>1, <2>2, <2>3, <2>4, FencesSettledCommits
<1>6. CASE EvictFlushOpt
  <2>1. SameClocks
    BY <1>1, <1>6, StutterShape
  <2>2. Len(act') = Len(act) /\ UNCHANGED <<phase, job>>
    BY <1>1, <1>6 DEF EvictFlushOpt, Pop
  <2> QED  BY <1>2, <2>1, <2>2
<1>7. CASE \/ CrashInStoreBuffer \/ CrashInFlushBuffer \/ FlushedAfterCrash \/ StoreBufferEmptied
           \/ PopsDone \/ (\E t \in Thread : FreeActions(t)) \/ DoCrash
           \/ (FlushBufferEmptied /\ job \notin {"fence", "seqcst"})
  <2>1. SameClocks
    BY <1>1, <1>7, StutterShape
  <2>2. act' = act
    BY <1>7 DEF CrashInStoreBuffer, CrashInFlushBuffer, FlushedAfterCrash, StoreBufferEmptied,
       PopsDone, FreeActions, DoCrash, FlushBufferEmptied
  <2>3. phase \in {"sb", "fb"} /\ job = "seqcst" => (phase' \in {"sb", "fb"} /\ job' = job) \/ ~Running'
    BY <1>7 DEF CrashInStoreBuffer, CrashInFlushBuffer, FlushedAfterCrash, StoreBufferEmptied,
       PopsDone, FreeActions, DoCrash, FlushBufferEmptied, Running
  <2> QED  BY <1>2, <2>1, <2>2, <2>3
\* What a fence or a seq_cst store waited for has happened.
<1>8. CASE FlushBufferEmptied /\ job \in {"fence", "seqcst"}
  <2>0. PICK m : m = Len(act)
    OBVIOUS
  <2>1. /\ cur \in Thread /\ phase = "fb" /\ ~hasCrashed /\ fb[cur] = <<>> /\ phase' = "run"
        /\ UNCHANGED hasCrashed
    BY <1>1, <1>8 DEF FlushBufferEmptied, TypeOK, ControlOK
  <2>2. sb[cur] = <<>> /\ m > 0 /\ act[m].tid = cur /\ m \in Acts
    BY <1>1, <1>8, <2>0, <2>1 DEF DrainOwner
  <2>3. Running
    BY <2>1 DEF Running
  <2>4. Settled(m)
    <3>1. \A i \in Acts : act[i].tid = cur /\ act[i].seq = 0 => WaitingFence(i)
      BY <1>1, <2>1, <2>2, <2>3, DrainedSettles
    <3> QED  BY <1>1, <2>0, <2>2, <3>1 DEF WaitingFence, Settled
  <2>5. Acts' = Acts /\ Len(act') = Len(act)
    BY <1>1, <1>8 DEF FlushBufferEmptied, Commit, Acts
  <2>6. Settled(m)'
    BY <1>1, <2>2, <2>4, <2>5, SettledStays
  <2>7. \A i \in Acts : i # m => act'[i].kind = act[i].kind /\ act'[i].seq = act[i].seq
    <3>1. CASE job = "fence"
      <4>1. TakesEffect(m)
        BY <1>1, <1>8, <2>0, <2>2, <3>1, CommitClocks DEF FlushBufferEmptied
      <4> QED  BY <4>1 DEF TakesEffect
    <3>2. CASE job = "seqcst"
      BY <1>8, <3>2 DEF FlushBufferEmptied
    <3> QED  BY <1>8, <3>1, <3>2
  <2>8. \A i \in Acts : i # m /\ Barrier(i)' => Barrier(i)
    BY <2>0, <2>5, <2>7 DEF Barrier, Awaits
  <2> QED  BY <1>1, <2>5, <2>6, <2>8, FencesSettledKept
<1>9. CASE Terminated \/ UNCHANGED vars
  <2>1. act' = act /\ UNCHANGED <<phase, job>> /\ SameClocks
    BY <1>9 DEF Terminated, vars, SameClocks, Acts
  <2> QED  BY <1>2, <2>1
<1> QED  BY <1>3, <1>4, <1>5, <1>6, <1>7, <1>8, <1>9 DEF Next, Drain

\* What has not been lost, and what is behind fences: inductive with Order.
FenceInv == Control /\ Order /\ NoneDropped /\ NothingLost /\ DrainOwner /\ FencesSettled

LEMMA FenceInvHolds == Spec => []FenceInv
<1>1. Init => FenceInv
  <2> SUFFICES ASSUME Init PROVE NoneDropped /\ NothingLost /\ DrainOwner /\ FencesSettled
    BY ControlInit, OrderInit DEF FenceInv
  <2>1. Acts = {}
    BY DEF Init, Acts
  <2> QED  BY <2>1 DEF Init, NoneDropped, NothingLost, DrainOwner, FencesSettled
<1>2. FenceInv /\ [Next]_vars => FenceInv'
  <2> SUFFICES ASSUME FenceInv, [Next]_vars PROVE FenceInv'
    OBVIOUS
  <2>1. Control' /\ Order' /\ NoneDropped'
    BY ControlNext, OrderNext, NoneDroppedNext DEF FenceInv, Control
  <2> QED  BY <2>1, NothingLostNext, DrainOwnerNext, FencesSettledNext DEF FenceInv
<1> QED  BY <1>1, <1>2, PTL DEF Spec

\* When an sfence has taken effect, and whenever the scheduler is about to run
\* the next operation after an mfence, RMW or seq_cst store, everything its
\* thread issued earlier has taken effect, clflushopts included.
THEOREM FencesCompleteTheorem == Spec => []FencesComplete
<1>1. FenceInv => FencesComplete
  <2> SUFFICES ASSUME FenceInv, NEW i \in Acts, NEW m \in Acts, i < m, act[i].tid = act[m].tid,
                      \/ act[m].kind = "sfence" /\ act[m].seq # 0
                      \/ act[m].kind \in {"mfence", "rmw", "scwrite"} /\ phase = "run"
               PROVE  act[i].seq # 0
    BY DEF FencesComplete, SameThread, Committed
  <2>1. ASSUME act[m].kind \in {"mfence", "rmw"}, phase = "run" PROVE act[m].seq # 0
    <3>1. Running /\ ~WaitingFence(m)
      BY <2>1 DEF FenceInv, Control, CrashControl, Running, WaitingFence
    <3>2. ~Waits(act[m].tid, m)
      <4>1. act[m].tid \in Thread /\ TypeOK
        <5>1. act[m] \in ModelAction /\ TypeOK
          BY DEF FenceInv, Control, TypeOK, ActsOK, Acts
        <5> QED  BY <5>1 DEF ModelAction
      <4> QED  BY <2>1, <4>1, BufferSeqs DEF Waits, Buffered
    <3> QED  BY <3>1, <3>2 DEF FenceInv, NothingLost, Committed, WaitingFence
  <2>2. ASSUME act[m].kind = "scwrite", phase = "run" PROVE ~Awaits(m)
    BY <2>2 DEF FenceInv, Control, CrashControl, Running, Awaits
  <2>3. Barrier(m)
    BY <2>1, <2>2 DEF Barrier
  <2> QED  BY <2>3 DEF FenceInv, FencesSettled, Settled
<1> QED  BY <1>1, FenceInvHolds, PTL

-------------------------------------------------------------------------------
(* What flushes remember.                                                  *)

Ordering == {"write", "scwrite", "rmw", "clflush"}

\* What thread t's new operation a remembers, and what is remembered of it.
Remembers(t, a) ==
  /\ a.tid = t /\ UNCHANGED <<begin, lastsfence>>
  /\ IF a.kind \in Ordering
     THEN a.loc \in Loc /\ obj_to_last_write' = [obj_to_last_write EXCEPT ![t][getCacheID(a.loc)] = new]
     ELSE obj_to_last_write' = obj_to_last_write
  /\ IsCacheOp(a) => /\ a.loc \in Loc /\ a.seq = 0
                     /\ a.lastwrite = obj_to_last_write[t][getCacheID(a.loc)]
                     /\ a.issued = used /\ a.lastcommittedWrite = used /\ a.last_clflush = ValueNone

LEMMA IssueRemembers ==
  ASSUME TypeOK,
         \/ \E t \in Thread, l \in Loc :
              \/ \E k \in {"write", "scwrite"} : \E v \in [BytesAt(l) -> Byte] : Write(t, k, l, v)
              \/ \E k \in {"clflush", "clflushopt"} : CacheOp(t, k, l)
              \/ Read(t, l)
         \/ \E t \in Thread : SFence(t) \/ MFence(t)
         \/ \E v \in Value : RMWWrite(v)
         \/ CASFail
  PROVE  \E t \in Thread : \E a : Issues(t, a) /\ Remembers(t, a)
<1>1. PICK t \in Thread : \E a : Issues(t, a)
  BY IssueShape
<1>2. PICK a : Issues(t, a)
  BY <1>1
<1>3. act'[new] = a /\ a.tid = t
  BY <1>2 DEF Issues, Issued
<1>4. CASE \E u \in Thread, l \in Loc, k \in {"write", "scwrite"} :
             \E v \in [BytesAt(l) -> Byte] : Write(u, k, l, v)
  <2>1. PICK u \in Thread, l \in Loc, k \in {"write", "scwrite"} :
               \E v \in [BytesAt(l) -> Byte] : Write(u, k, l, v)
    BY <1>4
  <2>2. PICK v \in [BytesAt(l) -> Byte] : Write(u, k, l, v)
    BY <2>1
  <2>3. act'[new] = Action(u, k, l, v, 0)
    BY <2>2, IssueClocks DEF Write, Issued
  <2>4. a.kind = k /\ u = t /\ a.loc = l
    BY <1>3, <2>3 DEF Action
  <2>5. /\ obj_to_last_write' = [obj_to_last_write EXCEPT ![u][getCacheID(l)] = new]
        /\ UNCHANGED <<begin, lastsfence>>
    BY <2>2 DEF Write, mem
  <2> QED  BY <1>2, <1>3, <2>4, <2>5 DEF Remembers, Ordering, IsCacheOp
<1>5. CASE \E u \in Thread, l \in Loc, k \in {"clflush", "clflushopt"} : CacheOp(u, k, l)
  <2>1. PICK u \in Thread, l \in Loc, k \in {"clflush", "clflushopt"} : CacheOp(u, k, l)
    BY <1>5
  <2> DEFINE b == [Action(u, k, l, Null, 0) EXCEPT
                     !.lastwrite = obj_to_last_write[u][getCacheID(l)],
                     !.lastcommittedWrite = used,
                     !.issued = used]
  <2>2. /\ b.kind = k /\ b.tid = u /\ b.loc = l /\ b.seq = 0 /\ b.last_clflush = ValueNone
        /\ b.lastwrite = obj_to_last_write[u][getCacheID(l)]
        /\ b.lastcommittedWrite = used /\ b.issued = used
    BY DEF Action
  <2>3. act' = Append(act, b)
    BY <2>1 DEF CacheOp
  <2> HIDE DEF b
  <2>4. a = b
    BY <1>3, <2>3, IssueClocks DEF Issued
  <2>5. /\ obj_to_last_write' = IF k = "clflush"
                                THEN [obj_to_last_write EXCEPT ![u][getCacheID(l)] = new]
                                ELSE obj_to_last_write
        /\ UNCHANGED <<begin, lastsfence>>
    BY <2>1 DEF CacheOp, mem
  <2> QED  BY <1>2, <1>3, <2>2, <2>4, <2>5 DEF Remembers, Ordering, IsCacheOp
<1>6. CASE \E u \in Thread : SFence(u) \/ MFence(u)
  <2>1. PICK u \in Thread, k \in {"sfence", "mfence"} : act' = Append(act, Action(u, k, NoLoc, Null, 0))
    BY <1>6 DEF SFence, MFence
  <2>2. a.kind = k
    BY <1>3, <2>1, IssueClocks DEF Issued, Action
  <2>3. UNCHANGED <<begin, lastsfence, obj_to_last_write>>
    BY <1>6 DEF SFence, MFence, mem
  <2> QED  BY <1>2, <1>3, <2>2, <2>3 DEF Remembers, Ordering, IsCacheOp
<1>7. CASE (\E u \in Thread, l \in Loc : Read(u, l)) \/ CASFail
  <2>1. PICK u, l : act' = Append(act, Action(u, "read", l, Null, used + 1))
    BY <1>7 DEF Read, CASFail
  <2>2. a.kind = "read"
    BY <1>3, <2>1, IssueClocks DEF Issued, Action
  <2>3. UNCHANGED <<begin, lastsfence, obj_to_last_write>>
    BY <1>7 DEF Read, CASFail
  <2> QED  BY <1>2, <1>3, <2>2, <2>3 DEF Remembers, Ordering, IsCacheOp
<1>8. CASE \E v \in Value : RMWWrite(v)
  <2>1. PICK v \in Value : RMWWrite(v)
    BY <1>8
  <2>2. act' = Append(act, Action(rmw.tid, "rmw", rmw.loc, v, used + 1))
    BY <2>1 DEF RMWWrite
  <2>3. a.kind = "rmw" /\ a.loc = rmw.loc /\ a.tid = rmw.tid
    BY <1>3, <2>2, IssueClocks DEF Issued, Action
  <2>4. rmw.loc \in Loc
    BY <2>1 DEF RMWWrite, TypeOK, ControlOK
  <2>5. /\ obj_to_last_write' = [obj_to_last_write EXCEPT ![rmw.tid][getCacheID(rmw.loc)] = new]
        /\ UNCHANGED <<begin, lastsfence>>
    BY <2>1 DEF RMWWrite
  <2> QED  BY <1>2, <1>3, <2>3, <2>4, <2>5 DEF Remembers, Ordering, IsCacheOp
<1> QED  BY <1>4, <1>5, <1>6, <1>7, <1>8

\* A step that issues nothing leaves obj_to_last_write alone.
LEMMA LastWritesKept ==
  ASSUME TypeOK, Grows, LastWrites, Acts' = Acts, Len(act') = Len(act),
         UNCHANGED obj_to_last_write
  PROVE  LastWrites'
<1> SUFFICES ASSUME NEW t \in Thread, NEW l \in Line
             PROVE  IsLastWrite(obj_to_last_write[t][l], new, t, l)'
  BY DEF LastWrites
<1> QED  BY DEF LastWrites, IsLastWrite, WritesTo, Grows, new

LEMMA LastWritesIssued ==
  ASSUME TypeOK, Grows, LastWrites, NEW t \in Thread, NEW a, Issues(t, a), Remembers(t, a)
  PROVE  LastWrites'
<1> DEFINE n == Len(act) + 1
<1>1. /\ Acts' = Acts \cup {n} /\ act'[n] = a /\ a.tid = t /\ n \in Nat /\ Len(act') = n
      /\ \A i \in Acts : i < n /\ i \in Nat /\ act'[i] = act[i]
  BY DEF Issues, Issued, Acts, new
<1>2. obj_to_last_write \in [Thread -> [Line -> Nat]]
  <2>1. obj_to_last_write \in [Thread -> [Line -> 0 .. Len(act)]]
    BY DEF TypeOK, IndicesOK
  <2>2. \A f \in [Line -> 0 .. Len(act)] : f \in [Line -> Nat]
    OBVIOUS
  <2> QED  BY <2>1, <2>2
<1> SUFFICES ASSUME NEW u \in Thread, NEW l \in Line
             PROVE  /\ \/ obj_to_last_write'[u][l] = 0
                       \/ /\ obj_to_last_write'[u][l] \in Acts' /\ obj_to_last_write'[u][l] < n + 1
                          /\ act'[obj_to_last_write'[u][l]].kind \in Ordering
                          /\ act'[obj_to_last_write'[u][l]].tid = u
                          /\ getCacheID(act'[obj_to_last_write'[u][l]].loc) = l
                    /\ \A w \in Acts' : /\ act'[w].kind \in Ordering /\ act'[w].tid = u
                                        /\ getCacheID(act'[w].loc) = l
                                        => w =< obj_to_last_write'[u][l]
  BY <1>1 DEF LastWrites, IsLastWrite, WritesTo, Ordering, new
<1>3. /\ obj_to_last_write[u][l] \in Nat
      /\ \/ obj_to_last_write[u][l] = 0
         \/ /\ obj_to_last_write[u][l] \in Acts
            /\ act[obj_to_last_write[u][l]].kind \in Ordering
            /\ act[obj_to_last_write[u][l]].tid = u
            /\ getCacheID(act[obj_to_last_write[u][l]].loc) = l
      /\ \A w \in Acts : act[w].kind \in Ordering /\ act[w].tid = u /\ getCacheID(act[w].loc) = l
                           => w =< obj_to_last_write[u][l]
  BY <1>1, <1>2 DEF LastWrites, IsLastWrite, WritesTo, Ordering, new
<1>4. CASE a.kind \in Ordering /\ u = t /\ l = getCacheID(a.loc)
  <2>1. obj_to_last_write'[u][l] = n
    BY <1>2, <1>4 DEF Remembers, new
  <2> HIDE DEF n
  <2> QED  BY <1>1, <1>4, <2>1
<1>5. CASE ~(a.kind \in Ordering /\ u = t /\ l = getCacheID(a.loc))
  <2>1. obj_to_last_write'[u][l] = obj_to_last_write[u][l]
    BY <1>2, <1>5 DEF Remembers
  <2> HIDE DEF n
  <2> QED  BY <1>1, <1>3, <1>5, <2>1
<1> QED  BY <1>4, <1>5

\* An action remembers the last write before it for good.
LEMMA IsLastWriteStays ==
  ASSUME TypeOK, Grows, NEW f \in Acts, Acts' = Acts \/ (Acts' = Acts \cup {new} /\ f < new),
         NEW t, NEW l, NEW o, IsLastWrite(o, f, t, l)
  PROVE  IsLastWrite(o, f, t, l)'
<1>1. \A w \in Acts' : w < f => w \in Acts
  <2> SUFFICES ASSUME NEW w \in Acts', w < f, w \notin Acts PROVE FALSE
    OBVIOUS
  <2>1. w = new /\ f < new
    OBVIOUS
  <2>2. w \in Nat /\ f \in Nat
    BY DEF Grows
  <2> QED  BY <2>1, <2>2
<1> QED  BY <1>1 DEF IsLastWrite, WritesTo, Grows

\* What the store buffers and the record of sfences do in one step.
LEMMA StoreBufferSteps ==
  ASSUME Control, Order, [Next]_vars, NEW t \in Thread
  PROVE  \/ /\ lastsfence'[t] = lastsfence[t]
            /\ In(sb'[t]) \subseteq In(sb[t]) \cup {new}
         \/ /\ t = cur /\ sb[t] # <<>> /\ lastsfence'[t] = Head(sb[t])
            /\ act[Head(sb[t])].kind = "sfence"
            /\ \A i \in In(sb'[t]) : Head(sb[t]) < i
<1>1. /\ TypeOK /\ sb \in [Thread -> Seq(Acts)] /\ Acts \subseteq Nat
      /\ lastsfence \in [Thread -> 0 .. Len(act)] /\ Ascending(sb[t])
  BY BufferSeqs DEF Control, TypeOK, BuffersOK, IndicesOK, Order, Ordered
<1>2. \A u \in Thread : sb[u] # <<>> => In(Tail(sb[u])) \subseteq In(sb[u])
  <2> SUFFICES ASSUME NEW u \in Thread, sb[u] # <<>> PROVE In(Tail(sb[u])) \subseteq In(sb[u])
    OBVIOUS
  <2>1. sb[u] \in Seq(Acts) /\ Ascending(sb[u])
    BY <1>1 DEF Order, Ordered
  <2> QED  BY <1>1, <2>1, AscendingTail
<1>3. CASE EvictSFence
  <2>1. /\ cur \in Thread /\ sb[cur] # <<>> /\ sb' = [sb EXCEPT ![cur] = Tail(@)]
        /\ lastsfence' = [lastsfence EXCEPT ![cur] = Head(sb[cur])]
        /\ act[Head(sb[cur])].kind = "sfence"
    BY <1>1, <1>3 DEF EvictSFence, Draining, Pop, head, TypeOK, ControlOK
  <2>2. CASE t = cur
    <3>1. \A x \in In(Tail(sb[t])) : Head(sb[t]) < x
      BY <1>1, <2>1, <2>2, AscendingTail
    <3> QED  BY <1>1, <2>1, <2>2, <3>1
  <2>3. CASE t # cur
    BY <1>1, <2>1, <2>3
  <2> QED  BY <2>2, <2>3
<1>4. CASE lastsfence' = lastsfence /\ In(sb'[t]) \subseteq In(sb[t])
  BY <1>4
<1>5. CASE Issue
  <2>1. ASSUME NEW u \in Thread, NEW a, Issues(u, a), Remembers(u, a) 
        PROVE  lastsfence' = lastsfence /\ In(sb'[t]) \subseteq In(sb[t]) \cup {new}
    <3>1. sb'[t] = sb[t] \/ sb'[t] = Append(sb[t], new)
      BY <1>1, <2>1 DEF Issues
    <3>2. In(Append(sb[t], new)) \subseteq In(sb[t]) \cup {new}
      <4> DEFINE s == sb[t]
      <4>1. s \in Seq(Acts)
        BY <1>1
      <4> HIDE DEF s, new
      <4>2. \A k \in DOMAIN Append(s, new) : (k \in DOMAIN s /\ Append(s, new)[k] = s[k]) \/ Append(s, new)[k] = new
        BY <4>1
      <4>3. In(Append(s, new)) \subseteq In(s) \cup {new}
        BY <4>2 DEF In
      <4> QED  BY <4>3 DEF s
    <3> QED  BY <2>1, <3>1, <3>2 DEF Remembers
  <2>2. CASE \/ \E w \in Word : EnsureInitialValue(w)
             \/ \E u \in Thread, l \in Loc : RMWRead(u, l)
             \/ \E u \in Thread, n \in 1 .. (EvictMax - 1) : EvictRandom(u, n)
             \/ Finish
    <3>1. UNCHANGED <<sb, lastsfence>>
      BY <2>2 DEF EnsureInitialValue, RMWRead, EvictRandom, Finish, bufs
    <3> QED  BY <1>4, <3>1
  <2>3. ASSUME \E u \in Thread : \E a : Issues(u, a) /\ Remembers(u, a)
        PROVE  lastsfence' = lastsfence /\ In(sb'[t]) \subseteq In(sb[t]) \cup {new}
    BY <2>1, <2>3
  <2> QED  BY <1>1, <1>5, <2>2, <2>3, IssueRemembers DEF Issue
<1>6. CASE EvictStore \/ EvictClflush \/ EvictFlushOpt \/ CrashInStoreBuffer
  <2>1. cur \in Thread /\ sb[cur] # <<>> /\ sb' = [sb EXCEPT ![cur] = Tail(@)] /\ lastsfence' = lastsfence
    BY <1>1, <1>6 DEF EvictStore, EvictClflush, EvictFlushOpt, CrashInStoreBuffer, Draining, Pop,
       TypeOK, ControlOK
  <2>2. In(sb'[t]) \subseteq In(sb[t])
    BY <1>1, <1>2, <2>1
  <2> QED  BY <1>4, <2>1, <2>2
<1>7. CASE \E u \in Thread : FreeActions(u)
  <2>1. PICK u \in Thread : sb' = [sb EXCEPT ![u] = <<>>] /\ lastsfence' = lastsfence
    BY <1>7 DEF FreeActions
  <2>2. In(sb'[t]) \subseteq In(sb[t])
    BY <1>1, <2>1 DEF In
  <2> QED  BY <1>4, <2>1, <2>2
<1>8. CASE \/ FlushForSFence \/ FlushNext \/ StoreBufferEmptied \/ PopsDone \/ CrashInFlushBuffer
           \/ FlushedAfterCrash \/ FlushBufferEmptied \/ DoCrash \/ Terminated \/ UNCHANGED vars
  <2>1. UNCHANGED <<sb, lastsfence>>
    BY <1>8 DEF FlushForSFence, FlushNext, Flush, StoreBufferEmptied, PopsDone, CrashInFlushBuffer,
       FlushedAfterCrash, FlushBufferEmptied, DoCrash, Terminated, bufs, vars
  <2> QED  BY <1>4, <2>1
<1> QED  BY <1>3, <1>5, <1>6, <1>7, <1>8 DEF Next, Drain

LEMMA LastSFencesNext ==
  ASSUME Control, Control', Order, Grows, LastSFences, [Next]_vars
  PROVE  LastSFences'
<1> SUFFICES ASSUME NEW t \in Thread
             PROVE  /\ \/ lastsfence'[t] = 0
                       \/ act'[lastsfence'[t]].kind = "sfence" /\ act'[lastsfence'[t]].tid = t
                    /\ \A i \in In(sb'[t]) : lastsfence'[t] < i
  BY DEF LastSFences
<1>1. /\ TypeOK /\ lastsfence[t] \in 0 .. Len(act) /\ Len(act) \in Nat /\ Acts = 1 .. Len(act)
      /\ \/ lastsfence[t] = 0
         \/ act[lastsfence[t]].kind = "sfence" /\ act[lastsfence[t]].tid = t
      /\ \A i \in In(sb[t]) : lastsfence[t] < i
  BY DEF Control, TypeOK, IndicesOK, ActsOK, Acts, LastSFences
<1>2. CASE /\ lastsfence'[t] = lastsfence[t]
           /\ In(sb'[t]) \subseteq In(sb[t]) \cup {new}
  <2>1. lastsfence[t] < new
    BY <1>1 DEF new
  <2>2. lastsfence[t] = 0 \/ lastsfence[t] \in Acts
    BY <1>1
  <2> HIDE DEF new
  <2> QED  BY <1>1, <1>2, <2>1, <2>2 DEF Grows
<1>3. CASE /\ t = cur /\ sb[t] # <<>> /\ lastsfence'[t] = Head(sb[t])
           /\ act[Head(sb[t])].kind = "sfence"
           /\ \A i \in In(sb'[t]) : Head(sb[t]) < i
  <2>1. Head(sb[t]) \in In(sb[t])
    BY <1>1, <1>3, HeadOrTail
  <2>2. Head(sb[t]) \in Acts /\ act[Head(sb[t])].tid = t
    BY <1>1, <2>1, BufferSeqs DEF Order, Pending, Waits
  <2> QED  BY <1>3, <2>2 DEF Grows
<1> QED  BY <1>2, <1>3, StoreBufferSteps

\* An evicted clflushopt learns the clock of its thread's last sfence.
LEMMA LastFlushSteps ==
  ASSUME Control, Order, [Next]_vars, NEW f \in Acts
  PROVE  \/ act'[f].last_clflush = act[f].last_clflush
         \/ /\ cur \in Thread /\ act[f].tid = cur /\ f \in In(sb[cur]) /\ lastsfence[cur] # 0
            /\ act'[f].last_clflush = SeqNumOf(lastsfence[cur])
<1>1. TypeOK /\ act \in Seq(ModelAction) /\ \A i \in Acts : act[i] \in ModelAction
  BY DEF Control, TypeOK, ActsOK, Acts
<1>2. CASE act' = act
  BY <1>2
<1>3. CASE \E i : act' = [act EXCEPT ![i].seq = used + 1]
  <2>1. PICK i : act' = [act EXCEPT ![i].seq = used + 1]
    BY <1>3
  <2>2. act'[f] = IF f = i THEN [act[f] EXCEPT !.seq = used + 1] ELSE act[f]
    BY <1>1, <2>1 DEF Acts
  <2> QED  BY <1>1, <2>2 DEF ModelAction
<1>4. CASE \E a : act' = Append(act, a)
  <2>1. PICK a : act' = Append(act, a)
    BY <1>4
  <2>2. act'[f] = act[f]
    BY <1>1, <2>1, IssueClocks DEF Issued
  <2> QED  BY <2>2
<1>5. CASE EvictFlushOpt /\ act' # act
  <2>1. /\ cur \in Thread /\ sb[cur] # <<>> /\ lastsfence[cur] # 0
        /\ act' = [act EXCEPT ![Head(sb[cur])].last_clflush = SeqNumOf(lastsfence[cur])]
    BY <1>1, <1>5 DEF EvictFlushOpt, Draining, head, TypeOK, ControlOK
  <2>2. PICK c : c = SeqNumOf(lastsfence[cur])
    OBVIOUS
  <2>3. PICK h : h = Head(sb[cur])
    OBVIOUS
  <2>4. act'[f] = IF f = h THEN [act[f] EXCEPT !.last_clflush = c] ELSE act[f]
    BY <1>1, <2>1, <2>2, <2>3 DEF Acts
  <2>5. h \in In(sb[cur])
    BY <1>1, <2>1, <2>3, HeadOrTail
  <2>6. CASE f = h
    <3>1. act[f].tid = cur
      BY <1>1, <2>1, <2>5, <2>6 DEF Order, Pending, Waits
    <3>2. act'[f].last_clflush = c
      BY <1>1, <2>4, <2>6 DEF ModelAction
    <3> QED  BY <2>1, <2>2, <2>5, <2>6, <3>1, <3>2
  <2>7. CASE f # h
    BY <2>4, <2>7
  <2> QED  BY <2>6, <2>7
<1>6. CASE Issue
  <2>1. act' = act \/ \E a : act' = Append(act, a)
    BY <1>6, ZenonT(60) DEF Issue, EnsureInitialValue, Write, CacheOp, SFence, MFence, Read, RMWRead, RMWWrite,
       CASFail, EvictRandom, Finish
  <2> QED  BY <1>2, <1>4, <2>1
<1>7. CASE Drain /\ ~EvictFlushOpt
  <2>1. act' = act \/ \E i : act' = [act EXCEPT ![i].seq = used + 1]
    BY <1>7 DEF Drain, EvictStore, EvictClflush, FlushForSFence, EvictSFence,
       CrashInStoreBuffer, StoreBufferEmptied, PopsDone, FlushNext, Flush, evictCacheOp, Commit,
       CrashInFlushBuffer, FlushedAfterCrash, FlushBufferEmptied, FreeActions, DoCrash
  <2> QED  BY <1>2, <1>3, <2>1
<1>8. CASE Terminated \/ UNCHANGED vars
  BY <1>2, <1>8 DEF Terminated, vars
<1> QED  BY <1>2, <1>5, <1>6, <1>7, <1>8 DEF Next

LEMMA FlushMemoryNext ==
  ASSUME Control, Control', Order, Grows, LastWrites, LastSFences, FlushMemory, [Next]_vars
  PROVE  FlushMemory'
<1>1. /\ TypeOK /\ used \in Nat /\ used' \in Nat /\ used =< used'
      /\ Len(act) \in Nat /\ Acts = 1 .. Len(act)
  <2>1. TypeOK /\ TypeOK'
    BY DEF Control
  <2>2. used' = used \/ used' = used + 1
    BY <2>1, NextShape DEF SameClocks, TakesEffect, Issues
  <2> QED  BY <2>1, <2>2 DEF TypeOK, CountersOK, ActsOK, Acts
<1>2. ASSUME NEW f \in Acts, IsCacheOp(act'[f])
      PROVE  /\ act'[f].issued = act'[f].lastcommittedWrite /\ act'[f].issued =< used'
             /\ \/ act'[f].last_clflush = ValueNone
                \/ \E o \in Acts' : /\ o < f /\ act'[o].tid = act'[f].tid /\ act'[o].kind = "sfence"
                                    /\ act'[f].last_clflush =< act'[o].seq
  <2>1. /\ IsCacheOp(act[f]) /\ act'[f].tid = act[f].tid
        /\ act[f].issued = act[f].lastcommittedWrite /\ act[f].issued =< used
        /\ act'[f].issued = act[f].issued /\ act'[f].lastcommittedWrite = act[f].lastcommittedWrite
    BY <1>2 DEF Grows, FlushMemory, IsCacheOp
  <2>2. act[f].lastcommittedWrite \in Nat /\ act[f].last_clflush \in Nat
    BY <1>1, ClockTypes DEF TypeOK
  <2>3. CASE act'[f].last_clflush = act[f].last_clflush
    <3>1. CASE act[f].last_clflush = ValueNone
      BY <1>1, <2>1, <2>2, <2>3, <3>1
    <3>2. CASE \E o \in Acts : /\ o < f /\ act[o].tid = act[f].tid /\ act[o].kind = "sfence"
                               /\ act[f].last_clflush =< act[o].seq
      <4>1. PICK o \in Acts : /\ o < f /\ act[o].tid = act[f].tid /\ act[o].kind = "sfence"
                              /\ act[f].last_clflush =< act[o].seq
        BY <3>2
      <4>2. /\ o \in Acts' /\ act'[o].tid = act'[f].tid /\ act'[o].kind = "sfence"
            /\ act[o].seq \in Nat /\ act'[o].seq \in Nat /\ act[o].seq =< act'[o].seq
        BY <2>1, <4>1 DEF Grows
      <4>3. act'[f].last_clflush =< act'[o].seq
        BY <2>2, <2>3, <4>1, <4>2
      <4> QED  BY <1>1, <2>1, <2>2, <4>1, <4>2, <4>3
    <3> QED  BY <2>1, <3>1, <3>2 DEF FlushMemory
  <2>4. CASE /\ cur \in Thread /\ act[f].tid = cur /\ f \in In(sb[cur]) /\ lastsfence[cur] # 0
             /\ act'[f].last_clflush = SeqNumOf(lastsfence[cur])
    <3>1. PICK o : o = lastsfence[cur]
      OBVIOUS
    <3>2. o \in Acts /\ o < f /\ act[o].kind = "sfence" /\ act[o].tid = cur
      <4>1. o \in 0 .. Len(act) /\ o # 0
        BY <1>1, <2>4, <3>1 DEF TypeOK, IndicesOK
      <4> QED  BY <1>1, <2>4, <3>1, <4>1 DEF LastSFences
    <3>3. act'[f].last_clflush = act[o].seq
      BY <2>4, <3>1 DEF SeqNumOf
    <3>4. /\ o \in Acts' /\ act'[o].tid = act'[f].tid /\ act'[o].kind = "sfence"
          /\ act[o].seq =< act'[o].seq
      BY <2>1, <2>4, <3>2 DEF Grows
    <3> QED  BY <1>1, <2>1, <2>2, <3>2, <3>3, <3>4
  <2> QED  BY <2>3, <2>4, LastFlushSteps
\* Old flushes.
<1>3. ASSUME NEW f \in Acts, IsCacheOp(act'[f]), Acts' = Acts \/ (Acts' = Acts \cup {new} /\ f < new)
      PROVE  IsLastWrite(act[f].lastwrite, f, act[f].tid, getCacheID(act[f].loc))'
  <2>1. IsLastWrite(act[f].lastwrite, f, act[f].tid, getCacheID(act[f].loc))
    BY <1>3 DEF Grows, FlushMemory, IsCacheOp
  <2>2. PICK o, t, l : o = act[f].lastwrite /\ t = act[f].tid /\ l = getCacheID(act[f].loc)
    OBVIOUS
  <2>3. IsLastWrite(o, f, t, l)'
    BY <1>1, <1>3, <2>1, <2>2, IsLastWriteStays
  <2>4. o = act'[f].lastwrite /\ t = act'[f].tid /\ l = getCacheID(act'[f].loc)
    BY <2>2 DEF Grows
  <2> QED  BY <2>3, <2>4
<1>4. CASE Acts' = Acts
  <2> SUFFICES ASSUME NEW f \in Acts, IsCacheOp(act'[f])
               PROVE  /\ act'[f].issued = act'[f].lastcommittedWrite /\ act'[f].issued =< used'
                      /\ IsLastWrite(act[f].lastwrite, f, act[f].tid, getCacheID(act[f].loc))'
                      /\ \/ act'[f].last_clflush = ValueNone
                         \/ \E o \in Acts' : /\ o < f /\ act'[o].tid = act'[f].tid /\ act'[o].kind = "sfence"
                                             /\ act'[f].last_clflush =< act'[o].seq
    BY <1>4 DEF FlushMemory
  <2> QED  BY <1>2, <1>3, <1>4
<1>5. ASSUME NEW t \in Thread, NEW a, Issues(t, a), Remembers(t, a) PROVE FlushMemory'
  <2>0. PICK n : n = new
    OBVIOUS
  <2>1. Acts' = Acts \cup {n} /\ act'[n] = a /\ a.tid = t /\ \A i \in Acts : i < n
    BY <1>1, <1>5, <2>0 DEF Issues, Issued, Acts
  <2>2. \A f \in Acts : f < new
    BY <1>1 DEF new
  <2>3. ASSUME IsCacheOp(a)
        PROVE  /\ a.issued = a.lastcommittedWrite /\ a.issued =< used' /\ a.last_clflush = ValueNone
               /\ IsLastWrite(a.lastwrite, n, a.tid, getCacheID(a.loc))'
    <3>1. a.issued = used /\ a.lastcommittedWrite = used /\ a.last_clflush = ValueNone
      BY <1>5, <2>3 DEF Remembers
    <3>2. PICK l \in Line : l = getCacheID(a.loc)
      BY <1>5, <2>3, LocTypes DEF Remembers
    <3>3. IsLastWrite(a.lastwrite, n, t, l)
      BY <1>5, <2>0, <2>3, <3>2 DEF Remembers, LastWrites
    <3>4. \A w \in Acts' : w < n => w \in Acts
      <4>1. \A w \in Acts' : w \in Nat
        BY DEF Grows
      <4> QED  BY <2>1, <4>1
    <3>5. PICK o : o = a.lastwrite
      OBVIOUS
    <3>6. IsLastWrite(o, n, t, l)'
      BY <3>3, <3>4, <3>5 DEF IsLastWrite, WritesTo, Grows
    <3>7. o = act'[n].lastwrite /\ t = act'[n].tid /\ l = getCacheID(act'[n].loc)
      BY <2>1, <3>2, <3>5
    <3> QED  BY <1>1, <2>1, <3>1, <3>6, <3>7
  <2>4. ASSUME NEW f \in Acts, IsCacheOp(act'[f])
        PROVE  IsLastWrite(act[f].lastwrite, f, act[f].tid, getCacheID(act[f].loc))'
    BY <1>3, <2>0, <2>1, <2>2, <2>4
  <2> SUFFICES ASSUME NEW f \in Acts', IsCacheOp(act'[f])
               PROVE  /\ act'[f].issued = act'[f].lastcommittedWrite /\ act'[f].issued =< used'
                      /\ IsLastWrite(act[f].lastwrite, f, act[f].tid, getCacheID(act[f].loc))'
                      /\ \/ act'[f].last_clflush = ValueNone
                         \/ \E o \in Acts' : /\ o < f /\ act'[o].tid = act'[f].tid /\ act'[o].kind = "sfence"
                                             /\ act'[f].last_clflush =< act'[o].seq
    BY DEF FlushMemory
  <2>5. CASE f \in Acts
    BY <1>2, <2>4, <2>5
  <2>6. CASE f = n
    BY <2>1, <2>3, <2>6
  <2> QED  BY <2>1, <2>5, <2>6
<1>6. Acts' = Acts \/ \E t \in Thread : \E a : Issues(t, a) /\ Remembers(t, a)
  <2>1. CASE Issue
    <3>1. CASE \/ \E w \in Word : EnsureInitialValue(w)
               \/ \E u \in Thread, l \in Loc : RMWRead(u, l)
               \/ \E u \in Thread, n \in 1 .. (EvictMax - 1) : EvictRandom(u, n)
               \/ Finish
      BY <3>1 DEF EnsureInitialValue, RMWRead, EvictRandom, Finish, Acts
    <3> QED  BY <1>1, <2>1, <3>1, IssueRemembers DEF Issue
  <2>2. CASE ~Issue
    <3>1. ~(\E t \in Thread : \E a : Issues(t, a)) \/ Acts' = Acts
      <4>1. \/ act' = act
            \/ \E i : act' = [act EXCEPT ![i].seq = used + 1]
            \/ \E i, c : act' = [act EXCEPT ![i].last_clflush = c]
        BY <2>2 DEF Next, Drain, EvictStore, EvictClflush, EvictFlushOpt, FlushForSFence, EvictSFence,
           CrashInStoreBuffer, StoreBufferEmptied, PopsDone, FlushNext, Flush, evictCacheOp, Commit,
           CrashInFlushBuffer, FlushedAfterCrash, FlushBufferEmptied, FreeActions, DoCrash,
           Terminated, vars
      <4> QED  BY <4>1 DEF Acts
    <3>2. (\E t \in Thread : \E a : Issues(t, a)) \/ Acts' = Acts
      BY <1>1, NextShape DEF SameClocks, TakesEffect, Acts
    <3> QED  BY <3>1, <3>2
  <2> QED  BY <2>1, <2>2
<1> QED  BY <1>4, <1>5, <1>6

\* The clock goes up by one when something takes effect, so no two share one.
LEMMA DistinctNext ==
  ASSUME TypeOK, Order, Distinct, [Next]_vars
  PROVE  Distinct'
<1>1. /\ used \in Nat /\ Len(act) \in Nat /\ Acts = 1 .. Len(act)
      /\ \A i \in Acts : act[i].seq \in Nat /\ act[i].seq =< used /\ act[i].seq # used + 1
  <2>1. used \in Nat /\ Len(act) \in Nat /\ Acts = 1 .. Len(act)
    BY DEF TypeOK, CountersOK, ActsOK, Acts
  <2>2. \A i \in Acts : act[i].seq \in Nat /\ act[i].seq =< used
    BY ClockTypes DEF TypeOK, Order, Clocks
  <2>3. \A i \in Acts : act[i].seq # used + 1
    BY <2>1, <2>2
  <2> QED  BY <2>1, <2>2, <2>3
<1>2. CASE SameClocks
  BY <1>2 DEF Distinct, SameClocks, Acts
<1>3. ASSUME NEW n \in Acts, TakesEffect(n) PROVE Distinct'
  <2>1. \A i \in Acts : act'[i].seq = IF i = n THEN used + 1 ELSE act[i].seq
    BY <1>3 DEF TakesEffect
  <2> QED  BY <1>1, <1>3, <2>1 DEF Distinct, TakesEffect, Acts
<1>4. ASSUME NEW t \in Thread, NEW a, Issues(t, a) PROVE Distinct'
  <2>0. PICK n : n = new
    OBVIOUS
  <2>1. /\ Acts' = Acts \cup {n} /\ act'[n] = a /\ n \notin Acts /\ \A i \in Acts : act'[i] = act[i]
        /\ a.seq = 0 \/ a.seq = used + 1
    BY <1>1, <1>4, <2>0 DEF Issues, Issued, Acts
  <2> QED  BY <1>1, <2>1 DEF Distinct
<1> QED  BY <1>2, <1>3, <1>4, NextShape

\* A clflushopt goes to the flush buffer behind everything that was before it.
LEMMA FlushOptsFollowNext ==
  ASSUME Control, Order, NoneDropped, Grows, FlushOptsFollow, [Next]_vars
  PROVE  FlushOptsFollow'
<1>1. /\ TypeOK /\ fb \in [Thread -> Seq(Acts)]
      /\ Acts' = Acts \/ (Acts' = Acts \cup {new} /\ \A i \in Acts : i < new)
  <2>1. TypeOK /\ fb \in [Thread -> Seq(Acts)]
    BY DEF Control, TypeOK, BuffersOK
  <2>2. ASSUME NEW a, Issued(a) PROVE Acts' = Acts \cup {new} /\ \A i \in Acts : i < new
    BY <2>2 DEF Issued, Acts
  <2>3. SameClocks \/ (\E n \in Acts : TakesEffect(n)) \/ \E a : Issued(a)
    BY <2>1, NextShape DEF Issues
  <2>4. CASE SameClocks \/ \E n \in Acts : TakesEffect(n)
    BY <2>1, <2>4 DEF SameClocks, TakesEffect, Acts
  <2> QED  BY <2>1, <2>2, <2>3, <2>4
<1>2. ASSUME NEW t \in Thread, NEW f \in Acts, NoneBefore(t, f) PROVE NoneBefore(t, f)'
  <2> SUFFICES ASSUME NEW i \in Acts', i < f, act'[i].tid = t, act'[i].kind \in Fifo
               PROVE  act'[i].seq # 0
    BY DEF NoneBefore
  <2>1. i \in Acts
    <3> SUFFICES ASSUME i = new, f < new PROVE FALSE
      BY <1>1
    <3>1. i \in Nat /\ f \in Nat
      BY DEF Grows
    <3> QED  BY <3>1
  <2> QED  BY <1>2, <2>1 DEF NoneBefore, Grows
<1>3. \A t \in Thread : In(fb[t]) \subseteq Acts
  BY <1>1, BufferSeqs
<1>4. ASSUME \A t \in Thread : In(fb'[t]) \subseteq In(fb[t]) PROVE FlushOptsFollow'
  <2> SUFFICES ASSUME NEW t \in Thread, NEW f \in In(fb'[t]) PROVE NoneBefore(t, f)'
    BY DEF FlushOptsFollow
  <2> QED  BY <1>2, <1>3, <1>4 DEF FlushOptsFollow
<1>5. CASE EvictFlushOpt
  <2>0. PICK h : h = Head(sb[cur])
    OBVIOUS
  <2>1. /\ cur \in Thread /\ sb[cur] # <<>> /\ phase = "sb" /\ ~hasCrashed
        /\ fb' = [fb EXCEPT ![cur] = Append(@, h)] /\ h = head
    BY <1>1, <1>5, <2>0 DEF EvictFlushOpt, Draining, head, TypeOK, ControlOK, Control, CrashControl
  <2>2. h \in Acts /\ NoneBefore(cur, h)
    BY <1>1, <2>1, HeadIsFirst
  <2>3. \A t \in Thread : \A f \in In(fb'[t]) : f \in In(fb[t]) \/ (t = cur /\ f = h)
    <3>1. ASSUME NEW s \in Seq(Acts) PROVE \A x \in In(Append(s, h)) : x \in In(s) \/ x = h
      <4>1. \A k \in DOMAIN Append(s, h) : (k \in DOMAIN s /\ Append(s, h)[k] = s[k]) \/ Append(s, h)[k] = h
        OBVIOUS
      <4> QED  BY <4>1 DEF In
    <3>2. \A t \in Thread : fb[t] \in Seq(Acts) /\ (fb'[t] = fb[t] \/ (t = cur /\ fb'[t] = Append(fb[t], h)))
      BY <1>1, <2>1
    <3> QED  BY <3>1, <3>2
  <2> SUFFICES ASSUME NEW t \in Thread, NEW f \in In(fb'[t]) PROVE NoneBefore(t, f)'
    BY DEF FlushOptsFollow
  <2>4. CASE f \in In(fb[t])
    BY <1>2, <1>3, <2>4 DEF FlushOptsFollow
  <2>5. CASE t = cur /\ f = h
    BY <1>2, <2>2, <2>5
  <2> QED  BY <2>3, <2>4, <2>5
<1>6. CASE FlushForSFence \/ FlushNext \/ CrashInFlushBuffer \/ CrashInStoreBuffer
  <2>1. cur \in Thread /\ (fb' = fb \/ (fb[cur] # <<>> /\ fb' = [fb EXCEPT ![cur] = Tail(@)]))
    BY <1>1, <1>6 DEF FlushForSFence, FlushNext, Flush, CrashInFlushBuffer, CrashInStoreBuffer,
       Draining, TypeOK, ControlOK
  <2>2. fb[cur] # <<>> => In(Tail(fb[cur])) \subseteq In(fb[cur])
    <3>1. fb[cur] \in Seq(Acts) /\ Ascending(fb[cur]) /\ Acts \subseteq Nat
      BY <2>1, <1>1, BufferSeqs DEF Order, Ordered
    <3> QED  BY <3>1, AscendingTail
  <2> QED  BY <1>1, <1>4, <2>1, <2>2
<1>7. CASE \E t \in Thread : FreeActions(t)
  <2>1. PICK t \in Thread : fb' = [fb EXCEPT ![t] = <<>>]
    BY <1>7 DEF FreeActions
  <2> QED  BY <1>1, <1>4, <2>1 DEF In
<1>8. CASE fb' = fb
  BY <1>4, <1>8
<1>9. CASE Issue
  <2>1. CASE \/ \E w \in Word : EnsureInitialValue(w)
             \/ \E u \in Thread, l \in Loc : RMWRead(u, l)
             \/ \E u \in Thread, n \in 1 .. (EvictMax - 1) : EvictRandom(u, n)
             \/ Finish
    <3>1. fb' = fb
      BY <2>1 DEF EnsureInitialValue, RMWRead, EvictRandom, Finish, bufs
    <3> QED  BY <1>8, <3>1
  <2>2. CASE \E t \in Thread : \E a : Issues(t, a)
    <3>1. fb' = fb
      BY <2>2 DEF Issues
    <3> QED  BY <1>8, <3>1
  <2> QED  BY <1>1, <1>9, <2>1, <2>2, IssueShape DEF Issue
<1>10. CASE EvictStore \/ EvictClflush \/ EvictSFence \/ StoreBufferEmptied \/ PopsDone
            \/ FlushedAfterCrash \/ FlushBufferEmptied \/ DoCrash \/ Terminated \/ UNCHANGED vars
  BY <1>8, <1>10 DEF EvictStore, EvictClflush, EvictSFence, StoreBufferEmptied, PopsDone,
     FlushedAfterCrash, FlushBufferEmptied, DoCrash, Terminated, bufs, vars
<1> QED  BY <1>5, <1>6, <1>7, <1>9, <1>10 DEF Next, Drain

LEMMA LastWritesNext ==
  ASSUME Control, Control', Order, Grows, LastWrites, [Next]_vars
  PROVE  LastWrites'
<1>1. TypeOK /\ TypeOK' /\ act \in Seq(ModelAction) /\ act' \in Seq(ModelAction)
  BY DEF Control, TypeOK, ActsOK
<1>2. CASE Issue
  <2>1. ASSUME NEW t \in Thread, NEW a, Issues(t, a), Remembers(t, a) PROVE LastWrites'
    BY <1>1, <2>1, LastWritesIssued
  <2>2. CASE \/ \E w \in Word : EnsureInitialValue(w)
             \/ \E t \in Thread, l \in Loc : RMWRead(t, l)
             \/ \E t \in Thread, n \in 1 .. (EvictMax - 1) : EvictRandom(t, n)
             \/ Finish
    <3>1. UNCHANGED <<act, obj_to_last_write>>
      BY <2>2 DEF EnsureInitialValue, RMWRead, EvictRandom, Finish
    <3>2. Acts' = Acts /\ Len(act') = Len(act)
      BY <3>1 DEF Acts
    <3> QED  BY <1>1, <3>1, <3>2, LastWritesKept
  <2> QED  BY <1>1, <1>2, <2>1, <2>2, IssueRemembers DEF Issue
<1>3. CASE Drain \/ Terminated \/ UNCHANGED vars
  <2>1. \/ act' = act
        \/ \E i : act' = [act EXCEPT ![i].seq = used + 1]
        \/ \E i, c : act' = [act EXCEPT ![i].last_clflush = c]
    BY <1>3 DEF Drain, EvictStore, EvictClflush, EvictFlushOpt, FlushForSFence, EvictSFence,
       CrashInStoreBuffer, StoreBufferEmptied, PopsDone, FlushNext, Flush, evictCacheOp, Commit,
       CrashInFlushBuffer, FlushedAfterCrash, FlushBufferEmptied, FreeActions, DoCrash,
       Terminated, vars
  <2>2. UNCHANGED obj_to_last_write
    BY <1>3 DEF Drain, EvictStore, EvictClflush, EvictFlushOpt, FlushForSFence, EvictSFence,
       CrashInStoreBuffer, StoreBufferEmptied, PopsDone, FlushNext, Flush,
       CrashInFlushBuffer, FlushedAfterCrash, FlushBufferEmptied, FreeActions, DoCrash,
       Terminated, vars
  <2>3. Acts' = Acts /\ Len(act') = Len(act)
    BY <1>1, <2>1 DEF Acts
  <2> QED  BY <1>1, <2>2, <2>3, LastWritesKept
<1> QED  BY <1>2, <1>3 DEF Next

\* Memory is an invariant.
MemoryInv == Control /\ Order /\ NoneDropped /\ StoreOrder /\ Memory

LEMMA MemoryInit == Init => MemoryInv
<1> SUFFICES ASSUME Init PROVE NoneDropped /\ StoreOrder /\ Memory
  BY ControlInit, OrderInit DEF MemoryInv
<1>1. Acts = {} /\ In(<<>>) = {}
  BY DEF Init, Acts, In
<1>2. NoneDropped /\ StoreOrder
  BY <1>1 DEF Init, NoneDropped, StoreOrder
<1>3. LastWrites
  BY <1>1 DEF Init, LastWrites, IsLastWrite
<1>4. LastSFences /\ FlushMemory /\ FlushOptsFollow /\ Distinct
  BY <1>1 DEF Init, LastSFences, FlushMemory, FlushOptsFollow, Distinct
<1> QED  BY <1>2, <1>3, <1>4 DEF Memory

LEMMA MemoryNext ==
  ASSUME MemoryInv, [Next]_vars
  PROVE  MemoryInv' /\ Grows
<1>1. Control' /\ Order' /\ NoneDropped' /\ StoreOrder'
  BY ControlNext, OrderNext, NoneDroppedNext, StoreOrderNext DEF MemoryInv, Control
<1>2. Grows
  BY <1>1, TraceGrows DEF MemoryInv, Control
<1>3. LastWrites' /\ LastSFences' /\ FlushMemory' /\ FlushOptsFollow' /\ Distinct'
  BY <1>1, <1>2, LastWritesNext, LastSFencesNext, FlushMemoryNext, FlushOptsFollowNext, DistinctNext
     DEF MemoryInv, Memory, Control
<1> QED  BY <1>1, <1>2, <1>3 DEF MemoryInv, Memory

-------------------------------------------------------------------------------
(* What a flush that takes effect does to its line.                        *)

FlushStep(f) ==
  /\ f \in Acts /\ act[f].seq = 0 /\ IsCacheOp(act[f]) /\ act[f].loc \in Loc
  /\ TakesEffect(f) /\ NoneBefore(act[f].tid, f)
  /\ begin' = [begin EXCEPT ![getCacheID(act[f].loc)] =
                 persistCacheLine(f, getCacheID(act[f].loc), used + 1)]

\* Only a flush that takes effect touches a line.
LEMMA BeginSteps ==
  ASSUME MemoryInv, [Next]_vars
  PROVE  \/ SameClocks /\ begin' = begin
         \/ \E n \in Acts : act[n].seq = 0 /\ TakesEffect(n) /\ ~IsCacheOp(act[n]) /\ begin' = begin
         \/ \E f : FlushStep(f)
         \/ \E t \in Thread : \E a : Issues(t, a) /\ Remembers(t, a)
<1>1. TypeOK /\ Order
  BY DEF MemoryInv, Control
<1>2. ASSUME NEW f \in Acts, act[f].seq = 0, IsCacheOp(act[f]), evictCacheOp(f),
             NoneBefore(act[f].tid, f)
      PROVE  FlushStep(f)
  <2>1. act[f].loc \in Loc
    BY <1>1, <1>2 DEF TypeOK, ActsOK, IsCacheOp
  <2>2. TakesEffect(f)
    BY <1>1, <1>2, CommitClocks DEF evictCacheOp
  <2> QED  BY <1>2, <2>1, <2>2 DEF FlushStep, evictCacheOp
<1>3. CASE EvictClflush
  <2>1. /\ cur \in Thread /\ sb[cur] # <<>> /\ phase = "sb" /\ ~hasCrashed /\ evictCacheOp(head)
        /\ act[head].kind = "clflush"
    BY <1>1, <1>3 DEF EvictClflush, Draining, TypeOK, ControlOK, MemoryInv, Control, CrashControl
  <2>2. head \in Acts /\ act[head].seq = 0 /\ act[head].tid = cur /\ NoneBefore(cur, head)
    BY <1>1, <2>1, HeadIsFirst DEF MemoryInv
  <2> QED  BY <1>2, <2>1, <2>2 DEF IsCacheOp
<1>4. CASE FlushForSFence \/ FlushNext
  <2>0. PICK f : f = Head(fb[cur])
    OBVIOUS
  <2>1. cur \in Thread /\ fb[cur] # <<>> /\ evictCacheOp(f)
    BY <1>1, <1>4, <2>0 DEF FlushForSFence, FlushNext, Flush, Draining, TypeOK, ControlOK
  <2>2. f \in In(fb[cur])
    BY <1>1, <2>0, <2>1, HeadOrTail
  <2>3. f \in Acts /\ act[f].seq = 0 /\ act[f].tid = cur /\ act[f].kind = "clflushopt"
    BY <1>1, <2>1, <2>2, BufferSeqs DEF Order, Pending, Waits
  <2>4. NoneBefore(cur, f)
    BY <2>1, <2>2 DEF MemoryInv, Memory, FlushOptsFollow
  <2> QED  BY <1>2, <2>1, <2>3, <2>4 DEF IsCacheOp
<1>5. CASE EvictStore \/ EvictSFence
  <2>1. /\ cur \in Thread /\ sb[cur] # <<>> /\ phase = "sb" /\ ~hasCrashed /\ Commit(head)
        /\ ~IsCacheOp(act[head]) /\ begin' = begin
    BY <1>1, <1>5 DEF EvictStore, EvictSFence, Draining, TypeOK, ControlOK, MemoryInv, Control,
       CrashControl, IsCacheOp, IsWrite
  <2>2. head \in Acts /\ act[head].seq = 0
    BY <1>1, <2>1, HeadIsFirst DEF MemoryInv
  <2> QED  BY <1>1, <2>1, <2>2, CommitClocks
<1>6. CASE FlushBufferEmptied /\ job = "fence"
  <2>0. PICK m : m = Len(act)
    OBVIOUS
  <2>1. m \in Acts /\ Commit(m) /\ begin' = begin /\ act[m].kind = "mfence" /\ act[m].seq = 0
    <3>1. act \in Seq(ModelAction) /\ m > 0
      BY <1>1, <1>6, <2>0 DEF FlushBufferEmptied, TypeOK, ActsOK, ControlOK
    <3>2. m \in Acts
      BY <2>0, <3>1 DEF Acts
    <3> QED  BY <1>1, <1>6, <2>0, <3>2 DEF FlushBufferEmptied, Order, FencePending
  <2> QED  BY <1>1, <2>1, CommitClocks DEF IsCacheOp
<1>7. CASE \/ CrashInStoreBuffer \/ CrashInFlushBuffer \/ FlushedAfterCrash \/ StoreBufferEmptied
           \/ PopsDone \/ (FlushBufferEmptied /\ job # "fence")
           \/ (\E t \in Thread : FreeActions(t)) \/ DoCrash \/ Finish
           \/ (\E w \in Word : EnsureInitialValue(w))
           \/ (\E t \in Thread, l \in Loc : RMWRead(t, l))
           \/ (\E t \in Thread, n \in 1 .. (EvictMax - 1) : EvictRandom(t, n))
           \/ EvictFlushOpt \/ UNCHANGED vars
  <2>1. begin' = begin
    BY <1>7 DEF CrashInStoreBuffer, CrashInFlushBuffer, FlushedAfterCrash, StoreBufferEmptied,
       PopsDone, FlushBufferEmptied, FreeActions, DoCrash, Finish, EnsureInitialValue, RMWRead,
       EvictRandom, EvictFlushOpt, mem, vars
  <2>2. SameClocks
    BY <1>1, <1>7, StutterShape
  <2> QED  BY <2>1, <2>2
<1>8. CASE Issue
  BY <1>1, <1>7, <1>8, IssueRemembers DEF Issue
<1>9. CASE Terminated
  BY <1>7, <1>9 DEF Terminated
<1> QED  BY <1>3, <1>4, <1>5, <1>6, <1>7, <1>8, <1>9 DEF Next, Drain

\* A clflush writes back its line; a clflushopt no less than was known before it.
LEMMA PersistBounds ==
  ASSUME TypeOK, NEW f \in Acts, NEW l \in Line, NEW p, p = persistCacheLine(f, l, used + 1)
  PROVE  /\ p \in Nat
         /\ act[f].kind = "clflush" => p = used + 1
         /\ act[f].kind # "clflush" =>
              /\ p \in {begin[l], act[f].last_clflush, SeqNumOf(act[f].lastwrite), act[f].lastcommittedWrite}
              /\ begin[l] =< p /\ SeqNumOf(act[f].lastwrite) =< p /\ act[f].lastcommittedWrite =< p
<1>1. PICK b, c, d, e : /\ b = begin[l] /\ c = act[f].last_clflush
                        /\ d = SeqNumOf(act[f].lastwrite) /\ e = act[f].lastcommittedWrite
  OBVIOUS
<1>2. b \in Nat /\ c \in Nat /\ d \in Nat /\ e \in Nat /\ used \in Nat
  BY <1>1, ClockTypes DEF TypeOK, CountersOK
<1>3. CASE act[f].kind = "clflush"
  BY <1>2, <1>3 DEF persistCacheLine
<1>4. CASE act[f].kind # "clflush"
  <2>1. p = Max({b, c, d, e})
    BY <1>1, <1>4 DEF persistCacheLine
  <2>2. /\ p \in {b, c, d, e} /\ b =< p /\ d =< p /\ e =< p
    BY <1>2, <2>1, MaxOfClocks
  <2> QED  BY <1>1, <1>2, <1>4, <2>2
<1> QED  BY <1>3, <1>4

\* What is durable stays durable.
LEMMA PersistedStays ==
  ASSUME MemoryInv, Grows, [Next]_vars, NEW w \in Acts, act[w].loc \in Loc, Persisted(w)
  PROVE  Persisted(w)'
<1>0. PICK l \in Line : l = getCacheID(act[w].loc)
  BY LocTypes
<1>1. /\ TypeOK /\ act[w].seq \in Nat /\ act[w].seq =< used /\ used \in Nat /\ begin \in [Line -> Nat]
      /\ act[w].seq # 0 /\ act[w].seq =< begin[l] /\ act'[w].seq = act[w].seq
      /\ l = getCacheID(act'[w].loc)
  BY <1>0 DEF MemoryInv, Control, TypeOK, CountersOK, Order, Clocks, Grows, Persisted, Committed
<1>2. SUFFICES act[w].seq =< begin'[l]
  BY <1>1 DEF Persisted, Committed
<1>3. CASE begin' = begin
  BY <1>1, <1>3
<1>4. ASSUME NEW f, FlushStep(f) PROVE act[w].seq =< begin'[l]
  <2>1. PICK m \in Line : m = getCacheID(act[f].loc)
    BY <1>4, LocTypes DEF FlushStep
  <2>2. PICK p : p = persistCacheLine(f, m, used + 1)
    OBVIOUS
  <2>3. f \in Acts /\ begin' = [begin EXCEPT ![m] = p]
    BY <1>4, <2>1, <2>2 DEF FlushStep
  <2>4. p \in Nat /\ (p = used + 1 \/ begin[m] =< p)
    BY <1>1, <2>2, <2>3, PersistBounds
  <2>5. begin'[l] = (IF l = m THEN p ELSE begin[l]) /\ begin[l] \in Nat
    BY <1>1, <2>3
  <2> QED  BY <1>1, <2>4, <2>5
<1> QED  BY <1>3, <1>4, BeginSteps DEF Remembers

\* What a flush makes durable when it takes effect.
LEMMA FlushStepDurable ==
  ASSUME MemoryInv, NEW f, FlushStep(f), NEW w \in Acts, IsWrite(act[w]), act[w].loc \in Loc,
         SameLine(f, w), (SameThread(f, w) /\ w < f) \/ (Committed(w) /\ act[w].seq =< act[f].issued)
  PROVE  act[w].seq # 0 /\ act[w].seq =< begin'[getCacheID(act[w].loc)]
<1>0. PICK l \in Line : l = getCacheID(act[w].loc)
  BY LocTypes
<1>1. PICK p : p = persistCacheLine(f, l, used + 1)
  OBVIOUS
<1>2. /\ f \in Acts /\ IsCacheOp(act[f]) /\ NoneBefore(act[f].tid, f) /\ l = getCacheID(act[f].loc)
      /\ begin' = [begin EXCEPT ![l] = p]
  BY <1>0, <1>1 DEF FlushStep, SameLine
<1>3. /\ TypeOK /\ act[w].seq \in Nat /\ act[w].seq =< used /\ used \in Nat /\ begin' [l] = p
  BY <1>2, ClockTypes DEF MemoryInv, Control, TypeOK, CountersOK, Order, Clocks
<1>4. act[w].kind \in Fifo /\ act[w].kind \in {"write", "scwrite", "rmw", "clflush"}
  BY DEF IsWrite, Fifo
<1>5. act[w].seq # 0
  BY <1>2, <1>4 DEF NoneBefore, SameThread, Committed
<1>6. CASE act[f].kind = "clflush"
  <2>1. p = used + 1
    BY <1>1, <1>2, <1>3, <1>6, PersistBounds
  <2> QED  BY <1>0, <1>3, <1>5, <2>1
<1>7. CASE act[f].kind # "clflush"
  <2>1. /\ p \in Nat /\ SeqNumOf(act[f].lastwrite) =< p /\ act[f].lastcommittedWrite =< p
        /\ SeqNumOf(act[f].lastwrite) \in Nat /\ act[f].lastcommittedWrite \in Nat
    BY <1>1, <1>2, <1>3, <1>7, PersistBounds, ClockTypes DEF TypeOK
  <2>2. CASE SameThread(f, w) /\ w < f
    <3>1. PICK o : o = act[f].lastwrite
      OBVIOUS
    <3>2. IsLastWrite(o, f, act[f].tid, l)
      BY <1>2, <3>1 DEF MemoryInv, Memory, FlushMemory
    <3>3. w =< o /\ w \in Nat /\ w # 0
      <4>1. WritesTo(w, act[f].tid, l)
        BY <1>0, <1>4, <2>2 DEF WritesTo, SameThread
      <4>2. w =< o
        BY <2>2, <3>2, <4>1 DEF IsLastWrite
      <4>3. act \in Seq(ModelAction)
        BY <1>3 DEF TypeOK, ActsOK
      <4> QED  BY <4>2, <4>3 DEF Acts
    <3>4. o \in Acts /\ o < f /\ act[o].tid = act[f].tid /\ act[o].kind \in Fifo /\ o \in Nat
      <4>1. o # 0
        BY <3>3
      <4>2. act \in Seq(ModelAction)
        BY <1>3 DEF TypeOK, ActsOK
      <4> QED  BY <3>2, <4>1, <4>2 DEF IsLastWrite, WritesTo, Fifo, Acts
    <3>5. act[o].seq # 0
      BY <1>2, <3>4 DEF NoneBefore
    <3>6. act[w].seq =< act[o].seq
      <4>1. CASE w = o
        BY <1>3, <4>1
      <4>2. CASE w # o
        <5>1. InOrder /\ w < o /\ act[o].seq \in Nat
          BY <1>3, <3>3, <3>4, <4>2, StoreOrderIs, ClockTypes DEF MemoryInv, TypeOK
        <5>2. act[w].seq < act[o].seq
          BY <1>4, <2>2, <3>4, <3>5, <5>1 DEF InOrder, SameThread
        <5> QED  BY <1>3, <5>1, <5>2
      <4> QED  BY <4>1, <4>2
    <3>7. SeqNumOf(act[f].lastwrite) = act[o].seq
      BY <3>1, <3>3, <3>4 DEF SeqNumOf
    <3> QED  BY <1>0, <1>3, <1>5, <2>1, <3>6, <3>7
  <2>3. CASE act[w].seq =< act[f].issued
    <3>1. act[f].issued = act[f].lastcommittedWrite
      BY <1>2 DEF MemoryInv, Memory, FlushMemory
    <3> QED  BY <1>0, <1>3, <1>5, <2>1, <2>3, <3>1
  <2> QED  BY <2>2, <2>3
<1> QED  BY <1>6, <1>7

\* Steps other than a flush leave to FlushDurable only what it said before.
LEMMA FlushDurableNext ==
  ASSUME MemoryInv, FlushDurable, [Next]_vars
  PROVE  FlushDurable'
<1>1. /\ Grows /\ TypeOK /\ TypeOK'
  BY MemoryNext DEF MemoryInv, Control
<1>2. /\ used \in Nat /\ Acts \subseteq Nat /\ Acts' \subseteq Nat
      /\ \A i \in Acts : act[i].seq \in Nat /\ act[i].seq =< used
      /\ \A i \in Acts : IsCacheOp(act[i]) => act[i].issued \in Nat /\ act[i].issued =< used
  <2>1. used \in Nat /\ \A i \in Acts : act[i] \in ModelAction /\ act[i].seq =< used
    BY <1>1 DEF TypeOK, CountersOK, ActsOK, Acts, MemoryInv, Order, Clocks
  <2>2. \A i \in Acts : IsCacheOp(act[i]) => act[i].issued =< used
    BY DEF MemoryInv, Memory, FlushMemory
  <2> QED  BY <1>1, <2>1, <2>2 DEF ModelAction, Grows
<1> SUFFICES ASSUME NEW f \in Acts', NEW w \in Acts',
                    IsCacheOp(act'[f]), act'[f].seq # 0, IsWrite(act'[w]),
                    getCacheID(act'[f].loc) = getCacheID(act'[w].loc),
                    \/ act'[f].tid = act'[w].tid /\ w < f
                    \/ act'[w].seq # 0 /\ act'[w].seq =< act'[f].issued
             PROVE  act'[w].seq # 0 /\ act'[w].seq =< begin'[getCacheID(act'[w].loc)]
  BY DEF FlushDurable, Persisted, Committed, SameLine, SameThread
\* Of old actions.
<1>3. ASSUME f \in Acts, w \in Acts
      PROVE  /\ IsCacheOp(act[f]) /\ IsWrite(act[w]) /\ SameLine(f, w)
             /\ act'[f].seq = act[f].seq \/ act[f].seq = 0
             /\ act'[w].loc = act[w].loc /\ act[w].loc \in Loc /\ act'[f].issued = act[f].issued
             /\ act'[f].tid = act'[w].tid <=> SameThread(f, w)
  <2>1. /\ IsCacheOp(act[f]) /\ IsWrite(act[w]) /\ SameLine(f, w)
        /\ act'[f].seq = act[f].seq \/ act[f].seq = 0
        /\ act'[w].loc = act[w].loc /\ act'[f].issued = act[f].issued
        /\ act'[f].tid = act'[w].tid <=> SameThread(f, w)
    BY <1>1, <1>3 DEF Grows, IsCacheOp, IsWrite, SameLine, SameThread
  <2>2. act[w].loc \in Loc
    BY <1>1, <1>3, <2>1 DEF TypeOK, ActsOK, IsWrite
  <2> QED  BY <2>1, <2>2
<1>4. ASSUME f \in Acts, w \in Acts, act[f].seq # 0, act'[w].seq = act[w].seq
      PROVE  act'[w].seq # 0 /\ act'[w].seq =< begin'[getCacheID(act'[w].loc)]
  <2>1. Persisted(w)
    BY <1>3, <1>4 DEF FlushDurable, Committed
  <2> QED  BY <1>1, <1>3, <1>4, <2>1, PersistedStays DEF Persisted, Committed
<1>5. CASE SameClocks
  <2>1. f \in Acts /\ w \in Acts
    BY <1>5 DEF SameClocks, Acts
  <2>2. act'[f].seq = act[f].seq /\ act'[w].seq = act[w].seq
    BY <1>5, <2>1 DEF SameClocks
  <2> QED  BY <1>4, <2>1, <2>2
<1>6. ASSUME NEW n \in Acts, act[n].seq = 0, TakesEffect(n), ~IsCacheOp(act[n])
      PROVE  act'[w].seq # 0 /\ act'[w].seq =< begin'[getCacheID(act'[w].loc)]
  <2>1. /\ f \in Acts /\ w \in Acts /\ f # n /\ act'[f].seq = act[f].seq
        /\ w # n => act'[w].seq = act[w].seq
        /\ w = n => act'[w].seq = used + 1
    <3>1. f \in Acts /\ w \in Acts
      BY <1>6 DEF TakesEffect, Acts
    <3>2. f # n
      BY <1>3, <1>6, <3>1
    <3> QED  BY <1>6, <3>1, <3>2 DEF TakesEffect
  <2>2. ASSUME w = n PROVE FALSE
    <3>1. SameThread(f, w) /\ w < f
      BY <1>2, <1>3, <2>1, <2>2
    <3>2. Persisted(w)
      BY <1>3, <2>1, <3>1 DEF FlushDurable, Committed
    <3> QED  BY <1>6, <2>2, <3>2 DEF Persisted, Committed
  <2> QED  BY <1>4, <2>1, <2>2
<1>7. ASSUME NEW g, FlushStep(g)
      PROVE  act'[w].seq # 0 /\ act'[w].seq =< begin'[getCacheID(act'[w].loc)]
  <2>1. /\ f \in Acts /\ w \in Acts /\ w # g /\ act'[w].seq = act[w].seq
        /\ f # g => act'[f].seq = act[f].seq
    <3>1. f \in Acts /\ w \in Acts /\ g \in Acts
      BY <1>7 DEF FlushStep, TakesEffect, Acts
    <3>2. w # g
      BY <1>3, <1>7, <3>1 DEF FlushStep, IsCacheOp, IsWrite
    <3> QED  BY <1>7, <3>1, <3>2 DEF FlushStep, TakesEffect
  <2>2. CASE f = g
    <3>1. (SameThread(f, w) /\ w < f) \/ (Committed(w) /\ act[w].seq =< act[f].issued)
      BY <1>3, <2>1 DEF Committed
    <3>2. act[w].seq # 0 /\ act[w].seq =< begin'[getCacheID(act[w].loc)]
      BY <1>3, <1>7, <2>1, <2>2, <3>1, FlushStepDurable
    <3> QED  BY <1>3, <2>1, <3>2
  <2>3. CASE f # g
    BY <1>4, <2>1, <2>3
  <2> QED  BY <2>2, <2>3
<1>8. ASSUME NEW t \in Thread, NEW a, Issues(t, a), Remembers(t, a)
      PROVE  act'[w].seq # 0 /\ act'[w].seq =< begin'[getCacheID(act'[w].loc)]
  <2>0. PICK n : n = new
    OBVIOUS
  <2>1. /\ Acts' = Acts \cup {n} /\ act'[n] = a /\ n \in Nat
        /\ \A i \in Acts : i < n /\ act'[i] = act[i]
    BY <1>8, <2>0 DEF Issues, Issued, Acts
  <2>2. f \in Acts
    <3> SUFFICES ASSUME f = n PROVE FALSE
      BY <2>1
    <3>1. IsCacheOp(a) /\ a.seq # 0
      BY <2>1
    <3> QED  BY <1>8, <3>1 DEF Remembers
  <2>3. CASE w = n
    <3>1. act'[w].seq # 0 /\ act'[w].seq =< act'[f].issued
      <4>1. f \in Nat /\ n \in Nat /\ f < n
        BY <1>2, <2>1, <2>2
      <4>2. ~(w < f)
        BY <2>3, <4>1
      <4> QED  BY <4>2
    <3>2. act'[w].seq = used + 1
      BY <1>8, <2>1, <2>3, <3>1 DEF Issues
    <3>3. IsCacheOp(act[f]) /\ act'[f].issued = act[f].issued
      BY <2>1, <2>2
    <3> QED  BY <1>2, <2>2, <3>1, <3>2, <3>3
  <2>4. CASE w \in Acts
    BY <1>4, <2>1, <2>2, <2>4
  <2> QED  BY <2>1, <2>3, <2>4
<1> QED  BY <1>5, <1>6, <1>7, <1>8, BeginSteps

(***************************************************************************)
(* A flush that has taken effect makes durable every write to its line     *)
(* that its thread issued before it and every write that was in memory     *)
(* when it was issued (persistCacheLine, evictCacheOp): no later crash can *)
(* lose them.                                                              *)
(***************************************************************************)
THEOREM FlushDurableTheorem == Spec => []FlushDurable
<1>1. Init => MemoryInv /\ FlushDurable
  <2> SUFFICES ASSUME Init PROVE FlushDurable
    BY MemoryInit
  <2>1. Acts = {}
    BY DEF Init, Acts
  <2> QED  BY <2>1 DEF FlushDurable
<1>2. MemoryInv /\ FlushDurable /\ [Next]_vars => (MemoryInv /\ FlushDurable)'
  BY MemoryNext, FlushDurableNext
<1> QED  BY <1>1, <1>2, PTL DEF Spec

-------------------------------------------------------------------------------
(* No line is taken to be written back further than a flush is bound to.   *)

\* A flush that justifies a clock goes on doing so.
LEMMA JustifiesStays ==
  ASSUME Grows, NEW f \in Acts, NEW l, NEW c \in Nat, Justifies(f, l, c),
         IsCacheOp(act[f]) => act[f].issued \in Nat
  PROVE  f \in Acts' /\ Justifies(f, l, c)'
<1>1. /\ f \in Acts' /\ IsCacheOp(act'[f]) /\ act'[f].seq # 0 /\ getCacheID(act'[f].loc) = l
      /\ act'[f].seq = act[f].seq /\ act'[f].kind = act[f].kind /\ act'[f].issued = act[f].issued
      /\ act'[f].tid = act[f].tid
  BY DEF Grows, Justifies, IsCacheOp
<1>2. CASE act[f].kind = "clflush" /\ c =< act[f].seq
  BY <1>1, <1>2 DEF Justifies
<1>3. CASE c =< act[f].issued
  BY <1>1, <1>3 DEF Justifies
<1>4. CASE \E o \in Acts : /\ o < f /\ act[o].tid = act[f].tid /\ c =< act[o].seq
                           /\ act[o].kind = "sfence" \/ WritesTo(o, act[f].tid, l)
  <2>1. PICK o \in Acts : /\ o < f /\ act[o].tid = act[f].tid /\ c =< act[o].seq
                          /\ act[o].kind = "sfence" \/ WritesTo(o, act[f].tid, l)
    BY <1>4
  <2>2. /\ o \in Acts' /\ act'[o].tid = act'[f].tid /\ act'[o].kind = act[o].kind
        /\ act'[o].loc = act[o].loc
        /\ act[o].seq \in Nat /\ act'[o].seq \in Nat /\ act[o].seq =< act'[o].seq
    BY <1>1, <2>1 DEF Grows
  <2>3. c =< act'[o].seq
    BY <2>1, <2>2
  <2>4. \/ act'[o].kind = "sfence"
        \/ act'[o].kind \in Ordering /\ act'[o].tid = act'[f].tid /\ getCacheID(act'[o].loc) = l
    BY <1>1, <2>1, <2>2 DEF WritesTo, Ordering
  <2> QED  BY <1>1, <2>1, <2>2, <2>3, <2>4 DEF Justifies, WritesTo, Ordering
<1> QED  BY <1>2, <1>3, <1>4 DEF Justifies

\* The flush that takes effect justifies how far its line is written back now.
LEMMA FlushStepJustifies ==
  ASSUME MemoryInv, BeginJustified, Grows, NEW g, FlushStep(g), NEW l \in Line, NEW p \in Nat,
         l = getCacheID(act[g].loc), p = persistCacheLine(g, l, used + 1)
  PROVE  \/ p \in {0, ValueNone} \/ (p = begin[l] /\ \E f \in Acts : Justifies(f, l, p))
         \/ g \in Acts' /\ Justifies(g, l, p)'
<1>1. /\ TypeOK /\ used \in Nat /\ g \in Acts /\ IsCacheOp(act[g]) /\ act'[g].seq = used + 1
      /\ \A i \in Acts : act[i].seq \in Nat /\ act'[i].seq \in Nat /\ act[i].seq =< act'[i].seq
  BY DEF MemoryInv, Control, TypeOK, CountersOK, FlushStep, TakesEffect, Grows
<1>2. /\ g \in Acts' /\ IsCacheOp(act'[g]) /\ act'[g].seq # 0 /\ getCacheID(act'[g].loc) = l
      /\ act'[g].kind = act[g].kind /\ act'[g].issued = act[g].issued /\ act'[g].tid = act[g].tid
  <2>1. act'[g].seq # 0
    BY <1>1
  <2>2. act'[g].loc = act[g].loc
    BY <1>1 DEF Grows
  <2> QED  BY <1>1, <2>1, <2>2 DEF Grows, IsCacheOp
<1>3. CASE act[g].kind = "clflush"
  <2>1. p = used + 1
    BY <1>1, <1>3, PersistBounds
  <2> QED  BY <1>1, <1>2, <1>3, <2>1 DEF Justifies
<1>4. CASE act[g].kind # "clflush"
  <2>1. p \in {begin[l], act[g].last_clflush, SeqNumOf(act[g].lastwrite), act[g].lastcommittedWrite}
    BY <1>1, <1>4, PersistBounds
  \* An operation of the flush's thread it cannot be reordered with.
  <2>2. ASSUME NEW o \in Acts, o < g, act[o].tid = act[g].tid, p =< act[o].seq,
               act[o].kind = "sfence" \/ WritesTo(o, act[g].tid, l)
        PROVE  Justifies(g, l, p)'
    <3>1. /\ o \in Acts' /\ act'[o].tid = act'[g].tid /\ act'[o].kind = act[o].kind
          /\ act'[o].loc = act[o].loc /\ p =< act'[o].seq
      BY <1>1, <1>2, <2>2 DEF Grows
    <3>2. \/ act'[o].kind = "sfence"
          \/ act'[o].kind \in Ordering /\ act'[o].tid = act'[g].tid /\ getCacheID(act'[o].loc) = l
      BY <1>2, <2>2, <3>1 DEF WritesTo, Ordering
    <3> QED  BY <1>2, <2>2, <3>1, <3>2 DEF Justifies, WritesTo, Ordering
  <2>3. CASE p = begin[l]
    BY <2>3 DEF BeginJustified
  <2>4. CASE p = act[g].last_clflush
    <3>1. CASE p = ValueNone
      BY <3>1
    <3>2. CASE p # ValueNone
      <4>1. \E o \in Acts : /\ o < g /\ act[o].tid = act[g].tid /\ act[o].kind = "sfence"
                            /\ act[g].last_clflush =< act[o].seq
        BY <1>1, <2>4, <3>2 DEF MemoryInv, Memory, FlushMemory
      <4> QED  BY <1>2, <2>2, <2>4, <4>1
    <3> QED  BY <3>1, <3>2
  <2>5. CASE p = SeqNumOf(act[g].lastwrite)
    <3>1. PICK o : o = act[g].lastwrite
      OBVIOUS
    <3>2. CASE o = 0
      BY <2>5, <3>1, <3>2 DEF SeqNumOf
    <3>3. CASE o # 0
      <4>1. IsLastWrite(o, g, act[g].tid, l)
        BY <1>1, <3>1 DEF MemoryInv, Memory, FlushMemory
      <4>2. o \in Acts /\ o < g /\ WritesTo(o, act[g].tid, l) /\ act[o].tid = act[g].tid
        BY <3>3, <4>1 DEF IsLastWrite, WritesTo
      <4>3. p = act[o].seq
        BY <2>5, <3>1, <3>3 DEF SeqNumOf
      <4> QED  BY <1>1, <1>2, <2>2, <4>2, <4>3
    <3> QED  BY <3>2, <3>3
  <2>6. CASE p = act[g].lastcommittedWrite
    <3>1. p =< act'[g].issued
      BY <1>1, <1>2, <2>6 DEF MemoryInv, Memory, FlushMemory
    <3> QED  BY <1>2, <3>1 DEF Justifies
  <2> QED  BY <2>1, <2>3, <2>4, <2>5, <2>6
<1> QED  BY <1>3, <1>4

LEMMA BeginJustifiedNext ==
  ASSUME MemoryInv, BeginJustified, [Next]_vars
  PROVE  BeginJustified'
<1>1. /\ Grows /\ TypeOK /\ begin \in [Line -> Nat]
      /\ \A i \in Acts : IsCacheOp(act[i]) => act[i].issued \in Nat
  <2>1. Grows /\ TypeOK /\ begin \in [Line -> Nat]
    BY MemoryNext DEF MemoryInv, Control, TypeOK, CountersOK
  <2>2. \A i \in Acts : act[i] \in ModelAction
    BY <2>1 DEF TypeOK, ActsOK, Acts
  <2> QED  BY <2>1, <2>2 DEF ModelAction
<1> SUFFICES ASSUME NEW l \in Line, NEW b, b = begin'[l]
             PROVE  b \in {0, ValueNone} \/ \E f \in Acts' : Justifies(f, l, b)'
  BY Zenon DEF BeginJustified, Justifies
<1>2. ASSUME NEW c \in Nat, \E f \in Acts : Justifies(f, l, c)
      PROVE  \E f \in Acts' : Justifies(f, l, c)'
  BY <1>1, <1>2, JustifiesStays
<1>3. ASSUME begin'[l] = begin[l]
      PROVE  b \in {0, ValueNone} \/ \E f \in Acts' : Justifies(f, l, b)'
  <2>1. PICK c \in Nat : c = begin[l]
    BY <1>1
  <2>2. c \in {0, ValueNone} \/ \E f \in Acts : Justifies(f, l, c)
    BY <2>1 DEF BeginJustified
  <2>3. c \in {0, ValueNone} \/ \E f \in Acts' : Justifies(f, l, c)'
    BY <1>2, <2>2
  <2>4. b = c
    BY <1>3, <2>1
  <2> QED  BY <2>3, <2>4
<1>4. ASSUME NEW g, FlushStep(g)
      PROVE  b \in {0, ValueNone} \/ \E f \in Acts' : Justifies(f, l, b)'
  <2>1. PICK m \in Line : m = getCacheID(act[g].loc)
    BY <1>4, LocTypes DEF FlushStep
  <2>2. PICK p : p = persistCacheLine(g, m, used + 1)
    OBVIOUS
  <2>3. g \in Acts /\ begin' = [begin EXCEPT ![m] = p]
    BY <1>4, <2>1, <2>2 DEF FlushStep
  <2>4. p \in Nat
    BY <1>1, <2>2, <2>3, PersistBounds
  <2>5. CASE l = m
    <3>1. b = p
      BY <1>1, <2>3, <2>5
    <3>2. \/ p \in {0, ValueNone} \/ (\E f \in Acts : Justifies(f, l, p))
          \/ g \in Acts' /\ Justifies(g, l, p)'
      BY <1>1, <1>4, <2>1, <2>2, <2>4, <2>5, FlushStepJustifies
    <3>3. p \in {0, ValueNone} \/ \E f \in Acts' : Justifies(f, l, p)'
      BY <1>2, <2>4, <3>2
    <3> QED  BY <3>1, <3>3
  <2>6. CASE l # m
    BY <1>1, <1>3, <2>3, <2>6
  <2> QED  BY <2>5, <2>6
<1> QED  BY <1>3, <1>4, BeginSteps DEF Remembers

(***************************************************************************)
(* A line is only taken to be written back up to a write that some flush   *)
(* is bound to have covered (persistCacheLine): no state a crash can leave *)
(* is left out.                                                            *)
(***************************************************************************)
THEOREM CoverJustifiedTheorem == Spec => []CoverJustified
<1>1. Init => MemoryInv /\ BeginJustified
  BY MemoryInit DEF Init, BeginJustified
<1>2. MemoryInv /\ BeginJustified /\ [Next]_vars => (MemoryInv /\ BeginJustified)'
  BY MemoryNext, BeginJustifiedNext
<1>3. MemoryInv /\ BeginJustified => CoverJustified
  <2> SUFFICES ASSUME MemoryInv, BeginJustified, NEW w \in Acts, IsWrite(act[w]), Persisted(w),
                      begin[getCacheID(act[w].loc)] # ValueNone
               PROVE  \E f \in Acts :
                        /\ IsCacheOp(act[f]) /\ Committed(f) /\ SameLine(f, w)
                        /\ \/ act[f].kind = "clflush" /\ act[w].seq < act[f].seq
                           \/ act[w].seq =< act[f].issued
                           \/ \E o \in Acts :
                                /\ o < f /\ SameThread(o, f) /\ act[w].seq =< act[o].seq
                                /\ \/ act[o].kind = "sfence"
                                   \/ (IsWrite(act[o]) \/ act[o].kind = "clflush") /\ SameLine(o, f)
    BY DEF CoverJustified
  <2>1. /\ TypeOK /\ begin \in [Line -> Nat] /\ act[w].loc \in Loc
        /\ \A i \in Acts : act[i].seq \in Nat /\ act[i].issued \in Nat
    <3>1. /\ TypeOK /\ begin \in [Line -> Nat] /\ act[w].loc \in Loc
          /\ \A i \in Acts : act[i] \in ModelAction
      BY DEF MemoryInv, Control, TypeOK, CountersOK, ActsOK, Acts, IsWrite
    <3> QED  BY <3>1 DEF ModelAction
  <2>2. PICK l \in Line, c \in Nat, s \in Nat :
          l = getCacheID(act[w].loc) /\ c = begin[l] /\ s = act[w].seq
    BY <2>1, LocTypes
  <2>3. s # 0 /\ s =< c /\ c \notin {0, ValueNone}
    <3>1. s # 0 /\ s =< c /\ c # ValueNone
      BY <2>2 DEF Persisted, Committed
    <3> QED  BY <3>1
  <2>4. PICK f \in Acts : Justifies(f, l, c)
    BY <2>2, <2>3 DEF BeginJustified
  <2>5. IsCacheOp(act[f]) /\ Committed(f) /\ SameLine(f, w)
    BY <2>2, <2>4 DEF Justifies, Committed, SameLine
  <2>6. CASE act[f].kind = "clflush" /\ c =< act[f].seq
    <3>1. f # w
      BY <2>6 DEF IsWrite
    <3>2. act[w].seq # act[f].seq
      BY <2>2, <2>3, <3>1 DEF MemoryInv, Memory, Distinct
    <3>3. act[w].seq < act[f].seq
      BY <2>1, <2>2, <2>3, <2>6, <3>2
    <3> QED  BY <2>5, <2>6, <3>3
  <2>7. CASE c =< act[f].issued
    <3>1. act[w].seq =< act[f].issued
      BY <2>1, <2>2, <2>3, <2>7
    <3> QED  BY <2>5, <3>1
  <2>8. CASE \E o \in Acts : /\ o < f /\ act[o].tid = act[f].tid /\ c =< act[o].seq
                             /\ act[o].kind = "sfence" \/ WritesTo(o, act[f].tid, l)
    <3>1. PICK o \in Acts : /\ o < f /\ act[o].tid = act[f].tid /\ c =< act[o].seq
                            /\ act[o].kind = "sfence" \/ WritesTo(o, act[f].tid, l)
      BY <2>8
    <3>2. act[w].seq =< act[o].seq
      BY <2>1, <2>2, <2>3, <3>1
    <3>3. act[o].kind = "sfence" \/ ((IsWrite(act[o]) \/ act[o].kind = "clflush") /\ SameLine(o, f))
      BY <2>2, <2>5, <3>1 DEF WritesTo, SameLine, IsWrite
    <3> QED  BY <2>5, <3>1, <3>2, <3>3 DEF SameThread
  <2> QED  BY <2>4, <2>6, <2>7, <2>8 DEF Justifies
<1> QED  BY <1>1, <1>2, <1>3, PTL DEF Spec
===============================================================================
