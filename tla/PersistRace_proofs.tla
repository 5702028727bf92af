--------------------------- MODULE PersistRace_proofs ---------------------------
(***************************************************************************)
(* Proofs about the persistency race analysis.  The operators of           *)
(* PersistRace take and return the record Now of what leaving a buffer     *)
(* changes; the invariant of the running execution, Good, is one of such   *)
(* a record, so that it can be followed through the middle of a step.      *)
(***************************************************************************)
EXTENDS PersistRace, WellFoundedInduction, SequenceTheorems, TLAPS

(***************************************************************************)
(* Types.                                                                  *)
(***************************************************************************)

Kinds == {"store", "atomic", "seqcst", "rmw", "rmwr", "casread", "clflush", "clwb", "sfence",
          "mfence"}

Clock == [Thread -> Nat]

Action ==
  [op : Kinds, b : Nat, n : Nat, t : Thread, seq : Nat, cv : Clock, lastwrite : Nat,
   lastcommittedWrite : Nat, last_clflush : Nat]

Entry == [w : Nat, t : Thread, f : Nat]

State ==
  [acts : Seq(Action), used : Nat, last : [Thread -> Clock],
   storeBuffer : [Thread -> Seq(Nat)], flushBuffer : [Thread -> Seq(Nat)],
   lastsfence : [Thread -> Nat], begin : [Line -> Nat], lastWrites : [Address -> Nat],
   flushmap : SUBSET Entry, pendingclwbs : Seq(Nat), aborted : Nat]

Inds(s) == 1 .. Len(s)

(***************************************************************************)
(* What is so of the actions A of an execution.                           *)
(***************************************************************************)

LineOf(a) == getCacheID(a.b)

\* What addWrite and addCacheOp put in obj_to_last_write.
Ordered(a) == IsWrite(a) \/ IsClflush(a)

\* Accesses lie within a line of memory.
Fits(A) ==
  \A k \in Inds(A) :
    A[k].op \notin {"sfence", "mfence"} =>
      A[k].n > 0 /\ \A b \in Bytes(A[k]) : b \in Address /\ getCacheID(b) = LineOf(A[k])

\* Clock vectors are of the past, an action's own entry is its number.
Clocks(A, u) ==
  \A k \in Inds(A) :
    /\ A[k].seq =< u /\ A[k].cv[A[k].t] = A[k].seq
    /\ \A v \in Thread : A[k].cv[v] =< u
    /\ A[k].seq # 0 => \A v \in Thread : A[k].cv[v] =< A[k].seq
    /\ A[k].op = "clwb" =>
         \A v \in Thread : v # A[k].t => A[k].cv[v] =< A[k].lastcommittedWrite

\* No two actions have the same number.
Numbered(A) ==
  \A i, j \in Inds(A) : A[i].seq # 0 /\ A[i].seq = A[j].seq => i = j

\* i is the last store or clflush of t to line l before action k, 0 if there is none.
LastOrdered(A, k, t, l, i) ==
  /\ i = 0 \/ (i \in 1 .. (k - 1) /\ Ordered(A[i]) /\ A[i].t = t /\ LineOf(A[i]) = l)
  /\ \A j \in 1 .. (k - 1) : Ordered(A[j]) /\ A[j].t = t /\ LineOf(A[j]) = l => j =< i

Linked(A) ==
  \A k \in Inds(A) :
    A[k].op = "clwb" => LastOrdered(A, k, A[k].t, LineOf(A[k]), A[k].lastwrite)

\* Stores and clflushes of a thread take effect in program order, and before
\* anything that comes after them.
InOrder(A) ==
  \A i, j \in Inds(A) :
    i < j /\ A[i].t = A[j].t /\ Ordered(A[i]) /\ A[j].seq # 0
    => A[i].seq # 0 /\ (Ordered(A[j]) => A[i].seq < A[j].seq)

(***************************************************************************)
(* The buffers.  h is an action that has left them and is about to take    *)
(* effect, 0 if there is none.                                             *)
(***************************************************************************)

In(s, k) == \E j \in Inds(s) : s[j] = k

Increasing(s) == \A i, j \in Inds(s) : i < j => s[i] < s[j]

BuffersIn(A, sb, fb) ==
  \A t \in Thread :
    /\ Increasing(sb[t]) /\ Increasing(fb[t])
    /\ \A j \in Inds(sb[t]) :
         LET k == sb[t][j]
         IN  /\ k \in Inds(A) /\ A[k].t = t /\ A[k].seq = 0
             /\ Ordered(A[k]) \/ A[k].op \in {"sfence", "clwb"}
             /\ \A i \in Inds(fb[t]) : fb[t][i] < k
             /\ \A i \in Inds(A) : A[i].t = t /\ A[i].seq # 0 => i < k
    /\ \A j \in Inds(fb[t]) :
         LET k == fb[t][j]
         IN  /\ k \in Inds(A) /\ A[k].t = t /\ A[k].seq = 0 /\ A[k].op = "clwb"
             /\ \A i \in Inds(A) : A[i].t = t /\ A[i].seq # 0 /\ IsFence(A[i]) => i < k

Buffers(x) == BuffersIn(x.acts, x.storeBuffer, x.flushBuffer)

\* What has no number yet is in a buffer.
Waiting(x, h) ==
  \A k \in Inds(x.acts) :
    LET t == x.acts[k].t
    IN  k # h /\ x.acts[k].seq = 0 =>
          /\ Ordered(x.acts[k]) => In(x.storeBuffer[t], k)
          /\ x.acts[k].op = "clwb" => In(x.storeBuffer[t], k) \/ In(x.flushBuffer[t], k)

\* No RMW stays in a store buffer.
NoRMW(x) ==
  \A t \in Thread : \A j \in Inds(x.storeBuffer[t]) : x.acts[x.storeBuffer[t][j]].op # "rmw"

(***************************************************************************)
(* The analysis.                                                           *)
(***************************************************************************)

\* lastWrites has the newest write to every byte.
Latest(A, lw) ==
  \A b \in Address :
    \/ lw[b] = 0 /\ Writes(A, b) = {}
    \/ lw[b] \in Writes(A, b) /\ \A v \in Writes(A, b) : A[v].seq =< A[lw[b]].seq

WroteBackToIn(A, f) ==
  IF IsClflush(A[f]) THEN A[f].seq
  ELSE Max({A[f].lastcommittedWrite} \cup ({A[f].last_clflush} \ {ValueNone})
             \cup {A[i].seq : i \in {A[f].lastwrite} \ {0}})

FlushesIn(A, w) ==
  {f \in DOMAIN A : /\ A[f].op \in {"clflush", "clwb"} /\ A[f].seq # 0
                     /\ LineOf(A[f]) = LineOf(A[w])
                     /\ WroteBackToIn(A, f) >= A[w].seq}

CreditedTooSoonIn(A, w) ==
  \E c \in 1 .. w : /\ A[c].op = "clwb" /\ A[c].t = A[w].t /\ A[c].lastwrite = 0
                    /\ LineOf(A[c]) = LineOf(A[w])

\* A flush credited to a store in effect, and why that has been written back.
Justified(A, e) ==
  /\ e.w \in Inds(A) /\ IsWrite(A[e.w]) /\ A[e.w].seq # 0
  /\ e.f \in Inds(A) /\ A[e.f].seq # 0 /\ e.t = A[e.f].t
  /\ IsClflush(A[e.f]) => e.f \in FlushesIn(A, e.w)
  /\ FlushesIn(A, e.w) # {} \/ CreditedTooSoonIn(A, e.w)

Credits(A, map) ==
  /\ \A e \in map : Justified(A, e)
  /\ \A d, e \in map : d.w = e.w /\ d.t = e.t => d = e

Credited(map, w) == \E e \in map : e.w = w

Pendings(A, p) ==
  \A j \in Inds(p) : p[j] \in Inds(A) /\ A[p[j]].op = "clwb" /\ A[p[j]].seq # 0

\* f flushes store w of its own thread.
FlushOf(A, w, f) ==
  /\ w \in Inds(A) /\ f \in Inds(A) /\ w < f /\ IsWrite(A[w])
  /\ A[f].t = A[w].t /\ LineOf(A[f]) = LineOf(A[w]) /\ A[f].seq # 0

\* Some byte of w has not been overwritten by the time numbered s.
Survives(A, w, s) ==
  \E b \in Bytes(A[w]) : \A v \in Writes(A, b) : A[v].seq > A[w].seq => A[v].seq > s

\* A clflush credits the stores it comes after ...
ClflushCredits(A, map) ==
  \A w, f \in Inds(A) :
    FlushOf(A, w, f) /\ IsClflush(A[f]) /\ Survives(A, w, A[f].seq) => Credited(map, w)

\* ... a clwb waits for a fence to ...
ClwbCredits(A, lw, p, map) ==
  \A w, f \in Inds(A) : \A b \in Bytes(A[w]) :
    FlushOf(A, w, f) /\ A[f].op = "clwb" /\ lw[b] = w => In(p, f) \/ Credited(map, w)

\* ... and has been credited after one of its thread.  Fence g has not been analysed.
FenceCredits(A, map, g) ==
  \A w, f, h \in Inds(A) :
    /\ FlushOf(A, w, f) /\ A[f].op = "clwb"
    /\ f < h /\ h # g /\ A[h].t = A[f].t /\ IsFence(A[h]) /\ A[h].seq # 0
    /\ Survives(A, w, A[h].seq)
    => Credited(map, w)

(***************************************************************************)
(* The invariant.                                                          *)
(***************************************************************************)

Acted(A, u) ==
  /\ Fits(A) /\ Clocks(A, u) /\ Numbered(A) /\ Linked(A) /\ InOrder(A)

Core(x, h) ==
  /\ x \in State
  /\ Acted(x.acts, x.used)
  /\ \A t, u \in Thread : x.last[t][u] =< x.used
  /\ \A t \in Thread : x.lastsfence[t] \in 0 .. Len(x.acts)
  /\ Buffers(x) /\ Waiting(x, h)

Analysed(x) ==
  /\ Latest(x.acts, x.lastWrites)
  /\ Credits(x.acts, x.flushmap)
  /\ Pendings(x.acts, x.pendingclwbs)
  /\ ClflushCredits(x.acts, x.flushmap)
  /\ ClwbCredits(x.acts, x.lastWrites, x.pendingclwbs, x.flushmap)

\* h is about to take effect, fence g about to be analysed.
Good(x, h, g) == Core(x, h) /\ Analysed(x) /\ FenceCredits(x.acts, x.flushmap, g)

\* obj_to_last_write
Issued(A, olw) ==
  \A t \in Thread, l \in Line : LastOrdered(A, Len(A) + 1, t, l, olw[t][l])

\* The first half of an RMW is the last action until the second.
Halves ==
  /\ \A k \in Inds(acts) : acts[k].op = "rmwr" => k = Len(acts) /\ HalfWay(acts[k].t)
  /\ \A t \in Thread : HalfWay(t) =>
       LET k == Len(acts)
       IN  /\ k \in Inds(acts) /\ acts[k].op = "rmwr" /\ acts[k].t = t /\ acts[k].seq = 0
           /\ acts[k].b = Pending(t).b /\ acts[k].n = Pending(t).n
           /\ storeBuffer[t] = <<>> /\ flushBuffer[t] = <<>>

Running ==
  phase = "running" =>
    /\ Good(Now, 0, 0) /\ NoRMW(Now)
    /\ Issued(acts, obj_to_last_write)
    /\ Halves
    /\ report = EmptyReport

\* A clwb takes effect before the fences its thread issues after it.
FencesWait(A) ==
  \A f, g \in Inds(A) :
    A[f].op = "clwb" /\ f < g /\ A[g].t = A[f].t /\ IsFence(A[g]) /\ A[g].seq # 0
    => A[f].seq # 0

\* What the crash leaves.
Settled ==
  phase # "running" =>
    /\ \E u \in Nat : Acted(acts, u)
    /\ FencesWait(acts)
    /\ BuffersIn(acts, storeBuffer, flushBuffer)
    /\ Latest(acts, lastWrites)
    /\ Pendings(acts, pendingclwbs)
    /\ Credits(acts, flushmap)
    /\ ClflushCredits(acts, flushmap)
    /\ FenceCredits(acts, flushmap, 0)

Ranges ==
  /\ observed \in Clock
  /\ beginRangeCV = NoEntry \/ (beginRangeCV \in Clock /\ \A u \in Thread : beginRangeCV[u] =< observed[u])
  /\ lastFlush = atomicSeen /\ lastFlush \in [Line -> Nat]

Reported ==
  /\ \A w \in report.cands \ {0} :
       /\ w \in Inds(acts) /\ IsWrite(acts[w]) /\ acts[w].seq # 0
       /\ IsAtomicWrite(acts[w]) \/ w \in report.errors \/ acts[w].seq =< report.atomicSeen
            \/ flushExistsBeforeCV(flushmap, acts, w, report.observed)
  /\ \A w \in report.warnings : w \in report.cands \ {0} /\ ~Credited(flushmap, w)
  /\ report.observed \in Clock

Typed ==
  /\ prog \in Program /\ pc \in [Thread -> Nat \ {0}]
  /\ obj_to_last_write \in [Thread -> [Line -> Nat]]
  /\ phase \in {"running", "crash", "eviction"}
  /\ Now \in State

IInv == Typed /\ Running /\ Settled /\ Ranges /\ Reported

-------------------------------------------------------------------------------
(* Sets of naturals.                                                       *)

LEMMA LeastExists ==
  ASSUME NEW S \in SUBSET Nat, S # {}
  PROVE  \E n \in S : \A m \in S : n =< m
<1>1. PICK n \in S : \A m \in S : <<m, n>> \notin OpToRel(<, Nat)
  BY NatLessThanWellFounded, WFMin
<1>2. \A m \in S : n =< m
  <2> SUFFICES ASSUME NEW m \in S, m < n PROVE FALSE
    OBVIOUS
  <2>1. <<m, n>> \in OpToRel(<, Nat)
    BY DEF OpToRel
  <2> QED  BY <1>1, <2>1
<1> QED  BY <1>2

\* One that is bounded has a greatest.
LEMMA GreatestExists ==
  ASSUME NEW S \in SUBSET Nat, S # {}, NEW n \in Nat, \A m \in S : m =< n
  PROVE  \E g \in S : \A m \in S : m =< g
<1> DEFINE D == {k \in 0 .. n : n - k \in S}
<1>1. \A m \in S : m \in Nat /\ n - m \in D /\ n - (n - m) = m
  OBVIOUS
<1>2. D \in SUBSET Nat /\ D # {}
  <2>1. PICK m \in S : TRUE
    OBVIOUS
  <2>2. n - m \in D
    BY <1>1, <2>1
  <2>3. D \in SUBSET Nat
    OBVIOUS
  <2> QED  BY <2>2, <2>3
<1> HIDE DEF D
<1>3. PICK k \in D : \A j \in D : k =< j
  BY <1>2, LeastExists
<1>4. n - k \in S /\ k \in Nat
  BY <1>3 DEF D
<1>5. ASSUME NEW m \in S PROVE m =< n - k
  <2>1. m \in Nat /\ k =< n - m
    BY <1>1, <1>3
  <2> QED  BY <1>4, <2>1
<1> QED  BY <1>4, <1>5

LEMMA MaxIs ==
  ASSUME NEW S \in SUBSET Nat, S # {}, NEW n \in Nat, \A m \in S : m =< n
  PROVE  Max(S) \in S /\ \A m \in S : m =< Max(S)
<1>1. PICK g \in S : \A m \in S : m =< g
  BY GreatestExists
<1>2. \A m \in S : m \in Nat /\ g >= m
  BY <1>1
<1>3. Max(S) \in S /\ \A m \in S : Max(S) >= m
  BY <1>2 DEF Max
<1> QED  BY <1>3

\* Induction over a prefix of the naturals, with a set for the hypothesis.
LEMMA Climb ==
  ASSUME NEW n \in Nat, NEW P, 0 \in P, \A k \in 0 .. (n - 1) : k \in P => k + 1 \in P
  PROVE  \A k \in 0 .. n : k \in P
<1> DEFINE Out == {k \in 0 .. n : k \notin P}
<1> SUFFICES ASSUME Out # {} PROVE FALSE
  OBVIOUS
<1>1. Out \in SUBSET Nat
  OBVIOUS
<1>2. PICK k \in Out : \A m \in Out : k =< m
  <2> HIDE DEF Out
  <2> QED  BY <1>1, LeastExists
<1>3. k \in 0 .. n /\ k \notin P /\ k # 0
  OBVIOUS
<1>4. k - 1 \in 0 .. (n - 1) /\ k - 1 \in 0 .. n /\ (k - 1) + 1 = k
  BY <1>3
<1>5. k - 1 \in P
  BY <1>2, <1>3, <1>4
<1> QED  BY <1>3, <1>4, <1>5

-------------------------------------------------------------------------------
(* Constants and actions.                                                  *)

LEMMA Constants ==
  /\ N \in Nat \ {0} /\ CacheLineSize \in Nat \ {0} /\ Address \in SUBSET Nat
  /\ ValueNone \in Nat /\ MaxOps \in Nat
  /\ \A p \in Program : DOMAIN p = Thread /\ \A t \in Thread : Issuable(p[t])
BY PersistRaceAssumption

LEMMA ActsIs ==
  ASSUME NEW A \in Seq(Action)
  PROVE  /\ Len(A) \in Nat /\ DOMAIN A = Inds(A)
         /\ \A k \in Inds(A) : k \in Nat \ {0} /\ A[k] \in Action
         /\ \A k \in Inds(A) :
              /\ A[k].op \in Kinds /\ A[k].b \in Nat /\ A[k].n \in Nat /\ A[k].t \in Thread
              /\ A[k].seq \in Nat /\ A[k].cv \in Clock /\ A[k].lastwrite \in Nat
              /\ A[k].lastcommittedWrite \in Nat /\ A[k].last_clflush \in Nat
<1>1. Len(A) \in Nat /\ DOMAIN A = Inds(A)
  BY LenProperties DEF Inds
<1>2. \A k \in Inds(A) : k \in Nat \ {0} /\ A[k] \in Action
  <2>1. \A k \in 1 .. Len(A) : A[k] \in Action
    BY ElementOfSeq
  <2>2. \A k \in 1 .. Len(A) : k \in Nat /\ k # 0
    BY <1>1
  <2> QED  BY <2>1, <2>2 DEF Inds
<1>3. \A a \in Action :
        /\ a.op \in Kinds /\ a.b \in Nat /\ a.n \in Nat /\ a.t \in Thread
        /\ a.seq \in Nat /\ a.cv \in Clock /\ a.lastwrite \in Nat
        /\ a.lastcommittedWrite \in Nat /\ a.last_clflush \in Nat
  BY DEF Action
<1> QED  BY <1>1, <1>2, <1>3

LEMMA IndsIs ==
  ASSUME NEW S, NEW s \in Seq(S), NEW k
  PROVE  Len(s) \in Nat /\ (k \in Inds(s) <=> k \in Nat /\ 1 =< k /\ k =< Len(s))
<1>1. PICK n \in Nat : n = Len(s)
  BY LenProperties
<1>2. k \in 1 .. n <=> k \in Nat /\ 1 =< k /\ k =< n
  OBVIOUS
<1> QED  BY <1>1, <1>2, Zenon DEF Inds

LEMMA KindsIs ==
  ASSUME NEW a
  PROVE  /\ IsWrite(a) => a.op \in {"store", "atomic", "seqcst", "rmw"}
         /\ IsClflush(a) => a.op = "clflush" /\ ~IsWrite(a) /\ ~IsFence(a)
         /\ a.op = "clwb" => ~Ordered(a) /\ ~IsFence(a)
         /\ IsFence(a) => a.op \in {"sfence", "mfence", "rmw"}
         /\ Ordered(a) <=> a.op \in {"store", "atomic", "seqcst", "rmw", "clflush"}
BY DEF IsWrite, IsClflush, Ordered, IsFence

LEMMA WritesIs ==
  ASSUME NEW A \in Seq(Action), NEW b, NEW w
  PROVE  w \in Writes(A, b) <=> w \in Inds(A) /\ IsWrite(A[w]) /\ A[w].seq # 0 /\ b \in Bytes(A[w])
BY ActsIs DEF Writes

\* The bytes of an access lie in one line.
LEMMA BytesIs ==
  ASSUME NEW A \in Seq(Action), Fits(A), NEW k \in Inds(A),
         A[k].op \notin {"sfence", "mfence"}
  PROVE  /\ A[k].b \in Bytes(A[k]) /\ A[k].b \in Address /\ LineOf(A[k]) \in Line
         /\ \A b \in Bytes(A[k]) : b \in Address /\ getCacheID(b) = LineOf(A[k])
<1>1. A[k].n > 0 /\ \A b \in Bytes(A[k]) : b \in Address /\ getCacheID(b) = LineOf(A[k])
  BY DEF Fits
<1>2. A[k].b \in Nat /\ A[k].n \in Nat
  BY ActsIs
<1>3. A[k].b \in Bytes(A[k])
  <2>1. \A b, n \in Nat : n > 0 => b \in b .. (b + n - 1)
    OBVIOUS
  <2> QED  BY <1>1, <1>2, <2>1 DEF Bytes
<1> QED  BY <1>1, <1>3 DEF LineOf, Line

\* What a flush wrote back is the greatest of what its fields say.
LEMMA WroteBackIs ==
  ASSUME NEW A \in Seq(Action), NEW f \in Inds(A), A[f].lastwrite \in 0 .. Len(A)
  PROVE  /\ WroteBackToIn(A, f) \in Nat
         /\ ~IsClflush(A[f]) => /\ WroteBackToIn(A, f) >= A[f].lastcommittedWrite
                                /\ A[f].lastwrite # 0 => WroteBackToIn(A, f) >= A[A[f].lastwrite].seq
<1>2. A[f].lastwrite # 0 => A[f].lastwrite \in Inds(A)
  <2>1. PICK n \in Nat : n = Len(A)
    BY LenProperties
  <2>2. PICK i \in 0 .. n : i = A[f].lastwrite
    BY <2>1
  <2>3. i # 0 => i \in 1 .. n
    OBVIOUS
  <2> QED  BY <2>1, <2>2, <2>3, Zenon DEF Inds
<1> DEFINE a == A[f]
           S == {a.lastcommittedWrite} \cup ({a.last_clflush} \ {ValueNone})
                  \cup {A[i].seq : i \in {a.lastwrite} \ {0}}
           q == IF a.lastwrite = 0 THEN 0 ELSE A[a.lastwrite].seq
<1>1. a.lastcommittedWrite \in Nat /\ a.last_clflush \in Nat /\ a.seq \in Nat
  BY ActsIs
<1>3. q \in Nat
  BY <1>2, ActsIs
<1>4. \A y \in S : y = a.lastcommittedWrite \/ y = a.last_clflush \/ y = q
  OBVIOUS
<1>5. a.lastcommittedWrite \in S /\ (a.lastwrite # 0 => q \in S)
  OBVIOUS
<1> HIDE DEF q, S
<1>6. a.lastcommittedWrite + a.last_clflush + q \in Nat
      /\ \A y \in S : y \in Nat /\ y =< a.lastcommittedWrite + a.last_clflush + q
  <2>1. \A c, d, e \in Nat : c + d + e \in Nat /\ c =< c + d + e /\ d =< c + d + e /\ e =< c + d + e
    OBVIOUS
  <2> HIDE DEF a
  <2>2. PICK c \in Nat, d \in Nat : c = a.lastcommittedWrite /\ d = a.last_clflush
    BY <1>1
  <2>3. \A y \in S : y = c \/ y = d \/ y = q
    BY <1>4, <2>2
  <2>4. c + d + q \in Nat /\ c =< c + d + q /\ d =< c + d + q /\ q =< c + d + q
    BY <1>3, <2>1, <2>2
  <2>5. \A y \in S : y \in Nat /\ y =< c + d + q
    BY <1>3, <2>3, <2>4
  <2> QED  BY <2>2, <2>4, <2>5
<1>7. S \in SUBSET Nat /\ S # {}
  BY <1>5, <1>6
<1>8. Max(S) \in S /\ \A y \in S : y =< Max(S)
  BY <1>6, <1>7, MaxIs
<1>9. CASE IsClflush(a)
  BY <1>1, <1>9 DEF WroteBackToIn
<1>10. CASE ~IsClflush(a)
  <2>1. WroteBackToIn(A, f) = Max(S)
    BY <1>10 DEF WroteBackToIn, S
  <2>2. Max(S) \in Nat
    BY <1>7, <1>8
  <2>3. a.lastwrite # 0 => q = A[a.lastwrite].seq
    BY DEF q
  <2> QED  BY <1>1, <1>3, <1>5, <1>8, <2>1, <2>2, <2>3
<1> QED  BY <1>9, <1>10

-------------------------------------------------------------------------------
(* What a step keeps of the actions.                                       *)

\* The actions A become B: more may follow, and some take effect.
Keeps(A, B) ==
  /\ Len(A) =< Len(B)
  /\ \A k \in Inds(A) :
       /\ B[k].b = A[k].b /\ B[k].n = A[k].n /\ B[k].t = A[k].t
       /\ B[k].lastwrite = A[k].lastwrite /\ B[k].lastcommittedWrite = A[k].lastcommittedWrite
       /\ \/ B[k].op = A[k].op
          \/ k = Len(A) /\ A[k].op = "rmwr" /\ B[k].op \in {"rmw", "casread"}
       /\ A[k].seq # 0 => /\ B[k].seq = A[k].seq /\ B[k].op = A[k].op
                          /\ B[k].last_clflush = A[k].last_clflush

\* At most i has taken effect.
Only(A, B, i) == \A k \in Inds(B) : B[k].seq # 0 /\ k # i => k \in Inds(A) /\ A[k].seq # 0

LEMMA KeepsIs ==
  ASSUME NEW A \in Seq(Action), NEW B \in Seq(Action), Keeps(A, B), NEW k \in Inds(A)
  PROVE  /\ k \in Inds(B) /\ B[k].t = A[k].t
         /\ Bytes(B[k]) = Bytes(A[k]) /\ LineOf(B[k]) = LineOf(A[k])
         /\ A[k].op # "rmwr" => B[k].op = A[k].op
         /\ k # Len(A) => B[k].op = A[k].op
         /\ B[k].op = A[k].op => /\ IsWrite(B[k]) <=> IsWrite(A[k])
                                 /\ IsClflush(B[k]) <=> IsClflush(A[k])
                                 /\ IsFence(B[k]) <=> IsFence(A[k])
                                 /\ Ordered(B[k]) <=> Ordered(A[k])
         /\ A[k].seq # 0 => B[k].seq = A[k].seq /\ B[k].op = A[k].op
<1>1. k \in Inds(B)
  <2>1. Len(A) =< Len(B)
    BY DEF Keeps
  <2>2. k \in Nat /\ 1 =< k /\ k =< Len(A) /\ Len(A) \in Nat /\ Len(B) \in Nat
    BY IndsIs
  <2>3. k =< Len(B)
    BY <2>1, <2>2
  <2> QED  BY <2>2, <2>3, IndsIs
<1>2. B[k].b = A[k].b /\ B[k].n = A[k].n /\ B[k].t = A[k].t
  BY DEF Keeps
<1>3. \/ B[k].op = A[k].op
      \/ k = Len(A) /\ A[k].op = "rmwr" /\ B[k].op \in {"rmw", "casread"}
  BY DEF Keeps
<1>4. A[k].seq # 0 => B[k].seq = A[k].seq /\ B[k].op = A[k].op
  BY DEF Keeps
<1>5. Bytes(B[k]) = Bytes(A[k]) /\ LineOf(B[k]) = LineOf(A[k])
  BY <1>2, Zenon DEF Bytes, LineOf
<1>6. B[k].op = A[k].op => /\ IsWrite(B[k]) <=> IsWrite(A[k])
                           /\ IsClflush(B[k]) <=> IsClflush(A[k])
                           /\ IsFence(B[k]) <=> IsFence(A[k])
                           /\ Ordered(B[k]) <=> Ordered(A[k])
  BY Zenon DEF IsWrite, IsClflush, IsFence, Ordered
<1> QED  BY <1>1, <1>2, <1>3, <1>4, <1>5, <1>6, Zenon

LEMMA WritesKept ==
  ASSUME NEW A \in Seq(Action), NEW B \in Seq(Action), Keeps(A, B), NEW b
  PROVE  /\ \A v \in Writes(A, b) : v \in Writes(B, b) /\ B[v].seq = A[v].seq
         /\ \A i : Only(A, B, i) => \A v \in Writes(B, b) : v = i \/ v \in Writes(A, b)
<1>1. ASSUME NEW v \in Writes(A, b) PROVE v \in Writes(B, b) /\ B[v].seq = A[v].seq
  <2>1. v \in Inds(A) /\ IsWrite(A[v]) /\ A[v].seq # 0 /\ b \in Bytes(A[v])
    BY WritesIs
  <2>2. v \in Inds(B) /\ B[v].seq = A[v].seq /\ B[v].op = A[v].op /\ Bytes(B[v]) = Bytes(A[v])
        /\ IsWrite(B[v])
    BY <2>1, KeepsIs
  <2> QED  BY <2>1, <2>2, WritesIs
<1>2. ASSUME NEW i, Only(A, B, i), NEW v \in Writes(B, b), v # i PROVE v \in Writes(A, b)
  <2>1. v \in Inds(B) /\ IsWrite(B[v]) /\ B[v].seq # 0 /\ b \in Bytes(B[v])
    BY WritesIs
  <2>2. v \in Inds(A) /\ A[v].seq # 0
    BY <1>2, <2>1 DEF Only
  <2>3. B[v].op = A[v].op /\ Bytes(B[v]) = Bytes(A[v]) /\ IsWrite(A[v])
    BY <2>1, <2>2, KeepsIs
  <2> QED  BY <2>1, <2>2, <2>3, WritesIs
<1> QED  BY <1>1, <1>2

LEMMA SurvivesKept ==
  ASSUME NEW A \in Seq(Action), NEW B \in Seq(Action), Keeps(A, B),
         NEW w \in Inds(A), A[w].seq # 0, NEW s, Survives(B, w, s)
  PROVE  Survives(A, w, s)
<1>1. Bytes(B[w]) = Bytes(A[w]) /\ B[w].seq = A[w].seq
  BY KeepsIs
<1>2. PICK b \in Bytes(A[w]) : \A v \in Writes(B, b) : B[v].seq > B[w].seq => B[v].seq > s
  BY <1>1 DEF Survives
<1>3. \A v \in Writes(A, b) : v \in Writes(B, b) /\ B[v].seq = A[v].seq
  BY WritesKept
<1> QED  BY <1>1, <1>2, <1>3 DEF Survives

\* What a clwb refers to has taken effect before it.
LEMMA LinkInEffect ==
  ASSUME NEW A \in Seq(Action), Linked(A), InOrder(A), NEW f \in Inds(A),
         A[f].op = "clwb"
  PROVE  LET i == A[f].lastwrite
         IN  /\ i \in 0 .. Len(A) /\ i < f
             /\ i # 0 => /\ i \in Inds(A) /\ Ordered(A[i]) /\ A[i].t = A[f].t
                         /\ LineOf(A[i]) = LineOf(A[f])
                         /\ A[f].seq # 0 => A[i].seq # 0
<1>1. PICK i : i = A[f].lastwrite
  OBVIOUS
<1>2. LastOrdered(A, f, A[f].t, LineOf(A[f]), i)
  BY <1>1 DEF Linked
<1>3. i = 0 \/ (i \in 1 .. (f - 1) /\ Ordered(A[i]) /\ A[i].t = A[f].t /\ LineOf(A[i]) = LineOf(A[f]))
  BY <1>2 DEF LastOrdered
<1>4. f \in Nat /\ Len(A) \in Nat /\ 1 =< f /\ f =< Len(A)
  BY IndsIs
<1>5. i \in Nat /\ i < f /\ (i # 0 => 1 =< i)
  BY <1>3, <1>4
<1>7. i =< Len(A) /\ i \in 0 .. Len(A)
  BY <1>4, <1>5
<1>8. i # 0 => i \in Inds(A)
  BY <1>5, <1>7, IndsIs
<1>6. i # 0 /\ A[f].seq # 0 => A[i].seq # 0
  BY <1>3, <1>5, <1>8 DEF InOrder
<1> QED  BY <1>1, <1>3, <1>5, <1>6, <1>7, <1>8

LEMMA FlushesKept ==
  ASSUME NEW A \in Seq(Action), NEW B \in Seq(Action), Keeps(A, B), Linked(A), InOrder(A),
         NEW w \in Inds(A), A[w].seq # 0, NEW f \in FlushesIn(A, w)
  PROVE  f \in FlushesIn(B, w)
<1>1. f \in Inds(A) /\ A[f].op \in {"clflush", "clwb"} /\ A[f].seq # 0
      /\ LineOf(A[f]) = LineOf(A[w]) /\ WroteBackToIn(A, f) >= A[w].seq
  BY ActsIs DEF FlushesIn
<1>2. f \in Inds(B) /\ B[f].op = A[f].op /\ B[f].seq = A[f].seq /\ LineOf(B[f]) = LineOf(A[f])
      /\ LineOf(B[w]) = LineOf(A[w]) /\ B[w].seq = A[w].seq
  BY <1>1, KeepsIs
<1>3. WroteBackToIn(B, f) = WroteBackToIn(A, f)
  <2>1. CASE IsClflush(A[f])
    BY <1>2, <2>1 DEF WroteBackToIn, IsClflush
  <2>2. CASE ~IsClflush(A[f])
    <3>1. A[f].op = "clwb" /\ ~IsClflush(B[f])
      BY <1>1, <1>2, <2>2 DEF IsClflush
    <3>2. B[f].lastwrite = A[f].lastwrite /\ B[f].lastcommittedWrite = A[f].lastcommittedWrite
          /\ B[f].last_clflush = A[f].last_clflush
      BY <1>1 DEF Keeps
    <3>3. PICK j : j = A[f].lastwrite
      OBVIOUS
    <3>4. j # 0 => j \in Inds(A) /\ A[j].seq # 0
      BY <1>1, <3>1, <3>3, LinkInEffect
    <3>5. j # 0 => B[j].seq = A[j].seq
      BY <3>4, KeepsIs
    <3>6. {B[i].seq : i \in {j} \ {0}} = {A[i].seq : i \in {j} \ {0}}
      BY <3>5
    <3> QED  BY <2>2, <3>1, <3>2, <3>3, <3>6, Zenon DEF WroteBackToIn
  <2> QED  BY <2>1, <2>2
<1> QED  BY <1>1, <1>2, <1>3, ActsIs DEF FlushesIn

LEMMA JustifiedKept ==
  ASSUME NEW A \in Seq(Action), NEW B \in Seq(Action), Keeps(A, B), Linked(A), InOrder(A),
         NEW e, Justified(A, e)
  PROVE  Justified(B, e)
<1>1. /\ e.w \in Inds(A) /\ IsWrite(A[e.w]) /\ A[e.w].seq # 0
      /\ e.f \in Inds(A) /\ A[e.f].seq # 0 /\ e.t = A[e.f].t
      /\ IsClflush(A[e.f]) => e.f \in FlushesIn(A, e.w)
      /\ FlushesIn(A, e.w) # {} \/ CreditedTooSoonIn(A, e.w)
  BY DEF Justified
<1>2. /\ e.w \in Inds(B) /\ B[e.w].seq = A[e.w].seq /\ IsWrite(B[e.w]) /\ B[e.w].t = A[e.w].t
      /\ LineOf(B[e.w]) = LineOf(A[e.w])
  BY <1>1, KeepsIs
<1>3. e.f \in Inds(B) /\ B[e.f].seq = A[e.f].seq /\ B[e.f].t = A[e.f].t
      /\ (IsClflush(B[e.f]) <=> IsClflush(A[e.f]))
  BY <1>1, KeepsIs
<1>4. \A f \in FlushesIn(A, e.w) : f \in FlushesIn(B, e.w)
  BY <1>1, FlushesKept
<1>5. ASSUME CreditedTooSoonIn(A, e.w) PROVE CreditedTooSoonIn(B, e.w)
  <2>1. PICK c \in 1 .. e.w : /\ A[c].op = "clwb" /\ A[c].t = A[e.w].t /\ A[c].lastwrite = 0
                              /\ LineOf(A[c]) = LineOf(A[e.w])
    BY <1>5 DEF CreditedTooSoonIn
  <2>2. c \in Inds(A)
    <3>1. e.w \in Nat /\ e.w =< Len(A) /\ Len(A) \in Nat
      BY <1>1, IndsIs
    <3>2. c \in Nat /\ 1 =< c /\ c =< Len(A)
      BY <3>1
    <3> QED  BY <3>2, IndsIs
  <2>3. B[c].op = A[c].op /\ B[c].t = A[c].t /\ LineOf(B[c]) = LineOf(A[c])
    BY <2>1, <2>2, KeepsIs
  <2>4. B[c].lastwrite = A[c].lastwrite
    BY <2>2 DEF Keeps
  <2> QED  BY <1>2, <2>1, <2>3, <2>4 DEF CreditedTooSoonIn
<1> QED  BY <1>1, <1>2, <1>3, <1>4, <1>5 DEF Justified

LEMMA CreditsKept ==
  ASSUME NEW A \in Seq(Action), NEW B \in Seq(Action), Keeps(A, B), Linked(A), InOrder(A),
         NEW map, Credits(A, map)
  PROVE  Credits(B, map)
BY JustifiedKept DEF Credits

LEMMA PendingsKept ==
  ASSUME NEW A \in Seq(Action), NEW B \in Seq(Action), Keeps(A, B), NEW p, Pendings(A, p)
  PROVE  Pendings(B, p)
<1> SUFFICES ASSUME NEW j \in Inds(p)
             PROVE  p[j] \in Inds(B) /\ B[p[j]].op = "clwb" /\ B[p[j]].seq # 0
  BY DEF Pendings
<1>1. p[j] \in Inds(A) /\ A[p[j]].op = "clwb" /\ A[p[j]].seq # 0
  BY DEF Pendings
<1> QED  BY <1>1, KeepsIs

\* A flush that was in effect flushed the same stores.
LEMMA FlushOfKept ==
  ASSUME NEW A \in Seq(Action), NEW B \in Seq(Action), Keeps(A, B), InOrder(A),
         NEW i, Only(A, B, i), NEW w, NEW f, FlushOf(B, w, f), f # i
  PROVE  FlushOf(A, w, f) /\ A[w].seq # 0 /\ A[f].op = B[f].op /\ B[f].seq = A[f].seq
         /\ Bytes(B[w]) = Bytes(A[w])
<1>1. /\ w \in Inds(B) /\ f \in Inds(B) /\ w < f /\ IsWrite(B[w])
      /\ B[f].t = B[w].t /\ LineOf(B[f]) = LineOf(B[w]) /\ B[f].seq # 0
  BY DEF FlushOf
<1>2. f \in Inds(A) /\ A[f].seq # 0
  BY <1>1 DEF Only
<1>3. w \in Inds(A) /\ w # Len(A)
  <2>1. w \in Nat /\ 1 =< w /\ f \in Nat /\ f =< Len(A) /\ Len(A) \in Nat
    BY <1>1, <1>2, IndsIs
  <2>2. w =< Len(A) /\ w # Len(A)
    BY <1>1, <2>1
  <2> QED  BY <2>1, <2>2, IndsIs
<1>4. B[f].op = A[f].op /\ B[f].t = A[f].t /\ LineOf(B[f]) = LineOf(A[f]) /\ B[f].seq = A[f].seq
  BY <1>2, KeepsIs
<1>5. B[w].op = A[w].op /\ B[w].t = A[w].t /\ LineOf(B[w]) = LineOf(A[w]) /\ IsWrite(A[w])
      /\ Bytes(B[w]) = Bytes(A[w])
  BY <1>1, <1>3, KeepsIs
<1>6. FlushOf(A, w, f)
  BY <1>1, <1>2, <1>3, <1>4, <1>5 DEF FlushOf
<1>7. A[w].seq # 0
  BY <1>1, <1>2, <1>3, <1>4, <1>5 DEF InOrder, Ordered
<1> QED  BY <1>4, <1>5, <1>6, <1>7

LEMMA ClflushCreditsKept ==
  ASSUME NEW A \in Seq(Action), NEW B \in Seq(Action), Keeps(A, B), InOrder(A),
         NEW i, Only(A, B, i),
         NEW map, NEW map2, \A w : Credited(map, w) => Credited(map2, w),
         i \in Inds(B) /\ IsClflush(B[i]) =>
           \A w \in Inds(B) : FlushOf(B, w, i) /\ Survives(B, w, B[i].seq) => Credited(map2, w),
         ClflushCredits(A, map)
  PROVE  ClflushCredits(B, map2)
<1> SUFFICES ASSUME NEW w \in Inds(B), NEW f \in Inds(B), FlushOf(B, w, f), IsClflush(B[f]),
                    Survives(B, w, B[f].seq)
             PROVE  Credited(map2, w)
  BY DEF ClflushCredits
<1> SUFFICES ASSUME f # i PROVE Credited(map2, w)
  OBVIOUS
<1>1. f # i
  OBVIOUS
<1>2. FlushOf(A, w, f) /\ A[w].seq # 0 /\ A[f].op = B[f].op /\ B[f].seq = A[f].seq
  BY <1>1, FlushOfKept
<1>3. w \in Inds(A) /\ f \in Inds(A)
  BY <1>2 DEF FlushOf
<1>4. Survives(A, w, A[f].seq)
  BY <1>2, <1>3, SurvivesKept
<1>5. IsClflush(A[f])
  BY <1>2 DEF IsClflush
<1> QED  BY <1>2, <1>3, <1>4, <1>5 DEF ClflushCredits

LEMMA FenceCreditsKept ==
  ASSUME NEW A \in Seq(Action), NEW B \in Seq(Action), Keeps(A, B), InOrder(A),
         NEW i, Only(A, B, i),
         i \in Inds(B) /\ B[i].op = "clwb" =>
           \A k \in Inds(B) : B[k].t = B[i].t /\ IsFence(B[k]) /\ B[k].seq # 0 => k < i,
         NEW g, NEW h, i \in Inds(B) /\ IsFence(B[i]) => i = h,
         g = 0 \/ g = h,
         NEW map, NEW map2, \A w : Credited(map, w) => Credited(map2, w),
         FenceCredits(A, map, g)
  PROVE  FenceCredits(B, map2, h)
<1> SUFFICES ASSUME NEW w \in Inds(B), NEW f \in Inds(B), NEW k \in Inds(B),
                    FlushOf(B, w, f), B[f].op = "clwb",
                    f < k, k # h, B[k].t = B[f].t, IsFence(B[k]), B[k].seq # 0,
                    Survives(B, w, B[k].seq)
             PROVE  Credited(map2, w)
  BY DEF FenceCredits
<1>1. f # i /\ k # i
  <2>1. f \in Nat /\ k \in Nat
    BY IndsIs
  <2>2. f # i
    BY <2>1
  <2> QED  BY <2>2
<1>2. FlushOf(A, w, f) /\ A[w].seq # 0 /\ A[f].op = B[f].op
  BY <1>1, FlushOfKept
<1>3. w \in Inds(A) /\ f \in Inds(A)
  BY <1>2 DEF FlushOf
<1>4. k \in Inds(A) /\ A[k].seq # 0
  BY <1>1 DEF Only
<1>5. B[k].t = A[k].t /\ IsFence(A[k]) /\ B[k].seq = A[k].seq /\ B[f].t = A[f].t
  BY <1>3, <1>4, KeepsIs
<1>6. Survives(A, w, A[k].seq)
  BY <1>2, <1>3, <1>5, SurvivesKept
<1>7. k \in Nat /\ k # 0
  BY <1>4, IndsIs
<1>8. k # g
  BY <1>7
<1>9. Credited(map, w)
  BY <1>2, <1>3, <1>4, <1>5, <1>6, <1>8 DEF FenceCredits
<1> QED  BY <1>9

LEMMA ClwbCreditsKept ==
  ASSUME NEW A \in Seq(Action), NEW B \in Seq(Action), Keeps(A, B), InOrder(A), Fits(A),
         NEW i, Only(A, B, i),
         NEW lw, NEW lw2, \A b \in Address : lw2[b] = lw[b] \/ lw2[b] = i,
         NEW p, NEW p2, \A f : In(p, f) => In(p2, f),
         NEW map, NEW map2, \A w : Credited(map, w) => Credited(map2, w),
         i \in Inds(B) /\ Ordered(B[i]) =>
           \A k \in Inds(B) : B[k].t = B[i].t /\ B[k].seq # 0 => k =< i,
         i \in Inds(B) /\ B[i].op = "clwb" => In(p2, i),
         ClwbCredits(A, lw, p, map)
  PROVE  ClwbCredits(B, lw2, p2, map2)
<1> SUFFICES ASSUME NEW w \in Inds(B), NEW f \in Inds(B), NEW b \in Bytes(B[w]),
                    FlushOf(B, w, f), B[f].op = "clwb", lw2[b] = w
             PROVE  In(p2, f) \/ Credited(map2, w)
  BY DEF ClwbCredits
<1>1. CASE f = i
  BY <1>1
<1>2. CASE f # i
  <2>1. FlushOf(A, w, f) /\ A[f].op = B[f].op /\ Bytes(B[w]) = Bytes(A[w])
    BY <1>2, FlushOfKept
  <2>2. w \in Inds(A) /\ f \in Inds(A) /\ IsWrite(A[w]) /\ b \in Bytes(A[w])
    BY <2>1 DEF FlushOf
  <2>3. b \in Address
    <3>1. A[w].op \notin {"sfence", "mfence"}
      BY <2>2 DEF IsWrite
    <3> QED  BY <2>2, <3>1, BytesIs
  <2>4. lw[b] = w
    <3>1. w # i
      <4>1. IsWrite(B[w]) /\ B[f].t = B[w].t /\ B[f].seq # 0 /\ w < f /\ w \in Nat /\ f \in Nat
        BY IndsIs DEF FlushOf
      <4>2. w = i => f =< w
        BY <4>1 DEF Ordered
      <4> QED  BY <4>1, <4>2
    <3> QED  BY <2>3, <3>1
  <2>5. In(p, f) \/ Credited(map, w)
    BY <2>1, <2>2, <2>4 DEF ClwbCredits
  <2> QED  BY <2>5
<1> QED  BY <1>1, <1>2

LEMMA LatestKept ==
  ASSUME NEW A \in Seq(Action), NEW B \in Seq(Action), Keeps(A, B),
         NEW i, Only(A, B, i), i \in Inds(B) => ~IsWrite(B[i]),
         NEW lw, Latest(A, lw)
  PROVE  Latest(B, lw)
<1> SUFFICES ASSUME NEW b \in Address
             PROVE  \/ lw[b] = 0 /\ Writes(B, b) = {}
                    \/ lw[b] \in Writes(B, b) /\ \A v \in Writes(B, b) : B[v].seq =< B[lw[b]].seq
  BY DEF Latest
<1>1. \A v \in Writes(A, b) : v \in Writes(B, b) /\ B[v].seq = A[v].seq
  BY WritesKept
<1>2. \A v \in Writes(B, b) : v \in Writes(A, b)
  BY WritesKept, WritesIs
<1>3. \/ lw[b] = 0 /\ Writes(A, b) = {}
      \/ lw[b] \in Writes(A, b) /\ \A v \in Writes(A, b) : A[v].seq =< A[lw[b]].seq
  BY DEF Latest
<1> QED  BY <1>1, <1>2, <1>3

\* The newest write becomes the last one of its bytes.
LEMMA LatestWrite ==
  ASSUME NEW A \in Seq(Action), NEW B \in Seq(Action), Keeps(A, B), Fits(B),
         NEW i \in Inds(B), Only(A, B, i), IsWrite(B[i]), B[i].seq # 0,
         \A k \in Inds(B) : B[k].seq =< B[i].seq,
         NEW lw, NEW lw2, Latest(A, lw),
         \A b \in Address : /\ b \in Bytes(B[i]) => lw2[b] = i
                            /\ b \notin Bytes(B[i]) => lw2[b] = lw[b]
  PROVE  Latest(B, lw2)
<1> SUFFICES ASSUME NEW b \in Address
             PROVE  \/ lw2[b] = 0 /\ Writes(B, b) = {}
                    \/ lw2[b] \in Writes(B, b) /\ \A v \in Writes(B, b) : B[v].seq =< B[lw2[b]].seq
  BY DEF Latest
<1>1. \A v \in Writes(A, b) : v \in Writes(B, b) /\ B[v].seq = A[v].seq
  BY WritesKept
<1>2. \A v \in Writes(B, b) : v = i \/ v \in Writes(A, b)
  BY WritesKept
<1>3. \/ lw[b] = 0 /\ Writes(A, b) = {}
      \/ lw[b] \in Writes(A, b) /\ \A v \in Writes(A, b) : A[v].seq =< A[lw[b]].seq
  BY DEF Latest
<1>4. CASE b \in Bytes(B[i])
  <2>1. i \in Writes(B, b)
    BY <1>4, WritesIs
  <2>2. lw2[b] = i
    BY <1>4
  <2> QED  BY <2>1, <2>2, WritesIs
<1>5. CASE b \notin Bytes(B[i])
  <2>1. i \notin Writes(B, b)
    BY <1>5, WritesIs
  <2>2. lw2[b] = lw[b]
    BY <1>5
  <2> QED  BY <1>1, <1>2, <1>3, <2>1, <2>2
<1> QED  BY <1>4, <1>5

\* What is credited stays so when a flush vector is updated.
LEMMA UpdateIs ==
  ASSUME NEW x, NEW ws, NEW f, NEW T, T = updateFlushVector(x, ws, f)
  PROVE  /\ \A w : Credited(x.flushmap, w) => Credited(T, w)
         /\ \A w \in ws : Credited(T, w)
         /\ \A e \in T : e \in x.flushmap \/ (e.w \in ws /\ e.t = x.acts[f].t /\ e.f = f)
         /\ (\A d, e \in x.flushmap : d.w = e.w /\ d.t = e.t => d = e)
              => \A d, e \in T : d.w = e.w /\ d.t = e.t => d = e
         /\ x.flushmap \in SUBSET Entry /\ ws \in SUBSET Nat /\ f \in Nat /\ x.acts[f].t \in Thread
              => T \in SUBSET Entry
<1> DEFINE u == x.acts[f].t
           Old == {e \in x.flushmap : ~(e.w \in ws /\ e.t = u)}
           New == {[w |-> w, t |-> u, f |-> f] : w \in ws}
<1>1. T = Old \cup New
  BY DEF updateFlushVector
<1>2. \A w \in ws : Credited(T, w)
  <2> SUFFICES ASSUME NEW w \in ws PROVE Credited(T, w)
    OBVIOUS
  <2>1. [w |-> w, t |-> u, f |-> f] \in T
    BY <1>1
  <2>2. [w |-> w, t |-> u, f |-> f].w = w
    OBVIOUS
  <2> QED  BY <2>1, <2>2 DEF Credited
<1>3. ASSUME NEW w, Credited(x.flushmap, w) PROVE Credited(T, w)
  <2>1. CASE w \in ws
    BY <1>2, <2>1
  <2>2. CASE w \notin ws
    BY <1>1, <1>3, <2>2 DEF Credited
  <2> QED  BY <2>1, <2>2
<1>4. \A e \in New : e.w \in ws /\ e.t = u /\ e.f = f
  OBVIOUS
<1>5. ASSUME \A d, e \in x.flushmap : d.w = e.w /\ d.t = e.t => d = e, NEW d \in T, NEW e \in T,
             d.w = e.w, d.t = e.t
      PROVE  d = e
  <2>1. CASE d \in New
    <3>1. e \in New
      BY <1>1, <1>4, <1>5, <2>1
    <3>2. PICK v \in ws : d = [w |-> v, t |-> u, f |-> f]
      BY <2>1
    <3>3. PICK w \in ws : e = [w |-> w, t |-> u, f |-> f]
      BY <3>1
    <3>4. v = w
      BY <1>5, <3>2, <3>3
    <3> QED  BY <3>2, <3>3, <3>4
  <2>2. CASE d \in Old
    <3>1. e \in Old
      BY <1>1, <1>4, <1>5, <2>2
    <3> QED  BY <1>5, <2>2, <3>1
  <2> QED  BY <1>1, <2>1, <2>2
<1>6. ASSUME x.flushmap \in SUBSET Entry, ws \in SUBSET Nat, f \in Nat, u \in Thread
      PROVE  T \in SUBSET Entry
  <2>1. \A w \in ws : [w |-> w, t |-> u, f |-> f] \in Entry
    BY <1>6 DEF Entry
  <2> QED  BY <1>1, <1>6, <2>1
<1>7. \A e \in T : e \in x.flushmap \/ (e.w \in ws /\ e.t = u /\ e.f = f)
  BY <1>1, <1>4
<1> QED  BY <1>2, <1>3, <1>5, <1>6, <1>7

-------------------------------------------------------------------------------
(* An action takes effect.                                                 *)

LEMMA StateIs ==
  ASSUME NEW x \in State
  PROVE  /\ x.acts \in Seq(Action) /\ x.used \in Nat /\ x.last \in [Thread -> Clock]
         /\ x.storeBuffer \in [Thread -> Seq(Nat)] /\ x.flushBuffer \in [Thread -> Seq(Nat)]
         /\ x.lastsfence \in [Thread -> Nat] /\ x.begin \in [Line -> Nat]
         /\ x.lastWrites \in [Address -> Nat] /\ x.flushmap \in SUBSET Entry
         /\ x.pendingclwbs \in Seq(Nat) /\ x.aborted \in Nat
BY DEF State

\* i is about to take effect.
Ready(x, i) ==
  /\ i \in Inds(x.acts) /\ x.acts[i].seq = 0
  /\ \A t \in Thread : ~In(x.storeBuffer[t], i) /\ ~In(x.flushBuffer[t], i)
  /\ LET t == x.acts[i].t
     IN  /\ \A j \in Inds(x.storeBuffer[t]) : i < x.storeBuffer[t][j]
         /\ Ordered(x.acts[i]) =>
              \A k \in Inds(x.acts) : x.acts[k].t = t /\ x.acts[k].seq # 0 => k < i
         /\ IsFence(x.acts[i]) => x.flushBuffer[t] = <<>>

\* What taking effect leaves alone.
SameButActs(x, y) ==
  /\ y.storeBuffer = x.storeBuffer /\ y.flushBuffer = x.flushBuffer
  /\ y.lastsfence = x.lastsfence /\ y.begin = x.begin /\ y.lastWrites = x.lastWrites
  /\ y.flushmap = x.flushmap /\ y.pendingclwbs = x.pendingclwbs /\ y.aborted = x.aborted

LEMMA TakeEffectIs ==
  ASSUME NEW x \in State, NEW i \in Inds(x.acts), NEW y, y = TakeEffect(x, i)
  PROVE  LET a == x.acts[i]
             b == y.acts[i]
         IN  /\ y \in State /\ SameButActs(x, y)
             /\ y.used = x.used + 1
             /\ Len(y.acts) = Len(x.acts) /\ Inds(y.acts) = Inds(x.acts)
             /\ \A k \in Inds(x.acts) : k # i => y.acts[k] = x.acts[k]
             /\ b.seq = x.used + 1 /\ b.cv[a.t] = x.used + 1
             /\ \A u \in Thread : u # a.t => b.cv[u] = a.cv[u]
             /\ b.op = a.op /\ b.b = a.b /\ b.n = a.n /\ b.t = a.t /\ b.lastwrite = a.lastwrite
             /\ b.lastcommittedWrite = a.lastcommittedWrite /\ b.last_clflush = a.last_clflush
             /\ y.last[a.t] = b.cv
             /\ \A u \in Thread : u # a.t => y.last[u] = x.last[u]
<1> DEFINE c == [x.acts[i].cv EXCEPT ![x.acts[i].t] = x.used + 1]
           d == [x.acts[i] EXCEPT !.seq = x.used + 1, !.cv = c]
<1>1. /\ x.acts \in Seq(Action) /\ x.used \in Nat /\ x.last \in [Thread -> Clock]
      /\ x.acts[i] \in Action /\ x.acts[i].t \in Thread /\ x.acts[i].cv \in Clock
  BY StateIs, ActsIs
<1>2. c \in Clock /\ c[x.acts[i].t] = x.used + 1
      /\ \A u \in Thread : u # x.acts[i].t => c[u] = x.acts[i].cv[u]
  BY <1>1 DEF Clock
<1> HIDE DEF c
<1>3. /\ d \in Action /\ d.seq = x.used + 1 /\ d.cv = c /\ d.op = x.acts[i].op
      /\ d.b = x.acts[i].b /\ d.n = x.acts[i].n /\ d.t = x.acts[i].t
      /\ d.lastwrite = x.acts[i].lastwrite
      /\ d.lastcommittedWrite = x.acts[i].lastcommittedWrite
      /\ d.last_clflush = x.acts[i].last_clflush
  <2>1. PICK a \in Action, q \in Nat : a = x.acts[i] /\ q = x.used + 1
    BY <1>1
  <2>2. [a EXCEPT !.seq = q, !.cv = c] \in Action
    BY <1>2 DEF Action
  <2>3. PICK e : e = [a EXCEPT !.seq = q, !.cv = c]
    OBVIOUS
  <2>4. /\ e.seq = q /\ e.cv = c /\ e.op = a.op /\ e.b = a.b /\ e.n = a.n /\ e.t = a.t
        /\ e.lastwrite = a.lastwrite /\ e.lastcommittedWrite = a.lastcommittedWrite
        /\ e.last_clflush = a.last_clflush
    BY <2>3 DEF Action
  <2> QED  BY <2>1, <2>2, <2>3, <2>4
<1>4. y = [x EXCEPT !.used = @ + 1, !.acts = [@ EXCEPT ![i] = d], !.last = [@ EXCEPT ![d.t] = d.cv]]
  BY DEF TakeEffect, c
<1> HIDE DEF d
<1>5. [x.acts EXCEPT ![i] = d] \in Seq(Action) /\ Len([x.acts EXCEPT ![i] = d]) = Len(x.acts)
      /\ [x.acts EXCEPT ![i] = d][i] = d
      /\ \A k \in Inds(x.acts) : k # i => [x.acts EXCEPT ![i] = d][k] = x.acts[k]
  BY <1>1, <1>3, ExceptSeq DEF Inds
<1>6. [x.last EXCEPT ![d.t] = d.cv] \in [Thread -> Clock]
      /\ [x.last EXCEPT ![d.t] = d.cv][d.t] = d.cv
      /\ \A u \in Thread : u # d.t => [x.last EXCEPT ![d.t] = d.cv][u] = x.last[u]
  BY <1>1, <1>2, <1>3
<1>7. x.used + 1 \in Nat
  BY <1>1
<1>8. /\ y \in State /\ SameButActs(x, y) /\ y.used = x.used + 1
      /\ y.acts = [x.acts EXCEPT ![i] = d] /\ y.last = [x.last EXCEPT ![d.t] = d.cv]
  BY <1>4, <1>5, <1>6, <1>7 DEF State, SameButActs
<1> QED  BY <1>1, <1>2, <1>3, <1>5, <1>6, <1>8 DEF Inds

LEMMA LastOrderedKept ==
  ASSUME NEW A \in Seq(Action), NEW B \in Seq(Action), Keeps(A, B),
         NEW k \in Nat, k =< Len(A), NEW t, NEW l, NEW i, LastOrdered(A, k, t, l, i)
  PROVE  LastOrdered(B, k, t, l, i)
<1>1. ASSUME NEW j \in 1 .. (k - 1)
      PROVE  (Ordered(B[j]) <=> Ordered(A[j])) /\ B[j].t = A[j].t /\ LineOf(B[j]) = LineOf(A[j])
  <2>1. j \in Inds(A) /\ j # Len(A)
    <3>1. Len(A) \in Nat
      BY ActsIs
    <3>2. j \in Nat /\ 1 =< j /\ j =< Len(A) /\ j # Len(A)
      BY <3>1
    <3> QED  BY <3>2, IndsIs
  <2> QED  BY <2>1, KeepsIs
<1> QED  BY <1>1 DEF LastOrdered

LEMMA LinkedKept ==
  ASSUME NEW A \in Seq(Action), NEW B \in Seq(Action), Keeps(A, B), Linked(A),
         \A k \in Inds(B) : k \notin Inds(A) /\ B[k].op = "clwb" =>
           LastOrdered(B, k, B[k].t, LineOf(B[k]), B[k].lastwrite)
  PROVE  Linked(B)
<1> SUFFICES ASSUME NEW k \in Inds(B), B[k].op = "clwb"
             PROVE  LastOrdered(B, k, B[k].t, LineOf(B[k]), B[k].lastwrite)
  BY DEF Linked
<1>1. CASE k \in Inds(A)
  <2>1. A[k].op = "clwb" /\ B[k].t = A[k].t /\ B[k].lastwrite = A[k].lastwrite
        /\ LineOf(B[k]) = LineOf(A[k])
    BY <1>1, KeepsIs DEF Keeps
  <2>2. LastOrdered(A, k, A[k].t, LineOf(A[k]), A[k].lastwrite)
    BY <1>1, <2>1 DEF Linked
  <2>3. k \in Nat /\ k =< Len(A)
    BY <1>1, IndsIs
  <2> QED  BY <2>1, <2>2, <2>3, LastOrderedKept
<1> QED  BY <1>1

LEMMA FitsKept ==
  ASSUME NEW A \in Seq(Action), NEW B \in Seq(Action), Keeps(A, B), Fits(A),
         \A k \in Inds(B) : k \notin Inds(A) /\ B[k].op \notin {"sfence", "mfence"} =>
           B[k].n > 0 /\ \A b \in Bytes(B[k]) : b \in Address /\ getCacheID(b) = LineOf(B[k])
  PROVE  Fits(B)
<1> SUFFICES ASSUME NEW k \in Inds(B), B[k].op \notin {"sfence", "mfence"}, k \in Inds(A)
             PROVE  B[k].n > 0
                    /\ \A b \in Bytes(B[k]) : b \in Address /\ getCacheID(b) = LineOf(B[k])
  BY DEF Fits
<1>1. A[k].op \notin {"sfence", "mfence"} /\ B[k].n = A[k].n
  BY DEF Keeps
<1>2. Bytes(B[k]) = Bytes(A[k]) /\ LineOf(B[k]) = LineOf(A[k])
  BY KeepsIs
<1> QED  BY <1>1, <1>2 DEF Fits

LEMMA CoreIs ==
  ASSUME NEW x, NEW h, Core(x, h)
  PROVE  /\ x \in State
         /\ x.acts \in Seq(Action) /\ x.used \in Nat /\ x.last \in [Thread -> Clock]
         /\ x.storeBuffer \in [Thread -> Seq(Nat)] /\ x.flushBuffer \in [Thread -> Seq(Nat)]
         /\ x.lastsfence \in [Thread -> Nat] /\ x.begin \in [Line -> Nat]
         /\ x.lastWrites \in [Address -> Nat] /\ x.flushmap \in SUBSET Entry
         /\ x.pendingclwbs \in Seq(Nat) /\ x.aborted \in Nat
         /\ Fits(x.acts) /\ Clocks(x.acts, x.used) /\ Numbered(x.acts) /\ Linked(x.acts)
         /\ InOrder(x.acts)
         /\ \A t, u \in Thread : x.last[t][u] =< x.used
         /\ \A t \in Thread : x.lastsfence[t] \in 0 .. Len(x.acts)
         /\ Buffers(x) /\ Waiting(x, h)
<1>1. x \in State
  BY DEF Core
<1> QED  BY <1>1, StateIs DEF Core, Acted

LEMMA EffectCore ==
  ASSUME NEW x, NEW i, Core(x, i), Ready(x, i), NEW y, y = TakeEffect(x, i)
  PROVE  /\ Core(y, 0) /\ SameButActs(x, y)
         /\ Keeps(x.acts, y.acts) /\ Only(x.acts, y.acts, i)
         /\ i \in Inds(y.acts) /\ y.acts[i].seq = x.used + 1 /\ y.used = x.used + 1
<1> DEFINE A == x.acts
           B == y.acts
           t == A[i].t
           q == x.used + 1
<1>1. /\ x \in State /\ A \in Seq(Action) /\ x.used \in Nat /\ x.last \in [Thread -> Clock]
      /\ x.storeBuffer \in [Thread -> Seq(Nat)] /\ x.flushBuffer \in [Thread -> Seq(Nat)]
      /\ Fits(A) /\ Clocks(A, x.used) /\ Numbered(A) /\ Linked(A) /\ InOrder(A)
      /\ \A v, u \in Thread : x.last[v][u] =< x.used
      /\ \A v \in Thread : x.lastsfence[v] \in 0 .. Len(A)
      /\ Buffers(x) /\ Waiting(x, i)
  BY CoreIs
<1>2. /\ i \in Inds(A) /\ A[i].seq = 0
      /\ \A v \in Thread : ~In(x.storeBuffer[v], i) /\ ~In(x.flushBuffer[v], i)
      /\ \A j \in Inds(x.storeBuffer[t]) : i < x.storeBuffer[t][j]
      /\ Ordered(A[i]) => \A k \in Inds(A) : A[k].t = t /\ A[k].seq # 0 => k < i
      /\ IsFence(A[i]) => x.flushBuffer[t] = <<>>
  BY DEF Ready
<1>3. t \in Thread
  BY <1>1, <1>2, ActsIs
<1>4. /\ y \in State /\ SameButActs(x, y) /\ y.used = q
      /\ Len(B) = Len(A) /\ Inds(B) = Inds(A)
      /\ \A k \in Inds(A) : k # i => B[k] = A[k]
      /\ B[i].seq = q /\ B[i].cv[t] = q /\ \A u \in Thread : u # t => B[i].cv[u] = A[i].cv[u]
      /\ B[i].op = A[i].op /\ B[i].b = A[i].b /\ B[i].n = A[i].n /\ B[i].t = t
      /\ B[i].lastwrite = A[i].lastwrite
      /\ B[i].lastcommittedWrite = A[i].lastcommittedWrite
      /\ B[i].last_clflush = A[i].last_clflush
      /\ y.last[t] = B[i].cv /\ \A u \in Thread : u # t => y.last[u] = x.last[u]
  BY <1>1, <1>2, TakeEffectIs
<1>5. B \in Seq(Action)
  BY <1>4, StateIs
<1>6. q \in Nat /\ x.used < q /\ q # 0
  BY <1>1
<1> HIDE DEF q
<1>7. \A k \in Inds(A) :
        /\ A[k].seq \in Nat /\ B[k].seq \in Nat /\ A[k].seq =< x.used
        /\ B[k].op = A[k].op /\ B[k].b = A[k].b /\ B[k].n = A[k].n /\ B[k].t = A[k].t
        /\ B[k].lastwrite = A[k].lastwrite /\ B[k].lastcommittedWrite = A[k].lastcommittedWrite
        /\ B[k].last_clflush = A[k].last_clflush /\ (k # i => B[k].seq = A[k].seq)
        /\ (Ordered(B[k]) <=> Ordered(A[k])) /\ (IsFence(B[k]) <=> IsFence(A[k]))
  <2> SUFFICES ASSUME NEW k \in Inds(A)
      PROVE /\ A[k].seq \in Nat /\ B[k].seq \in Nat /\ A[k].seq =< x.used
            /\ B[k].op = A[k].op /\ B[k].b = A[k].b /\ B[k].n = A[k].n /\ B[k].t = A[k].t
            /\ B[k].lastwrite = A[k].lastwrite /\ B[k].lastcommittedWrite = A[k].lastcommittedWrite
            /\ B[k].last_clflush = A[k].last_clflush /\ (k # i => B[k].seq = A[k].seq)
            /\ (Ordered(B[k]) <=> Ordered(A[k])) /\ (IsFence(B[k]) <=> IsFence(A[k]))
    OBVIOUS
  <2>1. A[k].seq \in Nat /\ A[k].seq =< x.used
    BY <1>1, ActsIs DEF Clocks
  <2>2. B[k].seq \in Nat
    BY <1>4, <1>6, <2>1
  <2>3. B[k].op = A[k].op
    BY <1>4
  <2>4. (Ordered(B[k]) <=> Ordered(A[k])) /\ (IsFence(B[k]) <=> IsFence(A[k]))
    BY <2>3, Zenon DEF Ordered, IsWrite, IsClflush, IsFence
  <2> QED  BY <1>4, <2>1, <2>2, <2>3, <2>4
<1>8. Keeps(A, B) /\ Only(A, B, i)
  <2>1. Len(A) \in Nat /\ Len(A) =< Len(B)
    BY <1>1, <1>4, ActsIs
  <2>2. \A k \in Inds(A) : A[k].seq # 0 => B[k].seq = A[k].seq
    BY <1>2, <1>7
  <2> QED  BY <1>4, <1>7, <2>1, <2>2 DEF Keeps, Only
<1>9. Fits(B) /\ Linked(B)
  BY <1>1, <1>4, <1>5, <1>8, FitsKept, LinkedKept
<1>10. Clocks(B, q)
  <2> SUFFICES ASSUME NEW k \in Inds(B)
        PROVE /\ B[k].seq =< q /\ B[k].cv[B[k].t] = B[k].seq
              /\ \A v \in Thread : B[k].cv[v] =< q
              /\ B[k].seq # 0 => \A v \in Thread : B[k].cv[v] =< B[k].seq
              /\ B[k].op = "clwb" =>
                   \A v \in Thread : v # B[k].t => B[k].cv[v] =< B[k].lastcommittedWrite
    BY DEF Clocks
  <2>1. /\ A[k].seq =< x.used /\ A[k].cv[A[k].t] = A[k].seq
        /\ \A v \in Thread : A[k].cv[v] =< x.used
        /\ A[k].seq # 0 => \A v \in Thread : A[k].cv[v] =< A[k].seq
        /\ A[k].op = "clwb" =>
             \A v \in Thread : v # A[k].t => A[k].cv[v] =< A[k].lastcommittedWrite
    BY <1>1, <1>4 DEF Clocks
  <2>2. \A v \in Thread : A[k].cv[v] \in Nat /\ A[k].cv[v] =< q
    <3>1. A[k].cv \in Clock
      BY <1>1, <1>4, ActsIs
    <3>2. \A v \in Thread : A[k].cv[v] \in Nat
      BY <3>1 DEF Clock
    <3> QED  BY <1>1, <1>6, <2>1, <3>2
  <2>3. CASE k # i
    <3>1. B[k] = A[k]
      BY <1>4, <2>3
    <3>2. A[k].seq =< q
      BY <1>1, <1>4, <1>6, <1>7, <2>1
    <3> QED  BY <2>1, <2>2, <3>1, <3>2
  <2>4. CASE k = i
    <3>1. \A v \in Thread : B[i].cv[v] =< q
      BY <1>4, <1>6, <2>2, <2>4
    <3>2. q =< q
      BY <1>6
    <3> QED  BY <1>4, <2>1, <2>4, <3>1, <3>2
  <2> QED  BY <2>3, <2>4
<1>11. Numbered(B)
  <2> SUFFICES ASSUME NEW j \in Inds(B), NEW k \in Inds(B), B[j].seq # 0, B[j].seq = B[k].seq
               PROVE  j = k
    BY DEF Numbered
  <2>1. CASE j = i \/ k = i
    BY <1>1, <1>4, <1>6, <1>7, <2>1
  <2>2. CASE j # i /\ k # i
    BY <1>1, <1>4, <2>2 DEF Numbered
  <2> QED  BY <2>1, <2>2
<1>12. InOrder(B)
  <2> SUFFICES ASSUME NEW j \in Inds(B), NEW k \in Inds(B), j < k, B[j].t = B[k].t,
                      Ordered(B[j]), B[k].seq # 0
               PROVE  B[j].seq # 0 /\ (Ordered(B[k]) => B[j].seq < B[k].seq)
    BY DEF InOrder
  <2>1. A[j].t = A[k].t /\ Ordered(A[j]) /\ (Ordered(B[k]) <=> Ordered(A[k]))
    BY <1>4, <1>7
  <2>2. CASE j # i /\ k # i
    <3>1. B[j] = A[j] /\ B[k] = A[k]
      BY <1>4, <2>2
    <3> QED  BY <1>1, <1>4, <3>1 DEF InOrder
  <2>3. CASE k = i
    <3>1. j # i
      <4>1. j \in Nat
        BY <1>5, IndsIs
      <4> QED  BY <2>3, <4>1
    <3>2. A[j].seq # 0
      <4> SUFFICES ASSUME A[j].seq = 0 PROVE FALSE
        OBVIOUS
      <4>1. In(x.storeBuffer[t], j)
        BY <1>1, <1>4, <2>1, <2>3, <3>1 DEF Waiting
      <4>2. i < j
        BY <1>2, <4>1 DEF In
      <4>3. i \in Nat /\ j \in Nat
        BY <1>4, <1>5, <2>3, IndsIs
      <4> QED  BY <2>3, <4>2, <4>3
    <3>3. B[j].seq = A[j].seq /\ B[j].seq < q
      BY <1>1, <1>4, <1>6, <1>7, <3>1
    <3> QED  BY <1>4, <2>3, <3>2, <3>3
  <2>4. CASE j = i
    <3>1. k # i
      <4>1. k \in Nat
        BY <1>5, IndsIs
      <4> QED  BY <2>4, <4>1
    <3>2. A[k].seq # 0 /\ A[k].t = t
      BY <1>4, <1>7, <2>1, <2>4, <3>1
    <3>3. k < i
      BY <1>2, <1>4, <2>1, <2>4, <3>2
    <3>4. i \in Nat /\ k \in Nat
      BY <1>4, <1>5, <2>4, IndsIs
    <3> QED  BY <2>4, <3>3, <3>4
  <2> QED  BY <2>2, <2>3, <2>4
<1>13. Buffers(y)
  <2>1. y.storeBuffer = x.storeBuffer /\ y.flushBuffer = x.flushBuffer
    BY <1>4 DEF SameButActs
  <2> SUFFICES ASSUME NEW v \in Thread
      PROVE
        /\ \A j \in Inds(x.storeBuffer[v]) :
             LET k == x.storeBuffer[v][j]
             IN  /\ k \in Inds(B) /\ B[k].t = v /\ B[k].seq = 0
                 /\ Ordered(B[k]) \/ B[k].op \in {"sfence", "clwb"}
                 /\ \A m \in Inds(B) : B[m].t = v /\ B[m].seq # 0 => m < k
        /\ \A j \in Inds(x.flushBuffer[v]) :
             LET k == x.flushBuffer[v][j]
             IN  /\ k \in Inds(B) /\ B[k].t = v /\ B[k].seq = 0
                 /\ B[k].op = "clwb"
                 /\ \A m \in Inds(B) :
                      B[m].t = v /\ B[m].seq # 0 /\ IsFence(B[m]) => m < k
    BY <1>1, <2>1 DEF Buffers, BuffersIn
  <2>2. ASSUME NEW j \in Inds(x.storeBuffer[v])
        PROVE  LET k == x.storeBuffer[v][j]
               IN  /\ k \in Inds(B) /\ B[k].t = v /\ B[k].seq = 0
                   /\ Ordered(B[k]) \/ B[k].op \in {"sfence", "clwb"}
                   /\ \A m \in Inds(B) : B[m].t = v /\ B[m].seq # 0 => m < k
    <3>1. PICK k : k = x.storeBuffer[v][j]
      OBVIOUS
    <3>2. /\ k \in Inds(A) /\ A[k].t = v /\ A[k].seq = 0
          /\ Ordered(A[k]) \/ A[k].op \in {"sfence", "clwb"}
          /\ \A m \in Inds(A) : A[m].t = v /\ A[m].seq # 0 => m < k
      BY <1>1, <3>1 DEF Buffers, BuffersIn
    <3>3. k # i
      BY <1>2, <3>1 DEF In
    <3>4. B[k] = A[k]
      BY <1>4, <3>2, <3>3
    <3>5. v = t => i < k
      BY <1>2, <3>1
    <3>6. \A m \in Inds(B) : B[m].t = v /\ B[m].seq # 0 => m < k
      BY <1>4, <3>2, <3>5
    <3> QED  BY <1>4, <3>1, <3>2, <3>4, <3>6
  <2>3. ASSUME NEW j \in Inds(x.flushBuffer[v])
        PROVE  LET k == x.flushBuffer[v][j]
               IN  /\ k \in Inds(B) /\ B[k].t = v /\ B[k].seq = 0
                   /\ B[k].op = "clwb"
                   /\ \A m \in Inds(B) :
                        B[m].t = v /\ B[m].seq # 0 /\ IsFence(B[m]) => m < k
    <3>1. PICK k : k = x.flushBuffer[v][j]
      OBVIOUS
    <3>2. /\ k \in Inds(A) /\ A[k].t = v /\ A[k].seq = 0 /\ A[k].op = "clwb"
          /\ \A m \in Inds(A) : A[m].t = v /\ A[m].seq # 0 /\ IsFence(A[m]) => m < k
      BY <1>1, <3>1 DEF Buffers, BuffersIn
    <3>3. k # i
      BY <1>2, <3>1 DEF In
    <3>4. B[k] = A[k]
      BY <1>4, <3>2, <3>3
    <3>5. v = t => ~IsFence(A[i])
      <4> SUFFICES ASSUME v = t, IsFence(A[i]) PROVE FALSE
        OBVIOUS
      <4>1. x.flushBuffer[v] = <<>>
        BY <1>2
      <4>2. j \in 1 .. 0
        BY <4>1 DEF Inds
      <4> QED  BY <4>2
    <3>6. \A m \in Inds(B) : B[m].t = v /\ B[m].seq # 0 /\ IsFence(B[m]) => m < k
      BY <1>4, <1>7, <3>2, <3>5
    <3> QED  BY <1>4, <3>1, <3>2, <3>4, <3>6
  <2> QED  BY <2>2, <2>3
<1>14. Waiting(y, 0)
  <2> SUFFICES ASSUME NEW k \in Inds(B), B[k].seq = 0
      PROVE /\ Ordered(B[k]) => In(x.storeBuffer[B[k].t], k)
            /\ B[k].op = "clwb" => In(x.storeBuffer[B[k].t], k) \/ In(x.flushBuffer[B[k].t], k)
    BY <1>4 DEF Waiting, SameButActs
  <2>1. k # i
    BY <1>4, <1>6
  <2>2. B[k] = A[k]
    BY <1>4, <2>1
  <2> QED  BY <1>1, <1>4, <2>1, <2>2 DEF Waiting
<1>15. \A v, u \in Thread : y.last[v][u] =< q
  <2> SUFFICES ASSUME NEW v \in Thread, NEW u \in Thread PROVE y.last[v][u] =< q
    OBVIOUS
  <2>1. CASE v = t
    BY <1>2, <1>4, <1>10, <2>1 DEF Clocks
  <2>2. CASE v # t
    <3>1. x.last[v][u] \in Nat
      BY <1>1 DEF Clock
    <3> QED  BY <1>1, <1>4, <1>6, <2>2, <3>1
  <2> QED  BY <2>1, <2>2
<1>16. \A v \in Thread : y.lastsfence[v] \in 0 .. Len(B)
  BY <1>1, <1>4 DEF SameButActs
<1>17. Core(y, 0)
  BY <1>4, <1>9, <1>10, <1>11, <1>12, <1>13, <1>14, <1>15, <1>16 DEF Core, Acted
<1> QED  BY <1>2, <1>4, <1>8, <1>17 DEF q

-------------------------------------------------------------------------------
(* What the analysis looks at.                                             *)

LEMMA LastWritesOfIs ==
  ASSUME NEW x, x.acts \in Seq(Action), Fits(x.acts), Latest(x.acts, x.lastWrites), NEW l
  PROVE  /\ \A w \in LastWritesOf(x, l) :
              w \in Inds(x.acts) /\ IsWrite(x.acts[w]) /\ x.acts[w].seq # 0 /\ LineOf(x.acts[w]) = l
         /\ \A b \in Address : getCacheID(b) = l /\ x.lastWrites[b] # 0 =>
              x.lastWrites[b] \in LastWritesOf(x, l)
<1> DEFINE A == x.acts
<1>1. ASSUME NEW w \in LastWritesOf(x, l)
      PROVE  w \in Inds(A) /\ IsWrite(A[w]) /\ A[w].seq # 0 /\ LineOf(A[w]) = l
  <2>1. PICK b \in Address : getCacheID(b) = l /\ w = x.lastWrites[b] /\ w # 0
    BY DEF LastWritesOf
  <2>2. w \in Writes(A, b)
    BY <2>1 DEF Latest
  <2>3. w \in Inds(A) /\ IsWrite(A[w]) /\ A[w].seq # 0 /\ b \in Bytes(A[w])
    BY <2>2, WritesIs
  <2>4. A[w].op \notin {"sfence", "mfence"}
    BY <2>3 DEF IsWrite
  <2>5. getCacheID(b) = LineOf(A[w])
    BY <2>3, <2>4, BytesIs
  <2> QED  BY <2>1, <2>3, <2>5
<1>2. \A b \in Address : getCacheID(b) = l /\ x.lastWrites[b] # 0 =>
        x.lastWrites[b] \in LastWritesOf(x, l)
  BY DEF LastWritesOf
<1> QED  BY <1>1, <1>2

\* A store some byte of which nothing has overwritten is the last one of that byte.
LEMMA SurvivorIsLast ==
  ASSUME NEW A \in Seq(Action), Fits(A), Numbered(A), NEW lw, Latest(A, lw),
         NEW w \in Inds(A), IsWrite(A[w]), A[w].seq # 0,
         NEW s \in Nat, \A k \in Inds(A) : A[k].seq =< s, Survives(A, w, s)
  PROVE  \E b \in Bytes(A[w]) : b \in Address /\ getCacheID(b) = LineOf(A[w]) /\ lw[b] = w
<1>1. PICK b \in Bytes(A[w]) : \A v \in Writes(A, b) : A[v].seq > A[w].seq => A[v].seq > s
  BY DEF Survives
<1>2. b \in Address /\ getCacheID(b) = LineOf(A[w])
  <2>1. A[w].op \notin {"sfence", "mfence"}
    BY DEF IsWrite
  <2> QED  BY <2>1, BytesIs
<1>3. w \in Writes(A, b)
  BY WritesIs
<1>4. lw[b] \in Writes(A, b) /\ A[w].seq =< A[lw[b]].seq
  BY <1>2, <1>3 DEF Latest
<1>5. lw[b] \in Inds(A) /\ A[lw[b]].seq \in Nat /\ A[lw[b]].seq =< s /\ A[w].seq \in Nat
  BY <1>4, WritesIs, ActsIs
<1>6. A[lw[b]].seq = A[w].seq
  BY <1>1, <1>4, <1>5
<1>7. lw[b] = w
  BY <1>5, <1>6 DEF Numbered
<1> QED  BY <1>2, <1>7

LEMMA MaxNat ==
  ASSUME NEW c \in Nat, NEW d \in Nat, NEW e \in Nat, NEW S \in SUBSET {c, d, e}, S # {}
  PROVE  Max(S) \in Nat
<1>1. S \in SUBSET Nat /\ c + d + e \in Nat /\ \A m \in S : m =< c + d + e
  OBVIOUS
<1> QED  BY <1>1, MaxIs

\* What the core of the state does not depend on.
LEMMA CoreSame ==
  ASSUME NEW x, NEW h, Core(x, h), NEW y \in State, y.acts = x.acts, y.used = x.used,
         y.last = x.last, y.storeBuffer = x.storeBuffer, y.flushBuffer = x.flushBuffer,
         y.lastsfence = x.lastsfence
  PROVE  Core(y, h)
BY DEF Core, Acted, Buffers, BuffersIn, Waiting

LEMMA BeginIs ==
  ASSUME NEW x \in State, NEW g \in [Line -> Nat], NEW y, y = [x EXCEPT !.begin = g]
  PROVE  /\ y \in State /\ y.acts = x.acts /\ y.used = x.used /\ y.last = x.last
         /\ y.storeBuffer = x.storeBuffer /\ y.flushBuffer = x.flushBuffer
         /\ y.lastsfence = x.lastsfence /\ y.lastWrites = x.lastWrites
         /\ y.flushmap = x.flushmap /\ y.pendingclwbs = x.pendingclwbs /\ y.aborted = x.aborted
BY DEF State

\* The window of a line moves.
LEMMA PersistCacheLineIs ==
  ASSUME NEW x \in State, NEW f \in Inds(x.acts), LineOf(x.acts[f]) \in Line,
         IsClflush(x.acts[f]) \/ x.acts[f].lastwrite \in 0 .. Len(x.acts),
         NEW y, y = persistCacheLine(x, f)
  PROVE  /\ y \in State /\ y.acts = x.acts /\ y.used = x.used /\ y.last = x.last
         /\ y.storeBuffer = x.storeBuffer /\ y.flushBuffer = x.flushBuffer
         /\ y.lastsfence = x.lastsfence /\ y.lastWrites = x.lastWrites
         /\ y.flushmap = x.flushmap /\ y.pendingclwbs = x.pendingclwbs /\ y.aborted = x.aborted
<1> DEFINE a == x.acts[f]
           l == getCacheID(a.b)
<1>1. x.acts \in Seq(Action) /\ x.begin \in [Line -> Nat]
  BY StateIs
<1>2. a.seq \in Nat /\ a.lastcommittedWrite \in Nat /\ a.last_clflush \in Nat
  BY <1>1, ActsIs
<1>3. a.lastwrite \in 0 .. Len(x.acts) /\ a.lastwrite # 0 => a.lastwrite \in Inds(x.acts)
  <2>1. Len(x.acts) \in Nat
    BY <1>1, ActsIs
  <2>2. a.lastwrite \in 0 .. Len(x.acts) /\ a.lastwrite # 0 =>
          a.lastwrite \in Nat /\ 1 =< a.lastwrite /\ a.lastwrite =< Len(x.acts)
    BY <2>1
  <2> QED  BY <1>1, <2>2, IndsIs
<1>4. ASSUME a.lastwrite \in 0 .. Len(x.acts) PROVE earliestclock(x, f) \in Nat
  <2>1. PICK c \in Nat, d \in Nat : c = a.lastcommittedWrite /\ d = a.last_clflush
    BY <1>2
  <2>2. PICK e \in Nat : e = IF a.lastwrite = 0 THEN 0 ELSE x.acts[a.lastwrite].seq
    BY <1>1, <1>3, <1>4, ActsIs
  <2>3. PICK S : S = {c, d} \cup {x.acts[i].seq : i \in {a.lastwrite} \ {0}}
    OBVIOUS
  <2>4. S \in SUBSET {c, d, e} /\ S # {}
    BY <2>2, <2>3
  <2>5. earliestclock(x, f) = Max(S)
    <3>1. earliestclock(x, f) =
            Max({x.acts[f].lastcommittedWrite, x.acts[f].last_clflush}
                  \cup {x.acts[i].seq : i \in {x.acts[f].lastwrite} \ {0}})
      BY Zenon DEF earliestclock
    <3> QED  BY <2>1, <2>3, <3>1, Zenon
  <2>6. Max(S) \in Nat
    BY <2>4, MaxNat
  <2> QED  BY <2>5, <2>6, Zenon
<1>5. x.begin[l] \in Nat
  BY <1>1 DEF LineOf
<1>6. CASE IsClflush(a)
  <2>1. y = [x EXCEPT !.begin = [@ EXCEPT ![l] = a.seq]]
    BY <1>6 DEF persistCacheLine
  <2>2. PICK g : g = [x.begin EXCEPT ![l] = a.seq]
    OBVIOUS
  <2>3. g \in [Line -> Nat]
    BY <1>1, <1>2, <2>2
  <2>4. y = [x EXCEPT !.begin = g]
    BY <2>1, <2>2
  <2> QED  BY <2>3, <2>4, BeginIs
<1>7. CASE ~IsClflush(a)
  <2> DEFINE M == Max({x.begin[l], earliestclock(x, f)})
  <2>1. y = [x EXCEPT !.begin = [x.begin EXCEPT ![l] = M]]
    BY <1>7 DEF persistCacheLine
  <2>2. PICK c \in Nat, d \in Nat : c = x.begin[l] /\ d = earliestclock(x, f)
    BY <1>4, <1>5, <1>7
  <2>3. PICK m \in Nat : m = Max({c, d})
    <3>1. {c, d} \in SUBSET {c, d, d} /\ {c, d} # {}
      OBVIOUS
    <3>2. Max({c, d}) \in Nat
      BY <3>1, MaxNat
    <3> QED  BY <3>2
  <2>4. M \in Nat
    BY <2>2, <2>3, Zenon
  <2> HIDE DEF M
  <2>5. PICK g : g = [x.begin EXCEPT ![l] = M]
    OBVIOUS
  <2>6. g \in [Line -> Nat]
    BY <1>1, <2>4, <2>5
  <2>7. y = [x EXCEPT !.begin = g]
    BY <2>1, <2>5
  <2> QED  BY <2>6, <2>7, BeginIs
<1> QED  BY <1>6, <1>7

-------------------------------------------------------------------------------
(* An action leaves a buffer for good.                                     *)

\* Of the actions only i has changed: it has taken effect.
Effected(x, y, i) ==
  /\ Len(y.acts) = Len(x.acts) /\ Keeps(x.acts, y.acts)
  /\ \A k \in Inds(x.acts) : y.acts[k].op = x.acts[k].op /\ (k # i => y.acts[k] = x.acts[k])
  /\ y.storeBuffer = x.storeBuffer /\ y.flushBuffer = x.flushBuffer /\ y.aborted = x.aborted
  /\ x.used \in Nat /\ y.used \in Nat /\ x.used =< y.used

LEMMA ClflushEffect ==
  ASSUME NEW x, NEW i, Core(x, i), Ready(x, i), Analysed(x),
         FenceCredits(x.acts, x.flushmap, 0), IsClflush(x.acts[i]), NEW y, y = evictCacheOp(x, i)
  PROVE  Good(y, 0, 0) /\ Effected(x, y, i)
<1>1. PICK z : z = TakeEffect(x, i)
  OBVIOUS
<1>2. PICK p : p = persistCacheLine(z, i)
  OBVIOUS
<1>3. /\ Core(z, 0) /\ SameButActs(x, z) /\ Keeps(x.acts, z.acts) /\ Only(x.acts, z.acts, i)
      /\ i \in Inds(z.acts) /\ z.acts[i].seq = x.used + 1 /\ z.used = x.used + 1
  BY <1>1, EffectCore
<1>4. /\ x \in State /\ x.acts \in Seq(Action) /\ x.used \in Nat /\ i \in Inds(x.acts)
      /\ Fits(x.acts) /\ Linked(x.acts) /\ InOrder(x.acts)
      /\ \A k \in Inds(x.acts) : Ordered(x.acts[i]) /\ x.acts[k].t = x.acts[i].t
                                   /\ x.acts[k].seq # 0 => k < i
  BY CoreIs DEF Ready
<1>5. /\ z.acts \in Seq(Action) /\ Fits(z.acts) /\ Clocks(z.acts, z.used) /\ Numbered(z.acts)
      /\ z \in State
  BY <1>3, CoreIs
<1>6. /\ Len(z.acts) = Len(x.acts)
      /\ \A k \in Inds(x.acts) : k # i => z.acts[k] = x.acts[k]
      /\ z.acts[i].op = x.acts[i].op
  BY <1>1, <1>4, TakeEffectIs
<1>7. IsClflush(z.acts[i]) /\ Ordered(z.acts[i]) /\ ~IsWrite(z.acts[i]) /\ ~IsFence(z.acts[i])
      /\ z.acts[i].op \notin {"clwb", "sfence", "mfence"} /\ z.acts[i].op = "clflush"
  BY <1>6 DEF IsClflush, Ordered, IsWrite, IsFence
<1>8. /\ p \in State /\ p.acts = z.acts /\ p.used = z.used /\ p.last = z.last
      /\ p.storeBuffer = z.storeBuffer /\ p.flushBuffer = z.flushBuffer
      /\ p.lastsfence = z.lastsfence /\ p.lastWrites = z.lastWrites
      /\ p.flushmap = z.flushmap /\ p.pendingclwbs = z.pendingclwbs /\ p.aborted = z.aborted
  <2>1. LineOf(z.acts[i]) \in Line
    BY <1>3, <1>5, <1>7, BytesIs
  <2> QED  BY <1>2, <1>3, <1>5, <1>7, <2>1, PersistCacheLineIs
<1> DEFINE B == z.acts
           l == getCacheID(B[i].b)
           ws == {w \in LastWritesOf(p, l) : happens_before(p, w, i)}
           fresh == NotYetFlushed(p, ws, i)
           T == updateFlushVector(p, fresh, i)
<1>9. y = [p EXCEPT !.flushmap = T]
  <2>1. y = evictFlushBufferAnalysis(p, i)
    BY <1>1, <1>2 DEF evictCacheOp
  <2> QED  BY <1>7, <1>8, <2>1 DEF evictFlushBufferAnalysis
<1>10. Latest(B, p.lastWrites)
  <2>1. Latest(x.acts, x.lastWrites)
    BY DEF Analysed
  <2> QED  BY <1>3, <1>4, <1>5, <1>7, <1>8, <2>1, LatestKept DEF SameButActs
<1>11. ASSUME NEW w \in LastWritesOf(p, l)
       PROVE  w \in Inds(B) /\ IsWrite(B[w]) /\ B[w].seq # 0 /\ LineOf(B[w]) = LineOf(B[i])
  BY <1>5, <1>8, <1>10, LastWritesOfIs DEF LineOf
<1>12. B[i].t \in Thread /\ i \in Nat /\ B[i].seq \in Nat /\ B[i].seq # 0
       /\ \A k \in Inds(B) : B[k].seq =< B[i].seq
  <2>1. \A k \in Inds(B) : B[k].seq =< B[i].seq
    BY <1>3, <1>5 DEF Clocks
  <2>2. B[i].t \in Thread /\ i \in Nat /\ B[i].seq \in Nat
    BY <1>3, <1>5, ActsIs
  <2> QED  BY <1>3, <1>4, <2>1, <2>2
<1>13. fresh \in SUBSET ws /\ ws \in SUBSET LastWritesOf(p, l) /\ ws \in SUBSET Nat
  <2>1. fresh \in SUBSET ws
    BY DEF NotYetFlushed
  <2>2. ws \in SUBSET LastWritesOf(p, l)
    OBVIOUS
  <2>3. \A w \in LastWritesOf(p, l) : w \in Nat
    BY <1>5, <1>11, ActsIs
  <2> QED  BY <2>1, <2>2, <2>3
<1>14. PICK U : U = T
  OBVIOUS
<1>15. /\ \A w : Credited(p.flushmap, w) => Credited(U, w)
       /\ \A w \in fresh : Credited(U, w)
       /\ \A e \in U : e \in p.flushmap \/ (e.w \in fresh /\ e.t = p.acts[i].t /\ e.f = i)
       /\ (\A d, e \in p.flushmap : d.w = e.w /\ d.t = e.t => d = e)
            => \A d, e \in U : d.w = e.w /\ d.t = e.t => d = e
       /\ p.flushmap \in SUBSET Entry /\ fresh \in SUBSET Nat /\ i \in Nat /\ p.acts[i].t \in Thread
            => U \in SUBSET Entry
  <2> HIDE DEF fresh
  <2> QED  BY <1>14, UpdateIs
<1>16. U \in SUBSET Entry
  <2>1. p.flushmap \in SUBSET Entry
    BY <1>8, StateIs
  <2>2. fresh \in SUBSET Nat
    BY <1>13
  <2> QED  BY <1>8, <1>12, <1>15, <2>1, <2>2
<1>17. /\ y \in State /\ y.acts = B /\ y.used = z.used /\ y.last = z.last
       /\ y.storeBuffer = z.storeBuffer /\ y.flushBuffer = z.flushBuffer
       /\ y.lastsfence = z.lastsfence /\ y.lastWrites = z.lastWrites
       /\ y.flushmap = U /\ y.pendingclwbs = z.pendingclwbs /\ y.aborted = z.aborted
  BY <1>8, <1>9, <1>14, <1>16 DEF State
<1>18. Core(y, 0)
  BY <1>3, <1>17, CoreSame
<1>19. \A w \in ws : Credited(U, w)
  <2> SUFFICES ASSUME NEW w \in ws, w \notin fresh PROVE Credited(U, w)
    BY <1>15
  <2>1. flushExistsBeforeCV(p.flushmap, p.acts, w, p.acts[i].cv)
    BY DEF NotYetFlushed
  <2>2. Credited(p.flushmap, w)
    BY <2>1 DEF flushExistsBeforeCV, Credited
  <2> QED  BY <1>15, <2>2
<1>20. x.flushmap = p.flushmap /\ x.lastWrites = p.lastWrites /\ x.pendingclwbs = z.pendingclwbs
  BY <1>3, <1>8 DEF SameButActs
<1> HIDE DEF ws, fresh, T
<1>21. Credits(B, U)
  <2>1. Credits(B, p.flushmap)
    BY <1>3, <1>4, <1>5, <1>20, CreditsKept DEF Analysed
  <2>2. ASSUME NEW e \in U, e.w \in fresh, e.t = p.acts[i].t, e.f = i PROVE Justified(B, e)
    <3>1. e.w \in Inds(B) /\ IsWrite(B[e.w]) /\ B[e.w].seq # 0 /\ LineOf(B[e.w]) = LineOf(B[i])
      BY <1>11, <1>13, <2>2
    <3>2. i \in FlushesIn(B, e.w)
      <4>1. WroteBackToIn(B, i) >= B[e.w].seq
        <5>1. B[e.w].seq \in Nat /\ B[e.w].seq =< B[i].seq
          BY <1>5, <1>12, <3>1, ActsIs
        <5> QED  BY <1>7, <1>12, <5>1 DEF WroteBackToIn
      <4>2. i \in DOMAIN B
        BY <1>3, <1>5, ActsIs
      <4> QED  BY <1>7, <1>12, <3>1, <4>1, <4>2 DEF FlushesIn
    <3> QED  BY <1>3, <1>8, <1>12, <2>2, <3>1, <3>2 DEF Justified
  <2>3. \A e \in U : Justified(B, e)
    BY <1>15, <2>1, <2>2 DEF Credits
  <2> QED  BY <1>15, <2>1, <2>3 DEF Credits
<1>22. ASSUME NEW w \in Inds(B), FlushOf(B, w, i), Survives(B, w, B[i].seq)
       PROVE  Credited(U, w)
  <2>1. IsWrite(B[w]) /\ B[w].seq # 0 /\ B[i].t = B[w].t /\ LineOf(B[i]) = LineOf(B[w])
    <3>1. w < i /\ IsWrite(B[w]) /\ B[i].t = B[w].t /\ LineOf(B[i]) = LineOf(B[w])
      BY <1>22 DEF FlushOf
    <3>2. InOrder(B)
      BY <1>3, CoreIs
    <3> QED  BY <1>3, <1>12, <3>1, <3>2 DEF InOrder, Ordered
  <2>2. PICK b \in Bytes(B[w]) : b \in Address /\ getCacheID(b) = LineOf(B[w])
                                   /\ p.lastWrites[b] = w
    BY <1>5, <1>10, <1>12, <1>22, <2>1, SurvivorIsLast
  <2>3. w # 0
    BY <1>5, ActsIs
  <2>4. w \in LastWritesOf(p, l)
    BY <1>5, <1>8, <1>10, <2>1, <2>2, <2>3, LastWritesOfIs DEF LineOf
  <2>5. happens_before(p, w, i)
    <3>1. B[i].cv[B[i].t] = B[i].seq
      BY <1>3, <1>5 DEF Clocks
    <3> QED  BY <1>8, <1>12, <2>1, <3>1 DEF happens_before
  <2>6. w \in ws
    BY <2>4, <2>5 DEF ws
  <2> QED  BY <1>19, <2>6
<1>23. /\ Latest(x.acts, x.lastWrites) /\ Credits(x.acts, x.flushmap)
       /\ Pendings(x.acts, x.pendingclwbs) /\ ClflushCredits(x.acts, x.flushmap)
       /\ ClwbCredits(x.acts, x.lastWrites, x.pendingclwbs, x.flushmap)
  BY DEF Analysed
<1>24. \A w : Credited(x.flushmap, w) => Credited(U, w)
  BY <1>15, <1>20
<1>25. ClflushCredits(B, U)
  BY <1>3, <1>4, <1>5, <1>22, <1>23, <1>24, ClflushCreditsKept
<1>26. ClwbCredits(B, x.lastWrites, x.pendingclwbs, U)
  <2>1. \A k \in Inds(B) : B[k].t = B[i].t /\ B[k].seq # 0 => k =< i
    <3> SUFFICES ASSUME NEW k \in Inds(B), k # i, B[k].t = B[i].t, B[k].seq # 0 PROVE k =< i
      BY <1>12
    <3>1. k \in Inds(x.acts) /\ x.acts[k] = B[k] /\ B[i].t = x.acts[i].t
      BY <1>3, <1>4, <1>6 DEF Keeps, Only
    <3>2. Ordered(x.acts[i])
      BY DEF Ordered
    <3>3. k < i
      BY <1>4, <3>1, <3>2
    <3>4. k \in Nat
      BY <1>5, IndsIs
    <3> QED  BY <1>12, <3>3, <3>4
  <2>2. PICK lw : lw = x.lastWrites
    OBVIOUS
  <2>3. PICK pend : pend = x.pendingclwbs
    OBVIOUS
  <2>4. PICK map : map = x.flushmap
    OBVIOUS
  <2>5. ClwbCredits(x.acts, lw, pend, map)
    BY <1>23, <2>2, <2>3, <2>4
  <2>6. \A w : Credited(map, w) => Credited(U, w)
    BY <1>24, <2>4
  <2>7. /\ \A b \in Address : lw[b] = lw[b] \/ lw[b] = i
        /\ \A f : In(pend, f) => In(pend, f)
        /\ i \in Inds(B) /\ B[i].op = "clwb" => In(pend, i)
    BY <1>7
  <2>8. ClwbCredits(B, lw, pend, U)
    BY <1>3, <1>4, <1>5, <2>1, <2>5, <2>6, <2>7, ClwbCreditsKept
  <2> QED  BY <2>2, <2>3, <2>8
<1>27. Pendings(B, x.pendingclwbs)
  BY <1>3, <1>4, <1>5, <1>23, PendingsKept
<1>28. FenceCredits(B, U, 0)
  BY <1>3, <1>4, <1>5, <1>7, <1>24, FenceCreditsKept
<1>29. Good(y, 0, 0)
  <2>1. /\ y.acts = B /\ y.lastWrites = p.lastWrites /\ y.lastWrites = x.lastWrites
        /\ y.flushmap = U /\ y.pendingclwbs = x.pendingclwbs
    BY <1>8, <1>17, <1>20
  <2> QED  BY <1>10, <1>18, <1>21, <1>25, <1>26, <1>27, <1>28, <2>1, Zenon DEF Good, Analysed
<1>30. Effected(x, y, i)
  <2>1. \A k \in Inds(x.acts) : B[k].op = x.acts[k].op /\ (k # i => B[k] = x.acts[k])
    BY <1>6
  <2>2. y.used \in Nat /\ x.used =< y.used
    BY <1>3, <1>4, <1>8, <1>17
  <2> QED  BY <1>3, <1>4, <1>6, <1>17, <2>1, <2>2 DEF Effected, SameButActs
<1> QED  BY <1>29, <1>30

LEMMA ClwbEffect ==
  ASSUME NEW x, NEW i, Core(x, i), Ready(x, i), Analysed(x),
         FenceCredits(x.acts, x.flushmap, 0), x.acts[i].op = "clwb",
         \A k \in Inds(x.acts) :
           x.acts[k].t = x.acts[i].t /\ x.acts[k].seq # 0 /\ IsFence(x.acts[k]) => k < i,
         NEW y, y = evictCacheOp(x, i)
  PROVE  Good(y, 0, 0) /\ Effected(x, y, i)
<1>1. PICK z : z = TakeEffect(x, i)
  OBVIOUS
<1>2. PICK p : p = persistCacheLine(z, i)
  OBVIOUS
<1>3. /\ Core(z, 0) /\ SameButActs(x, z) /\ Keeps(x.acts, z.acts) /\ Only(x.acts, z.acts, i)
      /\ i \in Inds(z.acts) /\ z.acts[i].seq = x.used + 1 /\ z.used = x.used + 1
  BY <1>1, EffectCore
<1>4. /\ x \in State /\ x.acts \in Seq(Action) /\ x.used \in Nat /\ i \in Inds(x.acts)
      /\ Fits(x.acts) /\ Linked(x.acts) /\ InOrder(x.acts)
  BY CoreIs DEF Ready
<1>5. /\ z.acts \in Seq(Action) /\ Fits(z.acts) /\ Clocks(z.acts, z.used) /\ Numbered(z.acts)
      /\ Linked(z.acts) /\ InOrder(z.acts) /\ z \in State
  BY <1>3, CoreIs
<1>6. /\ Len(z.acts) = Len(x.acts) /\ Inds(z.acts) = Inds(x.acts)
      /\ \A k \in Inds(x.acts) : k # i => z.acts[k] = x.acts[k]
      /\ z.acts[i].op = x.acts[i].op /\ z.acts[i].t = x.acts[i].t
  BY <1>1, <1>4, TakeEffectIs
<1>7. /\ z.acts[i].op = "clwb" /\ ~IsClflush(z.acts[i]) /\ ~Ordered(z.acts[i])
      /\ ~IsWrite(z.acts[i]) /\ ~IsFence(z.acts[i])
  BY <1>6 DEF IsClflush, Ordered, IsWrite, IsFence
<1>8. /\ p \in State /\ p.acts = z.acts /\ p.used = z.used /\ p.last = z.last
      /\ p.storeBuffer = z.storeBuffer /\ p.flushBuffer = z.flushBuffer
      /\ p.lastsfence = z.lastsfence /\ p.lastWrites = z.lastWrites
      /\ p.flushmap = z.flushmap /\ p.pendingclwbs = z.pendingclwbs /\ p.aborted = z.aborted
  <2>1. LineOf(z.acts[i]) \in Line
    BY <1>3, <1>5, <1>7, BytesIs
  <2>2. z.acts[i].lastwrite \in 0 .. Len(z.acts)
    BY <1>3, <1>5, <1>7, LinkInEffect
  <2> QED  BY <1>2, <1>3, <1>5, <2>1, <2>2, PersistCacheLineIs
<1> DEFINE B == z.acts
<1>9. PICK q : q = Append(x.pendingclwbs, i)
  OBVIOUS
<1>10. i \in Nat /\ x.pendingclwbs \in Seq(Nat)
  BY <1>3, <1>4, <1>5, ActsIs, StateIs
<1>11. /\ q \in Seq(Nat) /\ Len(q) = Len(x.pendingclwbs) + 1
       /\ \A j \in Inds(x.pendingclwbs) : j \in Inds(q) /\ q[j] = x.pendingclwbs[j]
       /\ \A j \in Inds(q) : j = Len(q) \/ j \in Inds(x.pendingclwbs)
       /\ q[Len(q)] = i /\ Len(q) \in Inds(q)
  <2>1. /\ q \in Seq(Nat) /\ Len(q) = Len(x.pendingclwbs) + 1
        /\ \A j \in 1 .. Len(x.pendingclwbs) : q[j] = x.pendingclwbs[j]
        /\ q[Len(x.pendingclwbs) + 1] = i
    BY <1>9, <1>10, AppendProperties
  <2>2. PICK n \in Nat : n = Len(x.pendingclwbs)
    BY <1>10, LenProperties
  <2>3. /\ \A j \in 1 .. n : j \in 1 .. (n + 1)
        /\ \A j \in 1 .. (n + 1) : j = n + 1 \/ j \in 1 .. n
        /\ n + 1 \in 1 .. (n + 1)
    OBVIOUS
  <2> QED  BY <2>1, <2>2, <2>3 DEF Inds
<1>12. y = [p EXCEPT !.pendingclwbs = q]
  <2>1. y = evictFlushBufferAnalysis(p, i)
    BY <1>1, <1>2 DEF evictCacheOp
  <2>2. p.pendingclwbs = x.pendingclwbs
    BY <1>3, <1>8 DEF SameButActs
  <2> QED  BY <1>7, <1>8, <1>9, <2>1, <2>2 DEF evictFlushBufferAnalysis
<1>13. /\ y \in State /\ y.acts = B /\ y.used = z.used /\ y.last = z.last
       /\ y.storeBuffer = z.storeBuffer /\ y.flushBuffer = z.flushBuffer
       /\ y.lastsfence = z.lastsfence /\ y.lastWrites = z.lastWrites
       /\ y.flushmap = z.flushmap /\ y.pendingclwbs = q /\ y.aborted = z.aborted
  BY <1>8, <1>11, <1>12 DEF State
<1>14. Core(y, 0)
  BY <1>3, <1>13, CoreSame
<1>15. y.flushmap = x.flushmap /\ y.lastWrites = x.lastWrites
  BY <1>3, <1>13 DEF SameButActs
<1>16. /\ Latest(x.acts, x.lastWrites) /\ Credits(x.acts, x.flushmap)
       /\ Pendings(x.acts, x.pendingclwbs) /\ ClflushCredits(x.acts, x.flushmap)
       /\ ClwbCredits(x.acts, x.lastWrites, x.pendingclwbs, x.flushmap)
  BY DEF Analysed
<1>17. PICK lw, map : lw = x.lastWrites /\ map = x.flushmap
  OBVIOUS
<1>18. PICK pend : pend = x.pendingclwbs
  OBVIOUS
<1>19. Latest(B, lw)
  BY <1>3, <1>4, <1>5, <1>7, <1>16, <1>17, LatestKept
<1>20. Credits(B, map)
  BY <1>3, <1>4, <1>5, <1>16, <1>17, CreditsKept
<1>21. Pendings(B, q)
  <2>1. Pendings(B, x.pendingclwbs)
    BY <1>3, <1>4, <1>5, <1>16, PendingsKept
  <2>2. B[i].seq # 0
    BY <1>3, <1>4
  <2> QED  BY <1>3, <1>7, <1>11, <2>1, <2>2 DEF Pendings
<1>22. \A w : Credited(map, w) => Credited(map, w)
  OBVIOUS
<1>23. ClflushCredits(B, map)
  BY <1>3, <1>4, <1>5, <1>7, <1>16, <1>17, <1>22, ClflushCreditsKept
<1>24. ClwbCredits(B, lw, q, map)
  <2>1. ClwbCredits(x.acts, lw, pend, map)
    BY <1>16, <1>17, <1>18
  <2>2. /\ \A b \in Address : lw[b] = lw[b] \/ lw[b] = i
        /\ \A f : In(pend, f) => In(q, f)
        /\ i \in Inds(B) /\ B[i].op = "clwb" => In(q, i)
        /\ i \in Inds(B) /\ Ordered(B[i]) =>
             \A k \in Inds(B) : B[k].t = B[i].t /\ B[k].seq # 0 => k =< i
    BY <1>7, <1>11, <1>18 DEF In
  <2> QED  BY <1>3, <1>4, <1>5, <1>22, <2>1, <2>2, ClwbCreditsKept
<1>25. FenceCredits(B, map, 0)
  <2>1. \A k \in Inds(B) : B[k].t = B[i].t /\ IsFence(B[k]) /\ B[k].seq # 0 => k < i
    <3> SUFFICES ASSUME NEW k \in Inds(B), B[k].t = B[i].t, IsFence(B[k]), B[k].seq # 0
                 PROVE  k < i
      OBVIOUS
    <3>1. k # i
      BY <1>7
    <3>2. B[k] = x.acts[k] /\ k \in Inds(x.acts)
      BY <1>6, <3>1
    <3> QED  BY <1>6, <3>2
  <2>2. FenceCredits(x.acts, map, 0)
    BY <1>17
  <2> QED  BY <1>3, <1>4, <1>5, <1>7, <1>22, <2>1, <2>2, FenceCreditsKept
<1>26. Good(y, 0, 0)
  <2>1. y.acts = B /\ y.lastWrites = lw /\ y.flushmap = map /\ y.pendingclwbs = q
    BY <1>13, <1>15, <1>17
  <2> QED  BY <1>14, <1>19, <1>20, <1>21, <1>23, <1>24, <1>25, <2>1, Zenon DEF Good, Analysed
<1>27. Effected(x, y, i)
  <2>1. \A k \in Inds(x.acts) : B[k].op = x.acts[k].op /\ (k # i => B[k] = x.acts[k])
    BY <1>6
  <2>2. y.used \in Nat /\ x.used =< y.used
    BY <1>3, <1>4, <1>13
  <2> QED  BY <1>3, <1>4, <1>6, <1>13, <2>1, <2>2 DEF Effected, SameButActs
<1> QED  BY <1>26, <1>27

LEMMA WriteEffect ==
  ASSUME NEW x, NEW i, Core(x, i), Ready(x, i), Analysed(x),
         FenceCredits(x.acts, x.flushmap, 0), IsWrite(x.acts[i]),
         NEW y, y = evictStoreBufferAnalysis(TakeEffect(x, i), i)
  PROVE  Good(y, 0, IF x.acts[i].op = "rmw" THEN i ELSE 0) /\ Effected(x, y, i)
<1>1. PICK z : z = TakeEffect(x, i)
  OBVIOUS
<1>3. /\ Core(z, 0) /\ SameButActs(x, z) /\ Keeps(x.acts, z.acts) /\ Only(x.acts, z.acts, i)
      /\ i \in Inds(z.acts) /\ z.acts[i].seq = x.used + 1 /\ z.used = x.used + 1
  BY <1>1, EffectCore
<1>4. /\ x \in State /\ x.acts \in Seq(Action) /\ x.used \in Nat /\ i \in Inds(x.acts)
      /\ Fits(x.acts) /\ Linked(x.acts) /\ InOrder(x.acts)
      /\ \A k \in Inds(x.acts) : Ordered(x.acts[i]) /\ x.acts[k].t = x.acts[i].t
                                   /\ x.acts[k].seq # 0 => k < i
  BY CoreIs DEF Ready
<1>5. /\ z.acts \in Seq(Action) /\ Fits(z.acts) /\ Clocks(z.acts, z.used) /\ Numbered(z.acts)
      /\ z \in State /\ z.lastWrites \in [Address -> Nat]
  BY <1>3, CoreIs
<1>6. /\ Len(z.acts) = Len(x.acts) /\ Inds(z.acts) = Inds(x.acts)
      /\ \A k \in Inds(x.acts) : k # i => z.acts[k] = x.acts[k]
      /\ z.acts[i].op = x.acts[i].op /\ z.acts[i].t = x.acts[i].t
  BY <1>1, <1>4, TakeEffectIs
<1>7. /\ IsWrite(z.acts[i]) /\ Ordered(z.acts[i]) /\ ~IsClflush(z.acts[i])
      /\ z.acts[i].op # "clwb" /\ (IsFence(z.acts[i]) <=> x.acts[i].op = "rmw")
  BY <1>6 DEF IsWrite, IsClflush, Ordered, IsFence
<1> DEFINE B == z.acts
<1>8. PICK lw2 : lw2 = [b \in Address |-> IF b \in Bytes(B[i]) THEN i ELSE z.lastWrites[b]]
  OBVIOUS
<1>9. y = [z EXCEPT !.lastWrites = lw2]
  BY <1>1, <1>8 DEF evictStoreBufferAnalysis
<1>10. i \in Nat
  BY <1>3, <1>5, ActsIs
<1>11. lw2 \in [Address -> Nat]
  BY <1>5, <1>8, <1>10
<1>12. /\ y \in State /\ y.acts = B /\ y.used = z.used /\ y.last = z.last
       /\ y.storeBuffer = z.storeBuffer /\ y.flushBuffer = z.flushBuffer
       /\ y.lastsfence = z.lastsfence /\ y.lastWrites = lw2
       /\ y.flushmap = z.flushmap /\ y.pendingclwbs = z.pendingclwbs /\ y.aborted = z.aborted
  BY <1>5, <1>9, <1>11 DEF State
<1>13. Core(y, 0)
  BY <1>3, <1>12, CoreSame
<1>14. PICK lw, map : lw = x.lastWrites /\ map = x.flushmap
  OBVIOUS
<1>15. PICK pend : pend = x.pendingclwbs
  OBVIOUS
<1>16. /\ Latest(x.acts, lw) /\ Credits(x.acts, map) /\ Pendings(x.acts, pend)
       /\ ClflushCredits(x.acts, map) /\ ClwbCredits(x.acts, lw, pend, map)
       /\ FenceCredits(x.acts, map, 0)
  BY <1>14, <1>15 DEF Analysed
<1>17. \A b \in Address : /\ b \in Bytes(B[i]) => lw2[b] = i
                          /\ b \notin Bytes(B[i]) => lw2[b] = lw[b]
  BY <1>3, <1>8, <1>14 DEF SameButActs
<1>18. B[i].seq # 0 /\ \A k \in Inds(B) : B[k].seq =< B[i].seq
  <2>1. \A k \in Inds(B) : B[k].seq =< B[i].seq
    BY <1>3, <1>5 DEF Clocks
  <2> QED  BY <1>3, <1>4, <2>1
<1>19. Latest(B, lw2)
  <2>1. PICK C \in Seq(Action) : C = B
    BY <1>5
  <2>2. PICK A \in Seq(Action) : A = x.acts
    BY <1>4
  <2>3. Keeps(A, C) /\ Fits(C) /\ Only(A, C, i) /\ i \in Inds(C) /\ IsWrite(C[i]) /\ C[i].seq # 0
    BY <1>3, <1>5, <1>7, <1>18, <2>1, <2>2
  <2>4. \A k \in Inds(C) : C[k].seq =< C[i].seq
    BY <1>18, <2>1
  <2>5. Latest(A, lw)
    BY <1>16, <2>2
  <2>6. \A b \in Address : /\ b \in Bytes(C[i]) => lw2[b] = i
                           /\ b \notin Bytes(C[i]) => lw2[b] = lw[b]
    BY <1>17, <2>1
  <2>7. Latest(C, lw2)
    BY <2>3, <2>4, <2>5, <2>6, LatestWrite
  <2> QED  BY <2>1, <2>7
<1>20. Credits(B, map)
  BY <1>3, <1>4, <1>5, <1>16, CreditsKept
<1>21. Pendings(B, pend)
  BY <1>3, <1>4, <1>5, <1>16, PendingsKept
<1>22. \A w : Credited(map, w) => Credited(map, w)
  OBVIOUS
<1>23. ClflushCredits(B, map)
  BY <1>3, <1>4, <1>5, <1>7, <1>16, <1>22, ClflushCreditsKept
<1>24. ClwbCredits(B, lw2, pend, map)
  <2>1. \A k \in Inds(B) : B[k].t = B[i].t /\ B[k].seq # 0 => k =< i
    <3> SUFFICES ASSUME NEW k \in Inds(B), k # i, B[k].t = B[i].t, B[k].seq # 0 PROVE k =< i
      BY <1>10
    <3>1. k \in Inds(x.acts) /\ x.acts[k] = B[k] /\ B[i].t = x.acts[i].t
      BY <1>6
    <3>2. Ordered(x.acts[i])
      BY DEF Ordered
    <3>3. k < i
      BY <1>4, <3>1, <3>2
    <3>4. k \in Nat
      BY <1>5, IndsIs
    <3> QED  BY <1>10, <3>3, <3>4
  <2>2. /\ \A b \in Address : lw2[b] = lw[b] \/ lw2[b] = i
        /\ \A f : In(pend, f) => In(pend, f)
        /\ i \in Inds(B) /\ B[i].op = "clwb" => In(pend, i)
    BY <1>7, <1>17
  <2> QED  BY <1>3, <1>4, <1>5, <1>16, <1>22, <2>1, <2>2, ClwbCreditsKept
<1>25. PICK g : g = IF x.acts[i].op = "rmw" THEN i ELSE 0
  OBVIOUS
<1>26. FenceCredits(B, map, g)
  <2>1. i \in Inds(B) /\ IsFence(B[i]) => i = g
    BY <1>7, <1>25
  <2> QED  BY <1>3, <1>4, <1>5, <1>7, <1>16, <1>22, <2>1, FenceCreditsKept
<1>27. Good(y, 0, g)
  <2>1. y.acts = B /\ y.lastWrites = lw2 /\ y.flushmap = map /\ y.pendingclwbs = pend
    BY <1>3, <1>12, <1>14, <1>15 DEF SameButActs
  <2> QED  BY <1>13, <1>19, <1>20, <1>21, <1>23, <1>24, <1>26, <2>1, Zenon DEF Good, Analysed
<1>28. Effected(x, y, i)
  <2>1. \A k \in Inds(x.acts) : B[k].op = x.acts[k].op /\ (k # i => B[k] = x.acts[k])
    BY <1>6
  <2>2. y.used \in Nat /\ x.used =< y.used
    BY <1>3, <1>4, <1>12
  <2> QED  BY <1>3, <1>4, <1>6, <1>12, <2>1, <2>2 DEF Effected, SameButActs
<1> QED  BY <1>25, <1>27, <1>28

\* A store that a clwb of its own thread flushes happens before what it covers to.
LEMMA CoversOwn ==
  ASSUME NEW z, NEW u, z.acts \in Seq(Action), Acted(z.acts, u), NEW w, NEW c, FlushOf(z.acts, w, c),
         z.acts[c].op = "clwb"
  PROVE  happens_before(z, w, CoveredTo(z, c)) /\ z.acts[w].seq # 0
<1> DEFINE A == z.acts
           j == A[c].lastwrite
<1>1. /\ w \in Inds(A) /\ c \in Inds(A) /\ w < c /\ IsWrite(A[w])
      /\ A[c].t = A[w].t /\ LineOf(A[c]) = LineOf(A[w]) /\ A[c].seq # 0
  BY DEF FlushOf
<1>2. Fits(A) /\ Clocks(A, u) /\ Numbered(A) /\ Linked(A) /\ InOrder(A)
  BY DEF Acted
<1>3. Ordered(A[w])
  BY <1>1 DEF Ordered
<1>4. A[w].seq # 0
  BY <1>1, <1>2, <1>3 DEF InOrder
<1>5. w \in Nat /\ 1 =< w /\ c \in Nat
  BY <1>1, IndsIs
<1>6. w =< j
  <2>1. LastOrdered(A, c, A[c].t, LineOf(A[c]), j)
    BY <1>1, <1>2 DEF Linked
  <2>2. w \in 1 .. (c - 1)
    BY <1>1, <1>5
  <2> QED  BY <1>1, <1>3, <2>1, <2>2 DEF LastOrdered
<1>7. j \in Inds(A) /\ Ordered(A[j]) /\ A[j].t = A[c].t /\ A[j].seq # 0 /\ j # 0
  <2>1. A[c].lastwrite # 0
    <3>1. A[c].lastwrite \in Nat
      BY <1>1, ActsIs
    <3> QED  BY <1>5, <1>6, <3>1
  <2> QED  BY <1>1, <1>2, <2>1, LinkInEffect
<1>8. A[w].seq =< A[j].seq
  <2>1. A[j].seq \in Nat /\ j \in Nat
    BY <1>7, ActsIs
  <2>2. CASE w = j
    BY <2>1, <2>2
  <2>3. CASE w # j
    <3>1. w < j
      BY <1>5, <1>6, <2>1, <2>3
    <3>2. A[w].seq < A[j].seq
      BY <1>1, <1>2, <1>3, <1>7, <3>1 DEF InOrder
    <3>3. A[w].seq \in Nat
      BY <1>1, ActsIs
    <3> QED  BY <2>1, <3>2, <3>3
  <2> QED  BY <2>2, <2>3
<1>9. CoveredTo(z, c) = j
  BY <1>7 DEF CoveredTo
<1>10. A[j].cv[A[w].t] = A[j].seq
  BY <1>1, <1>2, <1>7 DEF Clocks
<1> QED  BY <1>4, <1>8, <1>9, <1>10 DEF happens_before

\* A store that happens before what a clwb of its line covers to has been written
\* back by it, or is credited too soon.
LEMMA CoversRightly ==
  ASSUME NEW z, NEW u \in Nat, z.acts \in Seq(Action), Acted(z.acts, u),
         NEW w \in Inds(z.acts), IsWrite(z.acts[w]), z.acts[w].seq # 0,
         NEW c \in Inds(z.acts), z.acts[c].op = "clwb", z.acts[c].seq # 0,
         LineOf(z.acts[c]) = LineOf(z.acts[w]), happens_before(z, w, CoveredTo(z, c))
  PROVE  FlushesIn(z.acts, w) # {} \/ CreditedTooSoonIn(z.acts, w)
<1> DEFINE A == z.acts
           j == A[c].lastwrite
           t == A[w].t
<1>1. Fits(A) /\ Clocks(A, u) /\ Numbered(A) /\ Linked(A) /\ InOrder(A)
  BY DEF Acted
<1>2. t \in Thread /\ A[w].seq \in Nat /\ A[c].lastcommittedWrite \in Nat /\ A[c].seq \in Nat
      /\ A[c].cv \in Clock
  BY ActsIs
<1>3. ~IsClflush(A[c])
  BY DEF IsClflush
<1>4. j \in 0 .. Len(A) /\ (j # 0 => j \in Inds(A) /\ A[j].seq # 0)
  BY <1>1, LinkInEffect
<1>5. /\ WroteBackToIn(A, c) \in Nat
      /\ WroteBackToIn(A, c) >= A[c].lastcommittedWrite
      /\ j # 0 => WroteBackToIn(A, c) >= A[j].seq
  BY <1>3, <1>4, WroteBackIs
<1>6. ASSUME WroteBackToIn(A, c) >= A[w].seq PROVE FlushesIn(A, w) # {}
  <2>1. c \in DOMAIN A
    BY ActsIs
  <2> QED  BY <1>6, <2>1 DEF FlushesIn
<1>7. CASE j # 0
  <2>1. A[w].seq =< A[j].cv[t]
    BY <1>7 DEF happens_before, CoveredTo
  <2>2. A[j].cv[t] =< A[j].seq
    BY <1>1, <1>2, <1>4, <1>7 DEF Clocks
  <2>3. A[j].seq \in Nat /\ A[j].cv \in Clock
    BY <1>4, <1>7, ActsIs
  <2>4. A[j].cv[t] \in Nat
    BY <1>2, <2>3 DEF Clock
  <2>5. WroteBackToIn(A, c) >= A[w].seq
    <3>1. \A k, m, n, q \in Nat : k =< m /\ m =< n /\ q >= n => q >= k
      OBVIOUS
    <3> QED  BY <1>2, <1>5, <1>7, <2>1, <2>2, <2>3, <2>4, <3>1
  <2> QED  BY <1>6, <2>5
<1>8. CASE j = 0 /\ t # A[c].t
  <2>1. A[w].seq =< A[c].cv[t]
    BY <1>8 DEF happens_before, CoveredTo
  <2>2. A[c].cv[t] =< A[c].lastcommittedWrite
    BY <1>1, <1>2, <1>8 DEF Clocks
  <2>3. A[c].cv[t] \in Nat
    BY <1>2 DEF Clock
  <2>4. WroteBackToIn(A, c) >= A[w].seq
    BY <1>2, <1>5, <2>1, <2>2, <2>3
  <2> QED  BY <1>6, <2>4
<1>9. CASE j = 0 /\ t = A[c].t
  <2>1. w \in Nat /\ c \in Nat /\ 1 =< c /\ 1 =< w
    BY IndsIs
  <2>2. c =< w
    <3> SUFFICES ASSUME w < c PROVE FALSE
      BY <2>1
    <3>1. LastOrdered(A, c, A[c].t, LineOf(A[c]), j)
      BY <1>1 DEF Linked
    <3>2. w \in 1 .. (c - 1) /\ Ordered(A[w])
      BY <2>1 DEF Ordered
    <3>3. w =< j
      BY <1>9, <3>1, <3>2 DEF LastOrdered
    <3> QED  BY <1>9, <2>1, <3>3
  <2>3. c \in 1 .. w
    BY <2>1, <2>2
  <2> QED  BY <1>9, <2>3 DEF CreditedTooSoonIn
<1> QED  BY <1>7, <1>8, <1>9

LEMMA FenceAnalysis ==
  ASSUME NEW z, NEW i, NEW g, Good(z, 0, g), i \in Inds(z.acts), z.acts[i].seq # 0,
         ~IsClflush(z.acts[i]),
         g = 0 \/ (g = i /\ IsFence(z.acts[i]) /\ z.acts[i].seq = z.used),
         NEW y, y = fenceExecutionAnalysis(z, i)
  PROVE  /\ Good(y, 0, 0) /\ y.acts = z.acts
         /\ y.storeBuffer = z.storeBuffer /\ y.flushBuffer = z.flushBuffer
         /\ IsFence(z.acts[i]) /\ z.acts[i].seq = z.used => y.aborted = z.aborted
<1> DEFINE A == z.acts
           pending == ToSet(z.pendingclwbs)
           Covered(c) == {w \in LastWritesOf(z, getCacheID(A[c].b)) :
                            happens_before(z, w, CoveredTo(z, c))}
           ws == UNION {Covered(c) : c \in pending}
           fresh == NotYetFlushed(z, ws, i)
           T == updateFlushVector(z, fresh, i)
<1>1. /\ z \in State /\ A \in Seq(Action) /\ Core(z, 0) /\ z.used \in Nat
      /\ Fits(A) /\ Clocks(A, z.used) /\ Numbered(A) /\ Linked(A) /\ InOrder(A)
      /\ Acted(A, z.used) /\ z.pendingclwbs \in Seq(Nat)
  BY CoreIs DEF Good, Core
<1>2. /\ Latest(A, z.lastWrites) /\ Credits(A, z.flushmap)
      /\ Pendings(A, z.pendingclwbs) /\ ClflushCredits(A, z.flushmap)
      /\ ClwbCredits(A, z.lastWrites, z.pendingclwbs, z.flushmap)
      /\ FenceCredits(A, z.flushmap, g)
  BY DEF Good, Analysed
<1>3. i \in Nat /\ A[i].t \in Thread /\ A[i].seq \in Nat
  BY <1>1, ActsIs
<1>4. \A c : c \in pending <=> In(z.pendingclwbs, c)
  <2>1. DOMAIN z.pendingclwbs = Inds(z.pendingclwbs)
    BY <1>1, LenProperties DEF Inds
  <2> QED  BY <2>1 DEF ToSet, In
<1>5. \A c \in pending : c \in Inds(A) /\ A[c].op = "clwb" /\ A[c].seq # 0
  BY <1>2, <1>4 DEF In, Pendings
<1>6. CASE \E c \in pending : A[c].seq >= A[i].seq
  <2>1. y = [z EXCEPT !.aborted = i]
    BY <1>6, Zenon DEF fenceExecutionAnalysis
  <2>2. /\ y \in State /\ y.acts = A /\ y.used = z.used /\ y.last = z.last
        /\ y.storeBuffer = z.storeBuffer /\ y.flushBuffer = z.flushBuffer
        /\ y.lastsfence = z.lastsfence /\ y.lastWrites = z.lastWrites
        /\ y.flushmap = z.flushmap /\ y.pendingclwbs = z.pendingclwbs
    BY <1>1, <1>3, <2>1 DEF State
  <2>3. ~(IsFence(A[i]) /\ A[i].seq = z.used)
    <3> SUFFICES ASSUME IsFence(A[i]), A[i].seq = z.used PROVE FALSE
      OBVIOUS
    <3>1. PICK c \in pending : A[c].seq >= A[i].seq
      BY <1>6
    <3>2. c \in Inds(A) /\ A[c].op = "clwb" /\ A[c].seq # 0
      BY <1>5
    <3>3. A[c].seq =< z.used /\ A[c].seq \in Nat
      BY <1>1, <3>2, ActsIs DEF Clocks
    <3>4. A[c].seq = A[i].seq
      BY <1>3, <3>1, <3>3
    <3>5. c = i
      BY <1>1, <3>2, <3>4 DEF Numbered
    <3> QED  BY <3>2, <3>5 DEF IsFence
  <2>4. g = 0
    BY <2>3
  <2>5. Core(y, 0)
    BY <1>1, <2>2, CoreSame
  <2>6. Good(y, 0, 0)
    BY <1>2, <2>2, <2>4, <2>5, Zenon DEF Good, Analysed
  <2> QED  BY <2>2, <2>3, <2>6
<1>7. CASE ~\E c \in pending : A[c].seq >= A[i].seq
  <2>1. y = [z EXCEPT !.flushmap = T, !.pendingclwbs = <<>>]
    BY <1>7, Zenon DEF fenceExecutionAnalysis
  <2>2. ASSUME NEW c \in pending, NEW w \in Covered(c)
        PROVE  /\ w \in Inds(A) /\ IsWrite(A[w]) /\ A[w].seq # 0 /\ LineOf(A[w]) = LineOf(A[c])
               /\ happens_before(z, w, CoveredTo(z, c))
    <3>1. w \in LastWritesOf(z, getCacheID(A[c].b))
      OBVIOUS
    <3> QED  BY <1>1, <1>2, <3>1, LastWritesOfIs DEF LineOf
  <2>3. ASSUME NEW w \in ws
        PROVE  /\ w \in Inds(A) /\ IsWrite(A[w]) /\ A[w].seq # 0
               /\ FlushesIn(A, w) # {} \/ CreditedTooSoonIn(A, w)
    <3>1. PICK c \in pending : w \in Covered(c)
      OBVIOUS
    <3>2. /\ w \in Inds(A) /\ IsWrite(A[w]) /\ A[w].seq # 0 /\ LineOf(A[w]) = LineOf(A[c])
          /\ happens_before(z, w, CoveredTo(z, c))
      BY <2>2, <3>1
    <3>3. c \in Inds(A) /\ A[c].op = "clwb" /\ A[c].seq # 0
      BY <1>5
    <3> QED  BY <1>1, <3>2, <3>3, CoversRightly
  <2>4. ASSUME NEW w, NEW c, In(z.pendingclwbs, c), FlushOf(A, w, c),
               NEW b \in Bytes(A[w]), z.lastWrites[b] = w
        PROVE  w \in ws
    <3>1. c \in pending /\ A[c].op = "clwb"
      BY <1>4, <1>5, <2>4
    <3>2. /\ w \in Inds(A) /\ IsWrite(A[w]) /\ LineOf(A[c]) = LineOf(A[w])
      BY <2>4 DEF FlushOf
    <3>3. happens_before(z, w, CoveredTo(z, c))
      BY <1>1, <2>4, <3>1, CoversOwn
    <3>4. b \in Address /\ getCacheID(b) = LineOf(A[c])
      <4>1. A[w].op \notin {"sfence", "mfence"}
        BY <3>2 DEF IsWrite
      <4> QED  BY <1>1, <3>2, <4>1, BytesIs
    <3>5. w # 0
      BY <1>1, <3>2, ActsIs
    <3>6. w \in LastWritesOf(z, getCacheID(A[c].b))
      BY <1>1, <1>2, <2>4, <3>4, <3>5, LastWritesOfIs DEF LineOf
    <3>7. w \in Covered(c)
      BY <3>3, <3>6
    <3> QED  BY <3>1, <3>7
  <2>5. fresh \in SUBSET ws /\ fresh \in SUBSET Nat
    <3>1. fresh \in SUBSET ws
      BY DEF NotYetFlushed
    <3>2. \A w \in ws : w \in Nat
      BY <1>1, <2>3, ActsIs
    <3> QED  BY <3>1, <3>2
  <2>6. PICK U : U = T
    OBVIOUS
  <2>7. /\ \A w : Credited(z.flushmap, w) => Credited(U, w)
        /\ \A w \in fresh : Credited(U, w)
        /\ \A e \in U : e \in z.flushmap \/ (e.w \in fresh /\ e.t = A[i].t /\ e.f = i)
        /\ (\A d, e \in z.flushmap : d.w = e.w /\ d.t = e.t => d = e)
             => \A d, e \in U : d.w = e.w /\ d.t = e.t => d = e
        /\ z.flushmap \in SUBSET Entry /\ fresh \in SUBSET Nat /\ i \in Nat /\ A[i].t \in Thread
             => U \in SUBSET Entry
    <3> HIDE DEF fresh
    <3> QED  BY <2>6, UpdateIs
  <2>8. \A w \in ws : Credited(U, w)
    <3> SUFFICES ASSUME NEW w \in ws, w \notin fresh PROVE Credited(U, w)
      BY <2>7
    <3>1. flushExistsBeforeCV(z.flushmap, A, w, A[i].cv)
      BY DEF NotYetFlushed
    <3>2. Credited(z.flushmap, w)
      BY <3>1 DEF flushExistsBeforeCV, Credited
    <3> QED  BY <2>7, <3>2
  <2> HIDE DEF ws, fresh, T, pending
  <2>9. U \in SUBSET Entry
    BY <1>1, <1>3, <2>5, <2>7, StateIs
  <2>10. y = [z EXCEPT !.flushmap = U, !.pendingclwbs = <<>>]
    BY <2>1, <2>6
  <2>11. /\ y \in State /\ y.acts = A /\ y.used = z.used /\ y.last = z.last
         /\ y.storeBuffer = z.storeBuffer /\ y.flushBuffer = z.flushBuffer
         /\ y.lastsfence = z.lastsfence /\ y.lastWrites = z.lastWrites
         /\ y.flushmap = U /\ y.pendingclwbs = <<>> /\ y.aborted = z.aborted
    <3>1. <<>> \in Seq(Nat)
      BY EmptySeq
    <3> QED  BY <1>1, <2>9, <2>10, <3>1 DEF State
  <2>12. Core(y, 0)
    BY <1>1, <2>11, CoreSame
  <2>13. Credits(A, U)
    <3>1. ASSUME NEW e \in U, e.w \in fresh, e.t = A[i].t, e.f = i PROVE Justified(A, e)
      <4>1. e.w \in ws
        BY <2>5, <3>1
      <4> QED  BY <2>3, <3>1, <4>1 DEF Justified
    <3>2. \A e \in U : Justified(A, e)
      BY <1>2, <2>7, <3>1 DEF Credits
    <3> QED  BY <1>2, <2>7, <3>2 DEF Credits
  <2>14. Pendings(A, <<>>)
    <3>1. \A j \in Inds(<<>>) : FALSE
      BY DEF Inds
    <3> QED  BY <3>1 DEF Pendings
  <2>15. ClflushCredits(A, U)
    BY <1>2, <2>7 DEF ClflushCredits
  <2>16. ASSUME NEW w \in Inds(A), NEW f \in Inds(A), NEW b \in Bytes(A[w]),
                FlushOf(A, w, f), A[f].op = "clwb", z.lastWrites[b] = w
         PROVE  Credited(U, w)
    <3>1. In(z.pendingclwbs, f) \/ Credited(z.flushmap, w)
      BY <1>2, <2>16 DEF ClwbCredits
    <3> QED  BY <2>4, <2>7, <2>8, <2>16, <3>1
  <2>17. ClwbCredits(A, z.lastWrites, <<>>, U)
    BY <2>16 DEF ClwbCredits
  <2>18. FenceCredits(A, U, 0)
    <3> SUFFICES ASSUME NEW w \in Inds(A), NEW f \in Inds(A), NEW h \in Inds(A),
                        FlushOf(A, w, f), A[f].op = "clwb", f < h, A[h].t = A[f].t,
                        IsFence(A[h]), A[h].seq # 0, Survives(A, w, A[h].seq)
                 PROVE  Credited(U, w)
      BY DEF FenceCredits
    <3>1. CASE h # g
      BY <1>2, <2>7, <3>1 DEF FenceCredits
    <3>2. CASE h = g
      <4>1. h # 0
        BY <1>1, ActsIs
      <4>2. h = i /\ A[i].seq = z.used
        BY <3>2, <4>1
      <4>3. IsWrite(A[w]) /\ A[w].seq # 0
        BY <1>1, CoversOwn DEF FlushOf
      <4>4. \A k \in Inds(A) : A[k].seq =< A[i].seq
        BY <1>1, <4>2 DEF Clocks
      <4>5. PICK b \in Bytes(A[w]) : z.lastWrites[b] = w
        <5>1. PICK lw : lw = z.lastWrites
          OBVIOUS
        <5>2. PICK s \in Nat : s = A[i].seq
          BY <1>3
        <5>3. Latest(A, lw) /\ Survives(A, w, s) /\ \A k \in Inds(A) : A[k].seq =< s
          BY <1>2, <4>2, <4>4, <5>1, <5>2
        <5>4. A \in Seq(Action) /\ Fits(A) /\ Numbered(A)
          BY <1>1
        <5>5. \E b \in Bytes(A[w]) : b \in Address /\ getCacheID(b) = LineOf(A[w]) /\ lw[b] = w
          BY <4>3, <5>3, <5>4, SurvivorIsLast
        <5> QED  BY <5>1, <5>5
      <4> QED  BY <2>16, <4>5
    <3> QED  BY <3>1, <3>2
  <2>19. Good(y, 0, 0)
    BY <1>2, <2>11, <2>12, <2>13, <2>14, <2>15, <2>17, <2>18, Zenon DEF Good, Analysed
  <2> QED  BY <2>11, <2>19
<1> QED  BY <1>6, <1>7

LEMMA FenceUsed ==
  ASSUME NEW z \in State, NEW i
  PROVE  fenceExecutionAnalysis(z, i).used = z.used
<1>1. \A m, p : [z EXCEPT !.flushmap = m, !.pendingclwbs = p].used = z.used
  BY DEF State
<1>2. [z EXCEPT !.aborted = i].used = z.used
  BY DEF State
<1> QED  BY <1>1, <1>2 DEF fenceExecutionAnalysis

\* A fence, or the read that a CAS becomes, takes effect.
LEMMA PlainEffect ==
  ASSUME NEW x, NEW i, Core(x, i), Ready(x, i), Analysed(x),
         FenceCredits(x.acts, x.flushmap, 0), x.acts[i].op \in {"sfence", "mfence", "casread"},
         NEW z, z = TakeEffect(x, i)
  PROVE  /\ Good(z, 0, IF IsFence(x.acts[i]) THEN i ELSE 0) /\ Effected(x, z, i)
         /\ i \in Inds(z.acts) /\ z.acts[i].seq = z.used /\ z.acts[i].seq # 0
<1>3. /\ Core(z, 0) /\ SameButActs(x, z) /\ Keeps(x.acts, z.acts) /\ Only(x.acts, z.acts, i)
      /\ i \in Inds(z.acts) /\ z.acts[i].seq = x.used + 1 /\ z.used = x.used + 1
  BY EffectCore
<1>4. /\ x \in State /\ x.acts \in Seq(Action) /\ x.used \in Nat /\ i \in Inds(x.acts)
      /\ Fits(x.acts) /\ Linked(x.acts) /\ InOrder(x.acts)
  BY CoreIs DEF Ready
<1>5. z.acts \in Seq(Action) /\ z \in State
  BY <1>3, CoreIs
<1>6. /\ Len(z.acts) = Len(x.acts) /\ Inds(z.acts) = Inds(x.acts)
      /\ \A k \in Inds(x.acts) : k # i => z.acts[k] = x.acts[k]
      /\ z.acts[i].op = x.acts[i].op /\ z.acts[i].t = x.acts[i].t
  BY <1>4, TakeEffectIs
<1>7. /\ ~IsWrite(z.acts[i]) /\ ~Ordered(z.acts[i]) /\ ~IsClflush(z.acts[i])
      /\ z.acts[i].op # "clwb" /\ (IsFence(z.acts[i]) <=> IsFence(x.acts[i]))
  BY <1>6 DEF IsWrite, IsClflush, Ordered, IsFence
<1> DEFINE B == z.acts
<1>14. PICK lw, map : lw = x.lastWrites /\ map = x.flushmap
  OBVIOUS
<1>15. PICK pend : pend = x.pendingclwbs
  OBVIOUS
<1>16. /\ Latest(x.acts, lw) /\ Credits(x.acts, map) /\ Pendings(x.acts, pend)
       /\ ClflushCredits(x.acts, map) /\ ClwbCredits(x.acts, lw, pend, map)
       /\ FenceCredits(x.acts, map, 0)
  BY <1>14, <1>15 DEF Analysed
<1>19. Latest(B, lw)
  BY <1>3, <1>4, <1>5, <1>7, <1>16, LatestKept
<1>20. Credits(B, map)
  BY <1>3, <1>4, <1>5, <1>16, CreditsKept
<1>21. Pendings(B, pend)
  BY <1>3, <1>4, <1>5, <1>16, PendingsKept
<1>22. \A w : Credited(map, w) => Credited(map, w)
  OBVIOUS
<1>23. ClflushCredits(B, map)
  BY <1>3, <1>4, <1>5, <1>7, <1>16, <1>22, ClflushCreditsKept
<1>24. ClwbCredits(B, lw, pend, map)
  <2>2. /\ \A b \in Address : lw[b] = lw[b] \/ lw[b] = i
        /\ \A f : In(pend, f) => In(pend, f)
        /\ i \in Inds(B) /\ B[i].op = "clwb" => In(pend, i)
        /\ i \in Inds(B) /\ Ordered(B[i]) =>
             \A k \in Inds(B) : B[k].t = B[i].t /\ B[k].seq # 0 => k =< i
    BY <1>7
  <2> QED  BY <1>3, <1>4, <1>5, <1>16, <1>22, <2>2, ClwbCreditsKept
<1>25. PICK g : g = IF IsFence(x.acts[i]) THEN i ELSE 0
  OBVIOUS
<1>26. FenceCredits(B, map, g)
  <2>1. i \in Inds(B) /\ IsFence(B[i]) => i = g
    BY <1>7, <1>25
  <2> QED  BY <1>3, <1>4, <1>5, <1>7, <1>16, <1>22, <2>1, FenceCreditsKept
<1>27. Good(z, 0, g)
  <2>1. z.acts = B /\ z.lastWrites = lw /\ z.flushmap = map /\ z.pendingclwbs = pend
    BY <1>3, <1>14, <1>15 DEF SameButActs
  <2> QED  BY <1>3, <1>19, <1>20, <1>21, <1>23, <1>24, <1>26, <2>1, Zenon DEF Good, Analysed
<1>28. Effected(x, z, i)
  <2>1. \A k \in Inds(x.acts) : B[k].op = x.acts[k].op /\ (k # i => B[k] = x.acts[k])
    BY <1>6
  <2>2. z.used \in Nat /\ x.used =< z.used
    BY <1>3, <1>4
  <2> QED  BY <1>3, <1>4, <1>6, <2>1, <2>2 DEF Effected, SameButActs
<1> QED  BY <1>3, <1>4, <1>25, <1>27, <1>28

\* A fence takes effect and is analysed.
LEMMA FenceEffect ==
  ASSUME NEW x, NEW i, Core(x, i), Ready(x, i), Analysed(x),
         FenceCredits(x.acts, x.flushmap, 0), x.acts[i].op \in {"sfence", "mfence"},
         NEW y, y = fenceExecutionAnalysis(TakeEffect(x, i), i)
  PROVE  Good(y, 0, 0) /\ Effected(x, y, i)
<1>1. PICK z : z = TakeEffect(x, i)
  OBVIOUS
<1>2. IsFence(x.acts[i])
  BY DEF IsFence
<1>3. /\ Good(z, 0, i) /\ Effected(x, z, i)
      /\ i \in Inds(z.acts) /\ z.acts[i].seq = z.used /\ z.acts[i].seq # 0
  BY <1>1, <1>2, PlainEffect
<1>4. z.acts[i].op = x.acts[i].op
  BY <1>3 DEF Effected, Ready
<1>5. ~IsClflush(z.acts[i]) /\ IsFence(z.acts[i])
  BY <1>4 DEF IsClflush, IsFence
<1>6. /\ Good(y, 0, 0) /\ y.acts = z.acts /\ y.storeBuffer = z.storeBuffer
      /\ y.flushBuffer = z.flushBuffer /\ y.aborted = z.aborted
  BY <1>1, <1>3, <1>5, FenceAnalysis
<1>7. y.used = z.used
  <2>1. z \in State /\ y = fenceExecutionAnalysis(z, i)
    BY <1>1, <1>3 DEF Good, Core
  <2> QED  BY <2>1, FenceUsed
<1> QED  BY <1>3, <1>6, <1>7 DEF Effected

-------------------------------------------------------------------------------
(* The head of a buffer.                                                   *)

LeftStore(x, t) == [x EXCEPT !.storeBuffer[t] = Tail(@)]

LeftFlush(x, t) == [x EXCEPT !.flushBuffer[t] = Tail(@)]

LEMMA TailIs ==
  ASSUME NEW s \in Seq(Nat), s # <<>>
  PROVE  /\ Head(s) \in Nat /\ Tail(s) \in Seq(Nat) /\ Len(s) \in Nat \ {0}
         /\ Len(Tail(s)) = Len(s) - 1
         /\ In(s, Head(s)) /\ s[1] = Head(s) /\ 1 \in Inds(s)
         /\ \A j \in Inds(Tail(s)) : j + 1 \in Inds(s) /\ Tail(s)[j] = s[j + 1]
         /\ \A k : In(Tail(s), k) => In(s, k)
         /\ \A k : In(s, k) => k = Head(s) \/ In(Tail(s), k)
         /\ Increasing(s) => /\ Increasing(Tail(s))
                             /\ \A j \in Inds(Tail(s)) : Head(s) < Tail(s)[j]
                             /\ ~In(Tail(s), Head(s))
<1>1. /\ Head(s) \in Nat /\ Tail(s) \in Seq(Nat) /\ Len(Tail(s)) = Len(s) - 1 /\ s[1] = Head(s)
      /\ \A j \in 1 .. Len(Tail(s)) : Tail(s)[j] = s[j + 1]
  BY HeadTailProperties
<1>2. PICK n \in Nat : n = Len(s)
  BY LenProperties
<1>3. n # 0
  BY <1>2, EmptySeq
<1>4. \A j : (j \in Inds(s) <=> j \in 1 .. n) /\ (j \in Inds(Tail(s)) <=> j \in 1 .. (n - 1))
  BY <1>1, <1>2 DEF Inds
<1>5. \A j \in Inds(Tail(s)) : j + 1 \in Inds(s) /\ Tail(s)[j] = s[j + 1]
  <2>1. \A j \in 1 .. (n - 1) : j + 1 \in 1 .. n
    BY <1>3
  <2> QED  BY <1>1, <1>4, <2>1 DEF Inds
<1>6. 1 \in Inds(s) /\ In(s, Head(s))
  BY <1>1, <1>3, <1>4 DEF In
<1>7. \A k : In(Tail(s), k) => In(s, k)
  BY <1>5 DEF In
<1>8. ASSUME NEW k, In(s, k) PROVE k = Head(s) \/ In(Tail(s), k)
  <2>1. PICK j \in Inds(s) : s[j] = k
    BY <1>8 DEF In
  <2>2. CASE j = 1
    BY <1>1, <2>1, <2>2
  <2>3. CASE j # 1
    <3>1. j \in Nat /\ j - 1 \in 1 .. (n - 1) /\ (j - 1) + 1 = j
      BY <1>4, <2>1, <2>3
    <3>2. j - 1 \in Inds(Tail(s))
      BY <1>4, <3>1
    <3>3. Tail(s)[j - 1] = k
      BY <1>5, <2>1, <3>1, <3>2
    <3> QED  BY <3>2, <3>3 DEF In
  <2> QED  BY <2>2, <2>3
<1>9. ASSUME Increasing(s)
      PROVE  /\ Increasing(Tail(s))
             /\ \A j \in Inds(Tail(s)) : Head(s) < Tail(s)[j]
             /\ ~In(Tail(s), Head(s))
  <2>1. \A i, j \in Inds(Tail(s)) : i < j => Tail(s)[i] < Tail(s)[j]
    <3> SUFFICES ASSUME NEW i \in Inds(Tail(s)), NEW j \in Inds(Tail(s)), i < j
                 PROVE  Tail(s)[i] < Tail(s)[j]
      OBVIOUS
    <3>1. i + 1 \in Inds(s) /\ j + 1 \in Inds(s) /\ i + 1 < j + 1
      <4>1. i \in Nat /\ j \in Nat
        BY <1>4
      <4> QED  BY <1>5, <4>1
    <3>2. s[i + 1] < s[j + 1]
      BY <1>9, <3>1 DEF Increasing
    <3> QED  BY <1>5, <3>2
  <2>2. ASSUME NEW j \in Inds(Tail(s)) PROVE Head(s) < Tail(s)[j]
    <3>1. j + 1 \in Inds(s) /\ 1 < j + 1
      <4>1. j \in Nat /\ 1 =< j
        BY <1>4
      <4> QED  BY <1>5, <4>1
    <3>2. s[1] < s[j + 1]
      BY <1>6, <1>9, <3>1 DEF Increasing
    <3> QED  BY <1>1, <1>5, <3>2
  <2>3. ~In(Tail(s), Head(s))
    <3> SUFFICES ASSUME NEW j \in Inds(Tail(s)), Tail(s)[j] = Head(s) PROVE FALSE
      BY DEF In
    <3>1. Head(s) < Head(s)
      BY <2>2
    <3> QED  BY <1>1, <3>1
  <2> QED  BY <2>1, <2>2, <2>3 DEF Increasing
<1> QED  BY <1>1, <1>2, <1>3, <1>5, <1>6, <1>7, <1>8, <1>9

LEMMA LeftUsed ==
  ASSUME NEW x \in State, NEW t
  PROVE  LeftStore(x, t).used = x.used /\ LeftFlush(x, t).used = x.used /\ x.used \in Nat
BY DEF State, LeftStore, LeftFlush

LEMMA EmptyHasNone ==
  ASSUME NEW k
  PROVE  ~In(<<>>, k) /\ Increasing(<<>>) /\ \A j : j \notin Inds(<<>>)
<1>1. \A j : j \notin Inds(<<>>)
  BY DEF Inds
<1> QED  BY <1>1 DEF In, Increasing

LEMMA PopStoreCore ==
  ASSUME NEW x, Core(x, 0), NEW t \in Thread, x.storeBuffer[t] # <<>>,
         NEW i, i = Head(x.storeBuffer[t]), NEW y, y = LeftStore(x, t)
  PROVE  /\ Core(y, i) /\ y.acts = x.acts /\ y.lastWrites = x.lastWrites
         /\ y.flushmap = x.flushmap /\ y.pendingclwbs = x.pendingclwbs /\ y.aborted = x.aborted
         /\ y.flushBuffer = x.flushBuffer /\ y.lastsfence = x.lastsfence
         /\ y.storeBuffer[t] = Tail(x.storeBuffer[t]) /\ y.storeBuffer[t] \in Seq(Nat)
         /\ \A u \in Thread : u # t => y.storeBuffer[u] = x.storeBuffer[u]
         /\ i \in Inds(x.acts) /\ x.acts[i].t = t /\ x.acts[i].seq = 0
         /\ Ordered(x.acts[i]) \/ x.acts[i].op \in {"sfence", "clwb"}
         /\ \A j \in Inds(x.flushBuffer[t]) : x.flushBuffer[t][j] < i
         /\ \A k \in Inds(x.acts) : x.acts[k].t = t /\ x.acts[k].seq # 0 => k < i
         /\ (IsFence(x.acts[i]) => x.flushBuffer[t] = <<>>) => Ready(y, i)
         /\ \A u \in Thread : ~In(y.storeBuffer[u], i) /\ ~In(y.flushBuffer[u], i)
         /\ \A j \in Inds(y.storeBuffer[t]) : i < y.storeBuffer[t][j]
         /\ In(x.storeBuffer[t], i) /\ \A u \in Thread : \A k : In(y.storeBuffer[u], k) => In(x.storeBuffer[u], k)
<1> DEFINE A == x.acts
           s == x.storeBuffer[t]
<1>1. /\ x \in State /\ A \in Seq(Action) /\ x.storeBuffer \in [Thread -> Seq(Nat)]
      /\ x.flushBuffer \in [Thread -> Seq(Nat)] /\ Buffers(x) /\ Waiting(x, 0)
  BY CoreIs
<1>2. s \in Seq(Nat)
  BY <1>1
<1>3. /\ i \in Nat /\ Tail(s) \in Seq(Nat) /\ In(s, i) /\ s[1] = i /\ 1 \in Inds(s)
      /\ \A j \in Inds(Tail(s)) : j + 1 \in Inds(s) /\ Tail(s)[j] = s[j + 1]
      /\ \A k : In(Tail(s), k) => In(s, k)
      /\ \A k : In(s, k) => k = i \/ In(Tail(s), k)
      /\ Increasing(Tail(s)) /\ ~In(Tail(s), i)
      /\ \A j \in Inds(Tail(s)) : i < Tail(s)[j]
  <2>1. Increasing(s)
    BY <1>1 DEF Buffers, BuffersIn
  <2> QED  BY <1>2, <2>1, TailIs
<1>4. PICK g : g = [x.storeBuffer EXCEPT ![t] = Tail(s)]
  OBVIOUS
<1>5. /\ g \in [Thread -> Seq(Nat)] /\ g[t] = Tail(s)
      /\ \A u \in Thread : u # t => g[u] = x.storeBuffer[u]
  BY <1>1, <1>3, <1>4
<1>6. y = [x EXCEPT !.storeBuffer = g]
  BY <1>4 DEF LeftStore
<1>7. /\ y \in State /\ y.acts = A /\ y.used = x.used /\ y.last = x.last
      /\ y.storeBuffer = g /\ y.flushBuffer = x.flushBuffer
      /\ y.lastsfence = x.lastsfence /\ y.begin = x.begin /\ y.lastWrites = x.lastWrites
      /\ y.flushmap = x.flushmap /\ y.pendingclwbs = x.pendingclwbs /\ y.aborted = x.aborted
  BY <1>1, <1>5, <1>6 DEF State
<1>8. \A u \in Thread : \A j \in Inds(x.storeBuffer[u]) :
        LET k == x.storeBuffer[u][j]
        IN  /\ k \in Inds(A) /\ A[k].t = u /\ A[k].seq = 0
            /\ Ordered(A[k]) \/ A[k].op \in {"sfence", "clwb"}
            /\ \A m \in Inds(x.flushBuffer[u]) : x.flushBuffer[u][m] < k
            /\ \A m \in Inds(A) : A[m].t = u /\ A[m].seq # 0 => m < k
  BY <1>1 DEF Buffers, BuffersIn
<1>9. /\ i \in Inds(A) /\ A[i].t = t /\ A[i].seq = 0
      /\ Ordered(A[i]) \/ A[i].op \in {"sfence", "clwb"}
      /\ \A m \in Inds(x.flushBuffer[t]) : x.flushBuffer[t][m] < i
      /\ \A m \in Inds(A) : A[m].t = t /\ A[m].seq # 0 => m < i
  BY <1>3, <1>8
<1>10. \A u \in Thread : Increasing(g[u])
  BY <1>1, <1>3, <1>5 DEF Buffers, BuffersIn
<1>11. ASSUME NEW u \in Thread, NEW j \in Inds(g[u])
       PROVE  \E m \in Inds(x.storeBuffer[u]) : g[u][j] = x.storeBuffer[u][m]
  <2>1. CASE u = t
    BY <1>3, <1>5, <2>1
  <2>2. CASE u # t
    BY <1>5, <2>2
  <2> QED  BY <2>1, <2>2
<1>12. Buffers(y)
  <2>1. ASSUME NEW u \in Thread, NEW j \in Inds(g[u])
        PROVE  LET k == g[u][j]
               IN  /\ k \in Inds(A) /\ A[k].t = u /\ A[k].seq = 0
                   /\ Ordered(A[k]) \/ A[k].op \in {"sfence", "clwb"}
                   /\ \A m \in Inds(x.flushBuffer[u]) : x.flushBuffer[u][m] < k
                   /\ \A m \in Inds(A) : A[m].t = u /\ A[m].seq # 0 => m < k
    <3>1. PICK m \in Inds(x.storeBuffer[u]) : g[u][j] = x.storeBuffer[u][m]
      BY <1>11, <2>1
    <3> QED  BY <1>8, <3>1
  <2>2. ASSUME NEW u \in Thread, NEW j \in Inds(x.flushBuffer[u])
        PROVE  LET k == x.flushBuffer[u][j]
               IN  /\ k \in Inds(A) /\ A[k].t = u /\ A[k].seq = 0 /\ A[k].op = "clwb"
                   /\ \A m \in Inds(A) : A[m].t = u /\ A[m].seq # 0 /\ IsFence(A[m]) => m < k
    BY <1>1 DEF Buffers, BuffersIn
  <2>3. \A u \in Thread : Increasing(g[u]) /\ Increasing(x.flushBuffer[u])
    BY <1>1, <1>10 DEF Buffers, BuffersIn
  <2>4. BuffersIn(A, g, x.flushBuffer)
    BY <2>1, <2>2, <2>3 DEF BuffersIn
  <2> QED  BY <1>7, <2>4 DEF Buffers
<1>13. Waiting(y, i)
  <2> SUFFICES ASSUME NEW k \in Inds(A), k # i, A[k].seq = 0
               PROVE  /\ Ordered(A[k]) => In(g[A[k].t], k)
                      /\ A[k].op = "clwb" => In(g[A[k].t], k) \/ In(x.flushBuffer[A[k].t], k)
    BY <1>7 DEF Waiting
  <2>1. k # 0 /\ A[k].t \in Thread
    BY <1>1, ActsIs
  <2>2. /\ Ordered(A[k]) => In(x.storeBuffer[A[k].t], k)
        /\ A[k].op = "clwb" => In(x.storeBuffer[A[k].t], k) \/ In(x.flushBuffer[A[k].t], k)
    BY <1>1, <2>1 DEF Waiting
  <2>3. In(x.storeBuffer[A[k].t], k) => In(g[A[k].t], k)
    <3>1. CASE A[k].t = t
      BY <1>3, <1>5, <3>1
    <3>2. CASE A[k].t # t
      BY <1>5, <2>1, <3>2
    <3> QED  BY <3>1, <3>2
  <2> QED  BY <2>2, <2>3
<1>14. Core(y, i)
  BY <1>7, <1>12, <1>13 DEF Core
<1>15. ASSUME NEW u \in Thread PROVE ~In(g[u], i) /\ ~In(x.flushBuffer[u], i)
  <2>1. ~In(g[u], i)
    <3>1. CASE u = t
      BY <1>3, <1>5, <3>1
    <3>2. CASE u # t
      <4> SUFFICES ASSUME NEW j \in Inds(g[u]), g[u][j] = i PROVE FALSE
        BY DEF In
      <4>1. PICK m \in Inds(x.storeBuffer[u]) : i = x.storeBuffer[u][m]
        BY <1>5, <3>2
      <4>2. A[i].t = u
        BY <1>8, <4>1
      <4> QED  BY <1>9, <3>2, <4>2
    <3> QED  BY <3>1, <3>2
  <2>2. ~In(x.flushBuffer[u], i)
    <3> SUFFICES ASSUME NEW j \in Inds(x.flushBuffer[u]), x.flushBuffer[u][j] = i PROVE FALSE
      BY DEF In
    <3>1. A[i].t = u
      BY <1>1 DEF Buffers, BuffersIn
    <3>2. i < i
      BY <1>9, <3>1
    <3> QED  BY <1>3, <3>2
  <2> QED  BY <2>1, <2>2
<1>16. \A u \in Thread : \A k : In(g[u], k) => In(x.storeBuffer[u], k)
  BY <1>11 DEF In
<1>17. \A j \in Inds(g[t]) : i < g[t][j]
  BY <1>3, <1>5
<1>18. (IsFence(A[i]) => x.flushBuffer[t] = <<>>) => Ready(y, i)
  BY <1>7, <1>9, <1>15, <1>17 DEF Ready
<1> QED  BY <1>3, <1>5, <1>7, <1>9, <1>14, <1>15, <1>16, <1>17, <1>18

LEMMA PopFlushCore ==
  ASSUME NEW x, Core(x, 0), NEW t \in Thread, x.flushBuffer[t] # <<>>,
         NEW i, i = Head(x.flushBuffer[t]), NEW y, y = LeftFlush(x, t)
  PROVE  /\ Core(y, i) /\ y.acts = x.acts /\ y.lastWrites = x.lastWrites
         /\ y.flushmap = x.flushmap /\ y.pendingclwbs = x.pendingclwbs /\ y.aborted = x.aborted
         /\ y.storeBuffer = x.storeBuffer
         /\ y.flushBuffer[t] = Tail(x.flushBuffer[t])
         /\ \A u \in Thread : u # t => y.flushBuffer[u] = x.flushBuffer[u]
         /\ i \in Inds(x.acts) /\ x.acts[i].t = t /\ x.acts[i].op = "clwb"
         /\ \A k \in Inds(x.acts) :
              x.acts[k].t = t /\ x.acts[k].seq # 0 /\ IsFence(x.acts[k]) => k < i
         /\ Ready(y, i)
         /\ In(x.flushBuffer[t], i)
         /\ \A u \in Thread : \A k : In(y.flushBuffer[u], k) => In(x.flushBuffer[u], k)
<1> DEFINE A == x.acts
           s == x.flushBuffer[t]
<1>1. /\ x \in State /\ A \in Seq(Action) /\ x.storeBuffer \in [Thread -> Seq(Nat)]
      /\ x.flushBuffer \in [Thread -> Seq(Nat)] /\ Buffers(x) /\ Waiting(x, 0)
  BY CoreIs
<1>2. s \in Seq(Nat)
  BY <1>1
<1>3. /\ i \in Nat /\ Tail(s) \in Seq(Nat) /\ In(s, i) /\ s[1] = i /\ 1 \in Inds(s)
      /\ \A j \in Inds(Tail(s)) : j + 1 \in Inds(s) /\ Tail(s)[j] = s[j + 1]
      /\ \A k : In(Tail(s), k) => In(s, k)
      /\ \A k : In(s, k) => k = i \/ In(Tail(s), k)
      /\ Increasing(Tail(s)) /\ ~In(Tail(s), i)
  <2>1. Increasing(s)
    BY <1>1 DEF Buffers, BuffersIn
  <2> QED  BY <1>2, <2>1, TailIs
<1>4. PICK g : g = [x.flushBuffer EXCEPT ![t] = Tail(s)]
  OBVIOUS
<1>5. /\ g \in [Thread -> Seq(Nat)] /\ g[t] = Tail(s)
      /\ \A u \in Thread : u # t => g[u] = x.flushBuffer[u]
  BY <1>1, <1>3, <1>4
<1>6. y = [x EXCEPT !.flushBuffer = g]
  BY <1>4 DEF LeftFlush
<1>7. /\ y \in State /\ y.acts = A /\ y.used = x.used /\ y.last = x.last
      /\ y.storeBuffer = x.storeBuffer /\ y.flushBuffer = g
      /\ y.lastsfence = x.lastsfence /\ y.begin = x.begin /\ y.lastWrites = x.lastWrites
      /\ y.flushmap = x.flushmap /\ y.pendingclwbs = x.pendingclwbs /\ y.aborted = x.aborted
  BY <1>1, <1>5, <1>6 DEF State
<1>8. \A u \in Thread : \A j \in Inds(x.flushBuffer[u]) :
        LET k == x.flushBuffer[u][j]
        IN  /\ k \in Inds(A) /\ A[k].t = u /\ A[k].seq = 0 /\ A[k].op = "clwb"
            /\ \A m \in Inds(A) : A[m].t = u /\ A[m].seq # 0 /\ IsFence(A[m]) => m < k
  BY <1>1 DEF Buffers, BuffersIn
<1>9. /\ i \in Inds(A) /\ A[i].t = t /\ A[i].seq = 0 /\ A[i].op = "clwb"
      /\ \A m \in Inds(A) : A[m].t = t /\ A[m].seq # 0 /\ IsFence(A[m]) => m < i
  BY <1>3, <1>8
<1>10. \A u \in Thread : Increasing(g[u])
  BY <1>1, <1>3, <1>5 DEF Buffers, BuffersIn
<1>11. ASSUME NEW u \in Thread, NEW j \in Inds(g[u])
       PROVE  \E m \in Inds(x.flushBuffer[u]) : g[u][j] = x.flushBuffer[u][m]
  <2>1. CASE u = t
    BY <1>3, <1>5, <2>1
  <2>2. CASE u # t
    BY <1>5, <2>2
  <2> QED  BY <2>1, <2>2
<1>12. Buffers(y)
  <2>1. ASSUME NEW u \in Thread, NEW j \in Inds(g[u])
        PROVE  LET k == g[u][j]
               IN  /\ k \in Inds(A) /\ A[k].t = u /\ A[k].seq = 0 /\ A[k].op = "clwb"
                   /\ \A m \in Inds(A) : A[m].t = u /\ A[m].seq # 0 /\ IsFence(A[m]) => m < k
    <3>1. PICK m \in Inds(x.flushBuffer[u]) : g[u][j] = x.flushBuffer[u][m]
      BY <1>11, <2>1
    <3> QED  BY <1>8, <3>1
  <2>2. ASSUME NEW u \in Thread, NEW j \in Inds(x.storeBuffer[u])
        PROVE  LET k == x.storeBuffer[u][j]
               IN  /\ k \in Inds(A) /\ A[k].t = u /\ A[k].seq = 0
                   /\ Ordered(A[k]) \/ A[k].op \in {"sfence", "clwb"}
                   /\ \A m \in Inds(g[u]) : g[u][m] < k
                   /\ \A m \in Inds(A) : A[m].t = u /\ A[m].seq # 0 => m < k
    <3>1. PICK k : k = x.storeBuffer[u][j]
      OBVIOUS
    <3>2. /\ k \in Inds(A) /\ A[k].t = u /\ A[k].seq = 0
          /\ Ordered(A[k]) \/ A[k].op \in {"sfence", "clwb"}
          /\ \A m \in Inds(x.flushBuffer[u]) : x.flushBuffer[u][m] < k
          /\ \A m \in Inds(A) : A[m].t = u /\ A[m].seq # 0 => m < k
      BY <1>1, <3>1 DEF Buffers, BuffersIn
    <3>3. \A m \in Inds(g[u]) : g[u][m] < k
      BY <1>11, <3>2
    <3> QED  BY <3>1, <3>2, <3>3
  <2>3. \A u \in Thread : Increasing(x.storeBuffer[u]) /\ Increasing(g[u])
    BY <1>1, <1>10 DEF Buffers, BuffersIn
  <2>4. BuffersIn(A, x.storeBuffer, g)
    BY <2>1, <2>2, <2>3 DEF BuffersIn
  <2> QED  BY <1>7, <2>4 DEF Buffers
<1>13. Waiting(y, i)
  <2> SUFFICES ASSUME NEW k \in Inds(A), k # i, A[k].seq = 0
               PROVE  /\ Ordered(A[k]) => In(x.storeBuffer[A[k].t], k)
                      /\ A[k].op = "clwb" => In(x.storeBuffer[A[k].t], k) \/ In(g[A[k].t], k)
    BY <1>7 DEF Waiting
  <2>1. k # 0 /\ A[k].t \in Thread
    BY <1>1, ActsIs
  <2>2. /\ Ordered(A[k]) => In(x.storeBuffer[A[k].t], k)
        /\ A[k].op = "clwb" => In(x.storeBuffer[A[k].t], k) \/ In(x.flushBuffer[A[k].t], k)
    BY <1>1, <2>1 DEF Waiting
  <2>3. In(x.flushBuffer[A[k].t], k) => In(g[A[k].t], k)
    <3>1. CASE A[k].t = t
      BY <1>3, <1>5, <3>1
    <3>2. CASE A[k].t # t
      BY <1>5, <2>1, <3>2
    <3> QED  BY <3>1, <3>2
  <2> QED  BY <2>2, <2>3
<1>14. Core(y, i)
  BY <1>7, <1>12, <1>13 DEF Core
<1>15. ASSUME NEW u \in Thread PROVE ~In(g[u], i) /\ ~In(x.storeBuffer[u], i)
  <2>1. ~In(g[u], i)
    <3>1. CASE u = t
      BY <1>3, <1>5, <3>1
    <3>2. CASE u # t
      <4> SUFFICES ASSUME NEW j \in Inds(g[u]), g[u][j] = i PROVE FALSE
        BY DEF In
      <4>1. PICK m \in Inds(x.flushBuffer[u]) : i = x.flushBuffer[u][m]
        BY <1>5, <3>2
      <4>2. A[i].t = u
        BY <1>8, <4>1
      <4> QED  BY <1>9, <3>2, <4>2
    <3> QED  BY <3>1, <3>2
  <2>2. ~In(x.storeBuffer[u], i)
    <3> SUFFICES ASSUME NEW j \in Inds(x.storeBuffer[u]), x.storeBuffer[u][j] = i PROVE FALSE
      BY DEF In
    <3>1. A[i].t = u /\ \A m \in Inds(x.flushBuffer[u]) : x.flushBuffer[u][m] < i
      BY <1>1 DEF Buffers, BuffersIn
    <3>2. i < i
      BY <1>3, <1>9, <3>1
    <3> QED  BY <1>3, <3>2
  <2> QED  BY <2>1, <2>2
<1>16. \A u \in Thread : \A k : In(g[u], k) => In(x.flushBuffer[u], k)
  BY <1>11 DEF In
<1>17. \A j \in Inds(x.storeBuffer[t]) : i < x.storeBuffer[t][j]
  BY <1>1, <1>3 DEF Buffers, BuffersIn
<1>18. Ready(y, i)
  <2>1. ~Ordered(A[i]) /\ ~IsFence(A[i])
    BY <1>9, KindsIs
  <2> QED  BY <1>7, <1>9, <1>15, <1>17, <2>1 DEF Ready
<1> QED  BY <1>3, <1>5, <1>7, <1>9, <1>14, <1>16, <1>18

-------------------------------------------------------------------------------
(* Emptying the buffers.                                                   *)

\* What becomes of the state x while buffers are emptied.
Frame(x, y) ==
  /\ Len(y.acts) = Len(x.acts) /\ Keeps(x.acts, y.acts)
  /\ \A k \in Inds(x.acts) :
       /\ y.acts[k].op = x.acts[k].op
       /\ (\A u \in Thread : ~In(x.storeBuffer[u], k) /\ ~In(x.flushBuffer[u], k))
            => y.acts[k] = x.acts[k]
  /\ \A u \in Thread :
       /\ \A k : In(y.storeBuffer[u], k) => In(x.storeBuffer[u], k)
       /\ \A k : In(y.flushBuffer[u], k) => In(x.flushBuffer[u], k) \/ In(x.storeBuffer[u], k)
       /\ x.storeBuffer[u] = <<>> /\ x.flushBuffer[u] = <<>>
            => y.storeBuffer[u] = <<>> /\ y.flushBuffer[u] = <<>>
  /\ y.aborted = x.aborted /\ x.used \in Nat /\ y.used \in Nat /\ x.used =< y.used

LEMMA KeepsSelf ==
  ASSUME NEW A \in Seq(Action)
  PROVE  Keeps(A, A) /\ \A i : Only(A, A, i)
BY LenProperties DEF Keeps, Only

LEMMA KeepsTrans ==
  ASSUME NEW A \in Seq(Action), NEW B \in Seq(Action), NEW C \in Seq(Action),
         Keeps(A, B), Keeps(B, C)
  PROVE  Keeps(A, C)
<1>1. Len(A) \in Nat /\ Len(B) \in Nat /\ Len(C) \in Nat /\ Len(A) =< Len(B) /\ Len(B) =< Len(C)
  BY LenProperties DEF Keeps
<1>2. Len(A) =< Len(C)
  BY <1>1
<1>3. ASSUME NEW k \in Inds(A)
      PROVE  /\ C[k].b = A[k].b /\ C[k].n = A[k].n /\ C[k].t = A[k].t
             /\ C[k].lastwrite = A[k].lastwrite /\ C[k].lastcommittedWrite = A[k].lastcommittedWrite
             /\ \/ C[k].op = A[k].op
                \/ k = Len(A) /\ A[k].op = "rmwr" /\ C[k].op \in {"rmw", "casread"}
             /\ A[k].seq # 0 => /\ C[k].seq = A[k].seq /\ C[k].op = A[k].op
                                /\ C[k].last_clflush = A[k].last_clflush
  <2>1. k \in Inds(B)
    BY KeepsIs
  <2>2. /\ B[k].b = A[k].b /\ B[k].n = A[k].n /\ B[k].t = A[k].t
        /\ B[k].lastwrite = A[k].lastwrite /\ B[k].lastcommittedWrite = A[k].lastcommittedWrite
        /\ \/ B[k].op = A[k].op
           \/ k = Len(A) /\ A[k].op = "rmwr" /\ B[k].op \in {"rmw", "casread"}
        /\ A[k].seq # 0 => /\ B[k].seq = A[k].seq /\ B[k].op = A[k].op
                           /\ B[k].last_clflush = A[k].last_clflush
    BY DEF Keeps
  <2>3. /\ C[k].b = B[k].b /\ C[k].n = B[k].n /\ C[k].t = B[k].t
        /\ C[k].lastwrite = B[k].lastwrite /\ C[k].lastcommittedWrite = B[k].lastcommittedWrite
        /\ \/ C[k].op = B[k].op
           \/ k = Len(B) /\ B[k].op = "rmwr" /\ C[k].op \in {"rmw", "casread"}
        /\ B[k].seq # 0 => /\ C[k].seq = B[k].seq /\ C[k].op = B[k].op
                           /\ C[k].last_clflush = B[k].last_clflush
    BY <2>1 DEF Keeps
  <2>4. k = Len(B) => k = Len(A)
    <3>1. k \in Nat /\ k =< Len(A)
      BY IndsIs
    <3> QED  BY <1>1, <3>1
  <2> QED  BY <2>2, <2>3, <2>4
<1> QED  BY <1>2, <1>3 DEF Keeps

LEMMA FrameSelf ==
  ASSUME NEW x \in State
  PROVE  Frame(x, x)
<1>1. x.acts \in Seq(Action) /\ x.used \in Nat
  BY StateIs
<1>2. Keeps(x.acts, x.acts) /\ x.used =< x.used
  BY <1>1, KeepsSelf
<1> QED  BY <1>1, <1>2 DEF Frame

LEMMA FrameTrans ==
  ASSUME NEW x, NEW y, NEW z, x.acts \in Seq(Action), y.acts \in Seq(Action),
         z.acts \in Seq(Action), Frame(x, y), Frame(y, z)
  PROVE  Frame(x, z)
<1>1. Len(z.acts) = Len(x.acts) /\ Keeps(x.acts, z.acts) /\ Inds(y.acts) = Inds(x.acts)
      /\ z.aborted = x.aborted
  BY KeepsTrans DEF Frame, Inds
<1>4. x.used \in Nat /\ z.used \in Nat /\ x.used =< z.used
  BY DEF Frame
<1>2. ASSUME NEW k \in Inds(x.acts)
      PROVE  /\ z.acts[k].op = x.acts[k].op
             /\ (\A u \in Thread : ~In(x.storeBuffer[u], k) /\ ~In(x.flushBuffer[u], k))
                  => z.acts[k] = x.acts[k]
  <2>1. z.acts[k].op = x.acts[k].op
    BY <1>1 DEF Frame
  <2>2. ASSUME \A u \in Thread : ~In(x.storeBuffer[u], k) /\ ~In(x.flushBuffer[u], k)
        PROVE  z.acts[k] = x.acts[k]
    <3>1. y.acts[k] = x.acts[k]
      BY <2>2 DEF Frame
    <3>2. \A u \in Thread : ~In(y.storeBuffer[u], k) /\ ~In(y.flushBuffer[u], k)
      BY <2>2 DEF Frame
    <3>3. z.acts[k] = y.acts[k]
      BY <1>1, <3>2 DEF Frame
    <3> QED  BY <3>1, <3>3
  <2> QED  BY <2>1, <2>2
<1>3. ASSUME NEW u \in Thread
      PROVE  /\ \A k : In(z.storeBuffer[u], k) => In(x.storeBuffer[u], k)
             /\ \A k : In(z.flushBuffer[u], k) => In(x.flushBuffer[u], k) \/ In(x.storeBuffer[u], k)
             /\ x.storeBuffer[u] = <<>> /\ x.flushBuffer[u] = <<>>
                  => z.storeBuffer[u] = <<>> /\ z.flushBuffer[u] = <<>>
  BY DEF Frame
<1> QED  BY <1>1, <1>2, <1>3, <1>4 DEF Frame

LEMMA GoodIs ==
  ASSUME NEW x, NEW h, NEW g, Good(x, h, g)
  PROVE  /\ x \in State /\ x.acts \in Seq(Action) /\ Core(x, h) /\ Analysed(x)
         /\ x.storeBuffer \in [Thread -> Seq(Nat)] /\ x.flushBuffer \in [Thread -> Seq(Nat)]
         /\ FenceCredits(x.acts, x.flushmap, g)
BY CoreIs DEF Good

LEMMA NoRMWKept ==
  ASSUME NEW x, NEW y, Good(x, 0, 0), NoRMW(x), Frame(x, y)
  PROVE  NoRMW(y)
<1> SUFFICES ASSUME NEW t \in Thread, NEW j \in Inds(y.storeBuffer[t])
             PROVE  y.acts[y.storeBuffer[t][j]].op # "rmw"
  BY DEF NoRMW
<1>1. PICK k : k = y.storeBuffer[t][j]
  OBVIOUS
<1>2. In(y.storeBuffer[t], k)
  BY <1>1 DEF In
<1>3. PICK m \in Inds(x.storeBuffer[t]) : x.storeBuffer[t][m] = k
  BY <1>2 DEF Frame, In
<1>4. k \in Inds(x.acts)
  <2>1. Buffers(x)
    BY GoodIs, CoreIs
  <2> QED  BY <1>3, <2>1 DEF Buffers, BuffersIn
<1>5. x.acts[k].op # "rmw"
  BY <1>3 DEF NoRMW
<1> QED  BY <1>1, <1>4, <1>5 DEF Frame

LEMMA PopFlush ==
  ASSUME NEW x, Good(x, 0, 0), NEW t \in Thread, x.flushBuffer[t] # <<>>,
         NEW y, y = popFromFlushBuffer(x, t)
  PROVE  /\ Good(y, 0, 0) /\ Frame(x, y) /\ y.storeBuffer = x.storeBuffer
         /\ y.flushBuffer[t] = Tail(x.flushBuffer[t])
<1>1. PICK i : i = Head(x.flushBuffer[t])
  OBVIOUS
<1>2. PICK z : z = LeftFlush(x, t)
  OBVIOUS
<1>3. y = evictCacheOp(z, i)
  BY <1>1, <1>2 DEF popFromFlushBuffer, LeftFlush
<1>4. Core(x, 0) /\ Analysed(x) /\ FenceCredits(x.acts, x.flushmap, 0) /\ x.acts \in Seq(Action)
  BY GoodIs
<1>5. /\ Core(z, i) /\ z.acts = x.acts /\ z.lastWrites = x.lastWrites
      /\ z.flushmap = x.flushmap /\ z.pendingclwbs = x.pendingclwbs /\ z.aborted = x.aborted
      /\ z.storeBuffer = x.storeBuffer
      /\ z.flushBuffer[t] = Tail(x.flushBuffer[t])
      /\ \A u \in Thread : u # t => z.flushBuffer[u] = x.flushBuffer[u]
      /\ i \in Inds(x.acts) /\ x.acts[i].t = t /\ x.acts[i].op = "clwb"
      /\ \A k \in Inds(x.acts) :
           x.acts[k].t = t /\ x.acts[k].seq # 0 /\ IsFence(x.acts[k]) => k < i
      /\ Ready(z, i)
      /\ In(x.flushBuffer[t], i)
      /\ \A u \in Thread : \A k : In(z.flushBuffer[u], k) => In(x.flushBuffer[u], k)
  <2>1. Core(x, 0) /\ x.flushBuffer[t] # <<>>
    BY <1>4
  <2>2. Core(z, i)
    BY <1>1, <1>2, <2>1, PopFlushCore
  <2>3. Ready(z, i)
    BY <1>1, <1>2, <2>1, PopFlushCore
  <2>4. /\ z.acts = x.acts /\ z.lastWrites = x.lastWrites
        /\ z.flushmap = x.flushmap /\ z.pendingclwbs = x.pendingclwbs /\ z.aborted = x.aborted
        /\ z.storeBuffer = x.storeBuffer
        /\ z.flushBuffer[t] = Tail(x.flushBuffer[t])
        /\ i \in Inds(x.acts) /\ x.acts[i].t = t /\ x.acts[i].op = "clwb"
        /\ In(x.flushBuffer[t], i)
    BY <1>1, <1>2, <2>1, PopFlushCore
  <2>5. \A u \in Thread : u # t => z.flushBuffer[u] = x.flushBuffer[u]
    BY <1>1, <1>2, <2>1, PopFlushCore
  <2>6. \A k \in Inds(x.acts) :
           x.acts[k].t = t /\ x.acts[k].seq # 0 /\ IsFence(x.acts[k]) => k < i
    BY <1>1, <1>2, <2>1, PopFlushCore
  <2>7. \A u \in Thread : \A k : In(z.flushBuffer[u], k) => In(x.flushBuffer[u], k)
    BY <1>1, <1>2, <2>1, PopFlushCore
  <2> QED  BY <2>2, <2>3, <2>4, <2>5, <2>6, <2>7
<1>6. Analysed(z) /\ FenceCredits(z.acts, z.flushmap, 0)
  BY <1>4, <1>5, Zenon DEF Analysed
<1>7. Good(y, 0, 0) /\ Effected(z, y, i)
  BY <1>3, <1>5, <1>6, ClwbEffect
<1>8. /\ Len(y.acts) = Len(x.acts) /\ Keeps(x.acts, y.acts)
      /\ \A k \in Inds(x.acts) : y.acts[k].op = x.acts[k].op /\ (k # i => y.acts[k] = x.acts[k])
      /\ y.storeBuffer = x.storeBuffer /\ y.flushBuffer = z.flushBuffer /\ y.aborted = x.aborted
  BY <1>5, <1>7 DEF Effected
<1>9. Frame(x, y)
  <2>1. ASSUME NEW u \in Thread, x.storeBuffer[u] = <<>>, x.flushBuffer[u] = <<>>
        PROVE  y.flushBuffer[u] = <<>>
    BY <1>5, <1>8, <2>1
  <2>2. x.used \in Nat /\ y.used \in Nat /\ x.used =< y.used
    <3>1. z.used = x.used
      BY <1>2, GoodIs, LeftUsed
    <3> QED  BY <1>7, <3>1 DEF Effected
  <2> QED  BY <1>5, <1>8, <2>1, <2>2 DEF Frame
<1> QED  BY <1>5, <1>7, <1>8, <1>9

\* The states the draining goes through.
IsDrain(f, x, t, n) == f = [k \in 0 .. n |-> IF k = 0 THEN x ELSE popFromFlushBuffer(f[k - 1], t)]

LEMMA DrainExists ==
  ASSUME NEW x, NEW t, NEW n \in Nat
  PROVE  \E f : IsDrain(f, x, t, n)
<1> DEFINE P == {m \in 0 .. n : \E f : IsDrain(f, x, t, m)}
<1>1. 0 \in P
  <2> DEFINE f == [k \in 0 .. 0 |-> x]
  <2>1. f = [k \in 0 .. 0 |-> IF k = 0 THEN x ELSE popFromFlushBuffer(f[k - 1], t)]
    OBVIOUS
  <2> HIDE DEF f
  <2>2. IsDrain(f, x, t, 0)
    BY <2>1 DEF IsDrain
  <2> QED  BY <2>2
<1>2. ASSUME NEW m \in 0 .. (n - 1), m \in P PROVE m + 1 \in P
  <2>1. PICK f : IsDrain(f, x, t, m)
    BY <1>2
  <2>2. /\ \A k \in 0 .. m : f[k] = IF k = 0 THEN x ELSE popFromFlushBuffer(f[k - 1], t)
    BY <2>1, Zenon DEF IsDrain
  <2> DEFINE g == [k \in 0 .. (m + 1) |->
                     IF k = m + 1 THEN popFromFlushBuffer(f[m], t) ELSE f[k]]
  <2>3. ASSUME NEW k \in 0 .. (m + 1)
        PROVE  g[k] = IF k = 0 THEN x ELSE popFromFlushBuffer(g[k - 1], t)
    <3>1. CASE k = m + 1
      <4>1. k # 0 /\ k - 1 = m /\ m \in 0 .. (m + 1) /\ m # m + 1
        BY <3>1
      <4>2. g[k - 1] = f[m]
        BY <4>1
      <4> QED  BY <3>1, <4>1, <4>2
    <3>2. CASE k # m + 1
      <4>1. k \in 0 .. m
        BY <3>2
      <4>2. g[k] = f[k]
        BY <3>2
      <4>3. k # 0 => k - 1 \in 0 .. (m + 1) /\ k - 1 # m + 1
        BY <4>1
      <4>4. k # 0 => g[k - 1] = f[k - 1]
        BY <4>3
      <4> HIDE DEF g
      <4> QED  BY <2>2, <4>1, <4>2, <4>4
    <3> QED  BY <3>1, <3>2
  <2>4. g = [k \in 0 .. (m + 1) |-> g[k]]
    OBVIOUS
  <2> HIDE DEF g
  <2>5. IsDrain(g, x, t, m + 1)
    BY <2>3, <2>4 DEF IsDrain
  <2> QED  BY <2>5
<1> HIDE DEF P
<1>3. \A m \in 0 .. n : m \in P
  BY <1>1, <1>2, Climb
<1>4. n \in P
  BY <1>3
<1> QED  BY <1>4 DEF P

LEMMA DrainIs ==
  ASSUME NEW x, NEW t, NEW n \in Nat
  PROVE  \E f : /\ f[0] = x /\ drainFlushBuffer(x, t, n) = f[n]
                /\ \A k \in 0 .. (n - 1) : f[k + 1] = popFromFlushBuffer(f[k], t)
<1> DEFINE f == CHOOSE f : IsDrain(f, x, t, n)
<1>1. IsDrain(f, x, t, n)
  <2> HIDE DEF f
  <2>1. f = CHOOSE g : IsDrain(g, x, t, n)
    BY DEF f
  <2> QED  BY <2>1, DrainExists
<1>2. drainFlushBuffer(x, t, n) = f[n]
  BY Zenon DEF drainFlushBuffer, IsDrain
<1> HIDE DEF f
<1>3. \A k \in 0 .. n : f[k] = IF k = 0 THEN x ELSE popFromFlushBuffer(f[k - 1], t)
  BY <1>1, Zenon DEF IsDrain
<1>4. f[0] = x
  BY <1>3
<1>5. ASSUME NEW k \in 0 .. (n - 1) PROVE f[k + 1] = popFromFlushBuffer(f[k], t)
  <2>1. k + 1 \in 0 .. n /\ k + 1 # 0 /\ (k + 1) - 1 = k
    OBVIOUS
  <2> QED  BY <1>3, <2>1
<1> QED  BY <1>2, <1>4, <1>5

LEMMA Drain ==
  ASSUME NEW x, Good(x, 0, 0), NEW t \in Thread, NEW n \in 0 .. Len(x.flushBuffer[t]),
         NEW y, y = drainFlushBuffer(x, t, n)
  PROVE  /\ Good(y, 0, 0) /\ Frame(x, y) /\ y.storeBuffer = x.storeBuffer
         /\ Len(y.flushBuffer[t]) = Len(x.flushBuffer[t]) - n
<1>1. x.flushBuffer[t] \in Seq(Nat) /\ x.acts \in Seq(Action)
  BY GoodIs
<1>2. PICK len \in Nat : len = Len(x.flushBuffer[t])
  BY <1>1, LenProperties
<1>3. n \in Nat /\ n =< len
  BY <1>2
<1>4. PICK f : /\ f[0] = x /\ y = f[n]
               /\ \A k \in 0 .. (n - 1) : f[k + 1] = popFromFlushBuffer(f[k], t)
  BY <1>3, DrainIs
<1> DEFINE P == {k \in 0 .. n : /\ Good(f[k], 0, 0) /\ Frame(x, f[k])
                                /\ f[k].storeBuffer = x.storeBuffer
                                /\ Len(f[k].flushBuffer[t]) = len - k}
<1>5. 0 \in P
  BY <1>1, <1>2, <1>3, <1>4, FrameSelf, GoodIs
<1>6. ASSUME NEW k \in 0 .. (n - 1), k \in P PROVE k + 1 \in P
  <2>1. PICK z : z = f[k]
    OBVIOUS
  <2>2. PICK w : w = f[k + 1]
    OBVIOUS
  <2>3. /\ Good(z, 0, 0) /\ Frame(x, z) /\ z.storeBuffer = x.storeBuffer
        /\ Len(z.flushBuffer[t]) = len - k
    BY <1>6, <2>1
  <2>4. z.flushBuffer[t] \in Seq(Nat) /\ z.acts \in Seq(Action)
    BY <2>3, GoodIs
  <2>5. z.flushBuffer[t] # <<>>
    <3>1. len - k # 0
      BY <1>3
    <3> QED  BY <2>3, <2>4, <3>1, EmptySeq
  <2>6. w = popFromFlushBuffer(z, t)
    BY <1>4, <2>1, <2>2
  <2>7. /\ Good(w, 0, 0) /\ Frame(z, w) /\ w.storeBuffer = z.storeBuffer
        /\ w.flushBuffer[t] = Tail(z.flushBuffer[t])
    BY <2>3, <2>5, <2>6, PopFlush
  <2>8. Len(w.flushBuffer[t]) = len - (k + 1)
    <3>1. Len(Tail(z.flushBuffer[t])) = Len(z.flushBuffer[t]) - 1
      BY <2>4, <2>5, TailIs
    <3> QED  BY <1>3, <2>3, <2>7, <3>1
  <2>9. Frame(x, w)
    <3>1. w.acts \in Seq(Action)
      BY <2>7, GoodIs
    <3> QED  BY <1>1, <2>3, <2>4, <2>7, <3>1, FrameTrans
  <2>10. k + 1 \in 0 .. n
    BY <1>3
  <2>11. w.storeBuffer = x.storeBuffer
    BY <2>3, <2>7
  <2>12. Good(f[k + 1], 0, 0) /\ Frame(x, f[k + 1]) /\ f[k + 1].storeBuffer = x.storeBuffer
         /\ Len(f[k + 1].flushBuffer[t]) = len - (k + 1)
    BY <2>2, <2>7, <2>8, <2>9, <2>11, Zenon
  <2> QED  BY <2>10, <2>12
<1> HIDE DEF P
<1>7. \A k \in 0 .. n : k \in P
  BY <1>3, <1>5, <1>6, Climb
<1>8. n \in P
  BY <1>3, <1>7
<1> QED  BY <1>2, <1>4, <1>8 DEF P

\* What has left a store buffer for good.
LEMMA LeftFrame ==
  ASSUME NEW x, Core(x, 0), NEW t \in Thread, x.storeBuffer[t] # <<>>,
         NEW i, i = Head(x.storeBuffer[t]), NEW z, z = LeftStore(x, t),
         NEW y, Effected(z, y, i)
  PROVE  /\ Frame(x, y) /\ y.storeBuffer[t] = Tail(x.storeBuffer[t])
         /\ \A u \in Thread : u # t => y.storeBuffer[u] = x.storeBuffer[u]
<1>1. /\ z.acts = x.acts /\ z.aborted = x.aborted /\ z.flushBuffer = x.flushBuffer
      /\ z.storeBuffer[t] = Tail(x.storeBuffer[t])
      /\ i \in Inds(x.acts) /\ In(x.storeBuffer[t], i)
  BY PopStoreCore
<1>2. \A u \in Thread : u # t => z.storeBuffer[u] = x.storeBuffer[u]
  BY PopStoreCore
<1>3. \A u \in Thread : \A k : In(z.storeBuffer[u], k) => In(x.storeBuffer[u], k)
  BY PopStoreCore
<1>4. /\ Len(y.acts) = Len(x.acts) /\ Keeps(x.acts, y.acts)
      /\ \A k \in Inds(x.acts) : y.acts[k].op = x.acts[k].op /\ (k # i => y.acts[k] = x.acts[k])
      /\ y.storeBuffer = z.storeBuffer /\ y.flushBuffer = x.flushBuffer /\ y.aborted = x.aborted
  BY <1>1 DEF Effected
<1>5. \A k \in Inds(x.acts) :
        (\A u \in Thread : ~In(x.storeBuffer[u], k) /\ ~In(x.flushBuffer[u], k)) => k # i
  BY <1>1
<1>6. ASSUME NEW u \in Thread, x.storeBuffer[u] = <<>>
      PROVE  y.storeBuffer[u] = <<>>
  BY <1>2, <1>4, <1>6
<1>7. Frame(x, y)
  <2>1. z.used = x.used
    BY CoreIs, LeftUsed
  <2>2. x.used \in Nat /\ y.used \in Nat /\ x.used =< y.used
    BY <2>1 DEF Effected
  <2> QED  BY <1>3, <1>4, <1>5, <1>6, <2>2 DEF Frame
<1> QED  BY <1>1, <1>2, <1>4, <1>7

\* An sfence drains the flush buffer of its thread first.
LEMMA PopSfence ==
  ASSUME NEW x, Good(x, 0, 0), NEW t \in Thread, x.storeBuffer[t] # <<>>,
         NEW i, i = Head(x.storeBuffer[t]), x.acts[i].op = "sfence",
         NEW y, y = popFromStoreBuffer(x, t)
  PROVE  /\ Good(y, 0, 0) /\ Frame(x, y) /\ y.storeBuffer[t] = Tail(x.storeBuffer[t])
         /\ \A u \in Thread : u # t => y.storeBuffer[u] = x.storeBuffer[u]
<1>1. PICK z : z = LeftStore(x, t)
  OBVIOUS
<1>2. ~IsWrite(x.acts[i]) /\ ~IsClflush(x.acts[i]) /\ ~Ordered(x.acts[i]) /\ IsFence(x.acts[i])
  BY DEF IsWrite, IsClflush, Ordered, IsFence
<1>3. Core(x, 0) /\ Analysed(x) /\ FenceCredits(x.acts, x.flushmap, 0) /\ x.acts \in Seq(Action)
  BY GoodIs
<1>4. /\ Core(z, i) /\ z.acts = x.acts /\ z.lastWrites = x.lastWrites
      /\ z.flushmap = x.flushmap /\ z.pendingclwbs = x.pendingclwbs /\ z.aborted = x.aborted
      /\ z.flushBuffer = x.flushBuffer
      /\ z.storeBuffer[t] = Tail(x.storeBuffer[t])
      /\ i \in Inds(x.acts) /\ x.acts[i].t = t /\ x.acts[i].seq = 0
      /\ In(x.storeBuffer[t], i)
  BY <1>1, <1>3, PopStoreCore
<1>5. \A u \in Thread : u # t => z.storeBuffer[u] = x.storeBuffer[u]
  BY <1>1, <1>3, PopStoreCore
<1>6. \A u \in Thread : ~In(z.storeBuffer[u], i) /\ ~In(z.flushBuffer[u], i)
  BY <1>1, <1>3, PopStoreCore
<1>7. \A j \in Inds(z.storeBuffer[t]) : i < z.storeBuffer[t][j]
  BY <1>1, <1>3, PopStoreCore
<1>8. ASSUME NEW u \in Thread, NEW k, In(z.storeBuffer[u], k)
      PROVE  In(x.storeBuffer[u], k)
  <2>1. x.storeBuffer[t] \in Seq(Nat)
    BY GoodIs
  <2>2. \A m : In(Tail(x.storeBuffer[t]), m) => In(x.storeBuffer[t], m)
    BY <2>1, TailIs
  <2> QED  BY <1>4, <1>5, <1>8, <2>2
<1>9. y = evictSfence(z, i)
  <2>1. y = evictOpFromStoreBuffer(z, i)
    BY <1>1 DEF popFromStoreBuffer, LeftStore
  <2>2. ~IsWrite(z.acts[i]) /\ z.acts[i].op = "sfence"
    BY <1>2, <1>4
  <2> QED  BY <2>1, <2>2 DEF evictOpFromStoreBuffer
<1>10. Good(z, 0, 0)
  <2>1. Core(z, 0)
    <3>1. Waiting(z, i)
      BY <1>4, CoreIs
    <3>2. Waiting(z, 0)
      BY <1>2, <1>4, <3>1 DEF Waiting
    <3> QED  BY <1>4, <3>2 DEF Core
  <2>2. Analysed(z) /\ FenceCredits(z.acts, z.flushmap, 0)
    BY <1>3, <1>4, Zenon DEF Analysed
  <2> QED  BY <2>1, <2>2 DEF Good
<1>11. z.flushBuffer[t] \in Seq(Nat) /\ z.acts \in Seq(Action)
  BY <1>10, GoodIs
<1>12. PICK n \in Nat : n = Len(z.flushBuffer[t])
  BY <1>11, LenProperties
<1>13. PICK w : w = drainFlushBuffer(z, t, n)
  OBVIOUS
<1>14. /\ Good(w, 0, 0) /\ Frame(z, w) /\ w.storeBuffer = z.storeBuffer
       /\ Len(w.flushBuffer[t]) = n - n
  <2>1. n \in 0 .. Len(z.flushBuffer[t])
    BY <1>12
  <2>2. Good(w, 0, 0) /\ Frame(z, w)
    BY <1>10, <1>13, <2>1, Drain
  <2>3. w.storeBuffer = z.storeBuffer /\ Len(w.flushBuffer[t]) = Len(z.flushBuffer[t]) - n
    BY <1>10, <1>13, <2>1, Drain
  <2> QED  BY <1>12, <2>2, <2>3
<1>15. w.flushBuffer[t] = <<>> /\ w.acts \in Seq(Action)
  <2>1. w.flushBuffer[t] \in Seq(Nat) /\ w.acts \in Seq(Action)
    BY <1>14, GoodIs
  <2> QED  BY <1>12, <1>14, <2>1, EmptySeq
<1>16. /\ Inds(w.acts) = Inds(x.acts) /\ w.acts[i] = x.acts[i] /\ Len(w.acts) = Len(x.acts)
       /\ Keeps(x.acts, w.acts)
  BY <1>4, <1>6, <1>14 DEF Frame, Inds
<1>17. PICK v : v = [w EXCEPT !.lastsfence[t] = i]
  OBVIOUS
<1>18. /\ v \in State /\ v.acts = w.acts /\ v.used = w.used /\ v.last = w.last
       /\ v.storeBuffer = w.storeBuffer /\ v.flushBuffer = w.flushBuffer
       /\ v.lastsfence = [w.lastsfence EXCEPT ![t] = i]
       /\ v.lastWrites = w.lastWrites /\ v.flushmap = w.flushmap
       /\ v.pendingclwbs = w.pendingclwbs /\ v.aborted = w.aborted
  <2>1. w \in State /\ w.lastsfence \in [Thread -> Nat] /\ i \in Nat
    BY <1>4, <1>3, <1>14, GoodIs, CoreIs, ActsIs
  <2>2. PICK g : g = [w.lastsfence EXCEPT ![t] = i]
    OBVIOUS
  <2>3. g \in [Thread -> Nat]
    BY <2>1, <2>2
  <2>4. v = [w EXCEPT !.lastsfence = g]
    BY <1>17, <2>2
  <2> QED  BY <2>1, <2>2, <2>3, <2>4 DEF State
<1>19. Core(v, i)
  <2>1. /\ Core(w, 0) /\ Waiting(w, 0) /\ Buffers(w) /\ Acted(w.acts, w.used)
        /\ \A u, q \in Thread : w.last[u][q] =< w.used
        /\ w.lastsfence \in [Thread -> Nat]
        /\ \A u \in Thread : w.lastsfence[u] \in 0 .. Len(w.acts)
    <3>1. Core(w, 0)
      BY <1>14 DEF Good
    <3> QED  BY <3>1, CoreIs DEF Core
  <2>2. Waiting(v, i)
    <3> SUFFICES ASSUME NEW k \in Inds(v.acts), k # i, v.acts[k].seq = 0
                 PROVE  /\ Ordered(v.acts[k]) => In(v.storeBuffer[v.acts[k].t], k)
                        /\ v.acts[k].op = "clwb"
                             => In(v.storeBuffer[v.acts[k].t], k) \/ In(v.flushBuffer[v.acts[k].t], k)
      BY DEF Waiting
    <3>1. k \in Inds(w.acts) /\ w.acts[k].seq = 0 /\ k # 0
      BY <1>15, <1>18, ActsIs
    <3> QED  BY <1>18, <2>1, <3>1 DEF Waiting
  <2>5. Buffers(v)
    BY <1>18, <2>1, Zenon DEF Buffers
  <2>3. i \in 0 .. Len(w.acts)
    BY <1>4, <1>15, <1>16, IndsIs
  <2>4. \A u \in Thread : v.lastsfence[u] \in 0 .. Len(v.acts)
    BY <1>18, <2>1, <2>3
  <2> QED  BY <1>18, <2>1, <2>2, <2>4, <2>5 DEF Core
<1>20. Ready(v, i)
  <2>1. i \in Inds(v.acts) /\ v.acts[i].seq = 0 /\ v.acts[i].t = t /\ ~Ordered(v.acts[i])
    BY <1>2, <1>4, <1>16, <1>18
  <2>2. \A u \in Thread : ~In(v.storeBuffer[u], i) /\ ~In(v.flushBuffer[u], i)
    BY <1>6, <1>14, <1>18 DEF Frame
  <2>3. \A j \in Inds(v.storeBuffer[t]) : i < v.storeBuffer[t][j]
    BY <1>7, <1>14, <1>18
  <2> QED  BY <1>15, <1>18, <2>1, <2>2, <2>3 DEF Ready
<1>21. Good(y, 0, 0) /\ Effected(v, y, i)
  <2>1. y = fenceExecutionAnalysis(TakeEffect(v, i), i)
    BY <1>4, <1>9, <1>12, <1>13, <1>17 DEF evictSfence, emptyFlushBuffer
  <2>2. Analysed(v) /\ FenceCredits(v.acts, v.flushmap, 0)
    BY <1>14, <1>18, GoodIs, Zenon DEF Analysed
  <2>3. v.acts[i].op \in {"sfence", "mfence"}
    BY <1>16, <1>18
  <2> QED  BY <1>19, <1>20, <2>1, <2>2, <2>3, FenceEffect
<1>22. /\ Len(y.acts) = Len(w.acts) /\ Keeps(w.acts, y.acts)
       /\ \A k \in Inds(w.acts) : y.acts[k].op = w.acts[k].op /\ (k # i => y.acts[k] = w.acts[k])
       /\ y.storeBuffer = z.storeBuffer /\ y.flushBuffer = w.flushBuffer /\ y.aborted = w.aborted
  BY <1>14, <1>18, <1>21 DEF Effected
<1>23. Frame(x, y)
  <2>1. Keeps(x.acts, y.acts)
    <3>1. y.acts \in Seq(Action)
      BY <1>21, GoodIs
    <3> QED  BY <1>3, <1>15, <1>16, <1>22, <3>1, KeepsTrans
  <2>2. ASSUME NEW k \in Inds(x.acts)
        PROVE  /\ y.acts[k].op = x.acts[k].op
               /\ (\A u \in Thread : ~In(x.storeBuffer[u], k) /\ ~In(x.flushBuffer[u], k))
                    => y.acts[k] = x.acts[k]
    <3>1. w.acts[k].op = x.acts[k].op /\ k \in Inds(w.acts)
      BY <1>4, <1>14, <1>16 DEF Frame
    <3>2. ASSUME \A u \in Thread : ~In(x.storeBuffer[u], k) /\ ~In(x.flushBuffer[u], k)
          PROVE  y.acts[k] = x.acts[k]
      <4>1. k # i
        BY <1>4, <3>2
      <4>2. \A u \in Thread : ~In(z.storeBuffer[u], k) /\ ~In(z.flushBuffer[u], k)
        BY <1>4, <1>8, <3>2
      <4>3. w.acts[k] = x.acts[k]
        BY <1>4, <1>14, <4>2 DEF Frame
      <4> QED  BY <1>22, <3>1, <4>1, <4>3
    <3> QED  BY <1>22, <3>1, <3>2
  <2>3. ASSUME NEW u \in Thread
        PROVE  /\ \A k : In(y.storeBuffer[u], k) => In(x.storeBuffer[u], k)
               /\ \A k : In(y.flushBuffer[u], k)
                           => In(x.flushBuffer[u], k) \/ In(x.storeBuffer[u], k)
               /\ x.storeBuffer[u] = <<>> /\ x.flushBuffer[u] = <<>>
                    => y.storeBuffer[u] = <<>> /\ y.flushBuffer[u] = <<>>
    <3>1. /\ \A k : In(w.storeBuffer[u], k) => In(z.storeBuffer[u], k)
          /\ \A k : In(w.flushBuffer[u], k) => In(z.flushBuffer[u], k) \/ In(z.storeBuffer[u], k)
          /\ z.storeBuffer[u] = <<>> /\ z.flushBuffer[u] = <<>>
               => w.storeBuffer[u] = <<>> /\ w.flushBuffer[u] = <<>>
      BY <1>14 DEF Frame
    <3>2. x.storeBuffer[u] = <<>> => u # t
      OBVIOUS
    <3> QED  BY <1>4, <1>5, <1>8, <1>14, <1>22, <3>1, <3>2
  <2>4. Len(y.acts) = Len(x.acts) /\ y.aborted = x.aborted
    BY <1>4, <1>14, <1>16, <1>22 DEF Frame
  <2>5. x.used \in Nat /\ y.used \in Nat /\ x.used =< y.used
    <3>1. z.used = x.used
      BY <1>1, <1>3, CoreIs, LeftUsed
    <3>2. v.used = w.used /\ z.used \in Nat /\ w.used \in Nat /\ z.used =< w.used
      BY <1>14, <1>18 DEF Frame
    <3>3. v.used \in Nat /\ y.used \in Nat /\ v.used =< y.used
      BY <1>21 DEF Effected
    <3> QED  BY <3>1, <3>2, <3>3
  <2> QED  BY <2>1, <2>2, <2>3, <2>4, <2>5 DEF Frame
<1> QED  BY <1>4, <1>5, <1>21, <1>22, <1>23

-------------------------------------------------------------------------------
(* Actions come and change while none takes effect.                        *)

\* What is so of an action that has just been made, in an execution numbered to u.
Made(B, k, u) ==
  /\ B[k].seq = 0 /\ B[k].cv[B[k].t] = 0
  /\ \A v \in Thread : B[k].cv[v] =< u
  /\ B[k].op = "clwb" => /\ \A v \in Thread : B[k].cv[v] =< B[k].lastcommittedWrite
                         /\ LastOrdered(B, k, B[k].t, LineOf(B[k]), B[k].lastwrite)
  /\ B[k].op \notin {"sfence", "mfence"} =>
       B[k].n > 0 /\ \A b \in Bytes(B[k]) : b \in Address /\ getCacheID(b) = LineOf(B[k])

LEMMA ActedKept ==
  ASSUME NEW A \in Seq(Action), NEW B \in Seq(Action), NEW u \in Nat, NEW q \in Nat, u =< q,
         Acted(A, u), Keeps(A, B),
         \A k \in Inds(A) : B[k].seq = A[k].seq /\ B[k].cv = A[k].cv,
         \A k \in Inds(B) : k \notin Inds(A) => Made(B, k, q)
  PROVE  Acted(B, q) /\ Only(A, B, 0)
<1>1. Fits(A) /\ Clocks(A, u) /\ Numbered(A) /\ Linked(A) /\ InOrder(A)
  BY DEF Acted
<1>2. \A k \in Inds(B) : B[k].seq # 0 => k \in Inds(A) /\ A[k].seq = B[k].seq
  BY DEF Made
<1>3. Only(A, B, 0)
  BY <1>2 DEF Only
<1>4. Fits(B) /\ Linked(B)
  BY <1>1, FitsKept, LinkedKept DEF Made
<1>5. Numbered(B)
  BY <1>1, <1>2 DEF Numbered
<1>6. InOrder(B)
  <2> SUFFICES ASSUME NEW i \in Inds(B), NEW j \in Inds(B), i < j, B[i].t = B[j].t,
                      Ordered(B[i]), B[j].seq # 0
               PROVE  B[i].seq # 0 /\ (Ordered(B[j]) => B[i].seq < B[j].seq)
    BY DEF InOrder
  <2>1. j \in Inds(A) /\ A[j].seq = B[j].seq
    BY <1>2
  <2>2. i \in Inds(A) /\ i # Len(A)
    <3>1. i \in Nat /\ 1 =< i /\ j \in Nat /\ j =< Len(A) /\ Len(A) \in Nat
      BY <2>1, IndsIs
    <3>2. i =< Len(A) /\ i # Len(A)
      BY <3>1
    <3> QED  BY <3>1, <3>2, IndsIs
  <2>3. (Ordered(B[i]) <=> Ordered(A[i])) /\ B[i].t = A[i].t
    BY <2>2, KeepsIs
  <2>4. B[j].t = A[j].t /\ (Ordered(B[j]) <=> Ordered(A[j]))
    BY <2>1, KeepsIs
  <2>5. B[i].seq = A[i].seq
    BY <2>2
  <2> QED  BY <1>1, <2>1, <2>2, <2>3, <2>4, <2>5 DEF InOrder
<1>7. Clocks(B, q)
  <2> SUFFICES ASSUME NEW k \in Inds(B)
        PROVE /\ B[k].seq =< q /\ B[k].cv[B[k].t] = B[k].seq
              /\ \A v \in Thread : B[k].cv[v] =< q
              /\ B[k].seq # 0 => \A v \in Thread : B[k].cv[v] =< B[k].seq
              /\ B[k].op = "clwb" =>
                   \A v \in Thread : v # B[k].t => B[k].cv[v] =< B[k].lastcommittedWrite
    BY DEF Clocks
  <2>1. CASE k \notin Inds(A)
    BY <2>1 DEF Made
  <2>2. CASE k \in Inds(A)
    <3>1. /\ A[k].seq =< u /\ A[k].cv[A[k].t] = A[k].seq
          /\ \A v \in Thread : A[k].cv[v] =< u
          /\ A[k].seq # 0 => \A v \in Thread : A[k].cv[v] =< A[k].seq
          /\ A[k].op = "clwb" =>
               \A v \in Thread : v # A[k].t => A[k].cv[v] =< A[k].lastcommittedWrite
      BY <1>1, <2>2 DEF Clocks
    <3>2. B[k].t = A[k].t /\ B[k].lastcommittedWrite = A[k].lastcommittedWrite
          /\ (B[k].op = "clwb" => A[k].op = "clwb")
      BY <2>2 DEF Keeps
    <3>3. B[k].seq = A[k].seq /\ B[k].cv = A[k].cv
      BY <2>2
    <3>4. A[k].seq \in Nat /\ \A v \in Thread : A[k].cv[v] \in Nat
      <4>1. A[k].cv \in Clock /\ A[k].seq \in Nat
        BY <2>2, ActsIs
      <4> QED  BY <4>1 DEF Clock
    <3>5. \A m \in Nat : m =< u => m =< q
      OBVIOUS
    <3>6. A[k].seq =< q /\ \A v \in Thread : A[k].cv[v] =< q
      BY <3>1, <3>4, <3>5
    <3> QED  BY <3>1, <3>2, <3>3, <3>6
  <2> QED  BY <2>1, <2>2
<1> QED  BY <1>3, <1>4, <1>5, <1>6, <1>7 DEF Acted

LEMMA AnalysisKept ==
  ASSUME NEW A \in Seq(Action), NEW B \in Seq(Action), Fits(A), Linked(A), InOrder(A),
         Keeps(A, B), Only(A, B, 0),
         NEW x, x.acts = A, Analysed(x), FenceCredits(A, x.flushmap, 0),
         NEW y, y.acts = B, y.lastWrites = x.lastWrites, y.flushmap = x.flushmap,
         y.pendingclwbs = x.pendingclwbs
  PROVE  Analysed(y) /\ FenceCredits(B, y.flushmap, 0)
<1>1. PICK lw, map : lw = x.lastWrites /\ map = x.flushmap
  OBVIOUS
<1>2. PICK pend : pend = x.pendingclwbs
  OBVIOUS
<1>3. /\ Latest(A, lw) /\ Credits(A, map) /\ Pendings(A, pend)
      /\ ClflushCredits(A, map) /\ ClwbCredits(A, lw, pend, map) /\ FenceCredits(A, map, 0)
  BY <1>1, <1>2 DEF Analysed
<1>4. 0 \notin Inds(B)
  BY IndsIs
<1>5. Latest(B, lw)
  BY <1>3, <1>4, LatestKept
<1>6. Credits(B, map) /\ Pendings(B, pend)
  BY <1>3, CreditsKept, PendingsKept
<1>7. \A w : Credited(map, w) => Credited(map, w)
  OBVIOUS
<1>8. ClflushCredits(B, map)
  BY <1>3, <1>4, <1>7, ClflushCreditsKept
<1>9. ClwbCredits(B, lw, pend, map)
  <2>1. /\ \A b \in Address : lw[b] = lw[b] \/ lw[b] = 0
        /\ \A f : In(pend, f) => In(pend, f)
    OBVIOUS
  <2> QED  BY <1>3, <1>4, <1>7, <2>1, ClwbCreditsKept
<1>10. FenceCredits(B, map, 0)
  BY <1>3, <1>4, <1>7, FenceCreditsKept
<1> QED  BY <1>1, <1>2, <1>5, <1>6, <1>8, <1>9, <1>10, Zenon DEF Analysed

LEMMA AppendIs ==
  ASSUME NEW s \in Seq(Nat), NEW i \in Nat
  PROVE  /\ Append(s, i) \in Seq(Nat) /\ Len(Append(s, i)) = Len(s) + 1
         /\ \A k : In(Append(s, i), k) <=> In(s, k) \/ k = i
         /\ \A j \in Inds(Append(s, i)) : Append(s, i)[j] = i
                                           \/ (j \in Inds(s) /\ Append(s, i)[j] = s[j])
         /\ Increasing(s) /\ (\A j \in Inds(s) : s[j] < i) => Increasing(Append(s, i))
<1>1. PICK n \in Nat : n = Len(s)
  BY LenProperties
<1>2. PICK r : r = Append(s, i)
  OBVIOUS
<1>3. /\ r \in Seq(Nat) /\ Len(r) = n + 1 /\ r[n + 1] = i
      /\ \A j \in 1 .. n : r[j] = s[j]
  BY <1>1, <1>2, AppendProperties
<1>4. \A j : j \in Inds(s) <=> j \in 1 .. n
  BY <1>1 DEF Inds
<1>5. \A j : j \in Inds(r) <=> j \in Nat /\ (j \in 1 .. n \/ j = n + 1)
  <2>1. \A j : j \in 1 .. (n + 1) <=> j \in Nat /\ (j \in 1 .. n \/ j = n + 1)
    OBVIOUS
  <2> QED  BY <1>3, <2>1 DEF Inds
<1>6. \A j \in Inds(r) : r[j] = i \/ (j \in Inds(s) /\ r[j] = s[j])
  BY <1>3, <1>4, <1>5
<1>7. \A k : In(r, k) <=> In(s, k) \/ k = i
  <2>1. ASSUME NEW k, In(r, k) PROVE In(s, k) \/ k = i
    BY <1>6, <2>1 DEF In
  <2>2. ASSUME NEW k, In(s, k) PROVE In(r, k)
    BY <1>3, <1>4, <1>5, <2>2 DEF In
  <2>3. n + 1 \in Inds(r)
    BY <1>5
  <2>4. In(r, i)
    BY <1>3, <2>3 DEF In
  <2> QED  BY <2>1, <2>2, <2>4
<1>8. ASSUME Increasing(s), \A j \in Inds(s) : s[j] < i PROVE Increasing(r)
  <2> SUFFICES ASSUME NEW j \in Inds(r), NEW k \in Inds(r), j < k PROVE r[j] < r[k]
    BY DEF Increasing
  <2>1. j \in 1 .. n
    BY <1>5
  <2>2. r[j] = s[j] /\ j \in Inds(s)
    BY <1>3, <1>4, <2>1
  <2>3. CASE k = n + 1
    BY <1>3, <1>8, <2>2, <2>3
  <2>4. CASE k \in 1 .. n
    BY <1>3, <1>4, <1>8, <2>2, <2>4 DEF Increasing
  <2> QED  BY <1>5, <2>3, <2>4
<1> QED  BY <1>1, <1>2, <1>3, <1>6, <1>7, <1>8

\* A clwb moves from the store buffer to the flush buffer.
LEMMA PopClwb ==
  ASSUME NEW x, Good(x, 0, 0), NEW t \in Thread, x.storeBuffer[t] # <<>>,
         NEW i, i = Head(x.storeBuffer[t]), x.acts[i].op = "clwb",
         NEW y, y = popFromStoreBuffer(x, t)
  PROVE  /\ Good(y, 0, 0) /\ Frame(x, y) /\ y.storeBuffer[t] = Tail(x.storeBuffer[t])
         /\ \A u \in Thread : u # t => y.storeBuffer[u] = x.storeBuffer[u]
<1>1. PICK z : z = LeftStore(x, t)
  OBVIOUS
<1>2. ~IsWrite(x.acts[i]) /\ ~IsClflush(x.acts[i]) /\ ~Ordered(x.acts[i]) /\ ~IsFence(x.acts[i])
  BY DEF IsWrite, IsClflush, Ordered, IsFence
<1>3. Core(x, 0) /\ Analysed(x) /\ FenceCredits(x.acts, x.flushmap, 0) /\ x.acts \in Seq(Action)
      /\ x.storeBuffer \in [Thread -> Seq(Nat)] /\ x.flushBuffer \in [Thread -> Seq(Nat)]
  BY GoodIs
<1>4. /\ Core(z, i) /\ z.acts = x.acts /\ z.lastWrites = x.lastWrites
      /\ z.flushmap = x.flushmap /\ z.pendingclwbs = x.pendingclwbs /\ z.aborted = x.aborted
      /\ z.flushBuffer = x.flushBuffer
      /\ z.storeBuffer[t] = Tail(x.storeBuffer[t])
      /\ i \in Inds(x.acts) /\ x.acts[i].t = t /\ x.acts[i].seq = 0
      /\ In(x.storeBuffer[t], i)
  BY <1>1, <1>3, PopStoreCore
<1>5. \A u \in Thread : u # t => z.storeBuffer[u] = x.storeBuffer[u]
  BY <1>1, <1>3, PopStoreCore
<1>6. \A j \in Inds(x.flushBuffer[t]) : x.flushBuffer[t][j] < i
  BY <1>1, <1>3, PopStoreCore
<1>7. \A j \in Inds(z.storeBuffer[t]) : i < z.storeBuffer[t][j]
  BY <1>1, <1>3, PopStoreCore
<1>8. \A k \in Inds(x.acts) : x.acts[k].t = t /\ x.acts[k].seq # 0 => k < i
  BY <1>1, <1>3, PopStoreCore
<1>9. /\ z \in State /\ Acted(x.acts, z.used) /\ z.used \in Nat
      /\ z.storeBuffer \in [Thread -> Seq(Nat)]
      /\ \A u, v \in Thread : z.last[u][v] =< z.used
      /\ \A u \in Thread : z.lastsfence[u] \in 0 .. Len(x.acts)
      /\ Buffers(z) /\ Waiting(z, i)
  BY <1>4, CoreIs DEF Core
<1>10. i \in Nat \ {0} /\ z.lastsfence \in [Thread -> Nat]
  BY <1>3, <1>4, <1>9, ActsIs, StateIs
<1>11. PICK fb : fb = [x.flushBuffer EXCEPT ![t] = Append(x.flushBuffer[t], i)]
  OBVIOUS
<1>12. /\ fb \in [Thread -> Seq(Nat)] /\ fb[t] = Append(x.flushBuffer[t], i)
       /\ \A u \in Thread : u # t => fb[u] = x.flushBuffer[u]
       /\ \A k : In(fb[t], k) <=> In(x.flushBuffer[t], k) \/ k = i
       /\ \A j \in Inds(fb[t]) : fb[t][j] = i
                                   \/ (j \in Inds(x.flushBuffer[t]) /\ fb[t][j] = x.flushBuffer[t][j])
       /\ \A u \in Thread : Increasing(fb[u])
  <2>1. Increasing(x.flushBuffer[t]) /\ \A u \in Thread : Increasing(x.flushBuffer[u])
    BY <1>4, <1>9 DEF Buffers, BuffersIn
  <2>2. PICK s : s = Append(x.flushBuffer[t], i)
    OBVIOUS
  <2>3. /\ s \in Seq(Nat) /\ Increasing(s)
        /\ \A k : In(s, k) <=> In(x.flushBuffer[t], k) \/ k = i
        /\ \A j \in Inds(s) : s[j] = i \/ (j \in Inds(x.flushBuffer[t]) /\ s[j] = x.flushBuffer[t][j])
    <3>1. PICK r \in Seq(Nat) : r = x.flushBuffer[t]
      BY <1>3
    <3>2. Increasing(r) /\ \A j \in Inds(r) : r[j] < i
      BY <1>6, <2>1, <3>1
    <3>3. s = Append(r, i) /\ i \in Nat
      BY <1>10, <2>2, <3>1
    <3>4. s \in Seq(Nat) /\ Increasing(s)
      BY <3>2, <3>3, AppendIs
    <3>5. \A k : In(s, k) <=> In(r, k) \/ k = i
      <4>1. \A k : In(Append(r, i), k) <=> In(r, k) \/ k = i
        BY <3>3, AppendIs
      <4> QED  BY <3>3, <4>1
    <3>6. \A j \in Inds(s) : s[j] = i \/ (j \in Inds(r) /\ s[j] = r[j])
      <4>1. \A j \in Inds(Append(r, i)) : Append(r, i)[j] = i
                                            \/ (j \in Inds(r) /\ Append(r, i)[j] = r[j])
        BY <3>3, AppendIs
      <4> QED  BY <3>3, <4>1
    <3> QED  BY <3>1, <3>4, <3>5, <3>6
  <2>4. /\ fb \in [Thread -> Seq(Nat)] /\ fb[t] = s
        /\ \A u \in Thread : u # t => fb[u] = x.flushBuffer[u]
    BY <1>3, <1>11, <2>2, <2>3
  <2> QED  BY <2>1, <2>2, <2>3, <2>4
<1>13. PICK B : B = IF z.lastsfence[t] = 0 THEN x.acts
                    ELSE [x.acts EXCEPT ![i].last_clflush = x.acts[z.lastsfence[t]].seq]
  OBVIOUS
<1>14. y = [z EXCEPT !.flushBuffer = fb, !.acts = B]
  <2>1. y = evictOpFromStoreBuffer(z, i)
    BY <1>1 DEF popFromStoreBuffer, LeftStore
  <2>2. ~IsWrite(z.acts[i]) /\ z.acts[i].op = "clwb" /\ z.acts[i].t = t
    BY <1>2, <1>4
  <2>3. y = evictFlushOpt(z, i)
    BY <2>1, <2>2 DEF evictOpFromStoreBuffer
  <2>4. PICK w : w = [z EXCEPT !.flushBuffer[t] = Append(@, i)]
    OBVIOUS
  <2>5. w = [z EXCEPT !.flushBuffer = fb]
    BY <1>4, <1>11, <2>4
  <2>6. y = IF z.lastsfence[t] = 0 THEN w
            ELSE [w EXCEPT !.acts[i].last_clflush = z.acts[z.lastsfence[t]].seq]
    BY <2>2, <2>3, <2>4 DEF evictFlushOpt
  <2>7. CASE z.lastsfence[t] = 0
    BY <1>4, <1>9, <1>13, <2>5, <2>6, <2>7 DEF State
  <2>8. CASE z.lastsfence[t] # 0
    <3>1. PICK q : q = x.acts[z.lastsfence[t]].seq
      OBVIOUS
    <3>2. w.acts = x.acts
      BY <1>4, <1>9, <2>5 DEF State
    <3>3. y = [w EXCEPT !.acts[i].last_clflush = q]
      BY <1>4, <2>6, <2>8, <3>1
    <3>4. B = [x.acts EXCEPT ![i].last_clflush = q]
      BY <1>13, <2>8, <3>1
    <3>5. y = [w EXCEPT !.acts = B]
      BY <3>2, <3>3, <3>4
    <3> QED  BY <1>9, <2>5, <3>5 DEF State
  <2> QED  BY <2>7, <2>8
<1>15. /\ B \in Seq(Action) /\ Len(B) = Len(x.acts) /\ Inds(B) = Inds(x.acts)
       /\ \A k \in Inds(x.acts) : k # i => B[k] = x.acts[k]
       /\ B[i].op = x.acts[i].op /\ B[i].b = x.acts[i].b /\ B[i].n = x.acts[i].n
       /\ B[i].t = x.acts[i].t /\ B[i].seq = x.acts[i].seq /\ B[i].cv = x.acts[i].cv
       /\ B[i].lastwrite = x.acts[i].lastwrite
       /\ B[i].lastcommittedWrite = x.acts[i].lastcommittedWrite
  <2>1. CASE z.lastsfence[t] = 0
    BY <1>3, <1>13, <2>1
  <2>2. CASE z.lastsfence[t] # 0
    <3>1. PICK q : q = x.acts[z.lastsfence[t]].seq
      OBVIOUS
    <3>2. q \in Nat
      <4>1. z.lastsfence[t] \in 1 .. Len(x.acts)
        BY <1>3, <1>9, <2>2, ActsIs
      <4> QED  BY <1>3, <3>1, <4>1, ActsIs DEF Inds
    <3>3. PICK a \in Action : a = x.acts[i]
      BY <1>3, <1>4, ActsIs
    <3>4. PICK d : d = [a EXCEPT !.last_clflush = q]
      OBVIOUS
    <3>5. /\ d \in Action /\ d.op = a.op /\ d.b = a.b /\ d.n = a.n /\ d.t = a.t /\ d.seq = a.seq
          /\ d.cv = a.cv /\ d.lastwrite = a.lastwrite
          /\ d.lastcommittedWrite = a.lastcommittedWrite
      BY <3>2, <3>4 DEF Action
    <3>6. B = [x.acts EXCEPT ![i] = d]
      BY <1>13, <2>2, <3>1, <3>3, <3>4
    <3>7. /\ [x.acts EXCEPT ![i] = d] \in Seq(Action) /\ Len([x.acts EXCEPT ![i] = d]) = Len(x.acts)
          /\ [x.acts EXCEPT ![i] = d][i] = d
          /\ \A k \in Inds(x.acts) : k # i => [x.acts EXCEPT ![i] = d][k] = x.acts[k]
      BY <1>3, <1>4, <3>5, ExceptSeq DEF Inds
    <3> QED  BY <3>3, <3>5, <3>6, <3>7 DEF Inds
  <2> QED  BY <2>1, <2>2
<1>16. /\ y \in State /\ y.acts = B /\ y.used = z.used /\ y.last = z.last
       /\ y.storeBuffer = z.storeBuffer /\ y.flushBuffer = fb /\ y.lastsfence = z.lastsfence
       /\ y.lastWrites = x.lastWrites /\ y.flushmap = x.flushmap
       /\ y.pendingclwbs = x.pendingclwbs /\ y.aborted = x.aborted
  BY <1>4, <1>9, <1>12, <1>14, <1>15 DEF State
<1>17. Keeps(x.acts, B)
  <2>1. Len(x.acts) =< Len(B)
    BY <1>3, <1>15, ActsIs
  <2> QED  BY <1>4, <1>15, <2>1 DEF Keeps
<1>18. Acted(B, z.used) /\ Only(x.acts, B, 0)
  <2>1. \A k \in Inds(x.acts) : B[k].seq = x.acts[k].seq /\ B[k].cv = x.acts[k].cv
    BY <1>15
  <2>2. z.used =< z.used
    BY <1>9
  <2> QED  BY <1>3, <1>9, <1>15, <1>17, <2>1, <2>2, ActedKept
<1>19. Analysed(y) /\ FenceCredits(B, y.flushmap, 0)
  <2>1. Fits(x.acts) /\ Linked(x.acts) /\ InOrder(x.acts)
    BY <1>9 DEF Acted
  <2>2. Analysed(x) /\ FenceCredits(x.acts, x.flushmap, 0) /\ x.acts \in Seq(Action)
    BY <1>3
  <2>3. y.acts = B /\ y.lastWrites = x.lastWrites /\ y.flushmap = x.flushmap
        /\ y.pendingclwbs = x.pendingclwbs
    BY <1>16
  <2> QED  BY <1>15, <1>17, <1>18, <2>1, <2>2, <2>3, AnalysisKept
<1>20. \A k \in Inds(B) : /\ k \in Inds(x.acts) /\ B[k].t = x.acts[k].t
                          /\ B[k].seq = x.acts[k].seq /\ B[k].op = x.acts[k].op
                          /\ (Ordered(B[k]) <=> Ordered(x.acts[k]))
                          /\ (IsFence(B[k]) <=> IsFence(x.acts[k]))
  <2> SUFFICES ASSUME NEW k \in Inds(B)
               PROVE  /\ k \in Inds(x.acts) /\ B[k].t = x.acts[k].t
                      /\ B[k].seq = x.acts[k].seq /\ B[k].op = x.acts[k].op
                      /\ (Ordered(B[k]) <=> Ordered(x.acts[k]))
                      /\ (IsFence(B[k]) <=> IsFence(x.acts[k]))
    OBVIOUS
  <2>1. k \in Inds(x.acts) /\ B[k].t = x.acts[k].t
        /\ B[k].seq = x.acts[k].seq /\ B[k].op = x.acts[k].op
    BY <1>15
  <2>2. (Ordered(B[k]) <=> Ordered(x.acts[k])) /\ (IsFence(B[k]) <=> IsFence(x.acts[k]))
    BY <2>1, Zenon DEF Ordered, IsWrite, IsClflush, IsFence
  <2> QED  BY <2>1, <2>2
<1>21. Buffers(y)
  <2> SUFFICES ASSUME NEW v \in Thread
      PROVE
        /\ Increasing(z.storeBuffer[v]) /\ Increasing(fb[v])
        /\ \A j \in Inds(z.storeBuffer[v]) :
             LET k == z.storeBuffer[v][j]
             IN  /\ k \in Inds(B) /\ B[k].t = v /\ B[k].seq = 0
                 /\ Ordered(B[k]) \/ B[k].op \in {"sfence", "clwb"}
                 /\ \A m \in Inds(fb[v]) : fb[v][m] < k
                 /\ \A m \in Inds(B) : B[m].t = v /\ B[m].seq # 0 => m < k
        /\ \A j \in Inds(fb[v]) :
             LET k == fb[v][j]
             IN  /\ k \in Inds(B) /\ B[k].t = v /\ B[k].seq = 0
                 /\ B[k].op = "clwb"
                 /\ \A m \in Inds(B) :
                      B[m].t = v /\ B[m].seq # 0 /\ IsFence(B[m]) => m < k
    BY <1>16 DEF Buffers, BuffersIn
  <2>1. Increasing(z.storeBuffer[v]) /\ Increasing(fb[v])
    BY <1>9, <1>12 DEF Buffers, BuffersIn
  <2>2. ASSUME NEW j \in Inds(z.storeBuffer[v])
        PROVE  LET k == z.storeBuffer[v][j]
               IN  /\ k \in Inds(B) /\ B[k].t = v /\ B[k].seq = 0
                   /\ Ordered(B[k]) \/ B[k].op \in {"sfence", "clwb"}
                   /\ \A m \in Inds(fb[v]) : fb[v][m] < k
                   /\ \A m \in Inds(B) : B[m].t = v /\ B[m].seq # 0 => m < k
    <3>1. PICK k : k = z.storeBuffer[v][j]
      OBVIOUS
    <3>2. /\ k \in Inds(x.acts) /\ x.acts[k].t = v /\ x.acts[k].seq = 0
          /\ Ordered(x.acts[k]) \/ x.acts[k].op \in {"sfence", "clwb"}
          /\ \A m \in Inds(x.flushBuffer[v]) : x.flushBuffer[v][m] < k
          /\ \A m \in Inds(x.acts) : x.acts[m].t = v /\ x.acts[m].seq # 0 => m < k
      BY <1>4, <1>9, <3>1 DEF Buffers, BuffersIn
    <3>3. v = t => i < k
      BY <1>7, <3>1
    <3>4. \A m \in Inds(fb[v]) : fb[v][m] < k
      BY <1>12, <3>2, <3>3
    <3>5. \A m \in Inds(B) : B[m].t = v /\ B[m].seq # 0 => m < k
      BY <1>20, <3>2
    <3> QED  BY <1>15, <1>20, <3>1, <3>2, <3>4, <3>5
  <2>3. ASSUME NEW j \in Inds(fb[v])
        PROVE  LET k == fb[v][j]
               IN  /\ k \in Inds(B) /\ B[k].t = v /\ B[k].seq = 0
                   /\ B[k].op = "clwb"
                   /\ \A m \in Inds(B) :
                        B[m].t = v /\ B[m].seq # 0 /\ IsFence(B[m]) => m < k
    <3>1. PICK k : k = fb[v][j]
      OBVIOUS
    <3>2. /\ k \in Inds(x.acts) /\ x.acts[k].t = v /\ x.acts[k].seq = 0 /\ x.acts[k].op = "clwb"
          /\ \A m \in Inds(x.acts) :
               x.acts[m].t = v /\ x.acts[m].seq # 0 /\ IsFence(x.acts[m]) => m < k
      <4>1. CASE v = t /\ k = i
        BY <1>4, <1>8, <4>1
      <4>2. CASE ~(v = t /\ k = i)
        <5>1. j \in Inds(x.flushBuffer[v]) /\ k = x.flushBuffer[v][j]
          BY <1>12, <3>1, <4>2
        <5> QED  BY <1>4, <1>9, <5>1 DEF Buffers, BuffersIn
      <4> QED  BY <4>1, <4>2
    <3>3. \A m \in Inds(B) : B[m].t = v /\ B[m].seq # 0 /\ IsFence(B[m]) => m < k
      BY <1>20, <3>2
    <3> QED  BY <1>15, <1>20, <3>1, <3>2, <3>3
  <2> QED  BY <2>1, <2>2, <2>3
<1>22. Waiting(y, 0)
  <2> SUFFICES ASSUME NEW k \in Inds(B), B[k].seq = 0
      PROVE /\ Ordered(B[k]) => In(z.storeBuffer[B[k].t], k)
            /\ B[k].op = "clwb" => In(z.storeBuffer[B[k].t], k) \/ In(fb[B[k].t], k)
    BY <1>16 DEF Waiting
  <2>1. CASE k = i
    BY <1>2, <1>4, <1>12, <1>20, <2>1
  <2>2. CASE k # i
    <3>1. /\ k \in Inds(x.acts) /\ x.acts[k].seq = 0 /\ x.acts[k].t = B[k].t
          /\ x.acts[k].op = B[k].op /\ (Ordered(B[k]) <=> Ordered(x.acts[k]))
      BY <1>20
    <3>2. /\ Ordered(x.acts[k]) => In(z.storeBuffer[x.acts[k].t], k)
          /\ x.acts[k].op = "clwb"
               => In(z.storeBuffer[x.acts[k].t], k) \/ In(x.flushBuffer[x.acts[k].t], k)
      BY <1>4, <1>9, <2>2, <3>1 DEF Waiting
    <3>3. x.acts[k].t \in Thread
      BY <1>3, <3>1, ActsIs
    <3>4. In(x.flushBuffer[x.acts[k].t], k) => In(fb[x.acts[k].t], k)
      BY <1>12, <3>3
    <3> QED  BY <3>1, <3>2, <3>4
  <2> QED  BY <2>1, <2>2
<1>23. Good(y, 0, 0)
  BY <1>9, <1>15, <1>16, <1>18, <1>19, <1>21, <1>22 DEF Good, Core
<1>24. Frame(x, y)
  <2>1. \A k \in Inds(x.acts) :
          /\ B[k].op = x.acts[k].op
          /\ (\A u \in Thread : ~In(x.storeBuffer[u], k) /\ ~In(x.flushBuffer[u], k))
               => B[k] = x.acts[k]
    BY <1>4, <1>15
  <2>2. ASSUME NEW u \in Thread
        PROVE  /\ \A k : In(z.storeBuffer[u], k) => In(x.storeBuffer[u], k)
               /\ \A k : In(fb[u], k) => In(x.flushBuffer[u], k) \/ In(x.storeBuffer[u], k)
               /\ x.storeBuffer[u] = <<>> /\ x.flushBuffer[u] = <<>>
                    => z.storeBuffer[u] = <<>> /\ fb[u] = <<>>
    <3>1. CASE u = t
      <4>1. \A k : In(Tail(x.storeBuffer[t]), k) => In(x.storeBuffer[t], k)
        BY <1>3, TailIs
      <4> QED  BY <1>4, <1>12, <3>1, <4>1
    <3>2. CASE u # t
      BY <1>5, <1>12, <3>2
    <3> QED  BY <3>1, <3>2
  <2>3. y.used = x.used /\ x.used \in Nat
    <3>1. z.used = x.used /\ x.used \in Nat
      BY <1>1, <1>3, CoreIs, LeftUsed
    <3>2. y.used = z.used
      BY <1>9, <1>14 DEF State
    <3> QED  BY <3>1, <3>2
  <2>4. x.used =< y.used
    BY <2>3
  <2> QED  BY <1>15, <1>16, <1>17, <2>1, <2>2, <2>3, <2>4 DEF Frame
<1> QED  BY <1>4, <1>5, <1>16, <1>23, <1>24

\* A store or a clflush takes effect.
LEMMA PopOrdered ==
  ASSUME NEW x, Good(x, 0, 0), NEW t \in Thread, x.storeBuffer[t] # <<>>,
         NEW i, i = Head(x.storeBuffer[t]), Ordered(x.acts[i]),
         x.acts[i].op = "rmw" => x.flushBuffer[t] = <<>>,
         NEW y, y = popFromStoreBuffer(x, t)
  PROVE  /\ Good(y, 0, IF x.acts[i].op = "rmw" THEN i ELSE 0) /\ Frame(x, y)
         /\ y.storeBuffer[t] = Tail(x.storeBuffer[t])
         /\ \A u \in Thread : u # t => y.storeBuffer[u] = x.storeBuffer[u]
         /\ y.flushBuffer = x.flushBuffer
         /\ IsWrite(x.acts[i]) => y.acts[i].seq = y.used
<1>1. PICK z : z = LeftStore(x, t)
  OBVIOUS
<1>2. Core(x, 0) /\ Analysed(x) /\ FenceCredits(x.acts, x.flushmap, 0) /\ x.acts \in Seq(Action)
  BY GoodIs
<1>3. /\ Core(z, i) /\ z.acts = x.acts /\ z.lastWrites = x.lastWrites
      /\ z.flushmap = x.flushmap /\ z.pendingclwbs = x.pendingclwbs /\ z.aborted = x.aborted
      /\ z.flushBuffer = x.flushBuffer
      /\ z.storeBuffer[t] = Tail(x.storeBuffer[t])
      /\ i \in Inds(x.acts) /\ x.acts[i].t = t /\ x.acts[i].seq = 0
  BY <1>1, <1>2, PopStoreCore
<1>4. (IsFence(x.acts[i]) => x.flushBuffer[t] = <<>>) => Ready(z, i)
  BY <1>1, <1>2, PopStoreCore
<1>5. Ready(z, i)
  BY <1>4, KindsIs
<1>6. Analysed(z) /\ FenceCredits(z.acts, z.flushmap, 0)
  BY <1>2, <1>3, Zenon DEF Analysed
<1>7. y = evictOpFromStoreBuffer(z, i)
  BY <1>1 DEF popFromStoreBuffer, LeftStore
<1>8. CASE IsWrite(x.acts[i])
  <2>1. y = evictStoreBufferAnalysis(TakeEffect(z, i), i)
    <3>1. x.acts[i].op \in {"store", "atomic", "seqcst", "rmw"}
      BY <1>8, KindsIs
    <3> QED  BY <1>3, <1>7, <1>8, <3>1 DEF evictOpFromStoreBuffer
  <2>2. IsWrite(z.acts[i]) /\ z.acts[i].op = x.acts[i].op
    BY <1>3, <1>8
  <2>3. Good(y, 0, IF x.acts[i].op = "rmw" THEN i ELSE 0) /\ Effected(z, y, i)
    BY <1>3, <1>5, <1>6, <2>1, <2>2, WriteEffect
  <2>4. PICK w : w = TakeEffect(z, i)
    OBVIOUS
  <2>5. w.acts[i].seq = w.used /\ w \in State
    BY <1>3, <1>5, <2>4, EffectCore, CoreIs
  <2>6. y.acts = w.acts /\ y.used = w.used
    <3>1. PICK lw : y = [w EXCEPT !.lastWrites = lw]
      BY <2>1, <2>4 DEF evictStoreBufferAnalysis
    <3> QED  BY <2>5, <3>1 DEF State
  <2>7. y.flushBuffer = x.flushBuffer
    BY <1>3, <2>3 DEF Effected
  <2>8. Frame(x, y) /\ y.storeBuffer[t] = Tail(x.storeBuffer[t])
        /\ \A u \in Thread : u # t => y.storeBuffer[u] = x.storeBuffer[u]
    BY <1>1, <1>2, <2>3, LeftFrame
  <2> QED  BY <2>3, <2>5, <2>6, <2>7, <2>8
<1>9. CASE IsClflush(x.acts[i])
  <2>1. x.acts[i].op = "clflush" /\ ~IsWrite(x.acts[i])
    BY <1>9, KindsIs
  <2>2. y = evictCacheOp(z, i)
    BY <1>3, <1>7, <2>1 DEF evictOpFromStoreBuffer
  <2>3. IsClflush(z.acts[i])
    BY <1>3, <1>9
  <2>4. Good(y, 0, 0) /\ Effected(z, y, i)
    BY <1>3, <1>5, <1>6, <2>2, <2>3, ClflushEffect
  <2>5. y.flushBuffer = x.flushBuffer
    BY <1>3, <2>4 DEF Effected
  <2>6. Frame(x, y) /\ y.storeBuffer[t] = Tail(x.storeBuffer[t])
        /\ \A u \in Thread : u # t => y.storeBuffer[u] = x.storeBuffer[u]
    BY <1>1, <1>2, <2>4, LeftFrame
  <2> QED  BY <2>1, <2>4, <2>5, <2>6
<1> QED  BY <1>8, <1>9 DEF Ordered

\* What leaves a store buffer of which no RMW is the head.
LEMMA PopStore ==
  ASSUME NEW x, Good(x, 0, 0), NEW t \in Thread, x.storeBuffer[t] # <<>>,
         x.acts[Head(x.storeBuffer[t])].op # "rmw", NEW y, y = popFromStoreBuffer(x, t)
  PROVE  /\ Good(y, 0, 0) /\ Frame(x, y) /\ y.storeBuffer[t] = Tail(x.storeBuffer[t])
         /\ \A u \in Thread : u # t => y.storeBuffer[u] = x.storeBuffer[u]
<1>1. PICK i : i = Head(x.storeBuffer[t])
  OBVIOUS
<1>2. Ordered(x.acts[i]) \/ x.acts[i].op \in {"sfence", "clwb"}
  <2>1. PICK z : z = LeftStore(x, t)
    OBVIOUS
  <2>2. Core(x, 0)
    BY GoodIs
  <2> QED  BY <1>1, <2>1, <2>2, PopStoreCore
<1>3. x.acts[i].op # "rmw"
  BY <1>1
<1>4. CASE x.acts[i].op = "sfence"
  BY <1>1, <1>4, PopSfence
<1>5. CASE x.acts[i].op = "clwb"
  BY <1>1, <1>5, PopClwb
<1>6. CASE Ordered(x.acts[i])
  <2>1. /\ Good(y, 0, IF x.acts[i].op = "rmw" THEN i ELSE 0) /\ Frame(x, y)
        /\ y.storeBuffer[t] = Tail(x.storeBuffer[t])
        /\ \A u \in Thread : u # t => y.storeBuffer[u] = x.storeBuffer[u]
    BY <1>1, <1>3, <1>6, PopOrdered
  <2> QED  BY <1>3, <2>1
<1> QED  BY <1>2, <1>4, <1>5, <1>6

\* The states the emptying of a store buffer goes through.
IsEmptying(f, x, t, n) ==
  f = [k \in 0 .. n |-> IF k = 0 THEN x ELSE popFromStoreBuffer(f[k - 1], t)]

LEMMA EmptyingExists ==
  ASSUME NEW x, NEW t, NEW n \in Nat
  PROVE  \E f : IsEmptying(f, x, t, n)
<1> DEFINE P == {m \in 0 .. n : \E f : IsEmptying(f, x, t, m)}
<1>1. 0 \in P
  <2> DEFINE f == [k \in 0 .. 0 |-> x]
  <2>1. f = [k \in 0 .. 0 |-> IF k = 0 THEN x ELSE popFromStoreBuffer(f[k - 1], t)]
    OBVIOUS
  <2> HIDE DEF f
  <2>2. IsEmptying(f, x, t, 0)
    BY <2>1 DEF IsEmptying
  <2> QED  BY <2>2
<1>2. ASSUME NEW m \in 0 .. (n - 1), m \in P PROVE m + 1 \in P
  <2>1. PICK f : IsEmptying(f, x, t, m)
    BY <1>2
  <2>2. /\ \A k \in 0 .. m : f[k] = IF k = 0 THEN x ELSE popFromStoreBuffer(f[k - 1], t)
    BY <2>1, Zenon DEF IsEmptying
  <2> DEFINE g == [k \in 0 .. (m + 1) |->
                     IF k = m + 1 THEN popFromStoreBuffer(f[m], t) ELSE f[k]]
  <2>3. ASSUME NEW k \in 0 .. (m + 1)
        PROVE  g[k] = IF k = 0 THEN x ELSE popFromStoreBuffer(g[k - 1], t)
    <3>1. CASE k = m + 1
      <4>1. k # 0 /\ k - 1 = m /\ m \in 0 .. (m + 1) /\ m # m + 1
        BY <3>1
      <4>2. g[k - 1] = f[m]
        BY <4>1
      <4> QED  BY <3>1, <4>1, <4>2
    <3>2. CASE k # m + 1
      <4>1. k \in 0 .. m
        BY <3>2
      <4>2. g[k] = f[k]
        BY <3>2
      <4>3. k # 0 => k - 1 \in 0 .. (m + 1) /\ k - 1 # m + 1
        BY <4>1
      <4>4. k # 0 => g[k - 1] = f[k - 1]
        BY <4>3
      <4> HIDE DEF g
      <4> QED  BY <2>2, <4>1, <4>2, <4>4
    <3> QED  BY <3>1, <3>2
  <2>4. g = [k \in 0 .. (m + 1) |-> g[k]]
    OBVIOUS
  <2> HIDE DEF g
  <2>5. IsEmptying(g, x, t, m + 1)
    BY <2>3, <2>4 DEF IsEmptying
  <2> QED  BY <2>5
<1> HIDE DEF P
<1>3. \A m \in 0 .. n : m \in P
  BY <1>1, <1>2, Climb
<1>4. n \in P
  BY <1>3
<1> QED  BY <1>4 DEF P

LEMMA EmptyingIs ==
  ASSUME NEW x, NEW t, NEW n \in Nat, n = Len(x.storeBuffer[t])
  PROVE  \E f : /\ f[0] = x /\ emptyStoreBuffer(x, t) = f[n]
                /\ \A k \in 0 .. (n - 1) : f[k + 1] = popFromStoreBuffer(f[k], t)
<1> DEFINE f == CHOOSE f : IsEmptying(f, x, t, n)
<1>1. IsEmptying(f, x, t, n)
  <2> HIDE DEF f
  <2>1. f = CHOOSE g : IsEmptying(g, x, t, n)
    BY DEF f
  <2> QED  BY <2>1, EmptyingExists
<1>2. emptyStoreBuffer(x, t) = f[n]
  BY Zenon DEF emptyStoreBuffer, IsEmptying
<1> HIDE DEF f
<1>3. \A k \in 0 .. n : f[k] = IF k = 0 THEN x ELSE popFromStoreBuffer(f[k - 1], t)
  BY <1>1, Zenon DEF IsEmptying
<1>4. f[0] = x
  BY <1>3
<1>5. ASSUME NEW k \in 0 .. (n - 1) PROVE f[k + 1] = popFromStoreBuffer(f[k], t)
  <2>1. k + 1 \in 0 .. n /\ k + 1 # 0 /\ (k + 1) - 1 = k
    OBVIOUS
  <2> QED  BY <1>3, <2>1
<1> QED  BY <1>2, <1>4, <1>5

LEMMA EmptyStore ==
  ASSUME NEW x, Good(x, 0, 0), NoRMW(x), NEW t \in Thread, NEW y, y = emptyStoreBuffer(x, t)
  PROVE  /\ Good(y, 0, 0) /\ Frame(x, y) /\ NoRMW(y) /\ y.storeBuffer[t] = <<>>
<1>1. x.storeBuffer[t] \in Seq(Nat) /\ x.acts \in Seq(Action)
  BY GoodIs
<1>2. PICK n \in Nat : n = Len(x.storeBuffer[t])
  BY <1>1, LenProperties
<1>3. PICK f : /\ f[0] = x /\ y = f[n]
               /\ \A k \in 0 .. (n - 1) : f[k + 1] = popFromStoreBuffer(f[k], t)
  BY <1>2, EmptyingIs
<1> DEFINE P == {k \in 0 .. n : /\ Good(f[k], 0, 0) /\ Frame(x, f[k])
                                /\ Len(f[k].storeBuffer[t]) = n - k}
<1>4. 0 \in P
  BY <1>1, <1>2, <1>3, FrameSelf, GoodIs
<1>5. ASSUME NEW k \in 0 .. (n - 1), k \in P PROVE k + 1 \in P
  <2>1. PICK z : z = f[k]
    OBVIOUS
  <2>2. PICK w : w = f[k + 1]
    OBVIOUS
  <2>3. Good(z, 0, 0) /\ Frame(x, z) /\ Len(z.storeBuffer[t]) = n - k
    BY <1>5, <2>1
  <2>4. z.storeBuffer[t] \in Seq(Nat) /\ z.acts \in Seq(Action)
    BY <2>3, GoodIs
  <2>5. z.storeBuffer[t] # <<>>
    <3>1. n - k # 0
      BY <1>2
    <3> QED  BY <2>3, <2>4, <3>1, EmptySeq
  <2>6. w = popFromStoreBuffer(z, t)
    BY <1>3, <2>1, <2>2
  <2>7. z.acts[Head(z.storeBuffer[t])].op # "rmw"
    <3>1. NoRMW(z)
      BY <2>3, NoRMWKept
    <3>2. z.storeBuffer[t][1] = Head(z.storeBuffer[t]) /\ 1 \in Inds(z.storeBuffer[t])
      BY <2>4, <2>5, TailIs
    <3> QED  BY <3>1, <3>2 DEF NoRMW
  <2>8. Good(w, 0, 0) /\ Frame(z, w) /\ w.storeBuffer[t] = Tail(z.storeBuffer[t])
    BY <2>3, <2>5, <2>6, <2>7, PopStore
  <2>9. Len(w.storeBuffer[t]) = n - (k + 1)
    <3>1. Len(Tail(z.storeBuffer[t])) = Len(z.storeBuffer[t]) - 1
      BY <2>4, <2>5, TailIs
    <3> QED  BY <1>2, <2>3, <2>8, <3>1
  <2>10. Frame(x, w)
    <3>1. w.acts \in Seq(Action)
      BY <2>8, GoodIs
    <3> QED  BY <1>1, <2>3, <2>4, <2>8, <3>1, FrameTrans
  <2>11. k + 1 \in 0 .. n
    BY <1>2
  <2>12. Good(f[k + 1], 0, 0) /\ Frame(x, f[k + 1])
         /\ Len(f[k + 1].storeBuffer[t]) = n - (k + 1)
    BY <2>2, <2>8, <2>9, <2>10, Zenon
  <2> QED  BY <2>11, <2>12
<1> HIDE DEF P
<1>6. \A k \in 0 .. n : k \in P
  BY <1>2, <1>4, <1>5, Climb
<1>7. n \in P
  BY <1>2, <1>6
<1>8. Good(y, 0, 0) /\ Frame(x, y) /\ Len(y.storeBuffer[t]) = n - n
  BY <1>3, <1>7 DEF P
<1>9. y.storeBuffer[t] = <<>>
  <2>1. y.storeBuffer[t] \in Seq(Nat)
    BY <1>8, GoodIs
  <2> QED  BY <1>2, <1>8, <2>1, EmptySeq
<1> QED  BY <1>8, <1>9, NoRMWKept

LEMMA EmptyIs ==
  ASSUME NEW x, Good(x, 0, 0), NoRMW(x), NEW t \in Thread, NEW y, y = Empty(x, t)
  PROVE  /\ Good(y, 0, 0) /\ Frame(x, y) /\ NoRMW(y)
         /\ y.storeBuffer[t] = <<>> /\ y.flushBuffer[t] = <<>>
<1>1. PICK z : z = emptyStoreBuffer(x, t)
  OBVIOUS
<1>2. Good(z, 0, 0) /\ Frame(x, z) /\ NoRMW(z) /\ z.storeBuffer[t] = <<>>
  BY <1>1, EmptyStore
<1>3. x.acts \in Seq(Action) /\ z.acts \in Seq(Action) /\ z.flushBuffer[t] \in Seq(Nat)
  BY <1>2, GoodIs
<1>4. PICK n \in Nat : n = Len(z.flushBuffer[t])
  BY <1>3, LenProperties
<1>5. y = drainFlushBuffer(z, t, n)
  BY <1>1, <1>4 DEF Empty, emptyFlushBuffer
<1>6. n \in 0 .. Len(z.flushBuffer[t])
  BY <1>4
<1>7. Good(y, 0, 0) /\ Frame(z, y)
  BY <1>2, <1>5, <1>6, Drain
<1>8. y.storeBuffer = z.storeBuffer /\ Len(y.flushBuffer[t]) = Len(z.flushBuffer[t]) - n
  <2>1. Good(z, 0, 0)
    BY <1>2
  <2>2. y.storeBuffer = z.storeBuffer
    BY <1>5, <1>6, <2>1, Drain
  <2>3. Len(y.flushBuffer[t]) = Len(z.flushBuffer[t]) - n
    BY <1>5, <1>6, <2>1, Drain
  <2> QED  BY <2>2, <2>3
<1>9. y.flushBuffer[t] \in Seq(Nat) /\ y.acts \in Seq(Action)
  BY <1>7, GoodIs
<1>10. y.flushBuffer[t] = <<>>
  BY <1>4, <1>8, <1>9, EmptySeq
<1>11. Frame(x, y)
  BY <1>2, <1>3, <1>7, <1>9, FrameTrans
<1> QED  BY <1>2, <1>7, <1>8, <1>10, <1>11, NoRMWKept

IsEmptyingAll(f, x, n) == f = [k \in 0 .. n |-> IF k = 0 THEN x ELSE Empty(f[k - 1], k)]

LEMMA EmptyingAllExists ==
  ASSUME NEW x, NEW n \in Nat
  PROVE  \E f : IsEmptyingAll(f, x, n)
<1> DEFINE P == {m \in 0 .. n : \E f : IsEmptyingAll(f, x, m)}
<1>1. 0 \in P
  <2> DEFINE f == [k \in 0 .. 0 |-> x]
  <2>1. f = [k \in 0 .. 0 |-> IF k = 0 THEN x ELSE Empty(f[k - 1], k)]
    OBVIOUS
  <2> HIDE DEF f
  <2>2. IsEmptyingAll(f, x, 0)
    BY <2>1 DEF IsEmptyingAll
  <2> QED  BY <2>2
<1>2. ASSUME NEW m \in 0 .. (n - 1), m \in P PROVE m + 1 \in P
  <2>1. PICK f : IsEmptyingAll(f, x, m)
    BY <1>2
  <2>2. /\ \A k \in 0 .. m : f[k] = IF k = 0 THEN x ELSE Empty(f[k - 1], k)
    BY <2>1, Zenon DEF IsEmptyingAll
  <2> DEFINE g == [k \in 0 .. (m + 1) |-> IF k = m + 1 THEN Empty(f[m], m + 1) ELSE f[k]]
  <2>3. ASSUME NEW k \in 0 .. (m + 1)
        PROVE  g[k] = IF k = 0 THEN x ELSE Empty(g[k - 1], k)
    <3>1. CASE k = m + 1
      <4>1. k # 0 /\ k - 1 = m /\ m \in 0 .. (m + 1) /\ m # m + 1
        BY <3>1
      <4>2. g[k - 1] = f[m]
        BY <4>1
      <4> QED  BY <3>1, <4>1, <4>2
    <3>2. CASE k # m + 1
      <4>1. k \in 0 .. m
        BY <3>2
      <4>2. g[k] = f[k]
        BY <3>2
      <4>3. k # 0 => k - 1 \in 0 .. (m + 1) /\ k - 1 # m + 1
        BY <4>1
      <4>4. k # 0 => g[k - 1] = f[k - 1]
        BY <4>3
      <4> HIDE DEF g
      <4> QED  BY <2>2, <4>1, <4>2, <4>4
    <3> QED  BY <3>1, <3>2
  <2>4. g = [k \in 0 .. (m + 1) |-> g[k]]
    OBVIOUS
  <2> HIDE DEF g
  <2>5. IsEmptyingAll(g, x, m + 1)
    BY <2>3, <2>4 DEF IsEmptyingAll
  <2> QED  BY <2>5
<1> HIDE DEF P
<1>3. \A m \in 0 .. n : m \in P
  BY <1>1, <1>2, Climb
<1>4. n \in P
  BY <1>3
<1> QED  BY <1>4 DEF P

LEMMA EmptyingAllIs ==
  ASSUME NEW x, NEW n \in Nat
  PROVE  \E f : /\ f[0] = x /\ EmptyUpTo(x, n) = f[n]
                /\ \A k \in 0 .. (n - 1) : f[k + 1] = Empty(f[k], k + 1)
<1> DEFINE f == CHOOSE f : IsEmptyingAll(f, x, n)
<1>1. IsEmptyingAll(f, x, n)
  <2> HIDE DEF f
  <2>1. f = CHOOSE g : IsEmptyingAll(g, x, n)
    BY DEF f
  <2> QED  BY <2>1, EmptyingAllExists
<1>2. EmptyUpTo(x, n) = f[n]
  BY Zenon DEF EmptyUpTo, IsEmptyingAll
<1> HIDE DEF f
<1>3. \A k \in 0 .. n : f[k] = IF k = 0 THEN x ELSE Empty(f[k - 1], k)
  BY <1>1, Zenon DEF IsEmptyingAll
<1>4. f[0] = x
  BY <1>3
<1>5. ASSUME NEW k \in 0 .. (n - 1) PROVE f[k + 1] = Empty(f[k], k + 1)
  <2>1. k + 1 \in 0 .. n /\ k + 1 # 0 /\ (k + 1) - 1 = k
    OBVIOUS
  <2> QED  BY <1>3, <2>1
<1> QED  BY <1>2, <1>4, <1>5

LEMMA EmptyAll ==
  ASSUME NEW x, Good(x, 0, 0), NoRMW(x), NEW n \in 0 .. N, NEW y, y = EmptyUpTo(x, n)
  PROVE  Good(y, 0, 0) /\ Frame(x, y) /\ NoRMW(y)
<1>1. x.acts \in Seq(Action) /\ n \in Nat /\ N \in Nat
  BY GoodIs, Constants
<1>2. PICK f : /\ f[0] = x /\ y = f[n]
               /\ \A k \in 0 .. (n - 1) : f[k + 1] = Empty(f[k], k + 1)
  BY <1>1, EmptyingAllIs
<1> DEFINE P == {k \in 0 .. n : Good(f[k], 0, 0) /\ Frame(x, f[k]) /\ NoRMW(f[k])}
<1>3. 0 \in P
  BY <1>1, <1>2, FrameSelf, GoodIs
<1>4. ASSUME NEW k \in 0 .. (n - 1), k \in P PROVE k + 1 \in P
  <2>1. PICK z : z = f[k]
    OBVIOUS
  <2>2. PICK w : w = f[k + 1]
    OBVIOUS
  <2>3. Good(z, 0, 0) /\ Frame(x, z) /\ NoRMW(z)
    BY <1>4, <2>1
  <2>4. w = Empty(z, k + 1) /\ k + 1 \in Thread /\ k + 1 \in 0 .. n
    BY <1>1, <1>2, <2>1, <2>2 DEF Thread
  <2>5. Good(w, 0, 0) /\ Frame(z, w) /\ NoRMW(w)
    BY <2>3, <2>4, EmptyIs
  <2>6. Frame(x, w)
    <3>1. w.acts \in Seq(Action) /\ z.acts \in Seq(Action)
      BY <2>3, <2>5, GoodIs
    <3> QED  BY <1>1, <2>3, <2>5, <3>1, FrameTrans
  <2>7. Good(f[k + 1], 0, 0) /\ Frame(x, f[k + 1]) /\ NoRMW(f[k + 1])
    BY <2>2, <2>5, <2>6, Zenon
  <2> QED  BY <2>4, <2>7
<1> HIDE DEF P
<1>5. \A k \in 0 .. n : k \in P
  BY <1>1, <1>3, <1>4, Climb
<1>6. n \in P
  BY <1>1, <1>5
<1> QED  BY <1>2, <1>6 DEF P

-------------------------------------------------------------------------------
(* A thread issues an action.                                              *)

LEMMA WithIs ==
  ASSUME NEW x, Good(x, 0, 0), NEW a \in Action, NEW y, y = With(x, a),
         NEW n, n = Len(x.acts) + 1, Made(y.acts, n, x.used)
  PROVE  /\ y \in State /\ n \in Nat \ {0} /\ Len(y.acts) = n /\ n \in Inds(y.acts)
         /\ y.acts[n] = a /\ \A k \in Inds(x.acts) : y.acts[k] = x.acts[k]
         /\ \A k \in Inds(y.acts) : k = n \/ k \in Inds(x.acts)
         /\ \A k \in Inds(x.acts) : k \in Inds(y.acts) /\ k < n
         /\ Keeps(x.acts, y.acts)
         /\ y.used = x.used /\ y.last = x.last
         /\ y.storeBuffer = x.storeBuffer /\ y.flushBuffer = x.flushBuffer
         /\ y.lastsfence = x.lastsfence /\ y.aborted = x.aborted
         /\ y.lastWrites = x.lastWrites /\ y.flushmap = x.flushmap
         /\ y.pendingclwbs = x.pendingclwbs
         /\ Acted(y.acts, x.used) /\ Analysed(y) /\ FenceCredits(y.acts, y.flushmap, 0)
         /\ Buffers(y)
<1>1. /\ x \in State /\ x.acts \in Seq(Action) /\ Analysed(x)
      /\ FenceCredits(x.acts, x.flushmap, 0) /\ Core(x, 0)
  BY GoodIs
<1>2. PICK A \in Seq(Action) : A = x.acts
  BY <1>1
<1>3. PICK B : B = Append(A, a)
  OBVIOUS
<1>4. PICK m \in Nat : m = Len(A)
  BY <1>2, LenProperties
<1>5. /\ B \in Seq(Action) /\ Len(B) = m + 1 /\ B[m + 1] = a
      /\ \A k \in 1 .. m : B[k] = A[k]
  BY <1>2, <1>3, <1>4, AppendProperties
<1>6. n = m + 1 /\ n \in Nat \ {0}
  BY <1>2, <1>4
<1>7. \A k : k \in Inds(A) <=> k \in 1 .. m
  BY <1>4 DEF Inds
<1>8. /\ n \in Inds(B)
      /\ \A k \in Inds(B) : k = n \/ k \in Inds(A)
      /\ \A k \in Inds(A) : k \in Inds(B) /\ k < n /\ B[k] = A[k]
  <2>1. \A k : k \in 1 .. (m + 1) <=> k = m + 1 \/ k \in 1 .. m
    OBVIOUS
  <2>2. \A k \in 1 .. m : k < m + 1
    OBVIOUS
  <2>3. Inds(B) = 1 .. (m + 1)
    BY <1>5 DEF Inds
  <2> QED  BY <1>5, <1>6, <1>7, <2>1, <2>2, <2>3
<1>9. /\ y \in State /\ y.acts = B /\ y.used = x.used /\ y.last = x.last
      /\ y.storeBuffer = x.storeBuffer /\ y.flushBuffer = x.flushBuffer
      /\ y.lastsfence = x.lastsfence /\ y.aborted = x.aborted
      /\ y.lastWrites = x.lastWrites /\ y.flushmap = x.flushmap
      /\ y.pendingclwbs = x.pendingclwbs
  <2>1. y = [x EXCEPT !.acts = B]
    BY <1>2, <1>3 DEF With
  <2> QED  BY <1>1, <1>5, <2>1 DEF State
<1>10. Keeps(A, B)
  <2>1. Len(A) =< Len(B)
    BY <1>4, <1>5
  <2> QED  BY <1>8, <2>1 DEF Keeps
<1>11. /\ Acted(A, x.used) /\ Buffers(x) /\ x.used \in Nat
  BY <1>1, <1>2, CoreIs DEF Core
<1>12. Acted(B, x.used) /\ Only(A, B, 0)
  <2>1. x.used =< x.used
    BY <1>11
  <2>2. \A k \in Inds(A) : B[k].seq = A[k].seq /\ B[k].cv = A[k].cv
    BY <1>8
  <2>3. \A k \in Inds(B) : k \notin Inds(A) => Made(B, k, x.used)
    BY <1>8, <1>9
  <2> QED  BY <1>5, <1>10, <1>11, <2>1, <2>2, <2>3, ActedKept
<1>13. Analysed(y) /\ FenceCredits(B, y.flushmap, 0)
  <2>1. Fits(A) /\ Linked(A) /\ InOrder(A)
    BY <1>11 DEF Acted
  <2>2. x.acts = A /\ Analysed(x) /\ FenceCredits(A, x.flushmap, 0)
    BY <1>1, <1>2
  <2>3. y.acts = B /\ y.lastWrites = x.lastWrites /\ y.flushmap = x.flushmap
        /\ y.pendingclwbs = x.pendingclwbs
    BY <1>9
  <2> QED  BY <1>5, <1>10, <1>12, <2>1, <2>2, <2>3, AnalysisKept
<1>14. Buffers(y)
  <2>1. B[n].seq = 0
    BY <1>9 DEF Made
  <2> SUFFICES ASSUME NEW v \in Thread
      PROVE
        /\ Increasing(x.storeBuffer[v]) /\ Increasing(x.flushBuffer[v])
        /\ \A j \in Inds(x.storeBuffer[v]) :
             LET k == x.storeBuffer[v][j]
             IN  /\ k \in Inds(B) /\ B[k].t = v /\ B[k].seq = 0
                 /\ Ordered(B[k]) \/ B[k].op \in {"sfence", "clwb"}
                 /\ \A i \in Inds(x.flushBuffer[v]) : x.flushBuffer[v][i] < k
                 /\ \A i \in Inds(B) : B[i].t = v /\ B[i].seq # 0 => i < k
        /\ \A j \in Inds(x.flushBuffer[v]) :
             LET k == x.flushBuffer[v][j]
             IN  /\ k \in Inds(B) /\ B[k].t = v /\ B[k].seq = 0
                 /\ B[k].op = "clwb"
                 /\ \A i \in Inds(B) :
                      B[i].t = v /\ B[i].seq # 0 /\ IsFence(B[i]) => i < k
    BY <1>9 DEF Buffers, BuffersIn
  <2>2. Increasing(x.storeBuffer[v]) /\ Increasing(x.flushBuffer[v])
    BY <1>11 DEF Buffers, BuffersIn
  <2>3. ASSUME NEW j \in Inds(x.storeBuffer[v])
        PROVE  LET k == x.storeBuffer[v][j]
               IN  /\ k \in Inds(B) /\ B[k].t = v /\ B[k].seq = 0
                   /\ Ordered(B[k]) \/ B[k].op \in {"sfence", "clwb"}
                   /\ \A i \in Inds(x.flushBuffer[v]) : x.flushBuffer[v][i] < k
                   /\ \A i \in Inds(B) : B[i].t = v /\ B[i].seq # 0 => i < k
    <3>1. PICK k : k = x.storeBuffer[v][j]
      OBVIOUS
    <3>2. /\ k \in Inds(A) /\ A[k].t = v /\ A[k].seq = 0
          /\ Ordered(A[k]) \/ A[k].op \in {"sfence", "clwb"}
          /\ \A i \in Inds(x.flushBuffer[v]) : x.flushBuffer[v][i] < k
          /\ \A i \in Inds(A) : A[i].t = v /\ A[i].seq # 0 => i < k
      BY <1>2, <1>11, <3>1 DEF Buffers, BuffersIn
    <3>3. k \in Inds(B) /\ B[k] = A[k]
      BY <1>8, <3>2
    <3>4. \A i \in Inds(B) : B[i].t = v /\ B[i].seq # 0 => i < k
      BY <1>8, <2>1, <3>2
    <3> QED  BY <3>1, <3>2, <3>3, <3>4
  <2>4. ASSUME NEW j \in Inds(x.flushBuffer[v])
        PROVE  LET k == x.flushBuffer[v][j]
               IN  /\ k \in Inds(B) /\ B[k].t = v /\ B[k].seq = 0
                   /\ B[k].op = "clwb"
                   /\ \A i \in Inds(B) :
                        B[i].t = v /\ B[i].seq # 0 /\ IsFence(B[i]) => i < k
    <3>1. PICK k : k = x.flushBuffer[v][j]
      OBVIOUS
    <3>2. /\ k \in Inds(A) /\ A[k].t = v /\ A[k].seq = 0 /\ A[k].op = "clwb"
          /\ \A i \in Inds(A) : A[i].t = v /\ A[i].seq # 0 /\ IsFence(A[i]) => i < k
      BY <1>2, <1>11, <3>1 DEF Buffers, BuffersIn
    <3>3. k \in Inds(B) /\ B[k] = A[k]
      BY <1>8, <3>2
    <3>4. \A i \in Inds(B) : B[i].t = v /\ B[i].seq # 0 /\ IsFence(B[i]) => i < k
      BY <1>8, <2>1, <3>2
    <3> QED  BY <3>1, <3>2, <3>3, <3>4
  <2> QED  BY <2>2, <2>3, <2>4
<1> QED  BY <1>2, <1>5, <1>6, <1>8, <1>9, <1>10, <1>12, <1>13, <1>14

\* One that goes into no buffer.
LEMMA WithGood ==
  ASSUME NEW x, Good(x, 0, 0), NEW a \in Action, NEW y, y = With(x, a),
         NEW n, n = Len(x.acts) + 1, Made(y.acts, n, x.used), ~Ordered(a), a.op # "clwb"
  PROVE  Good(y, 0, 0) /\ (NoRMW(x) => NoRMW(y))
<1>1. /\ y \in State /\ n \in Nat \ {0} /\ Len(y.acts) = n /\ n \in Inds(y.acts)
      /\ y.acts[n] = a /\ \A k \in Inds(x.acts) : y.acts[k] = x.acts[k]
      /\ \A k \in Inds(y.acts) : k = n \/ k \in Inds(x.acts)
      /\ y.used = x.used /\ y.last = x.last
      /\ y.storeBuffer = x.storeBuffer /\ y.flushBuffer = x.flushBuffer
      /\ y.lastsfence = x.lastsfence
      /\ Acted(y.acts, x.used) /\ Analysed(y) /\ FenceCredits(y.acts, y.flushmap, 0)
      /\ Buffers(y)
  BY WithIs
<1>2. /\ Waiting(x, 0) /\ Buffers(x) /\ \A t, u \in Thread : x.last[t][u] =< x.used
      /\ \A t \in Thread : x.lastsfence[t] \in 0 .. (n - 1)
  <2>1. Core(x, 0) /\ Len(x.acts) = n - 1
    BY GoodIs, ActsIs
  <2> QED  BY <2>1, CoreIs
<1>3. Waiting(y, 0)
  <2> SUFFICES ASSUME NEW k \in Inds(y.acts), k # 0, y.acts[k].seq = 0
      PROVE /\ Ordered(y.acts[k]) => In(x.storeBuffer[y.acts[k].t], k)
            /\ y.acts[k].op = "clwb" =>
                 In(x.storeBuffer[y.acts[k].t], k) \/ In(x.flushBuffer[y.acts[k].t], k)
    BY <1>1 DEF Waiting
  <2>1. CASE k = n
    BY <1>1, <2>1
  <2>2. CASE k \in Inds(x.acts)
    BY <1>1, <1>2, <2>2 DEF Waiting
  <2> QED  BY <1>1, <2>1, <2>2
<1>4. \A t \in Thread : y.lastsfence[t] \in 0 .. Len(y.acts)
  BY <1>1, <1>2
<1>5. Good(y, 0, 0)
  BY <1>1, <1>2, <1>3, <1>4 DEF Good, Core
<1>6. ASSUME NoRMW(x) PROVE NoRMW(y)
  <2> SUFFICES ASSUME NEW v \in Thread, NEW j \in Inds(x.storeBuffer[v])
               PROVE  y.acts[x.storeBuffer[v][j]].op # "rmw"
    BY <1>1 DEF NoRMW
  <2>1. x.storeBuffer[v][j] \in Inds(x.acts) /\ x.acts[x.storeBuffer[v][j]].op # "rmw"
    BY <1>2, <1>6 DEF NoRMW, Buffers, BuffersIn
  <2> QED  BY <1>1, <2>1
<1> QED  BY <1>5, <1>6

\* One that its thread buffers.
LEMMA BufferedGood ==
  ASSUME NEW x, Good(x, 0, 0), NEW a \in Action, NEW z, z = With(x, a),
         NEW n, n = Len(x.acts) + 1, Made(z.acts, n, x.used),
         Ordered(a) \/ a.op \in {"sfence", "clwb"}, NEW t \in Thread, a.t = t,
         NEW y, y = Buffered(z, t)
  PROVE  /\ Good(y, 0, 0) /\ (NoRMW(x) /\ a.op # "rmw" => NoRMW(y))
         /\ y.acts = z.acts /\ y.aborted = x.aborted
         /\ \A u \in Thread : u # t => y.storeBuffer[u] = x.storeBuffer[u]
         /\ y.flushBuffer = x.flushBuffer
<1>1. /\ z \in State /\ n \in Nat \ {0} /\ Len(z.acts) = n /\ n \in Inds(z.acts)
      /\ z.acts[n] = a /\ \A k \in Inds(x.acts) : z.acts[k] = x.acts[k]
      /\ \A k \in Inds(z.acts) : k = n \/ k \in Inds(x.acts)
      /\ \A k \in Inds(x.acts) : k \in Inds(z.acts) /\ k < n
      /\ z.used = x.used /\ z.last = x.last
      /\ z.storeBuffer = x.storeBuffer /\ z.flushBuffer = x.flushBuffer
      /\ z.lastsfence = x.lastsfence /\ z.aborted = x.aborted
      /\ Acted(z.acts, x.used) /\ Analysed(z) /\ FenceCredits(z.acts, z.flushmap, 0)
      /\ Buffers(z)
  <2>1. /\ z \in State /\ n \in Nat \ {0} /\ Len(z.acts) = n /\ n \in Inds(z.acts)
        /\ z.acts[n] = a /\ z.used = x.used /\ z.last = x.last
        /\ z.storeBuffer = x.storeBuffer /\ z.flushBuffer = x.flushBuffer
        /\ z.lastsfence = x.lastsfence /\ z.aborted = x.aborted
        /\ Acted(z.acts, x.used) /\ Analysed(z) /\ FenceCredits(z.acts, z.flushmap, 0)
        /\ Buffers(z)
    BY WithIs
  <2>2. \A k \in Inds(x.acts) : z.acts[k] = x.acts[k]
    BY WithIs
  <2>3. \A k \in Inds(z.acts) : k = n \/ k \in Inds(x.acts)
    BY WithIs
  <2>4. ASSUME NEW k \in Inds(x.acts) PROVE k \in Inds(z.acts) /\ k < n
    <3>1. x.acts \in Seq(Action) /\ z.acts \in Seq(Action)
      BY <2>1, GoodIs, StateIs
    <3>2. k \in Nat /\ 1 =< k /\ k =< Len(x.acts) /\ Len(x.acts) \in Nat
      BY <3>1, IndsIs
    <3>3. k < n /\ k =< n
      BY <3>2
    <3> QED  BY <2>1, <3>1, <3>2, <3>3, IndsIs
  <2> QED  BY <2>1, <2>2, <2>3, <2>4
<1>2. /\ Waiting(x, 0) /\ Buffers(x) /\ \A v, u \in Thread : x.last[v][u] =< x.used
      /\ \A v \in Thread : x.lastsfence[v] \in 0 .. (n - 1)
      /\ x.storeBuffer \in [Thread -> Seq(Nat)]
  <2>1. Core(x, 0) /\ Len(x.acts) = n - 1
    BY GoodIs, ActsIs
  <2> QED  BY <2>1, CoreIs
<1>3. a.seq = 0
  BY <1>1 DEF Made
<1>4. PICK sb : sb = [x.storeBuffer EXCEPT ![t] = Append(x.storeBuffer[t], n)]
  OBVIOUS
<1>5. PICK r \in Seq(Nat) : r = x.storeBuffer[t]
  BY <1>2
<1>6. \A j \in Inds(r) : r[j] \in Inds(x.acts) /\ r[j] < n
  BY <1>1, <1>2, <1>5 DEF Buffers, BuffersIn
<1>7. PICK s : s = Append(r, n)
  OBVIOUS
<1>8. s \in Seq(Nat) /\ Increasing(s)
  <2>1. Increasing(r)
    BY <1>2, <1>5 DEF Buffers, BuffersIn
  <2> QED  BY <1>1, <1>6, <1>7, <2>1, AppendIs
<1>9. \A k : In(s, k) <=> In(r, k) \/ k = n
  <2>1. \A k : In(Append(r, n), k) <=> In(r, k) \/ k = n
    BY <1>1, AppendIs
  <2> QED  BY <1>7, <2>1
<1>10. \A j \in Inds(s) : s[j] = n \/ (j \in Inds(r) /\ s[j] = r[j])
  <2>1. \A j \in Inds(Append(r, n)) : Append(r, n)[j] = n
                                        \/ (j \in Inds(r) /\ Append(r, n)[j] = r[j])
    BY <1>1, AppendIs
  <2> QED  BY <1>7, <2>1
<1>11. sb \in [Thread -> Seq(Nat)] /\ sb[t] = s
       /\ \A u \in Thread : u # t => sb[u] = x.storeBuffer[u]
  BY <1>2, <1>4, <1>5, <1>7, <1>8
<1>12. /\ y \in State /\ y.acts = z.acts /\ y.used = x.used /\ y.last = x.last
       /\ y.storeBuffer = sb /\ y.flushBuffer = x.flushBuffer
       /\ y.lastsfence = x.lastsfence /\ y.aborted = x.aborted
       /\ y.lastWrites = z.lastWrites /\ y.flushmap = z.flushmap
       /\ y.pendingclwbs = z.pendingclwbs
  <2>1. y = [z EXCEPT !.storeBuffer = sb]
    BY <1>1, <1>4 DEF Buffered
  <2> QED  BY <1>1, <1>11, <2>1 DEF State
<1> DEFINE B == z.acts
<1>13. Buffers(y)
  <2> SUFFICES ASSUME NEW v \in Thread
      PROVE
        /\ Increasing(sb[v]) /\ Increasing(x.flushBuffer[v])
        /\ \A j \in Inds(sb[v]) :
             LET k == sb[v][j]
             IN  /\ k \in Inds(B) /\ B[k].t = v /\ B[k].seq = 0
                 /\ Ordered(B[k]) \/ B[k].op \in {"sfence", "clwb"}
                 /\ \A i \in Inds(x.flushBuffer[v]) : x.flushBuffer[v][i] < k
                 /\ \A i \in Inds(B) : B[i].t = v /\ B[i].seq # 0 => i < k
        /\ \A j \in Inds(x.flushBuffer[v]) :
             LET k == x.flushBuffer[v][j]
             IN  /\ k \in Inds(B) /\ B[k].t = v /\ B[k].seq = 0
                 /\ B[k].op = "clwb"
                 /\ \A i \in Inds(B) :
                      B[i].t = v /\ B[i].seq # 0 /\ IsFence(B[i]) => i < k
    BY <1>12 DEF Buffers, BuffersIn
  <2>1. Increasing(sb[v]) /\ Increasing(x.flushBuffer[v])
    BY <1>2, <1>8, <1>11 DEF Buffers, BuffersIn
  <2>2. ASSUME NEW j \in Inds(sb[v])
        PROVE  LET k == sb[v][j]
               IN  /\ k \in Inds(B) /\ B[k].t = v /\ B[k].seq = 0
                   /\ Ordered(B[k]) \/ B[k].op \in {"sfence", "clwb"}
                   /\ \A i \in Inds(x.flushBuffer[v]) : x.flushBuffer[v][i] < k
                   /\ \A i \in Inds(B) : B[i].t = v /\ B[i].seq # 0 => i < k
    <3>1. PICK k : k = sb[v][j]
      OBVIOUS
    <3>2. CASE k = n /\ v = t
      <4>1. \A i \in Inds(x.flushBuffer[v]) : x.flushBuffer[v][i] < n
        BY <1>1, <1>2 DEF Buffers, BuffersIn
      <4>2. \A i \in Inds(B) : B[i].t = v /\ B[i].seq # 0 => i < n
        BY <1>1, <1>3
      <4> QED  BY <1>1, <1>3, <3>1, <3>2, <4>1, <4>2
    <3>3. CASE ~(k = n /\ v = t)
      <4>1. j \in Inds(x.storeBuffer[v]) /\ k = x.storeBuffer[v][j]
        BY <1>5, <1>10, <1>11, <3>1, <3>3
      <4>2. Buffers(z) /\ z.storeBuffer = x.storeBuffer /\ z.flushBuffer = x.flushBuffer
        BY <1>1
      <4> QED  BY <3>1, <4>1, <4>2 DEF Buffers, BuffersIn
    <3> QED  BY <3>2, <3>3
  <2>3. ASSUME NEW j \in Inds(x.flushBuffer[v])
        PROVE  LET k == x.flushBuffer[v][j]
               IN  /\ k \in Inds(B) /\ B[k].t = v /\ B[k].seq = 0
                   /\ B[k].op = "clwb"
                   /\ \A i \in Inds(B) :
                        B[i].t = v /\ B[i].seq # 0 /\ IsFence(B[i]) => i < k
    <3>1. Buffers(z) /\ z.flushBuffer = x.flushBuffer
      BY <1>1
    <3> QED  BY <3>1 DEF Buffers, BuffersIn
  <2> QED  BY <2>1, <2>2, <2>3
<1>14. Waiting(y, 0)
  <2> SUFFICES ASSUME NEW k \in Inds(B), k # 0, B[k].seq = 0
      PROVE /\ Ordered(B[k]) => In(sb[B[k].t], k)
            /\ B[k].op = "clwb" => In(sb[B[k].t], k) \/ In(x.flushBuffer[B[k].t], k)
    BY <1>12 DEF Waiting
  <2>1. CASE k = n
    BY <1>1, <1>9, <1>11, <2>1
  <2>2. CASE k \in Inds(x.acts)
    <3>1. PICK v : v = B[k].t
      OBVIOUS
    <3>2. /\ Ordered(B[k]) => In(x.storeBuffer[v], k)
          /\ B[k].op = "clwb" => In(x.storeBuffer[v], k) \/ In(x.flushBuffer[v], k)
      BY <1>1, <1>2, <2>2, <3>1 DEF Waiting
    <3>3. v \in Thread
      BY <1>1, <3>1, StateIs, ActsIs
    <3>4. In(x.storeBuffer[v], k) => In(sb[v], k)
      BY <1>5, <1>9, <1>11, <3>3
    <3> QED  BY <3>1, <3>2, <3>4
  <2> QED  BY <1>1, <2>1, <2>2
<1>15. \A v \in Thread : y.lastsfence[v] \in 0 .. Len(y.acts)
  BY <1>1, <1>2, <1>12
<1>16. Analysed(y) /\ FenceCredits(y.acts, y.flushmap, 0)
  BY <1>1, <1>12, Zenon DEF Analysed
<1>17. Good(y, 0, 0)
  BY <1>1, <1>2, <1>12, <1>13, <1>14, <1>15, <1>16 DEF Good, Core
<1>18. ASSUME NoRMW(x), a.op # "rmw" PROVE NoRMW(y)
  <2> SUFFICES ASSUME NEW v \in Thread, NEW j \in Inds(sb[v]) PROVE B[sb[v][j]].op # "rmw"
    BY <1>12 DEF NoRMW
  <2>1. CASE sb[v][j] = n /\ v = t
    BY <1>1, <1>18, <2>1
  <2>2. CASE ~(sb[v][j] = n /\ v = t)
    <3>1. j \in Inds(x.storeBuffer[v]) /\ sb[v][j] = x.storeBuffer[v][j]
      BY <1>5, <1>10, <1>11, <2>2
    <3>2. x.storeBuffer[v][j] \in Inds(x.acts) /\ x.acts[x.storeBuffer[v][j]].op # "rmw"
      BY <1>2, <1>18, <3>1 DEF NoRMW, Buffers, BuffersIn
    <3> QED  BY <1>1, <3>1, <3>2
  <2> QED  BY <2>1, <2>2
<1> QED  BY <1>11, <1>12, <1>17, <1>18

-------------------------------------------------------------------------------
(* Steps of the running execution.                                         *)

LEMMA BecomesIs ==
  ASSUME NEW x \in State, Becomes(x)
  PROVE  Now' = x
<1>1. /\ acts' = x.acts /\ used' = x.used /\ last' = x.last
      /\ storeBuffer' = x.storeBuffer /\ flushBuffer' = x.flushBuffer
      /\ lastsfence' = x.lastsfence /\ begin' = x.begin
      /\ lastWrites' = x.lastWrites /\ flushmap' = x.flushmap
      /\ pendingclwbs' = x.pendingclwbs /\ aborted' = x.aborted
  BY DEF Becomes
<1>2. x = [acts |-> x.acts, used |-> x.used, last |-> x.last, storeBuffer |-> x.storeBuffer,
           flushBuffer |-> x.flushBuffer, lastsfence |-> x.lastsfence, begin |-> x.begin,
           lastWrites |-> x.lastWrites, flushmap |-> x.flushmap,
           pendingclwbs |-> x.pendingclwbs, aborted |-> x.aborted]
  BY DEF State
<1>3. Now' = [acts |-> acts', used |-> used', last |-> last', storeBuffer |-> storeBuffer',
              flushBuffer |-> flushBuffer', lastsfence |-> lastsfence', begin |-> begin',
              lastWrites |-> lastWrites', flushmap |-> flushmap',
              pendingclwbs |-> pendingclwbs', aborted |-> aborted']
  BY DEF Now
<1> QED  BY <1>1, <1>2, <1>3, Zenon

LEMMA NowIs ==
  /\ Now.acts = acts /\ Now.used = used /\ Now.last = last /\ Now.storeBuffer = storeBuffer
  /\ Now.flushBuffer = flushBuffer /\ Now.lastsfence = lastsfence /\ Now.begin = begin
  /\ Now.lastWrites = lastWrites /\ Now.flushmap = flushmap
  /\ Now.pendingclwbs = pendingclwbs /\ Now.aborted = aborted
BY DEF Now

\* A thread's next operation is one of its program.
LEMMA PendingIs ==
  ASSUME Typed, NEW t \in Thread, Pending(t).op # "none"
  PROVE  /\ prog[t] \in Seq(Operation) /\ pc[t] \in Inds(prog[t])
         /\ Pending(t) = prog[t][pc[t]] /\ Pending(t) \in Operation
         /\ Pending(t).b \in Nat /\ Pending(t).n \in Nat
         /\ Pending(t).op \in Accesses =>
              /\ Pending(t).n > 0
              /\ \A b \in Bytes(Pending(t)) :
                   b \in Address /\ getCacheID(b) = getCacheID(Pending(t).b)
              /\ Pending(t).b \in Address /\ getCacheID(Pending(t).b) \in Line
<1>1. prog \in Program /\ pc[t] \in Nat \ {0}
  BY DEF Typed
<1>2. Issuable(prog[t])
  BY <1>1, Constants
<1>3. prog[t] \in Seq(Operation)
  BY <1>2 DEF Issuable
<1>4. pc[t] =< Len(prog[t]) /\ Pending(t) = prog[t][pc[t]]
  BY DEF Pending, At
<1>5. pc[t] \in Inds(prog[t]) /\ pc[t] \in DOMAIN prog[t]
  <2>1. PICK n \in Nat : n = Len(prog[t])
    BY <1>3, LenProperties
  <2>2. pc[t] \in 1 .. n
    BY <1>1, <1>4, <2>1
  <2> QED  BY <1>3, <2>1, <2>2, LenProperties DEF Inds
<1>6. Pending(t) \in Operation
  BY <1>3, <1>4, <1>5, ElementOfSeq DEF Inds
<1>7. Pending(t).b \in Nat /\ Pending(t).n \in Nat
  BY <1>6 DEF Operation
<1>8. ASSUME Pending(t).op \in Accesses
      PROVE  /\ Pending(t).n > 0
             /\ \A b \in Bytes(Pending(t)) :
                  b \in Address /\ getCacheID(b) = getCacheID(Pending(t).b)
             /\ Pending(t).b \in Address /\ getCacheID(Pending(t).b) \in Line
  <2>1. /\ Pending(t).n > 0
        /\ \A b \in Bytes(Pending(t)) : b \in Address /\ getCacheID(b) = getCacheID(Pending(t).b)
    BY <1>2, <1>4, <1>5, <1>8 DEF Issuable
  <2>2. Pending(t).b \in Bytes(Pending(t))
    <3>1. \A b, n \in Nat : n > 0 => b \in b .. (b + n - 1)
      OBVIOUS
    <3> QED  BY <1>7, <2>1, <3>1 DEF Bytes
  <2> QED  BY <2>1, <2>2 DEF Line
<1> QED  BY <1>3, <1>4, <1>5, <1>6, <1>7, <1>8

\* What comes after it: the second half of an RMW after the first and nowhere else.
LEMMA NextIs ==
  ASSUME Typed, NEW t \in Thread, Pending(t).op # "none",
         prog' = prog, pc' = [pc EXCEPT ![t] = @ + 1]
  PROVE  /\ Pending(t).op # "rmwr" => ~HalfWay(t)'
         /\ Pending(t).op = "rmwr" => /\ HalfWay(t)'
                                      /\ Pending(t)'.b = Pending(t).b
                                      /\ Pending(t)'.n = Pending(t).n
         /\ \A u \in Thread : u # t => (HalfWay(u)' <=> HalfWay(u)) /\ Pending(u)' = Pending(u)
         /\ pc' \in [Thread -> Nat \ {0}]
<1>1. /\ prog \in Program /\ pc \in [Thread -> Nat \ {0}]
  BY DEF Typed
<1>2. PICK s : s = prog[t]
  OBVIOUS
<1>3. PICK k \in Nat \ {0} : k = pc[t]
  BY <1>1
<1>4. s \in Seq(Operation) /\ k \in Inds(s) /\ Pending(t) = s[k] /\ Issuable(s)
  BY <1>1, <1>2, <1>3, PendingIs, Constants
<1>5. PICK n \in Nat : n = Len(s)
  BY <1>4, LenProperties
<1>6. k =< n /\ DOMAIN s = 1 .. n
  BY <1>4, <1>5, LenProperties, IndsIs
<1>7. pc'[t] = k + 1 /\ pc' \in [Thread -> Nat \ {0}]
  BY <1>1, <1>3
<1>8. Pending(t)' = IF k + 1 =< n THEN s[k + 1] ELSE At("none", 0, 0)
  BY <1>2, <1>5, <1>7 DEF Pending
<1>9. ASSUME k + 1 =< n PROVE HalvesMeet(s[k], s[k + 1])
  <2>1. k + 1 \in DOMAIN s /\ k + 1 > 1 /\ (k + 1) - 1 = k
    BY <1>6, <1>9
  <2> QED  BY <1>4, <2>1 DEF Issuable
<1>10. ASSUME k + 1 > n PROVE s[k].op # "rmwr"
  <2>1. k \in DOMAIN s /\ k = Len(s)
    BY <1>5, <1>6, <1>10
  <2> QED  BY <1>4, <2>1 DEF Issuable
<1>11. ASSUME Pending(t).op # "rmwr" PROVE ~HalfWay(t)'
  <2>1. CASE k + 1 =< n
    BY <1>4, <1>8, <1>9, <1>11, <2>1 DEF HalfWay, HalvesMeet
  <2>2. CASE k + 1 > n
    <3>1. Pending(t)'.op = "none"
      BY <1>8, <2>2 DEF At
    <3> QED  BY <3>1 DEF HalfWay
  <2> QED  BY <2>1, <2>2
<1>12. ASSUME Pending(t).op = "rmwr"
       PROVE  HalfWay(t)' /\ Pending(t)'.b = Pending(t).b /\ Pending(t)'.n = Pending(t).n
  <2>1. k + 1 =< n
    BY <1>4, <1>10, <1>12
  <2> QED  BY <1>4, <1>8, <1>9, <1>12, <2>1 DEF HalfWay, HalvesMeet
<1>13. ASSUME NEW u \in Thread, u # t
       PROVE  (HalfWay(u)' <=> HalfWay(u)) /\ Pending(u)' = Pending(u)
  <2>1. pc'[u] = pc[u]
    BY <1>1, <1>13
  <2>2. Pending(u)' = Pending(u)
    BY <2>1 DEF Pending
  <2> QED  BY <2>2 DEF HalfWay
<1> QED  BY <1>7, <1>11, <1>12, <1>13

LEMMA IssuedKept ==
  ASSUME NEW A \in Seq(Action), NEW B \in Seq(Action), Keeps(A, B), Len(B) = Len(A),
         \A k \in Inds(A) : B[k].op = A[k].op, NEW olw, Issued(A, olw)
  PROVE  Issued(B, olw)
<1>1. ASSUME NEW j \in 1 .. Len(A)
      PROVE  (Ordered(B[j]) <=> Ordered(A[j])) /\ B[j].t = A[j].t /\ LineOf(B[j]) = LineOf(A[j])
  BY KeepsIs DEF Inds
<1>2. Len(A) \in Nat /\ (Len(A) + 1) - 1 = Len(A)
  BY LenProperties
<1> SUFFICES ASSUME NEW t \in Thread, NEW l \in Line
             PROVE  LastOrdered(B, Len(B) + 1, t, l, olw[t][l])
  BY DEF Issued
<1>3. LastOrdered(A, Len(A) + 1, t, l, olw[t][l])
  BY DEF Issued
<1> QED  BY <1>1, <1>2, <1>3 DEF LastOrdered

\* What addCacheOp adds to an action, and what it and addWrite note.
Linking(a, lw, lcw) == [a EXCEPT !.lastwrite = lw, !.lastcommittedWrite = lcw]

IssuedNow(olw, t, l, n) == [olw EXCEPT ![t] = [@ EXCEPT ![l] = n]]

\* In B the store or clflush n of t to line l has become the last action.
Orders(A, B, n, t, l) ==
  /\ n \in Nat \ {0} /\ n = Len(B) /\ (n \in Inds(A) => ~Ordered(A[n]))
  /\ \A k \in Inds(B) : k # n => k \in Inds(A) /\ B[k].op = A[k].op
  /\ B[n].t = t /\ LineOf(B[n]) = l /\ Ordered(B[n])

LEMMA IssuedMore ==
  ASSUME NEW A \in Seq(Action), NEW B \in Seq(Action), Keeps(A, B),
         NEW n, NEW t \in Thread, NEW l \in Line, Orders(A, B, n, t, l), NEW olw \in [Thread -> [Line -> Nat]], Issued(A, olw),
         NEW olw2, olw2 = IssuedNow(olw, t, l, n)
  PROVE  Issued(B, olw2) /\ olw2 \in [Thread -> [Line -> Nat]]
<1>0. /\ n \in Nat \ {0} /\ n = Len(B) /\ (n \in Inds(A) => ~Ordered(A[n]))
      /\ \A k \in Inds(B) : k # n => k \in Inds(A) /\ B[k].op = A[k].op
      /\ B[n].t = t /\ LineOf(B[n]) = l /\ Ordered(B[n])
  BY DEF Orders
<1>1. /\ olw2 \in [Thread -> [Line -> Nat]] /\ olw2[t][l] = n
      /\ \A u \in Thread, m \in Line : u # t \/ m # l => olw2[u][m] = olw[u][m]
  <2>1. PICK g : g = [olw[t] EXCEPT ![l] = n]
    OBVIOUS
  <2>2. g \in [Line -> Nat] /\ g[l] = n /\ \A m \in Line : m # l => g[m] = olw[t][m]
    BY <1>0, <2>1
  <2>3. olw2 = [olw EXCEPT ![t] = g]
    BY <2>1 DEF IssuedNow
  <2> QED  BY <2>2, <2>3
<1>2. \A j : j \in Inds(B) <=> j \in 1 .. n
  BY <1>0 DEF Inds
<1>3. ASSUME NEW j \in Inds(B), j # n
      PROVE  /\ j \in Inds(A) /\ (Ordered(B[j]) <=> Ordered(A[j])) /\ B[j].t = A[j].t
             /\ LineOf(B[j]) = LineOf(A[j])
  BY <1>0, <1>3, KeepsIs
<1> SUFFICES ASSUME NEW u \in Thread, NEW m \in Line
             PROVE  LastOrdered(B, n + 1, u, m, olw2[u][m])
  BY <1>0, <1>1 DEF Issued
<1>4. PICK q \in Nat : q = Len(A)
  BY LenProperties
<1>5. q =< n /\ \A j : j \in Inds(A) <=> j \in 1 .. q
  BY <1>0, <1>4 DEF Keeps, Inds
<1>6. \A i : (i \in 1 .. ((n + 1) - 1) <=> i \in 1 .. n) /\ (i \in 1 .. ((q + 1) - 1) <=> i \in 1 .. q)
  BY <1>0, <1>4
<1>7. CASE u = t /\ m = l
  <2>1. n \in 1 .. n /\ \A j \in 1 .. n : j =< n
    BY <1>0
  <2> QED  BY <1>0, <1>1, <1>6, <1>7, <2>1 DEF LastOrdered
<1>8. CASE ~(u = t /\ m = l)
  <2>1. PICK i : i = olw[u][m]
    OBVIOUS
  <2>2. olw2[u][m] = i
    BY <1>1, <1>8, <2>1
  <2>3. LastOrdered(A, q + 1, u, m, i)
    BY <1>4, <2>1 DEF Issued
  <2>4. /\ i = 0 \/ (i \in 1 .. q /\ Ordered(A[i]) /\ A[i].t = u /\ LineOf(A[i]) = m)
        /\ \A j \in 1 .. q : Ordered(A[j]) /\ A[j].t = u /\ LineOf(A[j]) = m => j =< i
    BY <1>6, <2>3 DEF LastOrdered
  <2>5. ASSUME i # 0
        PROVE  i \in 1 .. n /\ Ordered(B[i]) /\ B[i].t = u /\ LineOf(B[i]) = m
    <3>1. i \in 1 .. q /\ Ordered(A[i]) /\ A[i].t = u /\ LineOf(A[i]) = m
      BY <2>4, <2>5
    <3>2. i \in 1 .. n
      BY <1>0, <1>4, <1>5, <3>1
    <3>3. i # n
      BY <1>0, <1>5, <3>1
    <3> QED  BY <1>2, <1>3, <3>1, <3>2, <3>3
  <2>6. ASSUME NEW j \in 1 .. n, Ordered(B[j]), B[j].t = u, LineOf(B[j]) = m
        PROVE  j =< i
    <3>1. j # n
      BY <1>0, <1>8, <2>6
    <3>2. j \in 1 .. q /\ Ordered(A[j]) /\ A[j].t = u /\ LineOf(A[j]) = m
      BY <1>2, <1>3, <1>5, <2>6, <3>1
    <3> QED  BY <2>4, <3>2
  <2> QED  BY <1>6, <2>2, <2>5, <2>6 DEF LastOrdered
<1> QED  BY <1>7, <1>8

LEMMA RunStep ==
  ASSUME IInv, phase = "running", phase' = phase, prog' = prog, pc' \in [Thread -> Nat \ {0}],
         NEW x, Good(x, 0, 0), NoRMW(x), Becomes(x), report' = report,
         obj_to_last_write' \in [Thread -> [Line -> Nat]],
         Issued(x.acts, obj_to_last_write'), Halves', Ranges'
  PROVE  IInv'
<1>1. x \in State /\ Now' = x /\ acts' = x.acts
  BY GoodIs, BecomesIs DEF Becomes
<1>2. Typed'
  BY <1>1 DEF IInv, Typed
<1>3. report' = EmptyReport
  BY DEF IInv, Running
<1>4. Running'
  <2>1. Good(Now, 0, 0)' /\ NoRMW(Now)' /\ Issued(acts, obj_to_last_write)'
    BY <1>1
  <2> QED  BY <1>3, <2>1 DEF Running, EmptyReport, ZeroCV
<1>5. Settled'
  BY DEF Settled
<1>6. Reported'
  <2>1. ZeroCV \in Clock
    BY DEF ZeroCV, Clock
  <2> QED  BY <1>3, <2>1 DEF Reported, EmptyReport, ZeroCV
<1> QED  BY <1>2, <1>4, <1>5, <1>6 DEF IInv

LEMMA RunningIs ==
  ASSUME IInv, phase = "running"
  PROVE  /\ Typed /\ Good(Now, 0, 0) /\ NoRMW(Now) /\ Issued(acts, obj_to_last_write) /\ Halves
         /\ report = EmptyReport /\ Ranges
         /\ obj_to_last_write \in [Thread -> [Line -> Nat]] /\ pc \in [Thread -> Nat \ {0}]
         /\ Now \in State /\ acts \in Seq(Action) /\ used \in Nat /\ last \in [Thread -> Clock]
         /\ \A t, u \in Thread : last[t][u] =< used
         /\ storeBuffer \in [Thread -> Seq(Nat)] /\ flushBuffer \in [Thread -> Seq(Nat)]
<1>1. Typed /\ Good(Now, 0, 0) /\ NoRMW(Now) /\ Issued(acts, obj_to_last_write) /\ Halves
      /\ report = EmptyReport /\ Ranges
  BY DEF IInv, Running
<1>2. Core(Now, 0) /\ Now \in State
  BY <1>1, GoodIs
<1>3. /\ \A t, u \in Thread : Now.last[t][u] =< Now.used
  BY <1>2, CoreIs
<1> QED  BY <1>1, <1>2, <1>3, NowIs, StateIs DEF Typed

\* No RMW is under way when a thread does something else.
LEMMA QuietIs ==
  ASSUME IInv, phase = "running", NEW t \in Thread,
         \A u \in Thread \ {t} : ~HalfWay(u), ~HalfWay(t)
  PROVE  /\ \A u \in Thread : ~HalfWay(u)
         /\ \A k \in Inds(acts) : acts[k].op # "rmwr"
<1>1. \A u \in Thread : ~HalfWay(u)
  OBVIOUS
<1>2. Halves /\ acts \in Seq(Action)
  BY RunningIs
<1> QED  BY <1>1, <1>2, ActsIs DEF Halves

LEMMA NewActionIs ==
  ASSUME Typed, NEW t \in Thread, NEW c \in Clock, NEW q \in Nat, \A u \in Thread : c[u] =< q,
         Pending(t).op \in {"store", "atomic", "seqcst", "rmwr", "clflush", "clwb", "sfence",
                            "mfence"},
         NEW lw \in Nat, NEW lcw \in Nat, NEW a, a = Linking(NewAction(t, c), lw, lcw)
  PROVE  /\ a \in Action /\ a.op = Pending(t).op /\ a.t = t /\ a.seq = 0
         /\ LineOf(a) = getCacheID(Pending(t).b) /\ a.b = Pending(t).b /\ a.n = Pending(t).n
         /\ a.lastwrite = lw /\ a.lastcommittedWrite = lcw
         /\ \A B, n : B[n] = a /\ (a.op = "clwb" => lcw = q /\ LastOrdered(B, n, t, LineOf(a), lw))
              => Made(B, n, q)
<1>1. PICK o \in Operation : o = Pending(t)
  BY PendingIs
<1>2. o.b \in Nat /\ o.n \in Nat
  BY <1>1, PendingIs
<1>3. PICK d : d = [c EXCEPT ![t] = 0]
  OBVIOUS
<1>4. d \in Clock /\ d[t] = 0 /\ \A u \in Thread : d[u] =< q
  BY <1>3 DEF Clock
<1>5. ValueNone \in Nat
  BY Constants
<1>6. a = [op |-> o.op, b |-> o.b, n |-> o.n, t |-> t, seq |-> 0, cv |-> d, lastwrite |-> lw,
           lastcommittedWrite |-> lcw, last_clflush |-> ValueNone]
  BY <1>1, <1>3 DEF NewAction, Linking
<1>7. o.op \in Kinds
  BY <1>1 DEF Kinds
<1>8. /\ a \in Action /\ a.op = o.op /\ a.t = t /\ a.seq = 0 /\ a.b = o.b /\ a.n = o.n /\ a.cv = d
      /\ a.lastwrite = lw /\ a.lastcommittedWrite = lcw
  <2>1. PICK op \in Kinds, b \in Nat, m \in Nat : op = o.op /\ b = o.b /\ m = o.n
    BY <1>1, <1>2, <1>7
  <2>2. a = [op |-> op, b |-> b, n |-> m, t |-> t, seq |-> 0, cv |-> d, lastwrite |-> lw,
             lastcommittedWrite |-> lcw, last_clflush |-> ValueNone]
    BY <1>6, <2>1
  <2>3. /\ a.op = op /\ a.t = t /\ a.seq = 0 /\ a.b = b /\ a.n = m /\ a.cv = d
        /\ a.lastwrite = lw /\ a.lastcommittedWrite = lcw
    BY <2>2
  <2>4. a \in Action
    BY <1>4, <1>5, <2>2 DEF Action
  <2> QED  BY <2>1, <2>3, <2>4
<1>9. LineOf(a) = getCacheID(o.b) /\ Bytes(a) = Bytes(o)
  BY <1>8, Zenon DEF LineOf, Bytes
<1>10. ASSUME NEW B, NEW n, B[n] = a, a.op = "clwb" => lcw = q /\ LastOrdered(B, n, t, LineOf(a), lw)
       PROVE  Made(B, n, q)
  <2>1. a.op \notin {"sfence", "mfence"} =>
          a.n > 0 /\ \A b \in Bytes(a) : b \in Address /\ getCacheID(b) = LineOf(a)
    <3>1. a.op \notin {"sfence", "mfence"} => o.op \in Accesses
      BY <1>1, <1>8 DEF Accesses
    <3> QED  BY <1>1, <1>8, <1>9, <3>1, PendingIs
  <2>2. \A u \in Thread : a.cv[u] =< q
    BY <1>4, <1>8
  <2>3. a.cv[a.t] = 0
    BY <1>4, <1>8
  <2> QED  BY <1>8, <1>10, <2>1, <2>2, <2>3 DEF Made
<1> QED  BY <1>1, <1>8, <1>9, <1>10

Extended(A, B, a) ==
  /\ Len(B) = Len(A) + 1 /\ Len(A) + 1 \in Inds(B) /\ B[Len(A) + 1] = a
  /\ \A k \in Inds(A) : B[k] = A[k]
  /\ \A k \in Inds(B) : k = Len(A) + 1 \/ k \in Inds(A)

\* What an action is given as its links, and obj_to_last_write after it.
Planned(t, lw, lcw, olw) ==
  /\ Pending(t).op = "clwb" =>
       lcw = used /\ lw = obj_to_last_write[t][getCacheID(Pending(t).b)]
  /\ Pending(t).op \in {"store", "atomic", "seqcst", "clflush"} =>
       olw = IssuedNow(obj_to_last_write, t, getCacheID(Pending(t).b), Len(acts) + 1)
  /\ Pending(t).op \notin {"store", "atomic", "seqcst", "clflush"} => olw = obj_to_last_write

Issues == {"store", "atomic", "seqcst", "clflush", "clwb", "sfence"}

\* addWrite, addCacheOp, process_store_fence: an action is buffered.
LEMMA IssueStep ==
  ASSUME IInv, phase = "running", NEW t \in Thread, Pending(t).op \in Issues,
         NEW lw \in Nat, NEW lcw \in Nat, NEW a,
         a = Linking(NewAction(t, last[t]), lw, lcw),
         NEW olw, Planned(t, lw, lcw, olw), NEW y, y = Buffered(With(Now, a), t)
  PROVE  /\ Good(y, 0, 0) /\ NoRMW(y) /\ Issued(y.acts, olw)
         /\ olw \in [Thread -> [Line -> Nat]]
         /\ Extended(acts, y.acts, a) /\ a.op = Pending(t).op /\ a.t = t
<1>0. /\ Pending(t).op \in {"store", "atomic", "seqcst", "clflush", "clwb", "sfence"}
      /\ Pending(t).op = "clwb" =>
           lcw = used /\ lw = obj_to_last_write[t][getCacheID(Pending(t).b)]
      /\ Pending(t).op \in {"store", "atomic", "seqcst", "clflush"} =>
           olw = IssuedNow(obj_to_last_write, t, getCacheID(Pending(t).b), Len(acts) + 1)
      /\ Pending(t).op \notin {"store", "atomic", "seqcst", "clflush"} => olw = obj_to_last_write
  BY DEF Issues, Planned
<1>1. /\ Typed /\ Good(Now, 0, 0) /\ NoRMW(Now) /\ Issued(acts, obj_to_last_write)
      /\ obj_to_last_write \in [Thread -> [Line -> Nat]]
      /\ acts \in Seq(Action) /\ used \in Nat /\ last \in [Thread -> Clock]
      /\ \A u, v \in Thread : last[u][v] =< used
  BY RunningIs
<1>2. PICK l : l = getCacheID(Pending(t).b)
  OBVIOUS
<1>3. Pending(t).op # "sfence" => l \in Line
  <2>1. Pending(t).op # "sfence" => Pending(t).op \in Accesses
    BY <1>0 DEF Accesses
  <2>2. Pending(t).op # "none"
    BY <1>0
  <2> QED  BY <1>1, <1>2, <2>1, <2>2, PendingIs
<1>4. /\ a \in Action /\ a.op = Pending(t).op /\ a.t = t /\ a.seq = 0 /\ LineOf(a) = l
      /\ \A B, m : B[m] = a /\ (a.op = "clwb" => lcw = used /\ LastOrdered(B, m, t, l, lw))
              => Made(B, m, used)
  <2>1. PICK c \in Clock : c = last[t]
    BY <1>1
  <2>a. PICK q \in Nat : q = used
    BY <1>1
  <2>b. Typed
    BY <1>1
  <2>2. \A u \in Thread : c[u] =< q
    BY <1>1, <2>1, <2>a
  <2>3. Pending(t).op \in {"store", "atomic", "seqcst", "rmwr", "clflush", "clwb", "sfence",
                           "mfence"}
    BY <1>0
  <2>4. a = Linking(NewAction(t, c), lw, lcw)
    BY <2>1
  <2>5. a \in Action /\ a.op = Pending(t).op /\ a.t = t /\ a.seq = 0
    BY <2>b, <2>2, <2>3, <2>4, NewActionIs
  <2>6. LineOf(a) = l
    <3>1. LineOf(a) = getCacheID(Pending(t).b)
      BY <2>b, <2>2, <2>3, <2>4, NewActionIs
    <3> QED  BY <1>2, <3>1
  <2>7. \A B, m : B[m] = a /\ (a.op = "clwb" => lcw = q /\ LastOrdered(B, m, t, LineOf(a), lw))
              => Made(B, m, q)
    BY <2>b, <2>2, <2>3, <2>4, NewActionIs
  <2> QED  BY <2>a, <2>5, <2>6, <2>7
<1>5. PICK n : n = Len(acts) + 1
  OBVIOUS
<1>6. PICK z : z = With(Now, a)
  OBVIOUS
<1>7. /\ n \in Nat \ {0} /\ z.acts = Append(acts, a) /\ z.acts[n] = a
      /\ \A j \in 1 .. (n - 1) : z.acts[j] = acts[j]
  <2>1. z.acts = Append(acts, a)
    <3>1. z = [Now EXCEPT !.acts = Append(acts, a)]
      BY <1>6, NowIs DEF With
    <3>2. Now \in State
      BY <1>1, GoodIs
    <3> QED  BY <3>1, <3>2 DEF State
  <2>2. PICK m \in Nat : m = Len(acts)
    BY <1>1, LenProperties
  <2>3. n = m + 1 /\ n - 1 = m
    BY <1>5, <2>2
  <2> QED  BY <1>1, <1>4, <2>1, <2>2, <2>3, AppendProperties
<1>8. a.op = "clwb" => LastOrdered(z.acts, n, t, l, lw)
  <2> SUFFICES ASSUME a.op = "clwb" PROVE LastOrdered(z.acts, n, t, l, lw)
    OBVIOUS
  <2>1. lw = obj_to_last_write[t][l] /\ l \in Line
    BY <1>0, <1>2, <1>3, <1>4
  <2>2. LastOrdered(acts, n, t, l, lw)
    BY <1>1, <1>5, <2>1 DEF Issued
  <2> QED  BY <1>7, <2>2 DEF LastOrdered
<1>9. Made(z.acts, n, used)
  <2>1. a.op = "clwb" => lcw = used
    BY <1>0, <1>4
  <2> QED  BY <1>4, <1>7, <1>8, <2>1
<1>10. Made(z.acts, n, Now.used) /\ n = Len(Now.acts) + 1
  BY <1>5, <1>9, NowIs
<1>11. Ordered(a) \/ a.op \in {"sfence", "clwb"}
  BY <1>0, <1>4 DEF Ordered, IsWrite, IsClflush
<1>12. Good(y, 0, 0) /\ NoRMW(y) /\ y.acts = z.acts
  <2>1. Good(y, 0, 0) /\ (NoRMW(Now) /\ a.op # "rmw" => NoRMW(y)) /\ y.acts = z.acts
    <3>1. PICK x : x = Now
      OBVIOUS
    <3>2. Good(x, 0, 0)
      BY <1>1, <3>1
    <3>3. a \in Action
      BY <1>4
    <3>4. z = With(x, a)
      BY <1>6, <3>1
    <3>5. n = Len(x.acts) + 1 /\ Made(z.acts, n, x.used)
      BY <1>10, <3>1
    <3>6. a.t = t /\ y = Buffered(z, t)
      BY <1>4, <1>6
    <3>7. Good(y, 0, 0)
      BY <1>11, <3>2, <3>3, <3>4, <3>5, <3>6, BufferedGood
    <3>8. NoRMW(x) /\ a.op # "rmw" => NoRMW(y)
      BY <1>11, <3>2, <3>3, <3>4, <3>5, <3>6, BufferedGood
    <3>9. y.acts = z.acts
      BY <1>11, <3>2, <3>3, <3>4, <3>5, <3>6, BufferedGood
    <3> QED  BY <3>1, <3>7, <3>8, <3>9
  <2>2. a.op # "rmw"
    BY <1>0, <1>4
  <2> QED  BY <1>1, <2>1, <2>2
<1>13. /\ z.acts \in Seq(Action) /\ Len(z.acts) = n /\ n \in Inds(z.acts)
       /\ Keeps(acts, z.acts)
  <2>1. /\ z \in State /\ Len(z.acts) = n /\ n \in Inds(z.acts)
        /\ Keeps(Now.acts, z.acts)
    BY <1>1, <1>4, <1>6, <1>10, WithIs
  <2> QED  BY <2>1, NowIs, StateIs
<1>14. \A k \in Inds(acts) : z.acts[k] = acts[k]
  BY <1>5, <1>7 DEF Inds
<1>15. \A k \in Inds(z.acts) : k = n \/ k \in Inds(acts)
  <2>1. PICK m \in Nat : m = Len(acts)
    BY <1>1, LenProperties
  <2>2. \A k \in 1 .. (m + 1) : k = m + 1 \/ k \in 1 .. m
    OBVIOUS
  <2> QED  BY <1>5, <1>13, <2>1, <2>2 DEF Inds
<1>16. Issued(y.acts, olw) /\ olw \in [Thread -> [Line -> Nat]]
  <2>1. CASE Pending(t).op \in {"store", "atomic", "seqcst", "clflush"}
    <3>1. Ordered(a) /\ l \in Line
      BY <1>3, <1>4, <2>1 DEF Ordered, IsWrite, IsClflush
    <3>2. olw = IssuedNow(obj_to_last_write, t, l, n)
      BY <1>0, <1>2, <1>5, <2>1
    <3>3. n \notin Inds(acts)
      <4>1. Len(acts) \in Nat
        BY <1>1, LenProperties
      <4>2. ~(n =< Len(acts))
        BY <1>5, <4>1
      <4> QED  BY <1>1, <4>2, IndsIs
    <3>4. \A k \in Inds(z.acts) : k # n => k \in Inds(acts) /\ z.acts[k].op = acts[k].op
      BY <1>14, <1>15
    <3>5. n \in Inds(acts) => ~Ordered(acts[n])
      BY <3>3
    <3>6. z.acts[n].t = t /\ LineOf(z.acts[n]) = l /\ Ordered(z.acts[n])
      BY <1>4, <1>7, <3>1
    <3>7. n = Len(z.acts)
      BY <1>13
    <3>8. Issued(z.acts, olw) /\ olw \in [Thread -> [Line -> Nat]]
      <4>1. PICK A \in Seq(Action) : A = acts
        BY <1>1
      <4>2. PICK B \in Seq(Action) : B = z.acts
        BY <1>13
      <4>3. PICK old \in [Thread -> [Line -> Nat]] : old = obj_to_last_write
        BY <1>1
      <4>a. n \in Nat \ {0}
        BY <1>7
      <4>b. l \in Line
        BY <3>1
      <4>4. n = Len(B)
        BY <3>7, <4>2
      <4>5. n \in Inds(A) => ~Ordered(A[n])
        BY <3>5, <4>1
      <4>6. \A k \in Inds(B) : k # n => k \in Inds(A) /\ B[k].op = A[k].op
        BY <3>4, <4>1, <4>2
      <4>7. B[n].t = t
        BY <3>6, <4>2
      <4>d. LineOf(B[n]) = l
        BY <3>6, <4>2
      <4>e. Ordered(B[n])
        BY <3>6, <4>2
      <4>c. Issued(A, old)
        BY <1>1, <4>1, <4>3
      <4>8. Keeps(A, B)
        BY <1>13, <4>1, <4>2
      <4>9. olw = IssuedNow(old, t, l, n)
        BY <3>2, <4>3
      <4>10. Issued(B, olw) /\ olw \in [Thread -> [Line -> Nat]]
        <5>1. Orders(A, B, n, t, l)
          BY <4>a, <4>d, <4>e, <4>4, <4>5, <4>6, <4>7 DEF Orders
        <5> QED  BY <4>b, <4>c, <4>8, <4>9, <5>1, IssuedMore
      <4> QED  BY <4>2, <4>10
    <3> QED  BY <1>12, <3>8
  <2>2. CASE Pending(t).op \notin {"store", "atomic", "seqcst", "clflush"}
    <3>1. olw = obj_to_last_write /\ ~Ordered(a)
      BY <1>0, <1>4, <2>2 DEF Ordered, IsWrite, IsClflush
    <3> SUFFICES ASSUME NEW u \in Thread, NEW m \in Line
                 PROVE  LastOrdered(z.acts, n + 1, u, m, olw[u][m])
      BY <1>1, <1>12, <1>13, <3>1 DEF Issued
    <3>2. LastOrdered(acts, n, u, m, olw[u][m])
      BY <1>1, <1>5, <3>1 DEF Issued
    <3>3. \A j : j \in 1 .. ((n + 1) - 1) <=> j = n \/ j \in 1 .. (n - 1)
      BY <1>7
    <3> QED  BY <1>7, <3>1, <3>2, <3>3 DEF LastOrdered
  <2> QED  BY <2>1, <2>2
<1>17. Extended(acts, y.acts, a)
  BY <1>5, <1>7, <1>12, <1>13, <1>14, <1>15 DEF Extended
<1> QED  BY <1>4, <1>12, <1>16, <1>17

-------------------------------------------------------------------------------
(* The steps of the program.                                               *)

LEMMA DoesIs ==
  ASSUME IInv, NEW t \in Thread, NEW kinds, Does(t, kinds)
  PROVE  /\ phase = "running" /\ phase' = phase /\ prog' = prog /\ report' = report
         /\ aborted = 0 /\ lastFlush' = lastFlush /\ atomicSeen' = atomicSeen
         /\ pc' = [pc EXCEPT ![t] = @ + 1] /\ Pending(t).op \in kinds
         /\ \A u \in Thread \ {t} : ~HalfWay(u)
         /\ Typed
BY DEF Does, IInv

LEMMA RangesKept ==
  ASSUME Ranges, NoRange, lastFlush' = lastFlush, atomicSeen' = atomicSeen
  PROVE  Ranges'
BY DEF Ranges, NoRange, NoEntry

\* A step after which no RMW is under way.
LEMMA QuietStep ==
  ASSUME IInv, NEW t \in Thread, NEW kinds, Does(t, kinds), Pending(t).op \notin {"none", "rmwr"},
         NEW x, Good(x, 0, 0), NoRMW(x), Becomes(x),
         \A k \in Inds(x.acts) : x.acts[k].op # "rmwr",
         obj_to_last_write' \in [Thread -> [Line -> Nat]],
         Issued(x.acts, obj_to_last_write'), Ranges'
  PROVE  IInv'
<1>1. /\ phase = "running" /\ phase' = phase /\ prog' = prog /\ report' = report
      /\ pc' = [pc EXCEPT ![t] = @ + 1]
      /\ \A u \in Thread \ {t} : ~HalfWay(u)
      /\ Typed
  BY DoesIs
<1>2. /\ ~HalfWay(t)'
      /\ \A u \in Thread : u # t => (HalfWay(u)' <=> HalfWay(u))
      /\ pc' \in [Thread -> Nat \ {0}]
  <2>1. Pending(t).op # "none" /\ Pending(t).op # "rmwr"
    OBVIOUS
  <2>2. Typed /\ prog' = prog /\ pc' = [pc EXCEPT ![t] = @ + 1]
    BY <1>1
  <2> QED  BY <2>1, <2>2, NextIs
<1>3. \A u \in Thread : ~HalfWay(u)'
  BY <1>1, <1>2
<1>4. acts' = x.acts
  BY DEF Becomes
<1>5. Halves'
  BY <1>3, <1>4 DEF Halves
<1> QED  BY <1>1, <1>2, <1>5, RunStep

LEMMA LinkingNone ==
  ASSUME NEW t, NEW c
  PROVE  NewAction(t, c) = Linking(NewAction(t, c), 0, 0)
<1>1. PICK o, d : o = Pending(t) /\ d = [c EXCEPT ![t] = 0]
  OBVIOUS
<1>2. PICK op, b, n : op = o.op /\ b = o.b /\ n = o.n
  OBVIOUS
<1>3. NewAction(t, c) =
        [op |-> op, b |-> b, n |-> n, t |-> t, seq |-> 0, cv |-> d, lastwrite |-> 0,
         lastcommittedWrite |-> 0, last_clflush |-> ValueNone]
  BY <1>1, <1>2 DEF NewAction
<1>4. PICK r : r = NewAction(t, c)
  OBVIOUS
<1>5. r = [r EXCEPT !.lastwrite = 0]
  BY <1>3, <1>4
<1>6. r = [r EXCEPT !.lastcommittedWrite = 0]
  BY <1>3, <1>4
<1>7. Linking(r, 0, 0) = [[r EXCEPT !.lastwrite = 0] EXCEPT !.lastcommittedWrite = 0]
  BY Zenon DEF Linking
<1> QED  BY <1>4, <1>5, <1>6, <1>7, Zenon

\* An action is issued and waits in the store buffer.
LEMMA BufferStep ==
  ASSUME IInv, NEW t \in Thread, NEW kinds, Does(t, kinds),
         kinds \subseteq {"store", "atomic", "clflush", "clwb", "sfence"},
         NEW lw \in Nat, NEW lcw \in Nat, NEW a, a = Linking(NewAction(t, last[t]), lw, lcw),
         Pending(t).op = "clwb" =>
           lcw = used /\ lw = obj_to_last_write[t][getCacheID(Pending(t).b)],
         Pending(t).op \in {"store", "atomic", "clflush"} =>
           IssuedLast(t, getCacheID(Pending(t).b)),
         Pending(t).op \notin {"store", "atomic", "clflush"} => UNCHANGED obj_to_last_write,
         NEW y, y = Buffered(With(Now, a), t), Becomes(y), NoRange
  PROVE  IInv'
<1>1. /\ phase = "running" /\ lastFlush' = lastFlush /\ atomicSeen' = atomicSeen
      /\ Pending(t).op \in kinds /\ \A u \in Thread \ {t} : ~HalfWay(u)
  BY DoesIs
<1>2. Ranges'
  BY <1>1, RunningIs, RangesKept
<1>3. PICK op : op = Pending(t).op
  OBVIOUS
<1>4. op \in {"store", "atomic", "clflush", "clwb", "sfence"}
  BY <1>1, <1>3
<1>5. PICK olw : olw = obj_to_last_write'
  OBVIOUS
<1>6. Pending(t).op \in {"store", "atomic", "seqcst", "clflush"} =>
        olw = IssuedNow(obj_to_last_write, t, getCacheID(Pending(t).b), Len(acts) + 1)
  <2>1. ASSUME op \in {"store", "atomic", "seqcst", "clflush"}
        PROVE  op \in {"store", "atomic", "clflush"}
    BY <1>4, <2>1
  <2> QED  BY <1>3, <1>5, <2>1 DEF IssuedLast, IssuedNow
<1>7. Pending(t).op \notin {"store", "atomic", "seqcst", "clflush"} => olw = obj_to_last_write
  BY <1>5
<1>8. Pending(t).op \in Issues /\ Planned(t, lw, lcw, olw)
  BY <1>3, <1>4, <1>6, <1>7 DEF Issues, Planned
<1>9. Good(y, 0, 0) /\ NoRMW(y) /\ Issued(y.acts, olw) /\ olw \in [Thread -> [Line -> Nat]]
  BY <1>1, <1>8, IssueStep
<1>10. /\ y.acts[Len(acts) + 1] = a /\ a.op = op
       /\ \A k \in Inds(acts) : y.acts[k] = acts[k]
       /\ \A k \in Inds(y.acts) : k = Len(acts) + 1 \/ k \in Inds(acts)
  <2>1. Extended(acts, y.acts, a) /\ a.op = Pending(t).op
    BY <1>1, <1>8, IssueStep
  <2> QED  BY <1>3, <2>1 DEF Extended
<1>11. \A k \in Inds(acts) : acts[k].op # "rmwr"
  <2>1. ~HalfWay(t)
    BY <1>3, <1>4 DEF HalfWay
  <2> QED  BY <1>1, <2>1, QuietIs
<1>12. \A k \in Inds(y.acts) : y.acts[k].op # "rmwr"
  BY <1>4, <1>10, <1>11
<1>13. Pending(t).op \notin {"none", "rmwr"}
  BY <1>3, <1>4
<1> QED  BY <1>2, <1>5, <1>9, <1>12, <1>13, QuietStep

LEMMA WriteKeeps ==
  ASSUME IInv, NEW t \in Thread, Write(t)
  PROVE  IInv'
<1>1. PICK kinds : kinds = {"store", "atomic"}
  OBVIOUS
<1>2. PICK a : a = Linking(NewAction(t, last[t]), 0, 0)
  OBVIOUS
<1>3. PICK y : y = Buffered(With(Now, a), t)
  OBVIOUS
<1>4. Does(t, kinds) /\ Becomes(y) /\ IssuedLast(t, getCacheID(Pending(t).b)) /\ NoRange
  BY <1>1, <1>2, <1>3, LinkingNone DEF Write
<1>5. kinds \subseteq {"store", "atomic", "clflush", "clwb", "sfence"}
  BY <1>1
<1>6. Pending(t).op \in {"store", "atomic"}
  BY <1>1, <1>4, DoesIs
<1>7. Pending(t).op # "clwb" /\ Pending(t).op \in {"store", "atomic", "clflush"}
  BY <1>6
<1> QED  BY <1>2, <1>3, <1>4, <1>5, <1>7, BufferStep

LEMMA SFenceKeeps ==
  ASSUME IInv, NEW t \in Thread, SFence(t)
  PROVE  IInv'
<1>1. PICK kinds : kinds = {"sfence"}
  OBVIOUS
<1>2. PICK a : a = Linking(NewAction(t, last[t]), 0, 0)
  OBVIOUS
<1>3. PICK y : y = Buffered(With(Now, a), t)
  OBVIOUS
<1>4. Does(t, kinds) /\ Becomes(y) /\ UNCHANGED obj_to_last_write /\ NoRange
  BY <1>1, <1>2, <1>3, LinkingNone DEF SFence
<1>5. kinds \subseteq {"store", "atomic", "clflush", "clwb", "sfence"}
  BY <1>1
<1>6. Pending(t).op \in {"sfence"}
  BY <1>1, <1>4, DoesIs
<1>7. Pending(t).op # "clwb" /\ Pending(t).op \notin {"store", "atomic", "clflush"}
  BY <1>6
<1> QED  BY <1>2, <1>3, <1>4, <1>5, <1>7, BufferStep

LEMMA CacheOpKeeps ==
  ASSUME IInv, NEW t \in Thread, CacheOp(t)
  PROVE  IInv'
<1>1. PICK kinds : kinds = {"clflush", "clwb"}
  OBVIOUS
<1>2. PICK l : l = getCacheID(Pending(t).b)
  OBVIOUS
<1>3. Does(t, kinds)
  BY <1>1 DEF CacheOp
<1>4. Pending(t).op \in {"clflush", "clwb"} /\ Typed /\ phase = "running"
  BY <1>1, <1>3, DoesIs
<1>5. l \in Line
  <2>1. Pending(t).op # "none" /\ Pending(t).op \in Accesses
    BY <1>4 DEF Accesses
  <2> QED  BY <1>2, <1>4, <2>1, PendingIs
<1>6. PICK lw \in Nat, lcw \in Nat : lw = obj_to_last_write[t][l] /\ lcw = used
  BY <1>4, <1>5, RunningIs
<1>7. PICK a : a = Linking(NewAction(t, last[t]), lw, lcw)
  OBVIOUS
<1>8. PICK y : y = Buffered(With(Now, a), t)
  OBVIOUS
<1>9. /\ Becomes(y) /\ NoRange
      /\ IF Pending(t).op = "clflush" THEN IssuedLast(t, l) ELSE UNCHANGED obj_to_last_write
  BY <1>2, <1>6, <1>7, <1>8 DEF CacheOp, Linking
<1>10. kinds \subseteq {"store", "atomic", "clflush", "clwb", "sfence"}
  BY <1>1
<1>11. Pending(t).op = "clwb" =>
         lcw = used /\ lw = obj_to_last_write[t][getCacheID(Pending(t).b)]
  BY <1>2, <1>6
<1>12. Pending(t).op \in {"store", "atomic", "clflush"} => IssuedLast(t, getCacheID(Pending(t).b))
  BY <1>2, <1>4, <1>9
<1>13. Pending(t).op \notin {"store", "atomic", "clflush"} => UNCHANGED obj_to_last_write
  BY <1>9
<1>14. Becomes(y) /\ NoRange
  BY <1>9
<1> QED  BY <1>3, <1>7, <1>8, <1>10, <1>11, <1>12, <1>13, <1>14, BufferStep

LEMMA IssuedSame ==
  ASSUME NEW A \in Seq(Action), NEW B \in Seq(Action), Keeps(A, B),
         \A k \in Inds(B) : Ordered(B[k]) => k \in Inds(A) /\ Ordered(A[k]),
         \A k \in Inds(A) : Ordered(A[k]) => Ordered(B[k]),
         NEW olw, Issued(A, olw)
  PROVE  Issued(B, olw)
<1>1. PICK p \in Nat, q \in Nat : p = Len(A) /\ q = Len(B)
  BY LenProperties
<1>2. /\ p =< q /\ \A j : (j \in Inds(A) <=> j \in 1 .. p) /\ (j \in Inds(B) <=> j \in 1 .. q)
      /\ \A j : (j \in 1 .. ((p + 1) - 1) <=> j \in 1 .. p) /\ (j \in 1 .. ((q + 1) - 1) <=> j \in 1 .. q)
  BY <1>1 DEF Keeps, Inds
<1> SUFFICES ASSUME NEW t \in Thread, NEW l \in Line
             PROVE  LastOrdered(B, q + 1, t, l, olw[t][l])
  BY <1>1 DEF Issued
<1>3. PICK i : i = olw[t][l]
  OBVIOUS
<1>4. LastOrdered(A, p + 1, t, l, i)
  BY <1>1, <1>3 DEF Issued
<1>5. /\ i = 0 \/ (i \in Inds(A) /\ Ordered(A[i]) /\ A[i].t = t /\ LineOf(A[i]) = l)
      /\ \A j \in Inds(A) : Ordered(A[j]) /\ A[j].t = t /\ LineOf(A[j]) = l => j =< i
  BY <1>2, <1>4 DEF LastOrdered
<1>6. \A k \in Inds(A) : k \in Inds(B) /\ B[k].t = A[k].t /\ LineOf(B[k]) = LineOf(A[k])
  BY KeepsIs
<1>7. /\ i = 0 \/ (i \in Inds(B) /\ Ordered(B[i]) /\ B[i].t = t /\ LineOf(B[i]) = l)
      /\ \A j \in Inds(B) : Ordered(B[j]) /\ B[j].t = t /\ LineOf(B[j]) = l => j =< i
  BY <1>5, <1>6
<1> QED  BY <1>2, <1>3, <1>7 DEF LastOrdered

\* Emptying buffers issues nothing.
LEMMA FrameIssued ==
  ASSUME NEW x, x.acts \in Seq(Action), NEW y, y.acts \in Seq(Action), Frame(x, y),
         NEW olw, Issued(x.acts, olw)
  PROVE  Issued(y.acts, olw)
<1>1. PICK A \in Seq(Action), B \in Seq(Action) : A = x.acts /\ B = y.acts
  OBVIOUS
<1>2. /\ Len(B) = Len(A) /\ Keeps(A, B) /\ \A k \in Inds(A) : B[k].op = A[k].op
  BY <1>1 DEF Frame
<1> QED  BY <1>1, <1>2, IssuedKept

\* An action of no kind that is buffered is in no buffer.
LEMMA Unbuffered ==
  ASSUME NEW x, NEW h, Core(x, h), NEW k \in Inds(x.acts),
         x.acts[k].op \in {"mfence", "rmwr", "casread"} \/ x.acts[k].seq # 0
  PROVE  \A u \in Thread : ~In(x.storeBuffer[u], k) /\ ~In(x.flushBuffer[u], k)
<1>1. Buffers(x)
  BY CoreIs
<1>2. ~(Ordered(x.acts[k]) \/ x.acts[k].op \in {"sfence", "clwb"}) \/ x.acts[k].seq # 0
  BY DEF Ordered, IsWrite, IsClflush
<1>3. x.acts[k].op # "clwb" \/ x.acts[k].seq # 0
  OBVIOUS
<1> QED  BY <1>1, <1>2, <1>3 DEF Buffers, BuffersIn, In

LEMMA EvictKeeps ==
  ASSUME IInv, NEW t \in Thread, Evict(t)
  PROVE  IInv'
<1>1. /\ phase = "running" /\ phase' = phase /\ prog' = prog /\ pc' = pc /\ report' = report
      /\ obj_to_last_write' = obj_to_last_write /\ storeBuffer[t] # <<>>
      /\ lastFlush' = lastFlush /\ atomicSeen' = atomicSeen /\ NoRange
  BY DEF Evict
<1>2. PICK x : x = Now
  OBVIOUS
<1>3. PICK y : y = popFromStoreBuffer(x, t)
  OBVIOUS
<1>4. Becomes(y)
  BY <1>2, <1>3 DEF Evict
<1>5. /\ Good(x, 0, 0) /\ NoRMW(x) /\ Issued(acts, obj_to_last_write) /\ Halves /\ Ranges
      /\ pc \in [Thread -> Nat \ {0}] /\ obj_to_last_write \in [Thread -> [Line -> Nat]]
  BY <1>1, <1>2, RunningIs
<1>6. x.acts = acts /\ x.storeBuffer = storeBuffer /\ x.flushBuffer = flushBuffer
  BY <1>2, NowIs
<1>7. Good(y, 0, 0) /\ Frame(x, y) /\ NoRMW(y)
  <2>1. x.storeBuffer[t] \in Seq(Nat) /\ x.storeBuffer[t] # <<>>
    BY <1>1, <1>5, <1>6, GoodIs
  <2>2. 1 \in Inds(x.storeBuffer[t]) /\ Head(x.storeBuffer[t]) = x.storeBuffer[t][1]
    <3>1. PICK s \in Seq(Nat) : s = x.storeBuffer[t] /\ s # <<>>
      BY <2>1
    <3>2. Len(s) \in Nat /\ Len(s) # 0
      BY <3>1, LenProperties, EmptySeq
    <3> QED  BY <3>1, <3>2 DEF Inds
  <2>3. x.acts[Head(x.storeBuffer[t])].op # "rmw"
    BY <1>5, <2>2 DEF NoRMW
  <2>4. Good(y, 0, 0) /\ Frame(x, y)
    BY <1>3, <1>5, <2>1, <2>3, PopStore
  <2> QED  BY <1>5, <2>4, NoRMWKept
<1>8. acts \in Seq(Action) /\ y.acts \in Seq(Action)
  BY <1>5, <1>6, <1>7, GoodIs
<1>9. Issued(y.acts, obj_to_last_write)
  <2>1. x.acts \in Seq(Action) /\ Issued(x.acts, obj_to_last_write)
    BY <1>5, <1>6, <1>8
  <2> QED  BY <1>7, <1>8, <2>1, FrameIssued
<1>10. \A u \in Thread : (HalfWay(u)' <=> HalfWay(u)) /\ Pending(u)' = Pending(u)
  BY <1>1 DEF HalfWay, Pending
<1>11. Halves'
  <2>1. /\ acts' = y.acts /\ storeBuffer' = y.storeBuffer /\ flushBuffer' = y.flushBuffer
    BY <1>4 DEF Becomes
  <2>2. /\ Len(y.acts) = Len(acts) /\ Keeps(acts, y.acts)
        /\ \A k \in Inds(acts) :
             /\ y.acts[k].op = acts[k].op
             /\ (\A u \in Thread : ~In(storeBuffer[u], k) /\ ~In(flushBuffer[u], k))
                  => y.acts[k] = acts[k]
        /\ \A u \in Thread : storeBuffer[u] = <<>> /\ flushBuffer[u] = <<>>
                               => y.storeBuffer[u] = <<>> /\ y.flushBuffer[u] = <<>>
    BY <1>6, <1>7 DEF Frame
  <2>3. Inds(y.acts) = Inds(acts)
    BY <2>2 DEF Inds
  <2>4. ASSUME NEW k \in Inds(y.acts), y.acts[k].op = "rmwr"
        PROVE  k = Len(y.acts) /\ HalfWay(y.acts[k].t)'
    <3>1. k \in Inds(acts) /\ acts[k].op = "rmwr"
      BY <2>2, <2>3, <2>4
    <3>2. k = Len(acts) /\ HalfWay(acts[k].t)
      BY <1>5, <3>1 DEF Halves
    <3>3. PICK u \in Thread : u = acts[k].t
      BY <1>8, <3>1, ActsIs
    <3>4. y.acts[k].t = u
      BY <1>8, <2>2, <3>1, <3>3, KeepsIs
    <3>5. HalfWay(u)'
      BY <1>10, <3>2, <3>3
    <3> QED  BY <2>2, <3>2, <3>4, <3>5
  <2>5. ASSUME NEW u \in Thread, HalfWay(u)'
        PROVE  LET k == Len(y.acts)
               IN  /\ k \in Inds(y.acts) /\ y.acts[k].op = "rmwr" /\ y.acts[k].t = u
                   /\ y.acts[k].seq = 0
                   /\ y.acts[k].b = Pending(u)'.b /\ y.acts[k].n = Pending(u)'.n
                   /\ y.storeBuffer[u] = <<>> /\ y.flushBuffer[u] = <<>>
    <3>1. HalfWay(u)
      BY <1>10, <2>5
    <3>2. PICK k : k = Len(acts)
      OBVIOUS
    <3>3. /\ k \in Inds(acts) /\ acts[k].op = "rmwr" /\ acts[k].t = u /\ acts[k].seq = 0
          /\ acts[k].b = Pending(u).b /\ acts[k].n = Pending(u).n
          /\ storeBuffer[u] = <<>> /\ flushBuffer[u] = <<>>
      BY <1>5, <3>1, <3>2 DEF Halves
    <3>4. \A v \in Thread : ~In(storeBuffer[v], k) /\ ~In(flushBuffer[v], k)
      <4>1. Core(x, 0) /\ k \in Inds(x.acts) /\ x.acts[k].op \in {"mfence", "rmwr", "casread"}
        BY <1>5, <1>6, <3>3, GoodIs
      <4> QED  BY <1>6, <4>1, Unbuffered
    <3>5. y.acts[k] = acts[k]
      BY <2>2, <3>3, <3>4
    <3> QED  BY <1>10, <2>2, <2>3, <3>2, <3>3, <3>5
  <2> QED  BY <2>1, <2>4, <2>5 DEF Halves, HalfWay, Pending
<1>12. Ranges'
  BY <1>1, <1>5, RangesKept
<1>13. /\ pc' \in [Thread -> Nat \ {0}] /\ obj_to_last_write' \in [Thread -> [Line -> Nat]]
       /\ Issued(y.acts, obj_to_last_write')
  BY <1>1, <1>5, <1>9
<1> QED  BY <1>1, <1>4, <1>7, <1>11, <1>12, <1>13, RunStep

\* An mfence or the first half of an RMW is added, after buffers may have been emptied.
LEMMA AddStep ==
  ASSUME IInv, phase = "running", NEW t \in Thread, Pending(t).op \in {"mfence", "rmwr"},
         NEW x, Good(x, 0, 0), NoRMW(x), Frame(Now, x), NEW c \in Clock,
         \A u \in Thread : c[u] =< x.used, NEW a, a = NewAction(t, c),
         NEW z, z = With(x, a)
  PROVE  /\ Good(z, 0, 0) /\ NoRMW(z) /\ Issued(z.acts, obj_to_last_write)
         /\ Extended(x.acts, z.acts, a) /\ a.op = Pending(t).op /\ a.t = t /\ a.seq = 0
         /\ a.b = Pending(t).b /\ a.n = Pending(t).n
         /\ z.storeBuffer = x.storeBuffer /\ z.flushBuffer = x.flushBuffer
         /\ z.used = x.used /\ z.last = x.last
<1>1. /\ Typed /\ Issued(acts, obj_to_last_write) /\ acts \in Seq(Action)
  BY RunningIs
<1>2. x.acts \in Seq(Action) /\ x.used \in Nat
  BY GoodIs, StateIs
<1>3. Issued(x.acts, obj_to_last_write)
  <2>1. Issued(Now.acts, obj_to_last_write) /\ Now.acts \in Seq(Action)
    BY <1>1, NowIs
  <2> QED  BY <1>2, <2>1, FrameIssued
<1>4. a = Linking(NewAction(t, c), 0, 0)
  BY LinkingNone
<1>5. /\ a \in Action /\ a.op = Pending(t).op /\ a.t = t /\ a.seq = 0
      /\ a.b = Pending(t).b /\ a.n = Pending(t).n
      /\ \A B, n : B[n] = a /\ (a.op = "clwb" => 0 = x.used /\ LastOrdered(B, n, t, LineOf(a), 0))
              => Made(B, n, x.used)
  <2>1. PICK q \in Nat : q = x.used
    BY <1>2
  <2>2. \A u \in Thread : c[u] =< q
    BY <2>1
  <2>3. Pending(t).op \in {"store", "atomic", "seqcst", "rmwr", "clflush", "clwb", "sfence",
                           "mfence"}
    OBVIOUS
  <2>4. Typed /\ 0 \in Nat
    BY <1>1
  <2>5. a \in Action /\ a.op = Pending(t).op /\ a.t = t /\ a.seq = 0
    BY <1>4, <2>2, <2>3, <2>4, NewActionIs
  <2>6. a.b = Pending(t).b /\ a.n = Pending(t).n
    BY <1>4, <2>2, <2>3, <2>4, NewActionIs
  <2>7. \A B, n : B[n] = a /\ (a.op = "clwb" => 0 = q /\ LastOrdered(B, n, t, LineOf(a), 0))
              => Made(B, n, q)
    BY <1>4, <2>2, <2>3, <2>4, NewActionIs
  <2> QED  BY <2>1, <2>5, <2>6, <2>7
<1>6. PICK m \in Nat : m = Len(x.acts)
  BY <1>2, LenProperties
<1>7. PICK n \in Nat : n = m + 1
  OBVIOUS
<1>8. z.acts = Append(x.acts, a)
  <2>1. z = [x EXCEPT !.acts = Append(x.acts, a)] /\ x \in State
    BY GoodIs DEF With
  <2> QED  BY <2>1 DEF State
<1>9. z.acts[n] = a
  BY <1>2, <1>5, <1>6, <1>7, <1>8, AppendProperties
<1>10. a.op # "clwb" /\ ~Ordered(a)
  BY <1>5 DEF Ordered, IsWrite, IsClflush
<1>11. Made(z.acts, n, x.used)
  BY <1>5, <1>9, <1>10
<1>12. n = Len(x.acts) + 1
  BY <1>6, <1>7
<1>13. Good(z, 0, 0) /\ NoRMW(z)
  BY <1>5, <1>10, <1>11, <1>12, WithGood
<1>14. /\ Len(z.acts) = n /\ n \in Inds(z.acts) /\ Keeps(x.acts, z.acts)
       /\ z.storeBuffer = x.storeBuffer /\ z.flushBuffer = x.flushBuffer
       /\ z.used = x.used /\ z.last = x.last
  BY <1>5, <1>11, <1>12, WithIs
<1>15. \A k \in Inds(x.acts) : z.acts[k] = x.acts[k]
  BY <1>5, <1>11, <1>12, WithIs
<1>16. \A k \in Inds(z.acts) : k = n \/ k \in Inds(x.acts)
  <2>1. \A k : k \in 1 .. (m + 1) => k = m + 1 \/ k \in 1 .. m
    OBVIOUS
  <2> QED  BY <1>6, <1>7, <1>14, <2>1 DEF Inds
<1>17. Extended(x.acts, z.acts, a)
  BY <1>9, <1>12, <1>14, <1>15, <1>16 DEF Extended
<1>18. Issued(z.acts, obj_to_last_write)
  <2>1. z.acts \in Seq(Action)
    BY <1>13, GoodIs
  <2>2. \A k \in Inds(z.acts) : Ordered(z.acts[k]) => k \in Inds(x.acts) /\ Ordered(x.acts[k])
    BY <1>9, <1>10, <1>15, <1>16
  <2>3. \A k \in Inds(x.acts) : Ordered(x.acts[k]) => Ordered(z.acts[k])
    BY <1>15
  <2> QED  BY <1>2, <1>3, <1>14, <2>1, <2>2, <2>3, IssuedSame
<1> QED  BY <1>5, <1>13, <1>14, <1>17, <1>18

LEMMA NoHalves ==
  ASSUME IInv, NEW t \in Thread, NEW kinds, Does(t, kinds), Pending(t).op \notin {"rmw", "casfail"}
  PROVE  \A k \in Inds(acts) : acts[k].op # "rmwr"
<1>1. phase = "running" /\ \A u \in Thread \ {t} : ~HalfWay(u)
  BY DoesIs
<1>2. ~HalfWay(t)
  BY DEF HalfWay
<1> QED  BY <1>1, <1>2, QuietIs

\* What is numbered or waits to be stays out of the buffers: it can take effect.
LEMMA ReadyIs ==
  ASSUME NEW x, Core(x, 0), NEW k \in Inds(x.acts), x.acts[k].seq = 0,
         x.acts[k].op \in {"mfence", "casread"},
         \A j \in Inds(x.storeBuffer[x.acts[k].t]) : k < x.storeBuffer[x.acts[k].t][j],
         x.acts[k].op = "mfence" => x.flushBuffer[x.acts[k].t] = <<>>
  PROVE  Core(x, k) /\ Ready(x, k)
<1>1. Waiting(x, 0) /\ x.acts \in Seq(Action)
  BY CoreIs
<1>2. Waiting(x, k)
  BY <1>1, ActsIs DEF Waiting
<1>3. \A u \in Thread : ~In(x.storeBuffer[u], k) /\ ~In(x.flushBuffer[u], k)
  BY Unbuffered
<1>4. ~Ordered(x.acts[k]) /\ (IsFence(x.acts[k]) => x.acts[k].op = "mfence")
  BY DEF Ordered, IsWrite, IsClflush, IsFence
<1> QED  BY <1>2, <1>3, <1>4 DEF Core, Ready

LEMMA FenceKeeps ==
  ASSUME IInv, NEW t \in Thread, Fence(t)
  PROVE  IInv'
<1>1. PICK kinds : kinds = {"mfence"}
  OBVIOUS
<1>2. Does(t, kinds) /\ UNCHANGED obj_to_last_write /\ NoRange
  BY <1>1 DEF Fence
<1>3. /\ phase = "running" /\ Pending(t).op = "mfence"
      /\ lastFlush' = lastFlush /\ atomicSeen' = atomicSeen
  BY <1>1, <1>2, DoesIs
<1>4. /\ Good(Now, 0, 0) /\ NoRMW(Now) /\ Ranges /\ acts \in Seq(Action)
      /\ obj_to_last_write \in [Thread -> [Line -> Nat]]
      /\ last \in [Thread -> Clock] /\ \A u, v \in Thread : last[u][v] =< used
  BY <1>3, RunningIs
<1>5. PICK c \in Clock : c = last[t] /\ \A u \in Thread : c[u] =< Now.used
  BY <1>4, NowIs
<1>6. PICK a : a = NewAction(t, c)
  OBVIOUS
<1>7. PICK z : z = With(Now, a)
  OBVIOUS
<1>8. PICK n : n = Len(acts) + 1
  OBVIOUS
<1>9. Frame(Now, Now)
  BY <1>4, FrameSelf, GoodIs
<1>10. /\ Good(z, 0, 0) /\ NoRMW(z) /\ Issued(z.acts, obj_to_last_write)
       /\ Extended(acts, z.acts, a) /\ a.op = "mfence" /\ a.t = t /\ a.seq = 0
  <2>1. Pending(t).op \in {"mfence", "rmwr"}
    BY <1>3
  <2>2. Good(z, 0, 0) /\ NoRMW(z) /\ Issued(z.acts, obj_to_last_write)
    BY <1>3, <1>4, <1>5, <1>6, <1>7, <1>9, <2>1, AddStep
  <2>4. /\ phase = "running" /\ Good(Now, 0, 0) /\ NoRMW(Now)
        /\ \A u \in Thread : c[u] =< Now.used
    BY <1>3, <1>4, <1>5
  <2>3. Extended(Now.acts, z.acts, a) /\ a.op = Pending(t).op /\ a.t = t /\ a.seq = 0
    BY <1>6, <1>7, <1>9, <2>1, <2>4, AddStep
  <2> QED  BY <1>3, <2>2, <2>3, NowIs
<1>11. PICK x : x = Empty(z, t)
  OBVIOUS
<1>12. Good(x, 0, 0) /\ Frame(z, x) /\ NoRMW(x) /\ x.storeBuffer[t] = <<>> /\ x.flushBuffer[t] = <<>>
  BY <1>10, <1>11, EmptyIs
<1>13. /\ n \in Inds(z.acts) /\ z.acts[n] = a /\ Len(z.acts) = n
       /\ \A k \in Inds(z.acts) : k = n \/ (k \in Inds(acts) /\ z.acts[k] = acts[k])
  BY <1>8, <1>10 DEF Extended
<1>14. n \in Inds(x.acts) /\ x.acts[n] = a /\ Inds(x.acts) = Inds(z.acts)
  <2>1. Core(z, 0) /\ z.acts[n].op \in {"mfence", "rmwr", "casread"}
    BY <1>10, <1>13, GoodIs
  <2>2. \A u \in Thread : ~In(z.storeBuffer[u], n) /\ ~In(z.flushBuffer[u], n)
    BY <1>13, <2>1, Unbuffered
  <2> QED  BY <1>12, <1>13, <2>2 DEF Frame, Inds
<1>15. Core(x, n) /\ Ready(x, n)
  <2>1. \A j \in Inds(x.storeBuffer[t]) : n < x.storeBuffer[t][j]
    BY <1>12, EmptyHasNone DEF In
  <2>2. Core(x, 0)
    BY <1>12, GoodIs
  <2>3. x.acts[n].seq = 0 /\ x.acts[n].op \in {"mfence", "casread"} /\ x.acts[n].t = t
    BY <1>10, <1>14
  <2> QED  BY <1>12, <1>14, <2>1, <2>2, <2>3, ReadyIs
<1>16. PICK y : y = fenceExecutionAnalysis(TakeEffect(x, n), n)
  OBVIOUS
<1>17. Good(y, 0, 0) /\ Effected(x, y, n)
  <2>1. Analysed(x) /\ FenceCredits(x.acts, x.flushmap, 0)
    BY <1>12, GoodIs
  <2>2. x.acts[n].op \in {"sfence", "mfence"}
    BY <1>10, <1>14
  <2> QED  BY <1>15, <1>16, <2>1, <2>2, FenceEffect
<1>18. Becomes(y)
  BY <1>5, <1>6, <1>7, <1>8, <1>11, <1>16 DEF Fence
<1>19. /\ Len(y.acts) = Len(z.acts) /\ Inds(y.acts) = Inds(z.acts)
       /\ \A k \in Inds(z.acts) : y.acts[k].op = z.acts[k].op
  BY <1>12, <1>14, <1>17 DEF Frame, Effected, Inds
<1>20. NoRMW(y)
  <2> SUFFICES ASSUME NEW u \in Thread, NEW j \in Inds(x.storeBuffer[u])
               PROVE  y.acts[x.storeBuffer[u][j]].op # "rmw"
    BY <1>17 DEF NoRMW, Effected
  <2>1. x.storeBuffer[u][j] \in Inds(x.acts)
    <3>1. Buffers(x)
      BY <1>12, GoodIs, CoreIs
    <3> QED  BY <3>1 DEF Buffers, BuffersIn
  <2> QED  BY <1>12, <1>17, <2>1 DEF NoRMW, Effected
<1>21. y.acts \in Seq(Action) /\ x.acts \in Seq(Action) /\ z.acts \in Seq(Action)
  BY <1>10, <1>12, <1>17, GoodIs
<1>22. Issued(y.acts, obj_to_last_write)
  <2>1. Issued(x.acts, obj_to_last_write)
    BY <1>10, <1>12, <1>21, FrameIssued
  <2>2. PICK A \in Seq(Action), B \in Seq(Action) : A = x.acts /\ B = y.acts
    BY <1>21
  <2>3. Keeps(A, B) /\ Len(B) = Len(A) /\ \A k \in Inds(A) : B[k].op = A[k].op
    BY <1>17, <2>2 DEF Effected
  <2> QED  BY <2>1, <2>2, <2>3, IssuedKept
<1>23. \A k \in Inds(y.acts) : y.acts[k].op # "rmwr"
  <2>1. \A k \in Inds(acts) : acts[k].op # "rmwr"
    BY <1>2, <1>3, NoHalves
  <2> QED  BY <1>10, <1>13, <1>19, <2>1
<1>24. Ranges'
  BY <1>2, <1>3, <1>4, RangesKept
<1>25. /\ obj_to_last_write' \in [Thread -> [Line -> Nat]] /\ Issued(y.acts, obj_to_last_write')
       /\ Pending(t).op \notin {"none", "rmwr"}
  BY <1>2, <1>3, <1>4, <1>22
<1> QED  BY <1>2, <1>17, <1>18, <1>20, <1>23, <1>24, <1>25, QuietStep

\* The analysis at a fence leaves the actions alone.
LEMMA AnalysedIssued ==
  ASSUME NEW x, Good(x, 0, 0), NEW y, y.acts = x.acts, y.storeBuffer = x.storeBuffer, NoRMW(x)
  PROVE  NoRMW(y)
BY DEF NoRMW

LEMMA SeqCstStoreKeeps ==
  ASSUME IInv, NEW t \in Thread, SeqCstStore(t)
  PROVE  IInv'
<1>1. PICK kinds : kinds = {"seqcst"}
  OBVIOUS
<1>2. Does(t, kinds) /\ IssuedLast(t, getCacheID(Pending(t).b)) /\ NoRange
  BY <1>1 DEF SeqCstStore
<1>3. /\ phase = "running" /\ Pending(t).op = "seqcst"
      /\ lastFlush' = lastFlush /\ atomicSeen' = atomicSeen
  BY <1>1, <1>2, DoesIs
<1>4. Ranges /\ acts \in Seq(Action)
  BY <1>3, RunningIs
<1>5. PICK a : a = Linking(NewAction(t, last[t]), 0, 0)
  OBVIOUS
<1>6. PICK w : w = Buffered(With(Now, a), t)
  OBVIOUS
<1>7. PICK x : x = Empty(w, t)
  OBVIOUS
<1>8. PICK n : n = Len(acts) + 1
  OBVIOUS
<1>9. PICK y : y = fenceExecutionAnalysis(x, n)
  OBVIOUS
<1>10. Becomes(y)
  BY <1>5, <1>6, <1>7, <1>8, <1>9, LinkingNone DEF SeqCstStore
<1>11. PICK olw : olw = obj_to_last_write'
  OBVIOUS
<1>12. Planned(t, 0, 0, olw) /\ Pending(t).op \in Issues
  BY <1>2, <1>3, <1>11 DEF Planned, Issues, IssuedLast, IssuedNow
<1>13. /\ Good(w, 0, 0) /\ NoRMW(w) /\ Issued(w.acts, olw) /\ olw \in [Thread -> [Line -> Nat]]
       /\ Extended(acts, w.acts, a) /\ a.op = "seqcst" /\ a.t = t
  BY <1>3, <1>5, <1>6, <1>12, IssueStep
<1>14. /\ Good(x, 0, 0) /\ Frame(w, x) /\ NoRMW(x)
       /\ x.storeBuffer[t] = <<>> /\ x.flushBuffer[t] = <<>>
  BY <1>7, <1>13, EmptyIs
<1>15. /\ n \in Inds(w.acts) /\ w.acts[n] = a
       /\ \A k \in Inds(w.acts) : k = n \/ (k \in Inds(acts) /\ w.acts[k] = acts[k])
  BY <1>8, <1>13 DEF Extended
<1>16. /\ Inds(x.acts) = Inds(w.acts) /\ \A k \in Inds(w.acts) : x.acts[k].op = w.acts[k].op
       /\ x.acts \in Seq(Action) /\ w.acts \in Seq(Action)
  BY <1>13, <1>14, GoodIs DEF Frame, Inds
<1>17. n \in Inds(x.acts) /\ x.acts[n].op = "seqcst" /\ x.acts[n].t = t
  <2>1. Keeps(w.acts, x.acts)
    BY <1>14 DEF Frame
  <2> QED  BY <1>13, <1>15, <1>16, <2>1, KeepsIs
<1>18. x.acts[n].seq # 0
  <2>1. Waiting(x, 0)
    BY <1>14, GoodIs, CoreIs
  <2>2. Ordered(x.acts[n])
    BY <1>17 DEF Ordered, IsWrite
  <2>3. n # 0
    BY <1>16, <1>17, ActsIs
  <2>4. ~In(x.storeBuffer[t], n)
    BY <1>14, EmptyHasNone
  <2> QED  BY <1>17, <2>1, <2>2, <2>3, <2>4 DEF Waiting
<1>19. Good(y, 0, 0) /\ y.acts = x.acts /\ y.storeBuffer = x.storeBuffer
  <2>1. ~IsClflush(x.acts[n])
    BY <1>17 DEF IsClflush
  <2> QED  BY <1>9, <1>14, <1>17, <1>18, <2>1, FenceAnalysis
<1>20. NoRMW(y)
  BY <1>14, <1>19, AnalysedIssued
<1>21. Issued(y.acts, olw)
  BY <1>13, <1>14, <1>16, <1>19, FrameIssued
<1>22. \A k \in Inds(y.acts) : y.acts[k].op # "rmwr"
  <2>1. \A k \in Inds(acts) : acts[k].op # "rmwr"
    BY <1>2, <1>3, NoHalves
  <2> QED  BY <1>13, <1>15, <1>16, <1>19, <2>1
<1>23. Ranges'
  BY <1>2, <1>3, <1>4, RangesKept
<1>24. Pending(t).op \notin {"none", "rmwr"}
  BY <1>3
<1> QED  BY <1>2, <1>10, <1>11, <1>13, <1>19, <1>20, <1>21, <1>22, <1>23, <1>24, QuietStep

\* A thread's clock vector is merged with that of what it reads.
LEMMA ReadCVIs ==
  ASSUME NEW x, Good(x, 0, 0), NEW t \in Thread, NEW b \in Address, NEW q \in Nat, x.used =< q,
         last \in [Thread -> Clock], \A u \in Thread : last[t][u] =< q
  PROVE  ReadCV(x, t, b) \in Clock /\ \A u \in Thread : ReadCV(x, t, b)[u] =< q
<1>1. /\ x.acts \in Seq(Action) /\ x.used \in Nat /\ Clocks(x.acts, x.used)
      /\ Latest(x.acts, x.lastWrites)
  BY GoodIs, CoreIs DEF Analysed
<1>2. PICK A \in Seq(Action) : A = x.acts
  BY <1>1
<1>3. PICK c \in Clock : c = last[t]
  OBVIOUS
<1>4. CASE Writes(A, b) = {}
  <2>1. ReadCV(x, t, b) = c
    BY <1>2, <1>3, <1>4 DEF ReadCV
  <2> QED  BY <1>3, <2>1
<1>5. CASE Writes(A, b) # {}
  <2>1. PICK w : w = Newest(A, Writes(A, b))
    OBVIOUS
  <2>2. w \in Writes(A, b)
    <3>1. \E i \in Writes(A, b) : \A j \in Writes(A, b) : A[j].seq =< A[i].seq
      BY <1>1, <1>2, <1>5 DEF Latest
    <3> QED  BY <2>1, <3>1 DEF Newest
  <2>3. w \in Inds(A)
    BY <2>2, WritesIs
  <2>4. PICK d \in Clock : d = A[w].cv
    BY <2>3, ActsIs
  <2>5. \A u \in Thread : d[u] =< x.used
    BY <1>1, <1>2, <2>3, <2>4 DEF Clocks
  <2>6. PICK m : m = merge(c, d)
    OBVIOUS
  <2>7. m \in Clock /\ \A u \in Thread : m[u] = IF d[u] > c[u] THEN d[u] ELSE c[u]
    BY <2>4, <2>6 DEF merge, Clock
  <2>8. \A u \in Thread : m[u] =< q
    <3> SUFFICES ASSUME NEW u \in Thread PROVE m[u] =< q
      OBVIOUS
    <3>1. d[u] \in Nat /\ c[u] \in Nat
      BY <2>4 DEF Clock
    <3>2. d[u] =< x.used /\ c[u] =< q
      BY <1>3, <2>5
    <3> QED  BY <1>1, <2>7, <3>1, <3>2
  <2>9. ReadCV(x, t, b) = c \/ ReadCV(x, t, b) = m
    BY <1>2, <1>3, <2>1, <2>4, <2>6 DEF ReadCV
  <2> QED  BY <1>3, <2>7, <2>8, <2>9
<1> QED  BY <1>4, <1>5

\* A thread's clock vector is set.
LEMMA LastSet ==
  ASSUME NEW x, Good(x, 0, 0), NEW t \in Thread, NEW q \in Nat, x.used =< q, NEW c \in Clock,
         \A u \in Thread : c[u] =< q, NEW g, g = [x.last EXCEPT ![t] = c], NEW y,
         y = [x EXCEPT !.used = q, !.last = g] \/ (q = x.used /\ y = [x EXCEPT !.last = g])
  PROVE  /\ Good(y, 0, 0) /\ y.acts = x.acts /\ y.storeBuffer = x.storeBuffer
         /\ y.flushBuffer = x.flushBuffer
<1>1. /\ x \in State /\ x.acts \in Seq(Action) /\ x.used \in Nat /\ x.last \in [Thread -> Clock]
      /\ Acted(x.acts, x.used) /\ Buffers(x) /\ Waiting(x, 0)
      /\ \A v, u \in Thread : x.last[v][u] =< x.used
      /\ \A v \in Thread : x.lastsfence[v] \in 0 .. Len(x.acts)
      /\ Analysed(x) /\ FenceCredits(x.acts, x.flushmap, 0)
  BY StateIs DEF Good, Core
<1>2. /\ g \in [Thread -> Clock] /\ g[t] = c
      /\ \A v \in Thread : v # t => g[v] = x.last[v]
  BY <1>1
<1>3. /\ y \in State /\ y.acts = x.acts /\ y.used = q /\ y.last = g
      /\ y.storeBuffer = x.storeBuffer /\ y.flushBuffer = x.flushBuffer
      /\ y.lastsfence = x.lastsfence /\ y.begin = x.begin /\ y.lastWrites = x.lastWrites
      /\ y.flushmap = x.flushmap /\ y.pendingclwbs = x.pendingclwbs /\ y.aborted = x.aborted
  BY <1>1, <1>2 DEF State
<1>4. Acted(y.acts, q)
  <2>1. PICK A \in Seq(Action) : A = x.acts
    BY <1>1
  <2>2. Keeps(A, A) /\ Acted(A, x.used)
    BY <1>1, <2>1, KeepsSelf
  <2>3. Acted(A, q)
    BY <1>1, <2>2, ActedKept
  <2> QED  BY <1>3, <2>1, <2>3
<1>5. \A v, u \in Thread : y.last[v][u] =< y.used
  <2> SUFFICES ASSUME NEW v \in Thread, NEW u \in Thread PROVE g[v][u] =< q
    BY <1>3
  <2>1. CASE v = t
    BY <1>2, <2>1
  <2>2. CASE v # t
    <3>1. x.last[v][u] \in Nat /\ x.last[v][u] =< x.used /\ g[v] = x.last[v]
      BY <1>1, <1>2, <2>2 DEF Clock
    <3> QED  BY <1>1, <3>1
  <2> QED  BY <2>1, <2>2
<1>6. Buffers(y) /\ Waiting(y, 0)
  BY <1>1, <1>3 DEF Buffers, Waiting
<1>7. Core(y, 0)
  BY <1>1, <1>3, <1>4, <1>5, <1>6 DEF Core
<1>8. Analysed(y) /\ FenceCredits(y.acts, y.flushmap, 0)
  BY <1>1, <1>3, Zenon DEF Analysed
<1> QED  BY <1>3, <1>7, <1>8 DEF Good

LEMMA ReadKeeps ==
  ASSUME IInv, NEW t \in Thread, Read(t)
  PROVE  IInv'
<1>1. PICK kinds : kinds = {"load"}
  OBVIOUS
<1>2. Does(t, kinds) /\ UNCHANGED obj_to_last_write /\ NoRange
  BY <1>1 DEF Read
<1>3. /\ phase = "running" /\ Pending(t).op = "load" /\ Typed
      /\ lastFlush' = lastFlush /\ atomicSeen' = atomicSeen
  BY <1>1, <1>2, DoesIs
<1>4. /\ Good(Now, 0, 0) /\ NoRMW(Now) /\ Ranges /\ Issued(acts, obj_to_last_write)
      /\ obj_to_last_write \in [Thread -> [Line -> Nat]] /\ used \in Nat
      /\ last \in [Thread -> Clock] /\ \A u, v \in Thread : last[u][v] =< used
  BY <1>3, RunningIs
<1>5. PICK b \in Address : b = Pending(t).b
  <2>1. Pending(t).op # "none" /\ Pending(t).op \in Accesses
    BY <1>3 DEF Accesses
  <2> QED  BY <1>3, <2>1, PendingIs
<1>6. PICK x : x = Now
  OBVIOUS
<1>7. PICK q \in Nat : q = used
  BY <1>4
<1>8. PICK r : r = ReadCV(x, t, b)
  OBVIOUS
<1>9. r \in Clock /\ \A u \in Thread : r[u] =< q
  <2>1. Good(x, 0, 0) /\ x.used =< q
    BY <1>4, <1>6, <1>7, NowIs
  <2>2. \A u \in Thread : last[t][u] =< q
    BY <1>4, <1>7
  <2> QED  BY <1>4, <1>8, <2>1, <2>2, ReadCVIs
<1>10. PICK c : c = [r EXCEPT ![t] = q + 1]
  OBVIOUS
<1>11. c \in Clock /\ \A u \in Thread : c[u] =< q + 1
  <2>1. c \in Clock /\ c[t] = q + 1 /\ \A u \in Thread : u # t => c[u] = r[u]
    BY <1>9, <1>10 DEF Clock
  <2>2. \A u \in Thread : r[u] \in Nat
    BY <1>9 DEF Clock
  <2>3. \A m, k \in Nat : m =< k => m =< k + 1
    OBVIOUS
  <2> QED  BY <1>9, <2>1, <2>2, <2>3
<1>12. PICK g : g = [last EXCEPT ![t] = c]
  OBVIOUS
<1>13. PICK y : y = [x EXCEPT !.used = q + 1, !.last = g]
  OBVIOUS
<1>14. Becomes(y)
  BY <1>5, <1>6, <1>7, <1>8, <1>10, <1>12, <1>13 DEF Read
<1>15. /\ Good(y, 0, 0) /\ y.acts = x.acts /\ y.storeBuffer = x.storeBuffer
  <2>1. PICK q1 \in Nat : q1 = q + 1
    OBVIOUS
  <2>2. Good(x, 0, 0)
    BY <1>4, <1>6
  <2>3. x.used =< q1
    BY <1>6, <1>7, <2>1, NowIs
  <2>4. g = [x.last EXCEPT ![t] = c]
    BY <1>6, <1>12, NowIs
  <2>5. \A u \in Thread : c[u] =< q1
    BY <1>11, <2>1
  <2>6. y = [x EXCEPT !.used = q1, !.last = g]
    BY <1>13, <2>1
  <2>7. Good(y, 0, 0)
    BY <1>11, <2>2, <2>3, <2>4, <2>5, <2>6, LastSet
  <2>8. y.acts = x.acts /\ y.storeBuffer = x.storeBuffer
    <3>1. x \in State
      BY <2>2, GoodIs
    <3> QED  BY <2>6, <3>1 DEF State
  <2> QED  BY <2>7, <2>8
<1>16. NoRMW(y) /\ Issued(y.acts, obj_to_last_write) /\ y.acts = acts
  BY <1>4, <1>6, <1>15, NowIs DEF NoRMW
<1>17. \A k \in Inds(y.acts) : y.acts[k].op # "rmwr"
  BY <1>2, <1>3, <1>16, NoHalves
<1>18. Ranges'
  BY <1>2, <1>3, <1>4, RangesKept
<1>19. /\ obj_to_last_write' \in [Thread -> [Line -> Nat]] /\ Issued(y.acts, obj_to_last_write')
       /\ Pending(t).op \notin {"none", "rmwr"}
  BY <1>2, <1>3, <1>4, <1>16
<1> QED  BY <1>2, <1>14, <1>15, <1>16, <1>17, <1>18, <1>19, QuietStep

\* The first half of an RMW.
LEMMA RMWReadKeeps ==
  ASSUME IInv, NEW t \in Thread, RMWRead(t)
  PROVE  IInv'
<1>1. PICK kinds : kinds = {"rmwr"}
  OBVIOUS
<1>2. Does(t, kinds) /\ UNCHANGED obj_to_last_write /\ NoRange
  BY <1>1 DEF RMWRead
<1>3. /\ phase = "running" /\ phase' = phase /\ prog' = prog /\ report' = report
      /\ Pending(t).op = "rmwr" /\ pc' = [pc EXCEPT ![t] = @ + 1] /\ Typed
      /\ \A u \in Thread \ {t} : ~HalfWay(u)
      /\ lastFlush' = lastFlush /\ atomicSeen' = atomicSeen
  BY <1>1, <1>2, DoesIs
<1>4. /\ Good(Now, 0, 0) /\ NoRMW(Now) /\ Ranges /\ acts \in Seq(Action) /\ used \in Nat
      /\ obj_to_last_write \in [Thread -> [Line -> Nat]]
      /\ last \in [Thread -> Clock] /\ \A u, v \in Thread : last[u][v] =< used
  BY <1>3, RunningIs
<1>5. PICK b \in Address : b = Pending(t).b
  <2>1. Pending(t).op # "none" /\ Pending(t).op \in Accesses
    BY <1>3 DEF Accesses
  <2> QED  BY <1>3, <2>1, PendingIs
<1>6. PICK x : x = Empty(Now, t)
  OBVIOUS
<1>7. Good(x, 0, 0) /\ Frame(Now, x) /\ NoRMW(x) /\ x.storeBuffer[t] = <<>> /\ x.flushBuffer[t] = <<>>
  <2>1. PICK w : w = Now
    OBVIOUS
  <2>2. Good(w, 0, 0) /\ NoRMW(w) /\ x = Empty(w, t)
    BY <1>4, <1>6, <2>1
  <2> QED  BY <2>1, <2>2, EmptyIs
<1>8. PICK q \in Nat : q = x.used /\ used =< q
  BY <1>7, NowIs DEF Frame
<1>9. PICK r : r = ReadCV(x, t, b)
  OBVIOUS
<1>10. r \in Clock /\ \A u \in Thread : r[u] =< q
  <2>1. \A u \in Thread : last[t][u] =< q
    <3>1. \A u \in Thread : last[t][u] \in Nat
      BY <1>4 DEF Clock
    <3>2. \A m \in Nat : m =< used => m =< q
      BY <1>4, <1>8
    <3> QED  BY <1>4, <3>1, <3>2
  <2>2. Good(x, 0, 0) /\ x.used =< q
    BY <1>7, <1>8
  <2> QED  BY <1>4, <1>9, <2>1, <2>2, ReadCVIs
<1>11. PICK c : c = [r EXCEPT ![t] = 0]
  OBVIOUS
<1>12. c \in Clock /\ \A u \in Thread : c[u] =< q
  <2>1. c \in Clock /\ c[t] = 0 /\ \A u \in Thread : u # t => c[u] = r[u]
    BY <1>10, <1>11 DEF Clock
  <2> QED  BY <1>10, <2>1
<1>13. PICK a : a = NewAction(t, c)
  OBVIOUS
<1>14. PICK z : z = With(x, a)
  OBVIOUS
<1>15. /\ Good(z, 0, 0) /\ NoRMW(z) /\ Issued(z.acts, obj_to_last_write)
       /\ Extended(x.acts, z.acts, a) /\ a.op = "rmwr" /\ a.t = t /\ a.seq = 0
       /\ a.b = Pending(t).b /\ a.n = Pending(t).n
       /\ z.storeBuffer = x.storeBuffer /\ z.flushBuffer = x.flushBuffer
       /\ z.used = x.used /\ z.last = x.last
  <2>1. Pending(t).op \in {"mfence", "rmwr"} /\ phase = "running"
    BY <1>3
  <2>2. Good(x, 0, 0) /\ NoRMW(x) /\ Frame(Now, x)
    BY <1>7
  <2>3. \A u \in Thread : c[u] =< x.used
    BY <1>8, <1>12
  <2>4. Good(z, 0, 0) /\ NoRMW(z) /\ Issued(z.acts, obj_to_last_write)
    BY <1>12, <1>13, <1>14, <2>1, <2>2, <2>3, AddStep
  <2>5. Extended(x.acts, z.acts, a) /\ a.op = Pending(t).op /\ a.t = t /\ a.seq = 0
    BY <1>12, <1>13, <1>14, <2>1, <2>2, <2>3, AddStep
  <2>6. a.b = Pending(t).b /\ a.n = Pending(t).n
    BY <1>12, <1>13, <1>14, <2>1, <2>2, <2>3, AddStep
  <2>7. /\ z.storeBuffer = x.storeBuffer /\ z.flushBuffer = x.flushBuffer
        /\ z.used = x.used /\ z.last = x.last
    BY <1>12, <1>13, <1>14, <2>1, <2>2, <2>3, AddStep
  <2> QED  BY <1>3, <2>4, <2>5, <2>6, <2>7
<1>16. PICK g : g = [z.last EXCEPT ![t] = c]
  OBVIOUS
<1>17. PICK y : y = [z EXCEPT !.last = g]
  OBVIOUS
<1>18. Becomes(y)
  <2>1. Becomes([With(x, NewAction(t, c)) EXCEPT !.last = [@ EXCEPT ![t] = c]])
    BY <1>5, <1>6, <1>9, <1>11 DEF RMWRead
  <2>2. [With(x, NewAction(t, c)) EXCEPT !.last = [@ EXCEPT ![t] = c]] = y
    BY <1>13, <1>14, <1>16, <1>17
  <2> QED  BY <2>1, <2>2
<1>19. z \in State
  BY <1>15, GoodIs
<1>20. y.acts = z.acts /\ y.storeBuffer = z.storeBuffer /\ y.flushBuffer = z.flushBuffer
  BY <1>17, <1>19 DEF State
<1>21. Good(y, 0, 0)
  <2>1. Good(z, 0, 0)
    BY <1>15
  <2>2. z.used =< q
    BY <1>8, <1>15
  <2>3. q = z.used /\ y = [z EXCEPT !.last = g]
    BY <1>8, <1>15, <1>17
  <2>4. \A u \in Thread : c[u] =< q
    BY <1>12
  <2> QED  BY <1>12, <1>16, <2>1, <2>2, <2>3, <2>4, LastSet
<1>22. NoRMW(y) /\ Issued(y.acts, obj_to_last_write)
  BY <1>15, <1>20 DEF NoRMW
<1>23. /\ HalfWay(t)' /\ Pending(t)'.b = Pending(t).b /\ Pending(t)'.n = Pending(t).n
       /\ \A u \in Thread : u # t => ~HalfWay(u)'
       /\ pc' \in [Thread -> Nat \ {0}]
  <2>1. Pending(t).op # "none" /\ Pending(t).op = "rmwr"
    BY <1>3
  <2>2. Typed /\ prog' = prog /\ pc' = [pc EXCEPT ![t] = @ + 1]
    BY <1>3
  <2>3. HalfWay(t)' /\ Pending(t)'.b = Pending(t).b /\ Pending(t)'.n = Pending(t).n
    BY <2>1, <2>2, NextIs
  <2>4. \A u \in Thread : u # t => (HalfWay(u)' <=> HalfWay(u))
    BY <2>1, <2>2, NextIs
  <2>5. pc' \in [Thread -> Nat \ {0}]
    BY <2>1, <2>2, NextIs
  <2> QED  BY <1>3, <2>3, <2>4, <2>5
<1>24. PICK n : n = Len(y.acts)
  OBVIOUS
<1>25. /\ n \in Inds(y.acts) /\ y.acts[n] = a
       /\ \A k \in Inds(y.acts) : k = n \/ (k \in Inds(x.acts) /\ y.acts[k] = x.acts[k])
  BY <1>15, <1>20, <1>24 DEF Extended
<1>26. \A k \in Inds(x.acts) : x.acts[k].op # "rmwr"
  <2>1. Pending(t).op \notin {"rmw", "casfail"}
    BY <1>3
  <2>2. \A k \in Inds(acts) : acts[k].op # "rmwr"
    BY <1>2, <2>1, NoHalves
  <2> QED  BY <1>7, <2>2, NowIs DEF Frame, Inds
<1>27. /\ acts' = y.acts /\ storeBuffer' = y.storeBuffer /\ flushBuffer' = y.flushBuffer
  BY <1>18 DEF Becomes
<1>28. Halves'
  <2>1. \A k \in Inds(acts') : acts'[k].op = "rmwr" => k = Len(acts') /\ acts'[k].t = t
    BY <1>15, <1>24, <1>25, <1>26, <1>27
  <2>2. \A k \in Inds(acts') : acts'[k].op = "rmwr" => k = Len(acts') /\ HalfWay(acts[k].t)'
    <3> SUFFICES ASSUME NEW k \in Inds(acts'), acts'[k].op = "rmwr" PROVE HalfWay(acts[k].t)'
      BY <2>1
    <3>1. acts'[k].t = t
      BY <2>1
    <3> QED  BY <1>23, <3>1 DEF HalfWay, Pending, At
  <2>3. /\ Len(acts') \in Inds(acts') /\ acts'[Len(acts')].op = "rmwr" /\ acts'[Len(acts')].t = t
        /\ acts'[Len(acts')].seq = 0 /\ acts'[Len(acts')].b = Pending(t)'.b
        /\ acts'[Len(acts')].n = Pending(t)'.n
        /\ storeBuffer'[t] = <<>> /\ flushBuffer'[t] = <<>>
    BY <1>7, <1>15, <1>20, <1>23, <1>24, <1>25, <1>27
  <2>4. \A u \in Thread : HalfWay(u)' => u = t
    BY <1>23
  <2>5. \A u \in Thread : HalfWay(u)' =>
          /\ Len(acts') \in Inds(acts') /\ acts'[Len(acts')].op = "rmwr" /\ acts'[Len(acts')].t = u
          /\ acts'[Len(acts')].seq = 0 /\ acts'[Len(acts')].b = Pending(u)'.b
          /\ acts'[Len(acts')].n = Pending(u)'.n
          /\ storeBuffer'[u] = <<>> /\ flushBuffer'[u] = <<>>
    BY <2>3, <2>4
  <2> QED  BY <2>2, <2>5 DEF Halves, HalfWay, Pending
<1>29. Ranges'
  BY <1>2, <1>3, <1>4, RangesKept
<1>30. /\ obj_to_last_write' \in [Thread -> [Line -> Nat]] /\ Issued(y.acts, obj_to_last_write')
  BY <1>2, <1>4, <1>22
<1>31. phase = "running" /\ phase' = phase /\ prog' = prog /\ pc' \in [Thread -> Nat \ {0}]
       /\ report' = report
  BY <1>3, <1>23
<1> QED  BY <1>18, <1>21, <1>22, <1>28, <1>29, <1>30, <1>31, RunStep

\* Where the first half of an RMW is.
LEMMA HalfIs ==
  ASSUME IInv, phase = "running", NEW t \in Thread, HalfWay(t), NEW i, i = HalfOf(t)
  PROVE  /\ i \in Inds(acts) /\ i = Len(acts) /\ acts[i].op = "rmwr" /\ acts[i].t = t
         /\ acts[i].seq = 0 /\ acts[i].b = Pending(t).b /\ acts[i].n = Pending(t).n
         /\ storeBuffer[t] = <<>> /\ flushBuffer[t] = <<>>
         /\ \A k \in Inds(acts) : k # i => acts[k].op # "rmwr"
<1>1. Halves /\ acts \in Seq(Action)
  BY RunningIs
<1>2. PICK k : k = Len(acts)
  OBVIOUS
<1>3. /\ k \in Inds(acts) /\ acts[k].op = "rmwr" /\ acts[k].t = t
      /\ acts[k].seq = 0 /\ acts[k].b = Pending(t).b /\ acts[k].n = Pending(t).n
      /\ storeBuffer[t] = <<>> /\ flushBuffer[t] = <<>>
  BY <1>1, <1>2 DEF Halves
<1>4. \A j \in Inds(acts) : acts[j].op = "rmwr" => j = k
  BY <1>1, <1>2 DEF Halves
<1>5. i = k
  <2>1. \A j \in DOMAIN acts : acts[j].t = t /\ acts[j].op = "rmwr" <=> j = k
    BY <1>1, <1>3, <1>4, ActsIs
  <2>2. k \in DOMAIN acts
    BY <1>1, <1>3, ActsIs
  <2> QED  BY <2>1, <2>2 DEF HalfOf
<1> QED  BY <1>2, <1>3, <1>4, <1>5

HalfTo(i, o) == [acts EXCEPT ![i].op = o]

\* What it becomes: only its kind changes.
LEMMA HalfBecomes ==
  ASSUME IInv, phase = "running", NEW t \in Thread, HalfWay(t), NEW i, i = HalfOf(t),
         NEW o \in {"rmw", "casread"}, NEW B, B = HalfTo(i, o)
  PROVE  /\ B \in Seq(Action) /\ Len(B) = Len(acts) /\ Keeps(acts, B)
         /\ \A k \in Inds(acts) : k # i => B[k] = acts[k]
         /\ B[i].op = o /\ B[i].t = t /\ B[i].seq = 0 /\ LineOf(B[i]) = getCacheID(Pending(t).b)
         /\ Acted(B, used) /\ Only(acts, B, 0)
         /\ \A x : x.acts = B /\ x.lastWrites = lastWrites /\ x.flushmap = flushmap
                     /\ x.pendingclwbs = pendingclwbs
                   => Analysed(x) /\ FenceCredits(B, flushmap, 0)
<1>1. /\ i \in Inds(acts) /\ i = Len(acts) /\ acts[i].op = "rmwr" /\ acts[i].t = t
      /\ acts[i].seq = 0 /\ acts[i].b = Pending(t).b
  BY HalfIs
<1>2. acts \in Seq(Action) /\ used \in Nat /\ Good(Now, 0, 0)
  BY RunningIs
<1>3. PICK a : a = acts[i]
  OBVIOUS
<1>4. PICK d : d = [a EXCEPT !.op = o]
  OBVIOUS
<1>5. /\ d \in Action /\ d.op = o /\ d.b = a.b /\ d.n = a.n /\ d.t = a.t /\ d.seq = a.seq
      /\ d.cv = a.cv /\ d.lastwrite = a.lastwrite
      /\ d.lastcommittedWrite = a.lastcommittedWrite /\ d.last_clflush = a.last_clflush
  <2>1. a \in Action
    BY <1>1, <1>2, <1>3, ActsIs
  <2>2. o \in Kinds
    BY DEF Kinds
  <2> QED  BY <1>4, <2>1, <2>2 DEF Action
<1>6. B = [acts EXCEPT ![i] = d]
  BY <1>3, <1>4 DEF HalfTo
<1>7. /\ B \in Seq(Action) /\ Len(B) = Len(acts) /\ B[i] = d
      /\ \A k \in Inds(acts) : k # i => B[k] = acts[k]
  <2>1. i \in 1 .. Len(acts)
    BY <1>1 DEF Inds
  <2> QED  BY <1>2, <1>5, <1>6, <2>1, ExceptSeq DEF Inds
<1>8. Keeps(acts, B)
  <2>1. \A k \in Inds(acts) : acts[k].seq # 0 => k # i
    BY <1>1
  <2>2. Len(acts) \in Nat
    BY <1>2, LenProperties
  <2> QED  BY <1>1, <1>3, <1>5, <1>7, <2>1, <2>2 DEF Keeps
<1>9. \A k \in Inds(acts) : B[k].seq = acts[k].seq /\ B[k].cv = acts[k].cv
  BY <1>3, <1>5, <1>7
<1>10. Acted(acts, used)
  BY <1>2, NowIs DEF Good, Core
<1>11. Acted(B, used) /\ Only(acts, B, 0)
  <2>1. \A k \in Inds(B) : k \in Inds(acts)
    BY <1>7 DEF Inds
  <2>2. PICK A \in Seq(Action), q \in Nat : A = acts /\ q = used
    BY <1>2
  <2>3. Acted(A, q) /\ Keeps(A, B) /\ q =< q /\ B \in Seq(Action)
    BY <1>7, <1>8, <1>10, <2>2
  <2>4. \A k \in Inds(A) : B[k].seq = A[k].seq /\ B[k].cv = A[k].cv
    BY <1>9, <2>2
  <2>5. \A k \in Inds(B) : k \notin Inds(A) => Made(B, k, q)
    BY <2>1, <2>2
  <2>6. Acted(B, q) /\ Only(A, B, 0)
    BY <2>3, <2>4, <2>5, ActedKept
  <2> QED  BY <2>2, <2>6
<1>12. \A x : x.acts = B /\ x.lastWrites = lastWrites /\ x.flushmap = flushmap
                /\ x.pendingclwbs = pendingclwbs
              => Analysed(x) /\ FenceCredits(B, flushmap, 0)
  <2> SUFFICES ASSUME NEW x, x.acts = B, x.lastWrites = lastWrites, x.flushmap = flushmap,
                      x.pendingclwbs = pendingclwbs
               PROVE  Analysed(x) /\ FenceCredits(B, flushmap, 0)
    OBVIOUS
  <2>1. PICK w : w = Now
    OBVIOUS
  <2>2. PICK A \in Seq(Action) : A = acts
    BY <1>2
  <2>3. w.acts = A /\ x.lastWrites = w.lastWrites /\ x.flushmap = w.flushmap
        /\ x.pendingclwbs = w.pendingclwbs
    BY <2>1, <2>2, NowIs
  <2>4. Analysed(w) /\ FenceCredits(A, w.flushmap, 0)
    BY <1>2, <2>1, <2>3 DEF Good
  <2>5. Fits(A) /\ Linked(A) /\ InOrder(A) /\ Keeps(A, B) /\ Only(A, B, 0)
    BY <1>8, <1>10, <1>11, <2>2 DEF Acted
  <2>6. Analysed(x) /\ FenceCredits(B, x.flushmap, 0)
    BY <1>7, <2>3, <2>4, <2>5, AnalysisKept
  <2> QED  BY <2>6
<1>13. LineOf(B[i]) = getCacheID(Pending(t).b)
  BY <1>1, <1>3, <1>5, <1>7 DEF LineOf
<1> QED  BY <1>1, <1>3, <1>5, <1>7, <1>8, <1>11, <1>12, <1>13

HalfState(B, s) == [Now EXCEPT !.acts = B, !.storeBuffer = s]

\* An RMW waits in the store buffer, a failed CAS in none.
LEMMA HalfGood ==
  ASSUME IInv, phase = "running", NEW t \in Thread, HalfWay(t), NEW i, i = HalfOf(t),
         NEW o \in {"rmw", "casread"}, NEW B, B = HalfTo(i, o),
         NEW s \in [Thread -> Seq(Nat)], \A u \in Thread : u # t => s[u] = storeBuffer[u],
         s[t] = IF o = "rmw" THEN <<i>> ELSE <<>>,
         NEW w, w = HalfState(B, s)
  PROVE  /\ Good(w, 0, 0) /\ w.acts = B /\ w.storeBuffer = s /\ w.flushBuffer = flushBuffer
         /\ w.used = used /\ w.lastWrites = lastWrites
<1>1. /\ i \in Inds(acts) /\ i = Len(acts) /\ acts[i].op = "rmwr" /\ acts[i].t = t
      /\ acts[i].seq = 0 /\ storeBuffer[t] = <<>> /\ flushBuffer[t] = <<>>
  BY HalfIs
<1>2. /\ Good(Now, 0, 0) /\ acts \in Seq(Action) /\ used \in Nat /\ Now \in State
      /\ last \in [Thread -> Clock]
      /\ storeBuffer \in [Thread -> Seq(Nat)] /\ flushBuffer \in [Thread -> Seq(Nat)]
  BY RunningIs
<1>3. /\ B \in Seq(Action) /\ Len(B) = Len(acts) /\ \A k \in Inds(acts) : k # i => B[k] = acts[k]
      /\ B[i].op = o /\ B[i].t = t /\ B[i].seq = 0
  BY HalfBecomes
<1>4. Acted(B, used)
  BY HalfBecomes
<1>5. /\ w \in State /\ w.acts = B /\ w.storeBuffer = s /\ w.flushBuffer = flushBuffer
      /\ w.used = used /\ w.last = last /\ w.lastsfence = lastsfence
      /\ w.lastWrites = lastWrites /\ w.flushmap = flushmap /\ w.pendingclwbs = pendingclwbs
  BY <1>2, <1>3, NowIs DEF State, HalfState
<1>6. Analysed(w) /\ FenceCredits(w.acts, w.flushmap, 0)
  <2>1. \A x : x.acts = B /\ x.lastWrites = lastWrites /\ x.flushmap = flushmap
                 /\ x.pendingclwbs = pendingclwbs
               => Analysed(x) /\ FenceCredits(B, flushmap, 0)
    BY HalfBecomes
  <2> QED  BY <1>5, <2>1
<1>7. /\ BuffersIn(acts, storeBuffer, flushBuffer) /\ Waiting(Now, 0)
      /\ \A u \in Thread : lastsfence[u] \in 0 .. Len(acts)
      /\ \A u, v \in Thread : last[u][v] =< used
  BY <1>2, NowIs DEF Good, Core, Buffers
<1>8. BuffersIn(B, s, flushBuffer)
  <2> SUFFICES ASSUME NEW u \in Thread
               PROVE  /\ Increasing(s[u]) /\ Increasing(flushBuffer[u])
                      /\ \A j \in Inds(s[u]) :
                           LET k == s[u][j]
                           IN  /\ k \in Inds(B) /\ B[k].t = u /\ B[k].seq = 0
                               /\ Ordered(B[k]) \/ B[k].op \in {"sfence", "clwb"}
                               /\ \A m \in Inds(flushBuffer[u]) : flushBuffer[u][m] < k
                               /\ \A m \in Inds(B) : B[m].t = u /\ B[m].seq # 0 => m < k
                      /\ \A j \in Inds(flushBuffer[u]) :
                           LET k == flushBuffer[u][j]
                           IN  /\ k \in Inds(B) /\ B[k].t = u /\ B[k].seq = 0 /\ B[k].op = "clwb"
                               /\ \A m \in Inds(B) :
                                    B[m].t = u /\ B[m].seq # 0 /\ IsFence(B[m]) => m < k
    BY Zenon DEF BuffersIn
  <2>0. Inds(B) = Inds(acts)
    BY <1>3 DEF Inds
  <2>1. CASE u # t
    <3>1. \A k \in Inds(acts) : acts[k].t = u => B[k] = acts[k]
      BY <1>1, <1>3, <2>1
    <3>2. \A k \in Inds(acts) : B[k].t = u => B[k] = acts[k]
      BY <1>3, <2>1
    <3>3. s[u] = storeBuffer[u]
      BY <2>1
    <3>4. /\ Increasing(storeBuffer[u]) /\ Increasing(flushBuffer[u])
          /\ \A j \in Inds(storeBuffer[u]) :
               LET k == storeBuffer[u][j]
               IN  /\ k \in Inds(acts) /\ acts[k].t = u /\ acts[k].seq = 0
                   /\ Ordered(acts[k]) \/ acts[k].op \in {"sfence", "clwb"}
                   /\ \A m \in Inds(flushBuffer[u]) : flushBuffer[u][m] < k
                   /\ \A m \in Inds(acts) : acts[m].t = u /\ acts[m].seq # 0 => m < k
          /\ \A j \in Inds(flushBuffer[u]) :
               LET k == flushBuffer[u][j]
               IN  /\ k \in Inds(acts) /\ acts[k].t = u /\ acts[k].seq = 0 /\ acts[k].op = "clwb"
                   /\ \A m \in Inds(acts) :
                        acts[m].t = u /\ acts[m].seq # 0 /\ IsFence(acts[m]) => m < k
      BY <1>7, Zenon DEF BuffersIn
    <3>5. /\ \A j \in Inds(s[u]) :
               LET k == s[u][j]
               IN  /\ k \in Inds(B) /\ B[k].t = u /\ B[k].seq = 0
                   /\ Ordered(B[k]) \/ B[k].op \in {"sfence", "clwb"}
                   /\ \A m \in Inds(flushBuffer[u]) : flushBuffer[u][m] < k
      BY <2>0, <3>1, <3>3, <3>4
    <3>6. \A j \in Inds(s[u]) : \A m \in Inds(B) : B[m].t = u /\ B[m].seq # 0 => m < s[u][j]
      BY <2>0, <3>2, <3>3, <3>4
    <3>7. \A j \in Inds(flushBuffer[u]) :
            LET k == flushBuffer[u][j]
            IN  /\ k \in Inds(B) /\ B[k].t = u /\ B[k].seq = 0 /\ B[k].op = "clwb"
      BY <2>0, <3>1, <3>4
    <3>8. \A j \in Inds(flushBuffer[u]) : \A m \in Inds(B) :
            B[m].t = u /\ B[m].seq # 0 /\ IsFence(B[m]) => m < flushBuffer[u][j]
      BY <2>0, <3>2, <3>4
    <3> QED  BY <3>3, <3>4, <3>5, <3>6, <3>7, <3>8
  <2>2. CASE u = t
    <3>1. flushBuffer[u] = <<>>
      BY <1>1, <2>2
    <3>2. CASE o = "casread"
      <4>1. s[u] = <<>>
        BY <2>2, <3>2
      <4> QED  BY <3>1, <4>1, EmptyHasNone
    <3>3. CASE o = "rmw"
      <4>1. s[u] = <<i>>
        BY <2>2, <3>3
      <4>2. /\ Increasing(s[u]) /\ \A j \in Inds(s[u]) : s[u][j] = i
        BY <4>1 DEF Increasing, Inds
      <4>3. Ordered(B[i])
        BY <1>3, <3>3 DEF Ordered, IsWrite
      <4>4. \A m \in Inds(B) : B[m].seq # 0 => m < i
        <5>1. \A m \in Inds(B) : B[m].seq # 0 => m # i
          BY <1>3
        <5>2. \A m \in Inds(acts) : m # i => m < i
          <6>1. PICK n \in Nat : n = Len(acts)
            BY <1>2, LenProperties
          <6>2. \A m \in 1 .. n : m # n => m < n
            OBVIOUS
          <6> QED  BY <1>1, <6>1, <6>2 DEF Inds
        <5> QED  BY <2>0, <5>1, <5>2
      <4>5. /\ \A j \in Inds(s[u]) :
                 /\ s[u][j] \in Inds(B) /\ B[s[u][j]].t = u /\ B[s[u][j]].seq = 0
                 /\ Ordered(B[s[u][j]])
                 /\ \A m \in Inds(B) : B[m].t = u /\ B[m].seq # 0 => m < s[u][j]
        BY <1>1, <1>3, <2>0, <2>2, <4>2, <4>3, <4>4
      <4> QED  BY <3>1, <4>2, <4>5, EmptyHasNone
    <3> QED  BY <3>2, <3>3
  <2> QED  BY <2>1, <2>2
<1>9. Waiting(w, 0)
  <2> SUFFICES ASSUME NEW k \in Inds(B), k # 0, B[k].seq = 0
               PROVE  /\ Ordered(B[k]) => In(s[B[k].t], k)
                      /\ B[k].op = "clwb" => In(s[B[k].t], k) \/ In(flushBuffer[B[k].t], k)
    BY <1>5 DEF Waiting
  <2>1. k \in Inds(acts)
    BY <1>3 DEF Inds
  <2>2. CASE k = i
    <3>1. B[k].op # "clwb" /\ B[k].t = t
      BY <1>3, <2>2
    <3>2. Ordered(B[k]) => o = "rmw"
      BY <1>3, <2>2 DEF Ordered, IsWrite, IsClflush
    <3>3. o = "rmw" => In(s[t], i)
      <4> SUFFICES ASSUME o = "rmw" PROVE In(s[t], i)
        OBVIOUS
      <4>1. s[t] = <<i>>
        OBVIOUS
      <4> QED  BY <4>1 DEF In, Inds
    <3> QED  BY <2>2, <3>1, <3>2, <3>3
  <2>3. CASE k # i
    <3>1. B[k] = acts[k]
      BY <1>3, <2>1, <2>3
    <3>2. /\ Ordered(B[k]) => In(storeBuffer[B[k].t], k)
          /\ B[k].op = "clwb" => In(storeBuffer[B[k].t], k) \/ In(flushBuffer[B[k].t], k)
      BY <1>7, <2>1, <3>1, NowIs DEF Waiting
    <3>3. B[k].t \in Thread
      BY <1>3, ActsIs
    <3>4. CASE B[k].t = t
      BY <1>1, <3>2, <3>4, EmptyHasNone
    <3>5. CASE B[k].t # t
      BY <3>2, <3>3, <3>5
    <3> QED  BY <3>4, <3>5
  <2> QED  BY <2>2, <2>3
<1>10. Core(w, 0)
  BY <1>3, <1>4, <1>5, <1>7, <1>8, <1>9 DEF Core, Buffers
<1> QED  BY <1>5, <1>6, <1>10 DEF Good

LEMMA OnePopped ==
  ASSUME NEW w, NEW t, NEW n \in Nat, n = Len(w.storeBuffer[t]), NEW y, y = emptyStoreBuffer(w, t)
  PROVE  n = 1 => y = popFromStoreBuffer(w, t)
<1>1. PICK f : /\ f[0] = w /\ y = f[n]
               /\ \A k \in 0 .. (n - 1) : f[k + 1] = popFromStoreBuffer(f[k], t)
  BY EmptyingIs
<1>2. ASSUME n = 1 PROVE y = popFromStoreBuffer(w, t)
  <2>1. 0 \in 0 .. (n - 1) /\ 0 + 1 = n
    BY <1>2
  <2>2. f[0 + 1] = popFromStoreBuffer(f[0], t)
    BY <1>1, <2>1
  <2> QED  BY <1>1, <2>1, <2>2, Zenon
<1> QED  BY <1>2

Alone(s, i) == s = <<i>>

\* An RMW that is alone in the buffers of its thread leaves them.
LEMMA EmptyOfRMW ==
  ASSUME NEW w, Good(w, 0, 0), NEW t \in Thread, NEW i, Alone(w.storeBuffer[t], i),
         w.flushBuffer[t] = <<>>, w.acts[i].op = "rmw", w.acts[i].t = t, i \in Inds(w.acts),
         NEW x, x = Empty(w, t)
  PROVE  /\ Good(x, 0, i) /\ Frame(w, x) /\ x.storeBuffer[t] = <<>>
         /\ \A u \in Thread : u # t => x.storeBuffer[u] = w.storeBuffer[u]
         /\ x.acts[i].seq = x.used /\ x.acts[i].seq # 0
<1>1. PICK y : y = emptyStoreBuffer(w, t)
  OBVIOUS
<1>2. y = popFromStoreBuffer(w, t)
  <2>1. PICK n \in Nat : n = Len(w.storeBuffer[t]) /\ n = 1
    BY DEF Alone
  <2> QED  BY <1>1, <2>1, OnePopped
<1>3. Head(w.storeBuffer[t]) = i /\ Tail(w.storeBuffer[t]) = <<>> /\ w.storeBuffer[t] # <<>>
  BY DEF Alone
<1>4. Ordered(w.acts[i]) /\ IsWrite(w.acts[i])
  BY DEF Ordered, IsWrite
<1>5. /\ Good(y, 0, i) /\ Frame(w, y) /\ y.storeBuffer[t] = <<>>
      /\ \A u \in Thread : u # t => y.storeBuffer[u] = w.storeBuffer[u]
      /\ y.flushBuffer = w.flushBuffer /\ y.acts[i].seq = y.used
  <2>1. PICK j : j = Head(w.storeBuffer[t])
    OBVIOUS
  <2>2. Ordered(w.acts[j]) /\ w.acts[j].op = "rmw" /\ IsWrite(w.acts[j])
    BY <1>3, <1>4, <2>1
  <2>3. w.acts[j].op = "rmw" => w.flushBuffer[t] = <<>>
    OBVIOUS
  <2>7. Good(y, 0, IF w.acts[j].op = "rmw" THEN j ELSE 0)
    BY <1>2, <1>3, <2>1, <2>2, <2>3, PopOrdered
  <2>4. /\ Good(y, 0, j) /\ Frame(w, y)
        /\ y.storeBuffer[t] = Tail(w.storeBuffer[t])
    <3>1. Frame(w, y)
      BY <1>2, <1>3, <2>1, <2>2, <2>3, PopOrdered
    <3>2. y.storeBuffer[t] = Tail(w.storeBuffer[t])
      BY <1>2, <1>3, <2>1, <2>2, <2>3, PopOrdered
    <3> QED  BY <2>2, <2>7, <3>1, <3>2
  <2>5. /\ \A u \in Thread : u # t => y.storeBuffer[u] = w.storeBuffer[u]
        /\ y.flushBuffer = w.flushBuffer
    BY <1>2, <1>3, <2>1, <2>2, <2>3, PopOrdered
  <2>6. IsWrite(w.acts[j]) => y.acts[j].seq = y.used
    BY <1>2, <1>3, <2>1, <2>2, <2>3, PopOrdered
  <2> QED  BY <1>3, <2>1, <2>2, <2>4, <2>5, <2>6
<1>6. x = y
  <2>1. x = emptyFlushBuffer(y, t)
    BY <1>1 DEF Empty
  <2>2. y.flushBuffer[t] = <<>> /\ Len(y.flushBuffer[t]) = 0
    BY <1>5
  <2>3. x = drainFlushBuffer(y, t, 0)
    BY <2>1, <2>2 DEF emptyFlushBuffer
  <2>4. 0 \in Nat
    OBVIOUS
  <2>5. PICK f : f[0] = y /\ drainFlushBuffer(y, t, 0) = f[0]
    BY <2>4, DrainIs
  <2> QED  BY <2>3, <2>5
<1>7. y.acts[i].seq # 0
  <2>1. Waiting(y, 0)
    BY <1>5, GoodIs, CoreIs
  <2>2. y.acts \in Seq(Action) /\ w.acts \in Seq(Action)
    BY <1>5, GoodIs
  <2>3. i \in Inds(y.acts) /\ y.acts[i].op = "rmw" /\ y.acts[i].t = t /\ i # 0
    <3>1. Keeps(w.acts, y.acts)
      BY <1>5 DEF Frame
    <3>2. i \in Inds(y.acts) /\ y.acts[i].t = w.acts[i].t
      BY <2>2, <3>1, KeepsIs
    <3>3. y.acts[i].op = w.acts[i].op
      BY <1>5 DEF Frame
    <3> QED  BY <2>2, <3>2, <3>3, ActsIs
  <2>4. Ordered(y.acts[i])
    BY <2>3 DEF Ordered, IsWrite
  <2>5. ~In(y.storeBuffer[t], i)
    BY <1>5, EmptyHasNone
  <2> QED  BY <2>1, <2>3, <2>4, <2>5 DEF Waiting
<1> QED  BY <1>5, <1>6, <1>7

\* The second half.
LEMMA RMWKeeps ==
  ASSUME IInv, NEW t \in Thread, RMW(t)
  PROVE  IInv'
<1>1. PICK kinds : kinds = {"rmw"}
  OBVIOUS
<1>2. Does(t, kinds) /\ NoRange
  BY <1>1 DEF RMW
<1>3. /\ phase = "running" /\ Pending(t).op = "rmw" /\ Typed
      /\ lastFlush' = lastFlush /\ atomicSeen' = atomicSeen
  BY <1>1, <1>2, DoesIs
<1>4. /\ Good(Now, 0, 0) /\ NoRMW(Now) /\ Ranges /\ acts \in Seq(Action)
      /\ obj_to_last_write \in [Thread -> [Line -> Nat]] /\ Issued(acts, obj_to_last_write)
      /\ storeBuffer \in [Thread -> Seq(Nat)]
  BY <1>3, RunningIs
<1>5. HalfWay(t)
  BY <1>3 DEF HalfWay
<1>6. PICK i : i = HalfOf(t)
  OBVIOUS
<1>7. /\ i \in Inds(acts) /\ i = Len(acts) /\ acts[i].op = "rmwr" /\ acts[i].t = t
      /\ acts[i].seq = 0 /\ storeBuffer[t] = <<>> /\ flushBuffer[t] = <<>>
      /\ \A k \in Inds(acts) : k # i => acts[k].op # "rmwr"
  BY <1>3, <1>5, <1>6, HalfIs
<1>8. PICK l \in Line : l = getCacheID(Pending(t).b)
  <2>1. Pending(t).op # "none" /\ Pending(t).op \in Accesses
    BY <1>3 DEF Accesses
  <2> QED  BY <1>3, <2>1, PendingIs
<1>9. PICK o : o = "rmw"
  OBVIOUS
<1>10. o \in {"rmw", "casread"}
  BY <1>9
<1>11. PICK B : B = HalfTo(i, o)
  OBVIOUS
<1>12. /\ B \in Seq(Action) /\ Len(B) = Len(acts) /\ Keeps(acts, B)
       /\ \A k \in Inds(acts) : k # i => B[k] = acts[k]
       /\ B[i].op = o /\ B[i].t = t /\ LineOf(B[i]) = l
  BY <1>3, <1>5, <1>6, <1>8, <1>10, <1>11, HalfBecomes
<1>13. PICK s : s = [storeBuffer EXCEPT ![t] = Append(@, i)]
  OBVIOUS
<1>14. /\ s \in [Thread -> Seq(Nat)] /\ \A u \in Thread : u # t => s[u] = storeBuffer[u]
       /\ s[t] = <<i>>
  <2>1. i \in Nat
    BY <1>4, <1>7, ActsIs
  <2>2. Append(storeBuffer[t], i) = <<i>> /\ <<i>> \in Seq(Nat)
    BY <1>7, <2>1
  <2> QED  BY <1>4, <1>13, <2>2
<1>15. PICK w : w = HalfState(B, s)
  OBVIOUS
<1>16. Good(w, 0, 0) /\ w.acts = B /\ w.storeBuffer = s /\ w.flushBuffer = flushBuffer
  <2>1. s[t] = IF o = "rmw" THEN <<i>> ELSE <<>>
    BY <1>9, <1>14
  <2>2. s \in [Thread -> Seq(Nat)] /\ \A u \in Thread : u # t => s[u] = storeBuffer[u]
    BY <1>14
  <2> QED  BY <1>3, <1>5, <1>6, <1>10, <1>11, <1>15, <2>1, <2>2, HalfGood
<1>17. PICK x : x = Empty(w, t)
  OBVIOUS
<1>18. /\ Good(x, 0, i) /\ Frame(w, x) /\ x.storeBuffer[t] = <<>>
       /\ \A u \in Thread : u # t => x.storeBuffer[u] = w.storeBuffer[u]
       /\ x.acts[i].seq = x.used /\ x.acts[i].seq # 0
  <2>1. /\ Alone(w.storeBuffer[t], i) /\ w.flushBuffer[t] = <<>> /\ w.acts[i].op = "rmw"
        /\ w.acts[i].t = t /\ i \in Inds(w.acts)
    BY <1>7, <1>9, <1>12, <1>14, <1>16 DEF Inds, Alone
  <2> QED  BY <1>16, <1>17, <2>1, EmptyOfRMW
<1>19. PICK y : y = fenceExecutionAnalysis(x, i)
  OBVIOUS
<1>20. Becomes(y)
  <2>1. Becomes(fenceExecutionAnalysis(
          Empty([Now EXCEPT !.acts[HalfOf(t)].op = "rmw",
                            !.storeBuffer[t] = Append(@, HalfOf(t))], t), HalfOf(t)))
    BY DEF RMW
  <2>2. [Now EXCEPT !.acts[i].op = "rmw", !.storeBuffer[t] = Append(@, i)] = w
    BY <1>9, <1>11, <1>13, <1>15, NowIs DEF Now, HalfTo, HalfState
  <2> QED  BY <1>6, <1>17, <1>19, <2>1, <2>2
<1>21. /\ x.acts \in Seq(Action) /\ Keeps(acts, x.acts) /\ Len(x.acts) = Len(acts)
       /\ \A k \in Inds(acts) : x.acts[k].op = B[k].op
       /\ Keeps(B, x.acts)
  <2>1. x.acts \in Seq(Action)
    BY <1>18, GoodIs
  <2>2. Keeps(B, x.acts) /\ Len(x.acts) = Len(B) /\ \A k \in Inds(B) : x.acts[k].op = B[k].op
    BY <1>16, <1>18 DEF Frame
  <2>3. Keeps(acts, x.acts)
    BY <1>4, <1>12, <2>1, <2>2, KeepsTrans
  <2> QED  BY <1>12, <2>1, <2>2, <2>3 DEF Inds
<1>22. /\ i \in Inds(x.acts) /\ x.acts[i].op = "rmw" /\ x.acts[i].t = t /\ LineOf(x.acts[i]) = l
  <2>1. i \in Inds(B)
    BY <1>7, <1>12 DEF Inds
  <2>2. i \in Inds(x.acts) /\ x.acts[i].t = B[i].t /\ LineOf(x.acts[i]) = LineOf(B[i])
    BY <1>12, <1>21, <2>1, KeepsIs
  <2> QED  BY <1>7, <1>9, <1>12, <1>21, <2>2
<1>23. Good(y, 0, 0) /\ y.acts = x.acts /\ y.storeBuffer = x.storeBuffer
  <2>1. ~IsClflush(x.acts[i]) /\ IsFence(x.acts[i])
    BY <1>22 DEF IsClflush, IsFence
  <2>2. i = 0 \/ (i = i /\ IsFence(x.acts[i]) /\ x.acts[i].seq = x.used)
    BY <1>18, <2>1
  <2>3. Good(x, 0, i) /\ i \in Inds(x.acts) /\ x.acts[i].seq # 0
    BY <1>18, <1>22
  <2> QED  BY <1>19, <2>1, <2>2, <2>3, FenceAnalysis
<1>24. \A k \in Inds(x.acts) : x.acts[k].op # "rmwr" /\ (k # i => k \in Inds(acts) /\ x.acts[k].op = acts[k].op)
  <2>1. Inds(x.acts) = Inds(acts)
    BY <1>21 DEF Inds
  <2> QED  BY <1>7, <1>12, <1>21, <1>22, <2>1
<1>25. NoRMW(y)
  <2> SUFFICES ASSUME NEW u \in Thread, NEW j \in Inds(x.storeBuffer[u])
               PROVE  x.acts[x.storeBuffer[u][j]].op # "rmw"
    BY <1>23 DEF NoRMW
  <2>1. PICK k : k = x.storeBuffer[u][j]
    OBVIOUS
  <2>2. k \in Inds(x.acts) /\ x.acts[k].seq = 0
    <3>1. Buffers(x)
      BY <1>18, GoodIs, CoreIs
    <3> QED  BY <2>1, <3>1 DEF Buffers, BuffersIn
  <2>3. k # i
    BY <1>18, <2>2
  <2>4. u # t
    BY <1>18, EmptyHasNone
  <2>5. x.storeBuffer[u] = storeBuffer[u]
    BY <1>14, <1>16, <1>18, <2>4
  <2>6. acts[k].op # "rmw"
    BY <1>4, <2>1, <2>5, NowIs DEF NoRMW
  <2> QED  BY <1>24, <2>1, <2>2, <2>3, <2>6
<1>26. PICK olw : olw = IssuedNow(obj_to_last_write, t, l, i)
  OBVIOUS
<1>27. obj_to_last_write' = olw
  BY <1>6, <1>8, <1>26 DEF RMW, IssuedNow
<1>28. Issued(y.acts, olw) /\ olw \in [Thread -> [Line -> Nat]]
  <2>1. PICK A \in Seq(Action), C \in Seq(Action) : A = acts /\ C = x.acts
    BY <1>4, <1>21
  <2>2. Orders(A, C, i, t, l)
    <3>1. i \in Nat \ {0}
      BY <1>4, <1>7, ActsIs
    <3>2. ~Ordered(A[i]) /\ Ordered(C[i])
      BY <1>7, <1>22, <2>1 DEF Ordered, IsWrite, IsClflush
    <3> QED  BY <1>7, <1>21, <1>22, <1>24, <2>1, <3>1, <3>2 DEF Orders
  <2>3. Keeps(A, C) /\ Issued(A, obj_to_last_write)
    BY <1>4, <1>21, <2>1
  <2>4. Issued(C, olw) /\ olw \in [Thread -> [Line -> Nat]]
    BY <1>4, <1>26, <2>2, <2>3, IssuedMore
  <2> QED  BY <1>23, <2>1, <2>4
<1>29. Ranges'
  BY <1>2, <1>3, <1>4, RangesKept
<1>30. Pending(t).op \notin {"none", "rmwr"} /\ \A k \in Inds(y.acts) : y.acts[k].op # "rmwr"
  BY <1>3, <1>23, <1>24
<1> QED  BY <1>2, <1>20, <1>23, <1>25, <1>27, <1>28, <1>29, <1>30, QuietStep

\* A CAS fails: its read takes effect.
LEMMA CASFailKeeps ==
  ASSUME IInv, NEW t \in Thread, CASFail(t)
  PROVE  IInv'
<1>1. PICK kinds : kinds = {"casfail"}
  OBVIOUS
<1>2. Does(t, kinds) /\ NoRange /\ UNCHANGED obj_to_last_write
  BY <1>1 DEF CASFail
<1>3. /\ phase = "running" /\ Pending(t).op = "casfail"
      /\ lastFlush' = lastFlush /\ atomicSeen' = atomicSeen
  BY <1>1, <1>2, DoesIs
<1>4. /\ Good(Now, 0, 0) /\ NoRMW(Now) /\ Ranges /\ acts \in Seq(Action)
      /\ obj_to_last_write \in [Thread -> [Line -> Nat]] /\ Issued(acts, obj_to_last_write)
      /\ storeBuffer \in [Thread -> Seq(Nat)]
  BY <1>3, RunningIs
<1>5. HalfWay(t)
  BY <1>3 DEF HalfWay
<1>6. PICK i : i = HalfOf(t)
  OBVIOUS
<1>7. /\ i \in Inds(acts) /\ i = Len(acts) /\ acts[i].op = "rmwr" /\ acts[i].t = t
      /\ acts[i].seq = 0 /\ storeBuffer[t] = <<>> /\ flushBuffer[t] = <<>>
      /\ \A k \in Inds(acts) : k # i => acts[k].op # "rmwr"
  BY <1>3, <1>5, <1>6, HalfIs
<1>8. PICK o : o = "casread"
  OBVIOUS
<1>9. o \in {"rmw", "casread"}
  BY <1>8
<1>10. PICK B : B = HalfTo(i, o)
  OBVIOUS
<1>11. /\ B \in Seq(Action) /\ Len(B) = Len(acts) /\ Keeps(acts, B)
       /\ \A k \in Inds(acts) : k # i => B[k] = acts[k]
       /\ B[i].op = o /\ B[i].t = t /\ B[i].seq = 0
  BY <1>3, <1>5, <1>6, <1>9, <1>10, HalfBecomes
<1>12. PICK s : s = storeBuffer
  OBVIOUS
<1>13. PICK w : w = HalfState(B, s)
  OBVIOUS
<1>14. Good(w, 0, 0) /\ w.acts = B /\ w.storeBuffer = s /\ w.flushBuffer = flushBuffer
  <2>1. s[t] = IF o = "rmw" THEN <<i>> ELSE <<>>
    BY <1>7, <1>8, <1>12
  <2>2. s \in [Thread -> Seq(Nat)] /\ \A u \in Thread : u # t => s[u] = storeBuffer[u]
    BY <1>4, <1>12
  <2> QED  BY <1>3, <1>5, <1>6, <1>9, <1>10, <1>13, <2>1, <2>2, HalfGood
<1>15. PICK z : z = TakeEffect(w, i)
  OBVIOUS
<1>16. PICK y : y = Empty(z, t)
  OBVIOUS
<1>17. Becomes(y)
  <2>1. Becomes(Empty(TakeEffect([Now EXCEPT !.acts[HalfOf(t)].op = "casread"], HalfOf(t)), t))
    BY DEF CASFail
  <2>2. [Now EXCEPT !.acts[i].op = "casread"] = w
    BY <1>8, <1>10, <1>12, <1>13, NowIs DEF Now, HalfTo, HalfState
  <2> QED  BY <1>6, <1>15, <1>16, <2>1, <2>2
<1>18. i \in Inds(w.acts) /\ w.acts[i].op = "casread" /\ w.acts[i].t = t /\ w.acts[i].seq = 0
  BY <1>7, <1>8, <1>11, <1>14 DEF Inds
<1>19. Core(w, i) /\ Ready(w, i)
  <2>1. Core(w, 0)
    BY <1>14, GoodIs
  <2>2. \A j \in Inds(w.storeBuffer[w.acts[i].t]) : i < w.storeBuffer[w.acts[i].t][j]
    BY <1>7, <1>12, <1>14, <1>18, EmptyHasNone
  <2> QED  BY <1>18, <2>1, <2>2, ReadyIs
<1>20. Good(z, 0, 0) /\ Effected(w, z, i)
  <2>1. Analysed(w) /\ FenceCredits(w.acts, w.flushmap, 0)
    BY <1>14, GoodIs
  <2>2. w.acts[i].op \in {"sfence", "mfence", "casread"} /\ ~IsFence(w.acts[i])
    BY <1>18 DEF IsFence
  <2>3. Good(z, 0, IF IsFence(w.acts[i]) THEN i ELSE 0)
    BY <1>15, <1>19, <2>1, <2>2, PlainEffect
  <2>4. Effected(w, z, i)
    BY <1>15, <1>19, <2>1, <2>2, PlainEffect
  <2> QED  BY <2>2, <2>3, <2>4
<1>21. /\ z.acts \in Seq(Action) /\ Inds(z.acts) = Inds(acts)
       /\ \A k \in Inds(acts) : z.acts[k].op = IF k = i THEN "casread" ELSE acts[k].op
  <2>1. z.acts \in Seq(Action)
    BY <1>20, GoodIs
  <2>2. Inds(z.acts) = Inds(B) /\ \A k \in Inds(B) : z.acts[k].op = B[k].op
    BY <1>14, <1>20 DEF Effected, Inds
  <2>3. Inds(B) = Inds(acts)
    BY <1>11 DEF Inds
  <2> QED  BY <1>8, <1>11, <2>1, <2>2, <2>3
<1>22. NoRMW(z)
  <2> SUFFICES ASSUME NEW u \in Thread, NEW j \in Inds(z.storeBuffer[u])
               PROVE  z.acts[z.storeBuffer[u][j]].op # "rmw"
    BY DEF NoRMW
  <2>1. z.storeBuffer = storeBuffer
    BY <1>12, <1>14, <1>20 DEF Effected
  <2>2. PICK k : k = storeBuffer[u][j]
    OBVIOUS
  <2>3. k \in Inds(acts) /\ acts[k].op # "rmw"
    <3>1. Buffers(Now) /\ NoRMW(Now)
      BY <1>4, GoodIs, CoreIs
    <3> QED  BY <2>1, <2>2, <3>1, NowIs DEF Buffers, BuffersIn, NoRMW
  <2> QED  BY <1>21, <2>1, <2>2, <2>3
<1>23. Good(y, 0, 0) /\ Frame(z, y) /\ NoRMW(y)
  BY <1>16, <1>20, <1>22, EmptyIs
<1>24. y.acts \in Seq(Action) /\ Inds(y.acts) = Inds(acts)
       /\ \A k \in Inds(acts) : y.acts[k].op = z.acts[k].op
  BY <1>21, <1>23, GoodIs DEF Frame, Inds
<1>25. Issued(y.acts, obj_to_last_write)
  <2>1. PICK A \in Seq(Action), C \in Seq(Action) : A = acts /\ C = z.acts
    BY <1>4, <1>21
  <2>2. Keeps(A, C)
    <3>1. Keeps(B, C)
      BY <1>14, <1>20, <2>1 DEF Effected
    <3> QED  BY <1>11, <2>1, <3>1, KeepsTrans
  <2>3. ~Ordered(A[i]) /\ ~Ordered(C[i])
    BY <1>7, <1>21, <2>1 DEF Ordered, IsWrite, IsClflush
  <2>4. \A k \in Inds(A) : k # i => (Ordered(A[k]) <=> Ordered(C[k]))
    BY <1>21, <2>1 DEF Ordered, IsWrite, IsClflush
  <2>5. \A k \in Inds(C) : Ordered(C[k]) => k \in Inds(A) /\ Ordered(A[k])
    BY <1>21, <2>1, <2>3, <2>4
  <2>6. \A k \in Inds(A) : Ordered(A[k]) => Ordered(C[k])
    BY <2>3, <2>4
  <2>7. Issued(C, obj_to_last_write)
    BY <1>4, <2>1, <2>2, <2>5, <2>6, IssuedSame
  <2> QED  BY <1>21, <1>23, <1>24, <2>1, <2>7, FrameIssued
<1>26. \A k \in Inds(y.acts) : y.acts[k].op # "rmwr"
  BY <1>7, <1>21, <1>24
<1>27. Ranges'
  BY <1>2, <1>3, <1>4, RangesKept
<1>28. /\ obj_to_last_write' \in [Thread -> [Line -> Nat]] /\ Issued(y.acts, obj_to_last_write')
       /\ Pending(t).op \notin {"none", "rmwr"}
  BY <1>2, <1>3, <1>4, <1>25
<1> QED  BY <1>2, <1>17, <1>23, <1>26, <1>27, <1>28, QuietStep

-------------------------------------------------------------------------------
(* What the execution has seen of itself.                                  *)

LEMMA MergeIs ==
  ASSUME NEW c \in Clock, NEW d \in Clock
  PROVE  /\ merge(c, d) \in Clock
         /\ \A u \in Thread : c[u] =< merge(c, d)[u] /\ d[u] =< merge(c, d)[u]
<1>1. \A u \in Thread : c[u] \in Nat /\ d[u] \in Nat
  BY DEF Clock
<1>2. PICK m : m = merge(c, d)
  OBVIOUS
<1>3. m \in Clock /\ \A u \in Thread : m[u] = IF d[u] > c[u] THEN d[u] ELSE c[u]
  BY <1>1, <1>2 DEF merge, Clock
<1>4. \A u \in Thread : c[u] =< m[u] /\ d[u] =< m[u]
  BY <1>1, <1>3
<1> QED  BY <1>2, <1>3, <1>4

\* A range of what the loads may rely on stays within what they have seen.
Within(r, s) == r = NoEntry \/ (r \in Clock /\ \A u \in Thread : r[u] =< s[u])

LEMMA RangeGrows ==
  ASSUME NEW s \in Clock, NEW r, Within(r, s), NEW t \in Thread, NEW c \in Clock
  PROVE  merge(s, c) \in Clock /\ Within(persistUntilAction(r, t, c), merge(s, c))
<1>1. PICK m : m = merge(s, c)
  OBVIOUS
<1>2. m \in Clock /\ \A u \in Thread : s[u] =< m[u] /\ c[u] =< m[u]
  BY <1>1, MergeIs
<1>3. \A u \in Thread : s[u] \in Nat /\ c[u] \in Nat /\ m[u] \in Nat
  BY <1>2 DEF Clock
<1>4. PICK p : p = persistUntilAction(r, t, c)
  OBVIOUS
<1>5. CASE r = NoEntry
  <2>1. p = [u \in Thread |-> IF u = t THEN c[t] ELSE 0]
    BY <1>4, <1>5 DEF persistUntilAction
  <2>2. p \in Clock /\ \A u \in Thread : p[u] = IF u = t THEN c[t] ELSE 0
    BY <1>3, <2>1 DEF Clock
  <2>3. \A u \in Thread : p[u] =< m[u]
    BY <1>2, <1>3, <2>2
  <2> QED  BY <1>1, <1>2, <1>4, <2>2, <2>3 DEF Within
<1>6. CASE r # NoEntry
  <2>1. r \in Clock /\ \A u \in Thread : r[u] =< s[u]
    BY <1>6 DEF Within
  <2>2. p = merge(r, c)
    BY <1>4, <1>6 DEF persistUntilAction
  <2>3. \A u \in Thread : r[u] \in Nat
    BY <2>1 DEF Clock
  <2>4. p \in Clock /\ \A u \in Thread : p[u] = IF c[u] > r[u] THEN c[u] ELSE r[u]
    BY <1>3, <2>2, <2>3 DEF merge, Clock
  <2>5. \A u \in Thread : p[u] =< m[u]
    <3>1. \A i, j, k \in Nat : i =< j /\ j =< k => i =< k
      OBVIOUS
    <3> QED  BY <1>2, <1>3, <2>1, <2>3, <2>4, <3>1
  <2> QED  BY <1>1, <1>2, <1>4, <2>4, <2>5 DEF Within
<1> QED  BY <1>5, <1>6

IsRanging(f, x, r, n) == f = [k \in 0 .. n |-> IF k = 0 THEN r ELSE persistUntilAction(f[k - 1], k, x.last[k])]

LEMMA RangingExists ==
  ASSUME NEW x, NEW r, NEW n \in Nat
  PROVE  \E f : IsRanging(f, x, r, n)
<1> DEFINE P == {m \in 0 .. n : \E f : IsRanging(f, x, r, m)}
<1>1. 0 \in P
  <2> DEFINE f == [k \in 0 .. 0 |-> r]
  <2>1. f = [k \in 0 .. 0 |-> IF k = 0 THEN r ELSE persistUntilAction(f[k - 1], k, x.last[k])]
    OBVIOUS
  <2> HIDE DEF f
  <2>2. IsRanging(f, x, r, 0)
    BY <2>1 DEF IsRanging
  <2> QED  BY <2>2
<1>2. ASSUME NEW m \in 0 .. (n - 1), m \in P PROVE m + 1 \in P
  <2>1. PICK f : IsRanging(f, x, r, m)
    BY <1>2
  <2>2. /\ \A k \in 0 .. m : f[k] = IF k = 0 THEN r ELSE persistUntilAction(f[k - 1], k, x.last[k])
    BY <2>1, Zenon DEF IsRanging
  <2> DEFINE g == [k \in 0 .. (m + 1) |-> IF k = m + 1 THEN persistUntilAction(f[m], m + 1, x.last[m + 1]) ELSE f[k]]
  <2>3. ASSUME NEW k \in 0 .. (m + 1)
        PROVE  g[k] = IF k = 0 THEN r ELSE persistUntilAction(g[k - 1], k, x.last[k])
    <3>1. CASE k = m + 1
      <4>1. k # 0 /\ k - 1 = m /\ m \in 0 .. (m + 1) /\ m # m + 1
        BY <3>1
      <4>2. g[k - 1] = f[m]
        BY <4>1
      <4> QED  BY <3>1, <4>1, <4>2
    <3>2. CASE k # m + 1
      <4>1. k \in 0 .. m
        BY <3>2
      <4>2. g[k] = f[k]
        BY <3>2
      <4>3. k # 0 => k - 1 \in 0 .. (m + 1) /\ k - 1 # m + 1
        BY <4>1
      <4>4. k # 0 => g[k - 1] = f[k - 1]
        BY <4>3
      <4> HIDE DEF g
      <4> QED  BY <2>2, <4>1, <4>2, <4>4
    <3> QED  BY <3>1, <3>2
  <2>4. g = [k \in 0 .. (m + 1) |-> g[k]]
    OBVIOUS
  <2> HIDE DEF g
  <2>5. IsRanging(g, x, r, m + 1)
    BY <2>3, <2>4 DEF IsRanging
  <2> QED  BY <2>5
<1> HIDE DEF P
<1>3. \A m \in 0 .. n : m \in P
  BY <1>1, <1>2, Climb
<1>4. n \in P
  BY <1>3
<1> QED  BY <1>4 DEF P

IsSeeing(f, x, s, n) == f = [k \in 0 .. n |-> IF k = 0 THEN s ELSE merge(f[k - 1], x.last[k])]

LEMMA SeeingExists ==
  ASSUME NEW x, NEW s, NEW n \in Nat
  PROVE  \E f : IsSeeing(f, x, s, n)
<1> DEFINE P == {m \in 0 .. n : \E f : IsSeeing(f, x, s, m)}
<1>1. 0 \in P
  <2> DEFINE f == [k \in 0 .. 0 |-> s]
  <2>1. f = [k \in 0 .. 0 |-> IF k = 0 THEN s ELSE merge(f[k - 1], x.last[k])]
    OBVIOUS
  <2> HIDE DEF f
  <2>2. IsSeeing(f, x, s, 0)
    BY <2>1 DEF IsSeeing
  <2> QED  BY <2>2
<1>2. ASSUME NEW m \in 0 .. (n - 1), m \in P PROVE m + 1 \in P
  <2>1. PICK f : IsSeeing(f, x, s, m)
    BY <1>2
  <2>2. /\ \A k \in 0 .. m : f[k] = IF k = 0 THEN s ELSE merge(f[k - 1], x.last[k])
    BY <2>1, Zenon DEF IsSeeing
  <2> DEFINE g == [k \in 0 .. (m + 1) |-> IF k = m + 1 THEN merge(f[m], x.last[m + 1]) ELSE f[k]]
  <2>3. ASSUME NEW k \in 0 .. (m + 1)
        PROVE  g[k] = IF k = 0 THEN s ELSE merge(g[k - 1], x.last[k])
    <3>1. CASE k = m + 1
      <4>1. k # 0 /\ k - 1 = m /\ m \in 0 .. (m + 1) /\ m # m + 1
        BY <3>1
      <4>2. g[k - 1] = f[m]
        BY <4>1
      <4> QED  BY <3>1, <4>1, <4>2
    <3>2. CASE k # m + 1
      <4>1. k \in 0 .. m
        BY <3>2
      <4>2. g[k] = f[k]
        BY <3>2
      <4>3. k # 0 => k - 1 \in 0 .. (m + 1) /\ k - 1 # m + 1
        BY <4>1
      <4>4. k # 0 => g[k - 1] = f[k - 1]
        BY <4>3
      <4> HIDE DEF g
      <4> QED  BY <2>2, <4>1, <4>2, <4>4
    <3> QED  BY <3>1, <3>2
  <2>4. g = [k \in 0 .. (m + 1) |-> g[k]]
    OBVIOUS
  <2> HIDE DEF g
  <2>5. IsSeeing(g, x, s, m + 1)
    BY <2>3, <2>4 DEF IsSeeing
  <2> QED  BY <2>5
<1> HIDE DEF P
<1>3. \A m \in 0 .. n : m \in P
  BY <1>1, <1>2, Climb
<1>4. n \in P
  BY <1>3
<1> QED  BY <1>4 DEF P

\* The clocks of all threads are taken, one after the other.
LEMMA RangingIs ==
  ASSUME NEW x, x.last \in [Thread -> Clock], NEW r, NEW s \in Clock, Within(r, s),
         NEW f, IsRanging(f, x, r, N), NEW g, IsSeeing(g, x, s, N)
  PROVE  g[N] \in Clock /\ Within(f[N], g[N])
<1>1. N \in Nat
  BY Constants
<1>2. \A k \in 0 .. N : f[k] = IF k = 0 THEN r ELSE persistUntilAction(f[k - 1], k, x.last[k])
  BY Zenon DEF IsRanging
<1>3. \A k \in 0 .. N : g[k] = IF k = 0 THEN s ELSE merge(g[k - 1], x.last[k])
  BY Zenon DEF IsSeeing
<1> DEFINE P == {k \in 0 .. N : g[k] \in Clock /\ Within(f[k], g[k])}
<1>4. 0 \in P
  BY <1>1, <1>2, <1>3
<1>5. ASSUME NEW k \in 0 .. (N - 1), k \in P PROVE k + 1 \in P
  <2>1. k + 1 \in 0 .. N /\ k + 1 # 0 /\ (k + 1) - 1 = k /\ k + 1 \in Thread
    BY <1>1 DEF Thread
  <2>2. PICK u \in Thread : u = k + 1
    BY <2>1
  <2>3. PICK p, q : p = f[k] /\ q = g[k]
    OBVIOUS
  <2>4. q \in Clock /\ Within(p, q)
    BY <1>5, <2>3
  <2>5. PICK c \in Clock : c = x.last[u]
    OBVIOUS
  <2>6. f[k + 1] = persistUntilAction(p, u, c) /\ g[k + 1] = merge(q, c)
    BY <1>2, <1>3, <2>1, <2>2, <2>3, <2>5
  <2>7. merge(q, c) \in Clock /\ Within(persistUntilAction(p, u, c), merge(q, c))
    BY <2>4, RangeGrows
  <2>8. g[k + 1] \in Clock /\ Within(f[k + 1], g[k + 1])
    BY <2>6, <2>7, Zenon
  <2> QED  BY <2>1, <2>8
<1> HIDE DEF P
<1>6. \A k \in 0 .. N : k \in P
  BY <1>1, <1>4, <1>5, Climb
<1>7. N \in P
  BY <1>1, <1>6
<1> QED  BY <1>7 DEF P

LEMMA PersistKeeps ==
  ASSUME IInv, NEW t \in Thread, Persist(t)
  PROVE  IInv'
<1>1. PICK kinds : kinds = {"persist"}
  OBVIOUS
<1>2. Does(t, kinds) /\ UNCHANGED obj_to_last_write
  BY <1>1 DEF Persist
<1>3. /\ phase = "running" /\ Pending(t).op = "persist"
      /\ lastFlush' = lastFlush /\ atomicSeen' = atomicSeen
  BY <1>1, <1>2, DoesIs
<1>4. /\ Good(Now, 0, 0) /\ NoRMW(Now) /\ Ranges /\ acts \in Seq(Action)
      /\ obj_to_last_write \in [Thread -> [Line -> Nat]] /\ Issued(acts, obj_to_last_write)
  BY <1>3, RunningIs
<1>5. PICK x : x = EmptyUpTo(Now, N)
  OBVIOUS
<1>6. Good(x, 0, 0) /\ Frame(Now, x) /\ NoRMW(x)
  <2>1. PICK w : w = Now
    OBVIOUS
  <2>2. Good(w, 0, 0) /\ NoRMW(w) /\ x = EmptyUpTo(w, N) /\ N \in 0 .. N
    BY <1>4, <1>5, <2>1, Constants
  <2> QED  BY <2>1, <2>2, EmptyAll
<1>7. Becomes(x)
  BY <1>5 DEF Persist
<1>8. PICK f : f = CHOOSE h : IsRanging(h, x, beginRangeCV, N)
  OBVIOUS
<1>9. PICK g : g = CHOOSE h : IsSeeing(h, x, observed, N)
  OBVIOUS
<1>10. IsRanging(f, x, beginRangeCV, N)
  BY <1>8, RangingExists, Constants
<1>11. IsSeeing(g, x, observed, N)
  BY <1>9, SeeingExists, Constants
<1>12. beginRangeCV' = f[N]
  BY <1>5, <1>8, Zenon DEF Persist, IsRanging
<1>13. observed' = g[N]
  BY <1>5, <1>9, Zenon DEF Persist, IsSeeing
<1>14. x.acts \in Seq(Action) /\ x.last \in [Thread -> Clock]
  BY <1>6, GoodIs, CoreIs
<1>15. g[N] \in Clock /\ Within(f[N], g[N])
  <2>1. observed \in Clock /\ Within(beginRangeCV, observed)
    BY <1>4 DEF Ranges, Within
  <2> QED  BY <1>10, <1>11, <1>14, <2>1, RangingIs
<1>16. Ranges'
  BY <1>3, <1>4, <1>12, <1>13, <1>15 DEF Ranges, Within, NoEntry
<1>17. Issued(x.acts, obj_to_last_write)
  <2>1. Now.acts \in Seq(Action) /\ Issued(Now.acts, obj_to_last_write)
    BY <1>4, NowIs
  <2> QED  BY <1>6, <1>14, <2>1, FrameIssued
<1>18. \A k \in Inds(x.acts) : x.acts[k].op # "rmwr"
  <2>1. Pending(t).op \notin {"rmw", "casfail"}
    BY <1>3
  <2>2. \A k \in Inds(acts) : acts[k].op # "rmwr"
    BY <1>2, <2>1, NoHalves
  <2> QED  BY <1>6, <2>2, NowIs DEF Frame, Inds
<1>19. /\ obj_to_last_write' \in [Thread -> [Line -> Nat]] /\ Issued(x.acts, obj_to_last_write')
       /\ Pending(t).op \notin {"none", "rmwr"}
  BY <1>2, <1>3, <1>4, <1>17
<1> QED  BY <1>2, <1>6, <1>7, <1>16, <1>18, <1>19, QuietStep

-------------------------------------------------------------------------------
(* The crash.                                                              *)

\* A clwb that waits in a buffer holds up the fences of its thread.
LEMMA FencesHeld ==
  ASSUME NEW x, Good(x, 0, 0)
  PROVE  FencesWait(x.acts)
<1>1. x.acts \in Seq(Action) /\ Buffers(x) /\ Waiting(x, 0)
  BY GoodIs, CoreIs
<1>2. PICK A \in Seq(Action) : A = x.acts
  BY <1>1
<1>3. SUFFICES ASSUME NEW f \in Inds(A), NEW g \in Inds(A), A[f].op = "clwb", f < g,
                      A[g].t = A[f].t, IsFence(A[g]), A[g].seq # 0, A[f].seq = 0
               PROVE  FALSE
  BY <1>2 DEF FencesWait
<1>4. PICK t \in Thread : t = A[f].t
  BY ActsIs
<1>5. f \in Nat /\ g \in Nat /\ f # 0
  BY ActsIs
<1>6. In(x.storeBuffer[t], f) \/ In(x.flushBuffer[t], f)
  BY <1>1, <1>2, <1>3, <1>4, <1>5 DEF Waiting
<1>7. ~(g < f)
  BY <1>3, <1>5
<1>8. ~In(x.storeBuffer[t], f)
  <2> SUFFICES ASSUME NEW j \in Inds(x.storeBuffer[t]), x.storeBuffer[t][j] = f PROVE FALSE
    BY DEF In
  <2>1. \A i \in Inds(A) : A[i].t = t /\ A[i].seq # 0 => i < f
    BY <1>1, <1>2 DEF Buffers, BuffersIn
  <2> QED  BY <1>3, <1>4, <1>7, <2>1
<1>9. ~In(x.flushBuffer[t], f)
  <2> SUFFICES ASSUME NEW j \in Inds(x.flushBuffer[t]), x.flushBuffer[t][j] = f PROVE FALSE
    BY DEF In
  <2>1. \A i \in Inds(A) : A[i].t = t /\ A[i].seq # 0 /\ IsFence(A[i]) => i < f
    BY <1>1, <1>2 DEF Buffers, BuffersIn
  <2> QED  BY <1>3, <1>4, <1>7, <2>1
<1> QED  BY <1>6, <1>8, <1>9

LEMMA CrashStep ==
  ASSUME IInv, NEW how \in {"crash", "eviction"}, NEW x, Good(x, 0, 0),
         NEW y, y = x \/ y = crashAnalysis(x), Crashed(how, y)
  PROVE  IInv'
<1>1. x \in State
  BY GoodIs
<1>2. /\ y \in State /\ y.acts = x.acts /\ y.flushmap = x.flushmap
      /\ y.lastWrites = x.lastWrites /\ y.storeBuffer = x.storeBuffer
      /\ y.flushBuffer = x.flushBuffer
      /\ y.pendingclwbs = x.pendingclwbs \/ y.pendingclwbs = <<>>
  <2>0. <<>> \in Seq(Nat)
    BY EmptySeq
  <2>1. PICK none \in Seq(Nat) : none = <<>>
    BY <2>0
  <2>2. PICK w : w = [x EXCEPT !.pendingclwbs = none]
    OBVIOUS
  <2>3. /\ w \in State /\ w.acts = x.acts /\ w.flushmap = x.flushmap
        /\ w.lastWrites = x.lastWrites /\ w.storeBuffer = x.storeBuffer
        /\ w.flushBuffer = x.flushBuffer /\ w.pendingclwbs = none
    BY <1>1, <2>2 DEF State
  <2>4. w = crashAnalysis(x)
    BY <2>1, <2>2 DEF crashAnalysis
  <2> QED  BY <1>1, <2>1, <2>3, <2>4
<1>3. PICK z : z = [y EXCEPT !.used = N]
  OBVIOUS
<1>4. /\ z \in State /\ z.acts = x.acts /\ z.flushmap = x.flushmap
      /\ z.lastWrites = x.lastWrites /\ z.storeBuffer = x.storeBuffer
      /\ z.flushBuffer = x.flushBuffer /\ z.pendingclwbs = y.pendingclwbs
  BY <1>2, <1>3, Constants DEF State
<1>5. Becomes(z) /\ phase = "running" /\ phase' = how
  BY <1>3 DEF Crashed
<1>6. /\ UNCHANGED <<prog, pc, obj_to_last_write, lastFlush, atomicSeen, report>> /\ NoRange
  BY DEF Crashed
<1>7. /\ Now' = z /\ acts' = x.acts /\ flushmap' = x.flushmap /\ lastWrites' = x.lastWrites
      /\ storeBuffer' = x.storeBuffer /\ flushBuffer' = x.flushBuffer
      /\ pendingclwbs' = y.pendingclwbs
  BY <1>4, <1>5, BecomesIs DEF Becomes
<1>8. Typed /\ Ranges /\ report = EmptyReport
  BY <1>5, RunningIs
<1>9. Typed'
  BY <1>4, <1>5, <1>6, <1>7, <1>8 DEF Typed
<1>10. Ranges'
  BY <1>6, <1>8, RangesKept
<1>11. report' = EmptyReport
  BY <1>6, <1>8
<1>12. Reported'
  <2>1. ZeroCV \in Clock
    BY DEF ZeroCV, Clock
  <2> QED  BY <1>11, <2>1 DEF Reported, EmptyReport, ZeroCV
<1>13. Running'
  BY <1>5 DEF Running
<1>14. Settled'
  <2>1. x.used \in Nat /\ Acted(x.acts, x.used)
    BY <1>1, StateIs DEF Good, Core
  <2>2. FencesWait(x.acts)
    BY FencesHeld
  <2>3. /\ Credits(x.acts, x.flushmap) /\ ClflushCredits(x.acts, x.flushmap)
        /\ FenceCredits(x.acts, x.flushmap, 0)
        /\ Latest(x.acts, x.lastWrites) /\ Pendings(x.acts, x.pendingclwbs)
    BY DEF Good, Analysed
  <2>4. BuffersIn(x.acts, x.storeBuffer, x.flushBuffer)
    BY DEF Good, Core, Buffers
  <2>5. Pendings(x.acts, y.pendingclwbs)
    BY <1>2, <2>3, EmptyHasNone DEF Pendings
  <2> QED  BY <1>7, <2>1, <2>2, <2>3, <2>4, <2>5 DEF Settled
<1> QED  BY <1>9, <1>10, <1>12, <1>13, <1>14 DEF IInv

LEMMA CutOffStep ==
  ASSUME IInv, NEW how \in {"crash", "eviction"}, NEW x, Good(x, 0, 0), NEW t \in Thread,
         CutOff(how, x, t)
  PROVE  IInv'
<1>1. PICK n \in 0 .. (Len(x.flushBuffer[t]) - 1) :
        Crashed(how, IF how = "crash" THEN crashAnalysis(drainFlushBuffer(x, t, n))
                     ELSE drainFlushBuffer(x, t, n))
  BY DEF CutOff
<1>2. n \in 0 .. Len(x.flushBuffer[t])
  <2>1. Len(x.flushBuffer[t]) \in Nat
    BY GoodIs, LenProperties
  <2> QED  BY <2>1
<1>3. PICK w : w = drainFlushBuffer(x, t, n)
  OBVIOUS
<1>4. Good(w, 0, 0)
  BY <1>2, <1>3, Drain
<1>5. PICK y : y = IF how = "crash" THEN crashAnalysis(w) ELSE w
  OBVIOUS
<1>6. Crashed(how, y) /\ (y = w \/ y = crashAnalysis(w))
  BY <1>1, <1>3, <1>5
<1> QED  BY <1>4, <1>6, CrashStep

LEMMA CrashKeeps ==
  ASSUME IInv, Crash
  PROVE  IInv'
<1>1. PICK x, y, how : x = Now /\ y = crashAnalysis(x) /\ how = "crash"
  OBVIOUS
<1>2. Crashed(how, y)
  BY <1>1 DEF Crash
<1>3. Good(x, 0, 0)
  BY <1>1, <1>2, RunningIs DEF Crashed
<1> QED  BY <1>1, <1>2, <1>3, CrashStep

LEMMA CrashInEvictionKeeps ==
  ASSUME IInv, NEW t \in Thread, CrashInEviction(t)
  PROVE  IInv'
<1>1. PICK x, how : x = Now /\ how = "eviction"
  OBVIOUS
<1>2. phase = "running"
  BY DEF CrashInEviction, CutOff, Crashed
<1>3. Good(x, 0, 0)
  BY <1>1, <1>2, RunningIs
<1>4. CASE Crashed("eviction", Now)
  BY <1>1, <1>3, <1>4, CrashStep
<1>5. CASE CutOff("eviction", Now, t)
  BY <1>1, <1>3, <1>5, CutOffStep
<1> QED  BY <1>4, <1>5 DEF CrashInEviction

LEMMA CrashInDrainKeeps ==
  ASSUME IInv, NEW t \in Thread, CrashInDrain(t)
  PROVE  IInv'
<1>1. PICK how : how = "crash"
  OBVIOUS
<1>2. phase = "running"
  BY DEF CrashInDrain, CutOff, Crashed
<1>3. Good(Now, 0, 0) /\ NoRMW(Now)
  BY <1>2, RunningIs
<1>4. PICK x : x = Now
  OBVIOUS
<1>5. Good(x, 0, 0) /\ NoRMW(x)
  BY <1>3, <1>4
<1>6. CASE CutOff("crash", Now, t)
  BY <1>1, <1>4, <1>5, <1>6, CutOffStep
<1>7. CASE CutOff("crash", emptyStoreBuffer(Now, t), t)
  <2>1. PICK y : y = emptyStoreBuffer(x, t)
    OBVIOUS
  <2>2. Good(y, 0, 0)
    BY <1>5, <2>1, EmptyStore
  <2> QED  BY <1>1, <1>4, <1>7, <2>1, <2>2, CutOffStep
<1>8. CASE /\ Pending(t).op = "seqcst"
           /\ CutOff("crash", emptyStoreBuffer(Buffered(With(Now, NewAction(t, last[t])), t), t), t)
  <2>1. PICK a : a = Linking(NewAction(t, last[t]), 0, 0)
    OBVIOUS
  <2>2. PICK w : w = Buffered(With(Now, a), t)
    OBVIOUS
  <2>3. PICK olw : olw = IssuedNow(obj_to_last_write, t, getCacheID(Pending(t).b), Len(acts) + 1)
    OBVIOUS
  <2>4. Planned(t, 0, 0, olw) /\ Pending(t).op \in Issues
    BY <1>8, <2>3 DEF Planned, Issues
  <2>5. Good(w, 0, 0) /\ NoRMW(w)
    BY <1>2, <2>1, <2>2, <2>4, IssueStep
  <2>6. PICK y : y = emptyStoreBuffer(w, t)
    OBVIOUS
  <2>7. Good(y, 0, 0)
    BY <2>5, <2>6, EmptyStore
  <2>8. CutOff(how, y, t)
    BY <1>1, <1>8, <2>1, <2>2, <2>6, LinkingNone
  <2> QED  BY <1>1, <2>7, <2>8, CutOffStep
<1>9. CASE \E u \in Thread : \/ AtSfence(u) /\ CutOff("crash", EmptyUpTo(Now, u - 1), u)
                             \/ CutOff("crash", emptyStoreBuffer(EmptyUpTo(Now, u - 1), u), u)
  <2>1. PICK u \in Thread : \/ CutOff("crash", EmptyUpTo(Now, u - 1), u)
                            \/ CutOff("crash", emptyStoreBuffer(EmptyUpTo(Now, u - 1), u), u)
    BY <1>9
  <2>2. PICK m \in 0 .. N : m = u - 1
    BY Constants DEF Thread
  <2>3. PICK y : y = EmptyUpTo(x, m)
    OBVIOUS
  <2>4. Good(y, 0, 0) /\ NoRMW(y)
    BY <1>5, <2>3, EmptyAll
  <2>5. PICK z : z = emptyStoreBuffer(y, u)
    OBVIOUS
  <2>6. Good(z, 0, 0)
    BY <2>4, <2>5, EmptyStore
  <2>7. CutOff(how, y, u) \/ CutOff(how, z, u)
    BY <1>1, <1>4, <2>1, <2>2, <2>3, <2>5
  <2> QED  BY <1>1, <2>4, <2>6, <2>7, CutOffStep
<1> QED  BY <1>6, <1>7, <1>8, <1>9 DEF CrashInDrain

-------------------------------------------------------------------------------
(* After the crash.                                                        *)

LEMMA NowFields ==
  Now \in State <=>
    /\ acts \in Seq(Action) /\ used \in Nat /\ last \in [Thread -> Clock]
    /\ storeBuffer \in [Thread -> Seq(Nat)] /\ flushBuffer \in [Thread -> Seq(Nat)]
    /\ lastsfence \in [Thread -> Nat] /\ begin \in [Line -> Nat]
    /\ lastWrites \in [Address -> Nat] /\ flushmap \in SUBSET Entry
    /\ pendingclwbs \in Seq(Nat) /\ aborted \in Nat
BY DEF Now, State

\* A load may only read from stores to its byte, or the initial value.
LEMMA MayReadIs ==
  ASSUME acts \in Seq(Action), NEW u \in Nat, Acted(acts, u), NEW b, NEW w \in MayRead(b) \ {0}
  PROVE  w \in Writes(acts, b)
<1>1. PICK A \in Seq(Action) : A = acts
  OBVIOUS
<1>2. PICK ws : ws = {v \in Writes(A, b) : end[getCacheID(b)] = 0 \/ A[v].seq =< end[getCacheID(b)]}
  OBVIOUS
<1>3. PICK old : old = {v \in ws : A[v].seq =< begin[getCacheID(b)]}
  OBVIOUS
<1>4. MayRead(b) = IF old = {} THEN ws \cup {0} ELSE (ws \ old) \cup {Newest(A, old)}
  BY <1>1, <1>2, <1>3 DEF MayRead
<1>5. ws \subseteq Writes(A, b) /\ old \subseteq ws
  BY <1>2, <1>3
<1>6. CASE old = {}
  BY <1>1, <1>4, <1>5, <1>6
<1>7. CASE old # {}
  <2>1. \A v \in old : v \in Inds(A)
    BY <1>5, WritesIs
  <2> DEFINE S == {A[v].seq : v \in old}
  <2>2. S \in SUBSET Nat /\ S # {}
    BY <1>7, <2>1, ActsIs
  <2>3. \A m \in S : m =< u
    BY <1>1, <2>1 DEF Acted, Clocks
  <2> HIDE DEF S
  <2>4. \E g \in S : \A m \in S : m =< g
    BY <2>2, <2>3, GreatestExists
  <2>5. \E i \in old : \A j \in old : A[j].seq =< A[i].seq
    BY <2>4 DEF S
  <2>6. Newest(A, old) \in old
    BY <2>5 DEF Newest
  <2> QED  BY <1>1, <1>4, <1>5, <1>7, <2>6
<1> QED  BY <1>6, <1>7

\* What a load is told.
LEMMA ReportKeeps ==
  ASSUME IInv, phase # "running", NEW b \in Address, mayReadFromAnalysis(b),
         acts' = acts, flushmap' = flushmap
  PROVE  Reported'
<1>1. /\ acts \in Seq(Action) /\ flushmap \in SUBSET Entry
      /\ Ranges /\ lastFlush \in [Line -> Nat] /\ lastFlush = atomicSeen
  BY NowFields DEF IInv, Typed, Ranges
<1>2. PICK u \in Nat : Acted(acts, u)
  BY DEF IInv, Settled
<1>3. PICK l \in Line : l = getCacheID(b)
  BY DEF Line
<1>4. PICK S : S = {w \in MayRead(b) \ {0} : ~IsAtomicWrite(acts[w]) /\ acts[w].seq > lastFlush[l]}
  OBVIOUS
<1>5. report' = [cands |-> MayRead(b), errors |-> {w \in S : IsError(w)},
                 warnings |-> {w \in S : IsWarning(w)}, observed |-> observed,
                 atomicSeen |-> atomicSeen[l]]
  BY <1>3, <1>4 DEF mayReadFromAnalysis
<1>6. /\ report'.cands = MayRead(b) /\ report'.errors = {w \in S : IsError(w)}
      /\ report'.warnings = {w \in S : IsWarning(w)} /\ report'.observed = observed
      /\ report'.atomicSeen = lastFlush[l]
  BY <1>1, <1>5
<1>7. ASSUME NEW w \in MayRead(b) \ {0}
      PROVE  w \in Inds(acts) /\ IsWrite(acts[w]) /\ acts[w].seq # 0 /\ acts[w].seq \in Nat
  BY <1>1, <1>2, MayReadIs, WritesIs, ActsIs
<1>8. ASSUME NEW w \in MayRead(b) \ {0}, ~IsAtomicWrite(acts[w]), ~IsError(w),
             ~(acts[w].seq =< lastFlush[l])
      PROVE  flushExistsBeforeCV(flushmap, acts, w, observed)
  <2>1. beginRangeCV # NoEntry /\ flushExistsBeforeCV(flushmap, acts, w, beginRangeCV)
    BY <1>8 DEF IsError
  <2>2. PICK e \in flushmap : e.w = w /\ acts[e.f].seq =< beginRangeCV[e.t]
    BY <2>1 DEF flushExistsBeforeCV
  <2>3. /\ beginRangeCV \in Clock /\ observed \in Clock
        /\ \A v \in Thread : beginRangeCV[v] =< observed[v]
    BY <1>1, <2>1 DEF Ranges
  <2>4. e.t \in Thread
    BY <1>1 DEF Entry
  <2>5. e.f \in Inds(acts)
    BY DEF IInv, Settled, Credits, Justified
  <2>6. acts[e.f].seq \in Nat
    BY <1>1, <2>5, ActsIs
  <2>7. beginRangeCV[e.t] \in Nat /\ observed[e.t] \in Nat /\ beginRangeCV[e.t] =< observed[e.t]
    BY <2>3, <2>4 DEF Clock
  <2>8. acts[e.f].seq =< observed[e.t]
    BY <2>2, <2>6, <2>7
  <2> QED  BY <2>2, <2>8 DEF flushExistsBeforeCV
<1>9. \A w \in MayRead(b) \ {0} :
        IsAtomicWrite(acts[w]) \/ w \in report'.errors \/ acts[w].seq =< report'.atomicSeen
          \/ flushExistsBeforeCV(flushmap, acts, w, report'.observed)
  <2> SUFFICES ASSUME NEW w \in MayRead(b) \ {0}, ~IsAtomicWrite(acts[w]), w \notin report'.errors,
                      ~(acts[w].seq =< report'.atomicSeen)
               PROVE  flushExistsBeforeCV(flushmap, acts, w, report'.observed)
    OBVIOUS
  <2>1. ~(acts[w].seq =< lastFlush[l])
    BY <1>6
  <2>2. acts[w].seq > lastFlush[l]
    BY <1>1, <1>7, <2>1
  <2>3. ~IsError(w)
    BY <1>4, <1>6, <2>2
  <2> QED  BY <1>6, <1>8, <2>1, <2>3
<1>10. \A w \in report'.warnings : w \in report'.cands \ {0} /\ ~Credited(flushmap, w)
  BY <1>4, <1>6 DEF IsWarning, Credited
<1>11. report'.observed \in Clock
  BY <1>1, <1>6 DEF Ranges
<1> QED  BY <1>6, <1>7, <1>9, <1>10, <1>11 DEF Reported, flushExistsBeforeCV, IsWrite, IsAtomicWrite, Clock

LEMMA RecoveryStep ==
  ASSUME IInv, Recovering, begin' \in [Line -> Nat], pendingclwbs' \in Seq(Nat), aborted' \in Nat,
         Pendings(acts, pendingclwbs'), Ranges', Reported'
  PROVE  IInv'
<1>1. /\ phase # "running" /\ phase' = phase /\ used' = used + 1 /\ prog' = prog /\ pc' = pc
      /\ acts' = acts /\ last' = last /\ storeBuffer' = storeBuffer
      /\ flushBuffer' = flushBuffer /\ lastsfence' = lastsfence
      /\ obj_to_last_write' = obj_to_last_write /\ lastWrites' = lastWrites
      /\ flushmap' = flushmap
  BY DEF Recovering, execVars
<1>2. Typed
  BY DEF IInv
<1>3. /\ acts \in Seq(Action) /\ used \in Nat /\ last \in [Thread -> Clock]
      /\ storeBuffer \in [Thread -> Seq(Nat)] /\ flushBuffer \in [Thread -> Seq(Nat)]
      /\ lastsfence \in [Thread -> Nat]
      /\ lastWrites \in [Address -> Nat] /\ flushmap \in SUBSET Entry
  BY <1>2, NowFields DEF Typed
<1>4. (Now \in State)'
  BY <1>1, <1>3 DEF Now, State
<1>5. Typed'
  BY <1>1, <1>2, <1>4 DEF Typed
<1>6. Running'
  BY <1>1 DEF Running
<1>7. Settled'
  BY <1>1 DEF IInv, Settled
<1> QED  BY <1>5, <1>6, <1>7 DEF IInv

LEMMA RecoveryFenceKeeps ==
  ASSUME IInv, RecoveryFence
  PROVE  IInv'
<1>1. /\ Recovering /\ UNCHANGED <<begin, end, lastFlush, beginRangeCV, observed, atomicSeen, report>>
  BY DEF RecoveryFence
<1>2. /\ pendingclwbs' = pendingclwbs \/ pendingclwbs' = <<>>
      /\ aborted' = aborted \/ aborted' = used + 1
  BY DEF RecoveryFence
<1>3. Typed /\ Ranges /\ Reported
  BY DEF IInv
<1>4. begin \in [Line -> Nat] /\ pendingclwbs \in Seq(Nat) /\ aborted \in Nat /\ used \in Nat
  BY <1>3, NowFields DEF Typed
<1>5. begin' \in [Line -> Nat] /\ pendingclwbs' \in Seq(Nat) /\ aborted' \in Nat
  <2>1. <<>> \in Seq(Nat)
    BY EmptySeq
  <2>2. pendingclwbs' \in Seq(Nat)
    BY <1>2, <1>4, <2>1
  <2>3. begin' \in [Line -> Nat] /\ aborted' \in Nat
    BY <1>1, <1>2, <1>4
  <2> QED  BY <2>2, <2>3
<1>8. Pendings(acts, pendingclwbs')
  <2>1. Pendings(acts, pendingclwbs)
    BY <1>1 DEF IInv, Settled, Recovering
  <2> QED  BY <1>2, <2>1, EmptyHasNone DEF Pendings
<1>6. Ranges'
  BY <1>1, <1>3, RangesKept DEF NoRange
<1>7. Reported'
  BY <1>1, <1>3 DEF Reported, Recovering, execVars, flushExistsBeforeCV
<1> QED  BY <1>1, <1>5, <1>6, <1>7, <1>8, RecoveryStep

LEMMA MaxOf ==
  ASSUME NEW m \in Nat, NEW n \in Nat
  PROVE  Max({m, n}) \in Nat
BY MaxNat

LEMMA LoadKeeps ==
  ASSUME IInv, NEW b \in Address, Load(b)
  PROVE  IInv'
<1>1. /\ Recovering /\ mayReadFromAnalysis(b) /\ pendingclwbs' = pendingclwbs /\ aborted' = aborted
      /\ phase # "running" /\ acts' = acts /\ flushmap' = flushmap
  BY DEF Load, Recovering, execVars
<1>2. Typed /\ Ranges
  BY DEF IInv
<1>3. /\ acts \in Seq(Action) /\ begin \in [Line -> Nat] /\ pendingclwbs \in Seq(Nat)
      /\ aborted \in Nat
  BY <1>2, NowFields DEF Typed
<1>4. /\ observed \in Clock /\ Within(beginRangeCV, observed)
      /\ lastFlush = atomicSeen /\ lastFlush \in [Line -> Nat]
  BY <1>2 DEF Ranges, Within
<1>10. Pendings(acts, pendingclwbs')
  BY <1>1 DEF IInv, Settled
<1>5. PICK l \in Line : l = getCacheID(b)
  BY DEF Line
<1>6. PICK w \in MayRead(b) : IF w = 0 THEN ReadInitial(b) ELSE ReadFrom(w, b)
  BY DEF Load
<1>7. Reported'
  BY <1>1, ReportKeeps
<1>8. CASE w = 0
  <2>1. ReadInitial(b)
    BY <1>6, <1>8
  <2>2. /\ lastFlush' = lastFlush /\ begin' = begin /\ observed' = observed
        /\ atomicSeen' = atomicSeen
        /\ beginRangeCV' = IF beginRangeCV = NoEntry THEN ZeroCV ELSE beginRangeCV
    BY <2>1 DEF ReadInitial
  <2>3. Within(beginRangeCV', observed)
    <3>1. ZeroCV \in Clock /\ \A u \in Thread : ZeroCV[u] =< observed[u]
      <4>1. \A u \in Thread : observed[u] \in Nat
        BY <1>4 DEF Clock
      <4> QED  BY <4>1 DEF ZeroCV, Clock
    <3> QED  BY <1>4, <2>2, <3>1 DEF Within
  <2>4. Ranges'
    BY <1>4, <2>2, <2>3 DEF Ranges, Within, NoEntry
  <2> QED  BY <1>1, <1>3, <1>7, <1>10, <2>2, <2>4, RecoveryStep
<1>9. CASE w # 0
  <2>1. ReadFrom(w, b)
    BY <1>6, <1>9
  <2>2. /\ mergeLastFlush(w, l)
        /\ beginRangeCV' = persistUntilAction(beginRangeCV, acts[w].t, acts[w].cv)
        /\ begin' = [begin EXCEPT ![l] = Max({@, acts[w].seq})]
        /\ observed' = merge(observed, acts[w].cv)
        /\ atomicSeen' = IF IsAtomicWrite(acts[w])
                         THEN [atomicSeen EXCEPT ![l] = Max({@, acts[w].seq})] ELSE atomicSeen
    BY <1>5, <2>1 DEF ReadFrom
  <2>3. w \in Inds(acts)
    <3>1. PICK u \in Nat : Acted(acts, u)
      BY <1>1 DEF IInv, Settled
    <3>2. w \in Writes(acts, b)
      BY <1>3, <1>6, <1>9, <3>1, MayReadIs
    <3> QED  BY <1>3, <3>2, WritesIs
  <2>4. PICK t \in Thread : t = acts[w].t
    BY <1>3, <2>3, ActsIs
  <2>5. PICK c \in Clock : c = acts[w].cv
    BY <1>3, <2>3, ActsIs
  <2>6. PICK q \in Nat : q = acts[w].seq
    BY <1>3, <2>3, ActsIs
  <2>7. begin' \in [Line -> Nat]
    <3>1. PICK m \in Nat : m = Max({begin[l], q})
      BY <1>3, MaxOf
    <3>2. begin' = [begin EXCEPT ![l] = m]
      BY <2>2, <2>6, <3>1
    <3> QED  BY <1>3, <3>2
  <2>8. lastFlush' = atomicSeen' /\ lastFlush' \in [Line -> Nat]
    <3>1. PICK m \in Nat : m = Max({lastFlush[l], q})
      BY <1>4, MaxOf
    <3>2. lastFlush' = IF IsAtomicWrite(acts[w]) THEN [lastFlush EXCEPT ![l] = m] ELSE lastFlush
      BY <2>2, <2>6, <3>1 DEF mergeLastFlush
    <3>3. atomicSeen' = IF IsAtomicWrite(acts[w]) THEN [lastFlush EXCEPT ![l] = m] ELSE lastFlush
      BY <1>4, <2>2, <2>6, <3>1
    <3> QED  BY <1>4, <3>2, <3>3
  <2>9. observed' \in Clock /\ Within(beginRangeCV', observed')
    <3>1. merge(observed, c) \in Clock /\ Within(persistUntilAction(beginRangeCV, t, c), merge(observed, c))
      BY <1>4, RangeGrows
    <3> QED  BY <2>2, <2>4, <2>5, <3>1
  <2>10. Ranges'
    BY <2>8, <2>9 DEF Ranges, Within, NoEntry
  <2> QED  BY <1>1, <1>3, <1>7, <1>10, <2>7, <2>10, RecoveryStep
<1> QED  BY <1>8, <1>9

LEMMA StutterKeeps ==
  ASSUME IInv, UNCHANGED vars
  PROVE  IInv'
<1>1. /\ Now' = Now /\ acts' = acts /\ phase' = phase /\ prog' = prog /\ pc' = pc
      /\ obj_to_last_write' = obj_to_last_write /\ report' = report /\ flushmap' = flushmap
      /\ storeBuffer' = storeBuffer /\ flushBuffer' = flushBuffer
      /\ lastFlush' = lastFlush /\ atomicSeen' = atomicSeen /\ NoRange
      /\ lastWrites' = lastWrites /\ pendingclwbs' = pendingclwbs
  BY DEF vars, execVars, Now, NoRange
<1>2. Typed'
  BY <1>1 DEF IInv, Typed
<1>3. Ranges'
  BY <1>1, RangesKept DEF IInv
<1>4. Reported'
  BY <1>1 DEF IInv, Reported, flushExistsBeforeCV
<1>5. Settled'
  BY <1>1 DEF IInv, Settled
<1>6. Running'
  <2>1. Halves => Halves'
    BY <1>1 DEF Halves, HalfWay, Pending
  <2>2. (Good(Now, 0, 0))' <=> Good(Now, 0, 0)
    BY <1>1
  <2>3. NoRMW(Now)' <=> NoRMW(Now)
    BY <1>1
  <2> QED  BY <1>1, <2>1, <2>2, <2>3 DEF IInv, Running, EmptyReport, ZeroCV
<1> QED  BY <1>2, <1>3, <1>4, <1>5, <1>6 DEF IInv

-------------------------------------------------------------------------------
(* The invariant and what follows from it.                                 *)

LEMMA NothingActed == \A u \in Nat : Acted(<<>>, u)
BY EmptyHasNone DEF Acted, Fits, Clocks, Numbered, Linked, InOrder

\* The invariant holds of the execution before its first step.
LEMMA Initially == Init => IInv
<1> SUFFICES ASSUME Init PROVE IInv
  OBVIOUS
<1>1. N \in Nat \ {0} /\ Thread = 1 .. N /\ Address \in SUBSET Nat
  BY Constants DEF Thread
<1>2. PICK A, z, m : A = <<>> /\ z = <<>> /\ m = {}
  OBVIOUS
<1>3. /\ acts = A /\ used = N /\ lastsfence = [t \in Thread |-> 0]
      /\ storeBuffer = [t \in Thread |-> z] /\ flushBuffer = [t \in Thread |-> z]
      /\ begin = [l \in Line |-> 0] /\ lastWrites = [b \in Address |-> 0]
      /\ flushmap = m /\ pendingclwbs = z /\ aborted = 0
      /\ last = [t \in Thread |-> [u \in Thread |-> IF u = t THEN t ELSE 0]]
  BY <1>2 DEF Init
<1>4. A \in Seq(Action) /\ z \in Seq(Nat) /\ Len(A) = 0 /\ DOMAIN A = {}
  BY <1>2, EmptySeq
<1>5. last \in [Thread -> Clock] /\ \A t, u \in Thread : last[t][u] =< used
  BY <1>1, <1>3 DEF Clock
<1>6. Now \in State
  <2>1. used \in Nat /\ lastsfence \in [Thread -> Nat] /\ begin \in [Line -> Nat]
        /\ lastWrites \in [Address -> Nat] /\ aborted \in Nat
    BY <1>1, <1>3
  <2>2. storeBuffer \in [Thread -> Seq(Nat)] /\ flushBuffer \in [Thread -> Seq(Nat)]
    BY <1>3, <1>4
  <2>3. acts \in Seq(Action) /\ flushmap \in SUBSET Entry /\ pendingclwbs \in Seq(Nat)
    BY <1>2, <1>3, <1>4
  <2> QED  BY <1>5, <2>1, <2>2, <2>3, NowFields
<1>7. Typed
  <2>1. pc \in [Thread -> Nat \ {0}] /\ obj_to_last_write \in [Thread -> [Line -> Nat]]
        /\ phase \in {"running", "crash", "eviction"} /\ prog \in Program
    BY DEF Init
  <2> QED  BY <1>6, <2>1 DEF Typed
<1>8. \A k : k \notin Inds(acts) /\ k \notin Inds(z)
  BY <1>2, <1>3, EmptyHasNone
<1>9. Core(Now, 0)
  <2>1. Acted(acts, used)
    BY <1>1, <1>2, <1>3, NothingActed
  <2>2. BuffersIn(acts, storeBuffer, flushBuffer)
    BY <1>3, <1>8 DEF BuffersIn, Increasing
  <2>3. Waiting(Now, 0)
    BY <1>8, NowIs DEF Waiting
  <2>4. \A t \in Thread : lastsfence[t] \in 0 .. Len(acts)
    BY <1>3, <1>4
  <2> QED  BY <1>5, <1>6, <2>1, <2>2, <2>3, <2>4, NowIs DEF Core, Buffers
<1>10. Analysed(Now)
  <2>1. \A b : Writes(acts, b) = {}
    BY <1>3, <1>4 DEF Writes
  <2>2. Latest(acts, lastWrites)
    BY <1>3, <2>1 DEF Latest
  <2>3. Credits(acts, flushmap)
    BY <1>2, <1>3 DEF Credits
  <2>4. Pendings(acts, pendingclwbs)
    BY <1>3, <1>8 DEF Pendings
  <2>5. ClflushCredits(acts, flushmap) /\ ClwbCredits(acts, lastWrites, pendingclwbs, flushmap)
    BY <1>8 DEF ClflushCredits, ClwbCredits
  <2> QED  BY <2>2, <2>3, <2>4, <2>5, NowIs DEF Analysed
<1>11. FenceCredits(acts, flushmap, 0)
  BY <1>8 DEF FenceCredits
<1>12. Good(Now, 0, 0)
  BY <1>9, <1>10, <1>11, NowIs DEF Good
<1>13. NoRMW(Now)
  BY <1>3, <1>8, NowIs DEF NoRMW
<1>14. Issued(acts, obj_to_last_write)
  <2>1. \A t \in Thread : \A l \in Line : obj_to_last_write[t][l] = 0
    BY DEF Init
  <2>2. \A j : j \notin 1 .. ((Len(acts) + 1) - 1)
    BY <1>3, <1>4
  <2> QED  BY <2>1, <2>2 DEF Issued, LastOrdered
<1>15. Halves
  <2>1. \A t \in Thread : ~HalfWay(t)
    <3> SUFFICES ASSUME NEW t \in Thread PROVE ~HalfWay(t)
      OBVIOUS
    <3>1. pc[t] = 1 /\ prog \in Program
      BY DEF Init
    <3>2. PICK s : s = prog[t]
      OBVIOUS
    <3>3. Issuable(s)
      BY <3>1, <3>2, Constants
    <3>4. s \in Seq(Operation) /\ \A k \in DOMAIN s : k = 1 => s[k].op \notin {"rmw", "casfail"}
      BY <3>3 DEF Issuable
    <3>5. CASE 1 =< Len(s)
      <4>1. 1 \in DOMAIN s
        BY <3>4, <3>5, LenProperties
      <4>2. Pending(t) = s[1]
        BY <3>1, <3>2, <3>5 DEF Pending
      <4> QED  BY <3>4, <4>1, <4>2 DEF HalfWay
    <3>6. CASE ~(1 =< Len(s))
      <4>1. Pending(t).op = "none"
        BY <3>1, <3>2, <3>6 DEF Pending, At
      <4> QED  BY <4>1 DEF HalfWay
    <3> QED  BY <3>5, <3>6
  <2> QED  BY <1>8, <2>1 DEF Halves
<1>16. report = EmptyReport /\ phase = "running"
  BY DEF Init
<1>17. Ranges
  <2>1. /\ observed = [u \in Thread |-> 0] /\ beginRangeCV = NoEntry
        /\ lastFlush = [l \in Line |-> 0] /\ atomicSeen = [l \in Line |-> 0]
    BY DEF Init, ZeroCV
  <2> QED  BY <2>1 DEF Ranges, Clock
<1>18. Reported
  <2>1. ZeroCV \in Clock
    BY DEF ZeroCV, Clock
  <2> QED  BY <1>16, <2>1 DEF Reported, EmptyReport
<1> QED  BY <1>7, <1>12, <1>13, <1>14, <1>15, <1>16, <1>17, <1>18 DEF IInv, Running, Settled

\* Every step keeps it.
LEMMA EveryStepKeeps == IInv /\ [Next]_vars => IInv'
<1> SUFFICES ASSUME IInv, [Next]_vars PROVE IInv'
  OBVIOUS
<1>1. ASSUME NEW t \in Thread, Write(t) PROVE IInv'
  BY <1>1, WriteKeeps
<1>2. ASSUME NEW t \in Thread, CacheOp(t) PROVE IInv'
  BY <1>2, CacheOpKeeps
<1>3. ASSUME NEW t \in Thread, SFence(t) PROVE IInv'
  BY <1>3, SFenceKeeps
<1>4. ASSUME NEW t \in Thread, Fence(t) PROVE IInv'
  BY <1>4, FenceKeeps
<1>5. ASSUME NEW t \in Thread, SeqCstStore(t) PROVE IInv'
  BY <1>5, SeqCstStoreKeeps
<1>6. ASSUME NEW t \in Thread, Read(t) PROVE IInv'
  BY <1>6, ReadKeeps
<1>7. ASSUME NEW t \in Thread, RMWRead(t) PROVE IInv'
  BY <1>7, RMWReadKeeps
<1>8. ASSUME NEW t \in Thread, RMW(t) PROVE IInv'
  BY <1>8, RMWKeeps
<1>9. ASSUME NEW t \in Thread, CASFail(t) PROVE IInv'
  BY <1>9, CASFailKeeps
<1>10. ASSUME NEW t \in Thread, Persist(t) PROVE IInv'
  BY <1>10, PersistKeeps
<1>11. ASSUME NEW t \in Thread, Evict(t) PROVE IInv'
  BY <1>11, EvictKeeps
<1>12. ASSUME NEW t \in Thread, CrashInDrain(t) PROVE IInv'
  BY <1>12, CrashInDrainKeeps
<1>13. ASSUME NEW t \in Thread, CrashInEviction(t) PROVE IInv'
  BY <1>13, CrashInEvictionKeeps
<1>14. CASE Crash
  BY <1>14, CrashKeeps
<1>15. ASSUME NEW b \in Address, Load(b) PROVE IInv'
  BY <1>15, LoadKeeps
<1>16. CASE RecoveryFence
  BY <1>16, RecoveryFenceKeeps
<1>17. CASE UNCHANGED vars
  BY <1>17, StutterKeeps
<1> QED
  BY <1>1, <1>2, <1>3, <1>4, <1>5, <1>6, <1>7, <1>8, <1>9, <1>10, <1>11, <1>12, <1>13, <1>14,
     <1>15, <1>16, <1>17 DEF Next

\* The inductive invariant of the analysis and of what it is told.
THEOREM IsInvariant == Spec => []IInv
<1>1. Init => IInv
  BY Initially
<1>2. IInv /\ [Next]_vars => IInv'
  BY EveryStepKeeps
<1> QED  BY <1>1, <1>2, PTL DEF Spec

\* What is credited, whether the execution runs or has crashed.
LEMMA AlwaysCredits ==
  ASSUME IInv
  PROVE  /\ acts \in Seq(Action) /\ flushmap \in SUBSET Entry /\ Credits(acts, flushmap)
         /\ Latest(acts, lastWrites) /\ Pendings(acts, pendingclwbs)
         /\ BuffersIn(acts, storeBuffer, flushBuffer)
         /\ \E u \in Nat : Acted(acts, u)
<1>1. acts \in Seq(Action) /\ flushmap \in SUBSET Entry
  BY NowFields DEF IInv, Typed
<1>2. CASE phase = "running"
  <2>1. Good(Now, 0, 0) /\ used \in Nat
    BY <1>2, RunningIs
  <2>2. Analysed(Now) /\ Core(Now, 0)
    BY <2>1, GoodIs
  <2>3. Credits(acts, flushmap) /\ Latest(acts, lastWrites) /\ Pendings(acts, pendingclwbs)
    BY <2>2, NowIs DEF Analysed
  <2>4. BuffersIn(acts, storeBuffer, flushBuffer) /\ Acted(acts, used)
    BY <2>2, NowIs DEF Core, Buffers
  <2> QED  BY <1>1, <2>1, <2>3, <2>4
<1>3. CASE phase # "running"
  BY <1>1, <1>3 DEF IInv, Settled
<1> QED  BY <1>2, <1>3

LEMMA FlushesIs ==
  ASSUME NEW w
  PROVE  Flushes(w) = FlushesIn(acts, w) /\ (CreditedTooSoon(w) <=> CreditedTooSoonIn(acts, w))
BY DEF Flushes, FlushesIn, WroteBackTo, WroteBackToIn, CreditedTooSoon, CreditedTooSoonIn, LineOf, Act

\* evictFlushBufferAnalysis and fenceExecutionAnalysis never credit a flush to a store
\* of which nothing has been written back to persistent memory, whatever the order
\* in which stores, flushes and fences of the threads leave the buffers.
THEOREM CreditsAreRight == Spec => []CreditedIsPersisted
<1>1. IInv => CreditedIsPersisted
  <2> SUFFICES ASSUME IInv, NEW e \in flushmap
               PROVE  Flushes(e.w) # {} \/ CreditedTooSoon(e.w)
    BY DEF CreditedIsPersisted
  <2>1. Justified(acts, e)
    BY AlwaysCredits DEF Credits
  <2> QED  BY <2>1, FlushesIs DEF Justified
<1> QED  BY <1>1, IsInvariant, PTL

\* mayReadFromAnalysis misses no race: it reports every nonatomic store it may read
\* from that was neither flushed, in what the loads have seen, nor followed by an atomic
\* store of its line that was read; with the two known deviations.
THEOREM RacesAreFound == Spec => []NoRaceMissed
<1>1. IInv => NoRaceMissed
  <2> SUFFICES ASSUME IInv, NEW w \in report.cands \ {0}, ~IsAtomicWrite(acts[w]),
                      w \notin report.errors, ~(acts[w].seq =< report.atomicSeen),
                      ~CreditedTooSoon(w), ~ForeignFence(w)
               PROVE  \E f \in Flushes(w) : acts[f].seq =< report.observed[acts[f].t]
    BY DEF NoRaceMissed
  <2>1. flushExistsBeforeCV(flushmap, acts, w, report.observed)
    BY DEF IInv, Reported
  <2>2. PICK e \in flushmap : e.w = w /\ acts[e.f].seq =< report.observed[e.t]
    BY <2>1 DEF flushExistsBeforeCV
  <2>3. Justified(acts, e)
    BY AlwaysCredits DEF Credits
  <2>4. e.f \in Inds(acts) /\ e.t = acts[e.f].t
    BY <2>3 DEF Justified
  <2>5. CASE IsClflush(acts[e.f])
    <3>1. e.f \in Flushes(w)
      BY <2>2, <2>3, <2>5, FlushesIs DEF Justified
    <3> QED  BY <2>2, <2>4, <3>1
  <2>6. CASE ~IsClflush(acts[e.f])
    <3>1. Flushes(w) # {}
      BY <2>2, <2>3, FlushesIs DEF Justified
    <3>2. PICK f \in Flushes(w) : acts[f].t = e.t /\ ~(acts[f].seq > acts[e.f].seq)
      BY <2>2, <2>6, <3>1 DEF ForeignFence
    <3>3. acts \in Seq(Action) /\ f \in Inds(acts)
      <4>1. acts \in Seq(Action)
        BY AlwaysCredits
      <4> QED  BY <3>2, <4>1, ActsIs DEF Flushes, Act
    <3>4. acts[f].seq \in Nat /\ acts[e.f].seq \in Nat
      BY <2>4, <3>3, ActsIs
    <3>5. report.observed[e.t] \in Nat
      <4>1. report.observed \in Clock
        BY DEF IInv, Reported
      <4>2. e.t \in Thread
        BY <2>4, <3>3, ActsIs
      <4> QED  BY <4>1, <4>2 DEF Clock
    <3>6. acts[f].seq =< report.observed[e.t]
      BY <2>2, <3>2, <3>4, <3>5
    <3> QED  BY <3>2, <3>6
  <2> QED  BY <2>5, <2>6
<1> QED  BY <1>1, IsInvariant, PTL

\* Nor does it warn of a store that its own thread flushed, and fenced if the flush
\* was a clwb, before another store overwrote it.
THEOREM WarningsAreRight == Spec => []NoFalseWarning
<1>1. IInv => NoFalseWarning
  <2> SUFFICES ASSUME IInv, NEW w \in report.warnings, FlushedByItsThread(w) PROVE FALSE
    BY DEF NoFalseWarning
  <2>1. /\ w \in report.cands \ {0} /\ ~Credited(flushmap, w)
        /\ w \in Inds(acts) /\ IsWrite(acts[w]) /\ acts[w].seq # 0
    BY DEF IInv, Reported
  <2>2. phase # "running"
    <3>1. CASE phase = "running"
      BY <3>1, RunningIs DEF EmptyReport
    <3> QED  BY <3>1
  <2>3. /\ FencesWait(acts) /\ ClflushCredits(acts, flushmap) /\ FenceCredits(acts, flushmap, 0)
    BY <2>2 DEF IInv, Settled
  <2>4. acts \in Seq(Action) /\ DOMAIN acts = Inds(acts)
    BY AlwaysCredits, ActsIs
  <2>5. PICK f \in Inds(acts), g \in Inds(acts) :
          /\ w < f /\ f =< g /\ acts[f].t = acts[w].t /\ acts[g].t = acts[w].t
          /\ LineOf(acts[f]) = LineOf(acts[w]) /\ acts[g].seq # 0
          /\ \/ IsClflush(acts[f]) /\ g = f
             \/ acts[f].op = "clwb" /\ IsFence(acts[g])
          /\ Survives(acts, w, acts[g].seq)
    BY <2>4 DEF FlushedByItsThread, Act, LineOf, Survives
  <2>6. CASE IsClflush(acts[f]) /\ g = f
    <3>1. FlushOf(acts, w, f)
      BY <2>1, <2>5, <2>6 DEF FlushOf
    <3> QED  BY <2>1, <2>3, <2>5, <2>6, <3>1 DEF ClflushCredits
  <2>7. CASE acts[f].op = "clwb" /\ IsFence(acts[g])
    <3>1. f # g
      BY <2>7 DEF IsFence
    <3>2. f < g /\ g # 0
      BY <2>4, <2>5, <3>1, ActsIs
    <3>3. acts[f].seq # 0
      BY <2>3, <2>5, <2>7, <3>2 DEF FencesWait
    <3>4. FlushOf(acts, w, f)
      BY <2>1, <2>5, <3>3 DEF FlushOf
    <3> QED  BY <2>1, <2>3, <2>5, <2>7, <3>2, <3>4 DEF FenceCredits
  <2> QED  BY <2>5, <2>6, <2>7
<1> QED  BY <1>1, IsInvariant, PTL

\* The tables of the analysis hold what they should: the last store to a byte is the
\* newest, a flush is filed under its own thread, a clwb that waits for a fence has left
\* its thread's buffers.
THEOREM TablesAreRight == Spec => []TypeOK
<1>1. IInv => TypeOK
  <2> SUFFICES ASSUME IInv PROVE TypeOK
    OBVIOUS
  <2>1. /\ acts \in Seq(Action) /\ DOMAIN acts = Inds(acts)
        /\ Credits(acts, flushmap)
        /\ Latest(acts, lastWrites) /\ Pendings(acts, pendingclwbs)
        /\ BuffersIn(acts, storeBuffer, flushBuffer) /\ Numbered(acts)
    BY AlwaysCredits, ActsIs DEF Acted
  <2>2. ASSUME NEW b \in Address
        PROVE  lastWrites[b] = IF Writes(acts, b) = {} THEN 0 ELSE Newest(acts, Writes(acts, b))
    <3>1. PICK w : w = lastWrites[b]
      OBVIOUS
    <3>2. CASE Writes(acts, b) = {}
      BY <2>1, <3>2 DEF Latest
    <3>3. CASE Writes(acts, b) # {}
      <4>1. w \in Writes(acts, b) /\ \A v \in Writes(acts, b) : acts[v].seq =< acts[w].seq
        BY <2>1, <3>1, <3>3 DEF Latest
      <4>2. PICK v : v = Newest(acts, Writes(acts, b))
        OBVIOUS
      <4>3. v \in Writes(acts, b) /\ \A j \in Writes(acts, b) : acts[j].seq =< acts[v].seq
        BY <4>1, <4>2 DEF Newest
      <4>4. /\ v \in Inds(acts) /\ w \in Inds(acts) /\ acts[v].seq \in Nat /\ acts[w].seq \in Nat
            /\ acts[v].seq # 0
        BY <2>1, <4>1, <4>3, WritesIs, ActsIs
      <4>5. acts[v].seq = acts[w].seq
        BY <4>1, <4>3, <4>4
      <4>6. v = w
        BY <2>1, <4>4, <4>5 DEF Numbered
      <4> QED  BY <3>1, <3>3, <4>2, <4>6
    <3> QED  BY <3>2, <3>3
  <2>3. ASSUME NEW e \in flushmap
        PROVE  /\ e.w \in Act /\ IsWrite(acts[e.w]) /\ e.f \in Act /\ acts[e.f].seq # 0
               /\ e.t = acts[e.f].t
               /\ \A d \in flushmap : d.w = e.w /\ d.t = e.t => d = e
    BY <2>1 DEF Credits, Justified, Act
  <2>4. ASSUME NEW c \in ToSet(pendingclwbs)
        PROVE  /\ c \in Act /\ acts[c].op = "clwb" /\ acts[c].seq # 0
               /\ \A t \in Thread : c \notin ToSet(storeBuffer[t]) \cup ToSet(flushBuffer[t])
    <3>1. pendingclwbs \in Seq(Nat) /\ storeBuffer \in [Thread -> Seq(Nat)]
          /\ flushBuffer \in [Thread -> Seq(Nat)]
      BY NowFields DEF IInv, Typed
    <3>2. \A s \in Seq(Nat) : \A k \in ToSet(s) : \E j \in Inds(s) : s[j] = k
      BY LenProperties DEF ToSet, Inds
    <3>3. c \in Act /\ acts[c].op = "clwb" /\ acts[c].seq # 0
      <4>1. PICK j \in Inds(pendingclwbs) : pendingclwbs[j] = c
        BY <3>1, <3>2
      <4> QED  BY <2>1, <4>1 DEF Pendings, Act
    <3>4. ASSUME NEW t \in Thread, c \in ToSet(storeBuffer[t]) PROVE FALSE
      <4>1. PICK j \in Inds(storeBuffer[t]) : storeBuffer[t][j] = c
        BY <3>1, <3>2, <3>4
      <4> QED  BY <2>1, <3>3, <4>1 DEF BuffersIn
    <3>5. ASSUME NEW t \in Thread, c \in ToSet(flushBuffer[t]) PROVE FALSE
      <4>1. PICK j \in Inds(flushBuffer[t]) : flushBuffer[t][j] = c
        BY <3>1, <3>2, <3>5
      <4> QED  BY <2>1, <3>3, <4>1 DEF BuffersIn
    <3> QED  BY <3>3, <3>4, <3>5
  <2>5. beginRangeCV = NoEntry \/ beginRangeCV \in [Thread -> Nat]
    BY DEF IInv, Ranges, Clock
  <2> QED  BY <2>2, <2>3, <2>4, <2>5 DEF TypeOK
<1> QED  BY <1>1, IsInvariant, PTL
===============================================================================
