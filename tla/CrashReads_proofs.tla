--------------------------- MODULE CrashReads_proofs ---------------------------
(***************************************************************************)
(* CrashReads implements PersistedCuts, and loads offer every state that   *)
(* the windows allow, for every set of accesses, word and line size and    *)
(* bound.  The argument is by one vector of cuts at a time: a cut of a     *)
(* crashed execution lays that execution's writes up to it under the bytes *)
(* that newer executions have written, and the loop over its writes goes   *)
(* through the cuts from the latest to the earliest.                       *)
(***************************************************************************)
EXTENDS CrashReads, WellFoundedInduction, TLAPS

-------------------------------------------------------------------------------
(* Natural numbers.                                                        *)

\* Induction, for a set rather than a predicate.
LEMMA InductionInSet ==
  ASSUME NEW S, 0 \in S, \A k \in Nat : k \in S => k + 1 \in S
  PROVE  Nat \subseteq S
<1> SUFFICES ASSUME Nat \ S # {} PROVE FALSE
  OBVIOUS
<1>1. PICK x \in Nat \ S : \A y \in Nat \ S : <<y, x>> \notin OpToRel(<, Nat)
  <2>1. Nat \ S \subseteq Nat
    OBVIOUS
  <2> QED
    BY <2>1, NatLessThanWellFounded, WFMin
<1>2. x - 1 \in Nat /\ (x - 1) + 1 = x
  OBVIOUS
<1>3. <<x - 1, x>> \in OpToRel(<, Nat)
  BY <1>2 DEF OpToRel
<1> QED
  BY <1>1, <1>2, <1>3

LEMMA LeastOf ==
  ASSUME NEW S \in SUBSET Nat, S # {}
  PROVE  Min(S) \in S /\ \A x \in S : Min(S) =< x
<1>1. PICK x \in S : \A y \in S : <<y, x>> \notin OpToRel(<, Nat)
  BY NatLessThanWellFounded, WFMin
<1>2. \A y \in S : x =< y
  <2> SUFFICES ASSUME NEW y \in S, y < x PROVE FALSE
    OBVIOUS
  <2>1. <<y, x>> \in OpToRel(<, Nat)
    BY DEF OpToRel
  <2> QED
    BY <1>1, <2>1
<1> QED
  BY <1>2 DEF Min

LEMMA GreatestOf ==
  ASSUME NEW S \in SUBSET Nat, S # {}, NEW m \in Nat, \A x \in S : x =< m
  PROVE  Max(S) \in S /\ \A x \in S : x =< Max(S)
<1> DEFINE T == {y \in Nat : m - y \in S}
<1>1. T \in SUBSET Nat /\ T # {}
  <2>1. PICK x \in S : TRUE
    OBVIOUS
  <2>2. m - x \in T
    BY <2>1
  <2> QED
    BY <2>2
<1>2. PICK x \in S : Min(T) = m - x
  <2>1. Min(T) \in T
    <3> HIDE DEF T
    <3> QED
      BY <1>1, LeastOf
  <2>2. m - (m - Min(T)) = Min(T)
    BY <2>1
  <2> QED
    BY <2>1, <2>2
<1>3. \A y \in S : y =< x
  <2> SUFFICES ASSUME NEW y \in S PROVE y =< x
    OBVIOUS
  <2>1. m - y \in T
    OBVIOUS
  <2>2. Min(T) =< m - y
    <3> HIDE DEF T
    <3> QED
      BY <1>1, <2>1, LeastOf
  <2> QED
    BY <1>2, <2>2
<1> QED
  BY <1>3 DEF Max

-------------------------------------------------------------------------------
(* The cuts of one execution.                                              *)

Crashing == 1 .. MaxExec - 1

\* The writes of execution e to word w are in the order of their clocks.
Ordered(e, w) ==
  /\ wr[e][w] \in Seq(WriteRecord)
  /\ \A i, j \in DOMAIN wr[e][w] : i < j => wr[e][w][i].seq < wr[e][w][j].seq

\* A line may have been written back at some clock.
WindowOK(e, c) ==
  /\ begin[e][c] \in 0 .. MaxSeq /\ end[e][c] \in 0 .. MaxSeq
  /\ end[e][c] = 0 \/ begin[e][c] =< end[e][c]

Lowest(e, l) == begin[e][getCacheID(l)]
Highest(e, l) == IF end[e][getCacheID(l)] = 0 THEN MaxSeq ELSE end[e][getCacheID(l)]
Window(e, l) == Lowest(e, l) .. Highest(e, l)

\* The writes from the j-th on that a line with cut q keeps.
KeptFrom(e, l, q, j, b) == {k \in Covering(e, l, b) : k >= j /\ Writes(e, l)[k].seq =< q}

\* They are laid under the slots of v.
Laid(e, l, v, q, j) ==
  [b \in BytesAt(l) |->
     IF v[b] # None \/ KeptFrom(e, l, q, j, b) = {} THEN v[b]
     ELSE [exec |-> e, idx |-> Max(KeptFrom(e, l, q, j, b))]]

Started(e, l, q, j) ==
  \E k \in DOMAIN Writes(e, l) :
    k >= j /\ Writes(e, l)[k].seq =< q /\ Overlap(Writes(e, l)[k].loc, l)

Vectors(l) == [BytesAt(l) -> {None} \cup [exec : Nat \ {0}, idx : Nat]]

LEMMA Bytes ==
  ASSUME NEW l \in Loc
  PROVE  /\ l.addr \in Nat /\ l.size \in 1 .. WordSize
         /\ alignAddress(l) \in Word /\ getCacheID(l) \in Line
         /\ alignAddress(l) \in Nat
         /\ BytesAt(l) # {} /\ BytesAt(l) \subseteq Nat
         /\ BytesAt(l) \subseteq alignAddress(l) .. alignAddress(l) + WordSize - 1
<1>1. l.addr \in Nat /\ l.size \in 1 .. WordSize /\ (l.addr % WordSize) + l.size =< WordSize
  BY AddressAssumption
<1>2. l.addr % WordSize \in 0 .. WordSize - 1 /\ l.addr % WordSize =< l.addr
  BY <1>1, AddressAssumption
<1>3. l.addr \in BytesAt(l)
  BY <1>1 DEF BytesAt
<1>4. BytesAt(l) \subseteq Nat
  BY <1>1 DEF BytesAt
<1>5. BytesAt(l) \subseteq alignAddress(l) .. alignAddress(l) + WordSize - 1
  <2> DEFINE r == l.addr % WordSize
  <2> HIDE DEF r
  <2>1. /\ r \in Nat /\ r =< l.addr /\ r + l.size =< WordSize /\ WordSize \in Nat
        /\ alignAddress(l) = l.addr - r
    BY <1>1, <1>2, AddressAssumption DEF r, alignAddress
  <2> QED
    BY <1>1, <2>1 DEF BytesAt
<1>6. alignAddress(l) \in Nat
  BY <1>1, <1>2 DEF alignAddress
<1> QED
  BY <1>1, <1>3, <1>4, <1>5, <1>6 DEF Word, Line

\* Where a write lies.
LEMMA WriteLoc ==
  ASSUME NEW x \in WriteRecord
  PROVE  x.loc.addr \in Nat /\ x.loc.size \in Nat \ {0} /\ x.seq \in 0 .. MaxSeq
<1>1. x.seq \in 0 .. MaxSeq /\ (x.loc \in Loc \/ \E l \in Loc : x.loc = [addr |-> alignAddress(l), size |-> WordSize])
  BY DEF WriteRecord, Word
<1>2. CASE x.loc \in Loc
  BY <1>1, <1>2, AddressAssumption
<1>3. CASE \E l \in Loc : x.loc = [addr |-> alignAddress(l), size |-> WordSize]
  BY <1>1, <1>3, Bytes, AddressAssumption
<1> QED
  BY <1>1, <1>2, <1>3

LEMMA CoveringOverlaps ==
  ASSUME NEW e, NEW l \in Loc, Ordered(e, alignAddress(l)), NEW b \in BytesAt(l),
         NEW k \in Covering(e, l, b)
  PROVE  /\ k \in DOMAIN Writes(e, l) /\ k \in Nat \ {0}
         /\ Overlap(Writes(e, l)[k].loc, l)
         /\ Writes(e, l)[k].seq \in 0 .. MaxSeq
<1>1. k \in DOMAIN Writes(e, l) /\ Writes(e, l)[k] \in WriteRecord /\ k \in Nat \ {0}
  BY DEF Covering, Ordered, Writes
<1>2. Overlap(Writes(e, l)[k].loc, l)
  BY <1>1, Bytes, WriteLoc DEF Covering, BytesAt, Overlap
<1> QED
  BY <1>1, <1>2, WriteLoc

\* A set of writes kept has a newest one.
LEMMA NewestKept ==
  ASSUME NEW e, NEW l \in Loc, Ordered(e, alignAddress(l)), NEW b \in BytesAt(l),
         NEW K \in SUBSET Covering(e, l, b), K # {}
  PROVE  Max(K) \in K /\ (\A k \in K : k =< Max(K)) /\ Max(K) \in Nat \ {0}
<1>1. Len(Writes(e, l)) \in Nat /\ DOMAIN Writes(e, l) = 1 .. Len(Writes(e, l))
  BY DEF Ordered, Writes
<1>2. K \in SUBSET Nat /\ \A k \in K : k =< Len(Writes(e, l)) /\ k # 0
  BY <1>1 DEF Covering
<1> QED
  BY <1>1, <1>2, GreatestOf

LEMMA LaidVector ==
  ASSUME NEW e \in Exec, NEW l \in Loc, Ordered(e, alignAddress(l)),
         NEW v \in Vectors(l), NEW q, NEW j
  PROVE  Laid(e, l, v, q, j) \in Vectors(l)
<1> SUFFICES ASSUME NEW b \in BytesAt(l)
             PROVE  Laid(e, l, v, q, j)[b] \in {None} \cup [exec : Nat \ {0}, idx : Nat]
  BY DEF Laid, Vectors
<1>1. CASE v[b] # None \/ KeptFrom(e, l, q, j, b) = {}
  BY <1>1 DEF Laid, Vectors
<1>2. CASE ~(v[b] # None \/ KeptFrom(e, l, q, j, b) = {})
  <2>1. Max(KeptFrom(e, l, q, j, b)) \in Nat
    BY <1>2, NewestKept DEF KeptFrom
  <2> QED
    BY <1>2, <2>1 DEF Laid, Exec
<1> QED
  BY <1>1, <1>2

\* Below the first write that the cut keeps, nothing is laid.
LEMMA NothingLaid ==
  ASSUME NEW e \in Exec, NEW l \in Loc, Ordered(e, alignAddress(l)),
         NEW v \in Vectors(l), NEW q, NEW j, ~Started(e, l, q, j)
  PROVE  Laid(e, l, v, q, j) = v
<1>1. \A b \in BytesAt(l) : KeptFrom(e, l, q, j, b) = {}
  BY CoveringOverlaps DEF KeptFrom, Started
<1> QED
  BY <1>1 DEF Laid, Vectors

\* One more write: what the loop does to a vector when the cut keeps it.
LEMMA LaidStep ==
  ASSUME NEW e \in Exec, NEW l \in Loc, Ordered(e, alignAddress(l)),
         NEW v \in Vectors(l), NEW q, NEW k \in DOMAIN Writes(e, l)
  PROVE  Laid(e, l, v, q, k) =
           IF Writes(e, l)[k].seq =< q THEN Fill(Laid(e, l, v, q, k + 1), e, k, l)
           ELSE Laid(e, l, v, q, k + 1)
<1> DEFINE u == Laid(e, l, v, q, k + 1)
           K(j, b) == KeptFrom(e, l, q, j, b)
<1>0. k \in Nat /\ DOMAIN u = BytesAt(l) /\ DOMAIN Laid(e, l, v, q, k) = BytesAt(l)
  BY DEF Writes, Ordered, Laid
<1>1. \A b \in BytesAt(l) : \A c \in Covering(e, l, b) : c \in Nat
  BY CoveringOverlaps
<1>2. ASSUME NEW b \in BytesAt(l), Writes(e, l)[k].seq =< q, k \in Covering(e, l, b)
      PROVE  K(k, b) = K(k + 1, b) \cup {k}
  BY <1>0, <1>1, <1>2 DEF KeptFrom
<1>3. ASSUME NEW b \in BytesAt(l), ~(Writes(e, l)[k].seq =< q /\ k \in Covering(e, l, b))
      PROVE  K(k, b) = K(k + 1, b)
  BY <1>0, <1>1, <1>3 DEF KeptFrom
<1>4. ASSUME NEW b \in BytesAt(l), Writes(e, l)[k].seq =< q, k \in Covering(e, l, b)
      PROVE  Laid(e, l, v, q, k)[b] = IF u[b] = None THEN [exec |-> e, idx |-> k] ELSE u[b]
  <2>1. CASE v[b] # None
    BY <2>1 DEF Laid
  <2>2. CASE v[b] = None /\ K(k + 1, b) = {}
    <3>1. K(k, b) = {k}
      BY <1>2, <1>4, <2>2
    <3>2. Max({k}) = k
      BY <1>0 DEF Max
    <3> QED
      BY <2>2, <3>1, <3>2 DEF Laid
  <2>3. CASE v[b] = None /\ K(k + 1, b) # {}
    <3> DEFINE x == Max(K(k + 1, b))
    <3>1. x \in K(k + 1, b) /\ (\A y \in K(k + 1, b) : y =< x) /\ x \in Nat \ {0}
      BY <2>3, NewestKept DEF KeptFrom
    <3>2. x >= k + 1
      BY <3>1 DEF KeptFrom
    <3>3. K(k, b) = K(k + 1, b) \cup {k}
      BY <1>2, <1>4
    <3>4. Max(K(k, b)) = x
      <4>1. Max(K(k, b)) \in K(k, b) /\ \A y \in K(k, b) : y =< Max(K(k, b))
        BY <3>3, NewestKept DEF KeptFrom
      <4>2. x \in K(k, b) /\ Max(K(k, b)) \in Nat
        BY <1>1, <3>1, <3>3, <4>1 DEF KeptFrom
      <4> HIDE DEF K, x
      <4> QED
        BY <1>0, <3>1, <3>2, <3>3, <4>1, <4>2
    <3>5. u[b] = [exec |-> e, idx |-> x] /\ u[b] # None
      BY <2>3 DEF Laid, None, Exec
    <3> QED
      BY <2>3, <3>3, <3>4, <3>5 DEF Laid
  <2> QED
    BY <2>1, <2>2, <2>3
<1>5. ASSUME NEW b \in BytesAt(l), ~(Writes(e, l)[k].seq =< q /\ k \in Covering(e, l, b))
      PROVE  Laid(e, l, v, q, k)[b] = u[b]
  BY <1>3, <1>5 DEF Laid
<1>6. CASE Writes(e, l)[k].seq =< q
  <2>1. Laid(e, l, v, q, k) = [b \in BytesAt(l) |-> Laid(e, l, v, q, k)[b]]
    BY DEF Laid
  <2>2. \A b \in BytesAt(l) : Laid(e, l, v, q, k)[b] = Fill(u, e, k, l)[b]
    BY <1>0, <1>4, <1>5, <1>6 DEF Fill
  <2>3. Fill(u, e, k, l) = [b \in BytesAt(l) |-> Fill(u, e, k, l)[b]]
    BY <1>0 DEF Fill
  <2> QED
    BY <1>6, <2>1, <2>2, <2>3
<1>7. CASE ~(Writes(e, l)[k].seq =< q)
  BY <1>5, <1>7 DEF Laid
<1> QED
  BY <1>6, <1>7

-------------------------------------------------------------------------------
(* The loop over the writes of one execution.                              *)

\* What cuts of the window whose first write is the j-th or a newer one lay
\* under the seeds.
Walked(e, l, S, j) ==
  {u \in Vectors(l) :
     \E v \in S, q \in Window(e, l) : Started(e, l, q, j) /\ u = Laid(e, l, v, q, j)}

\* The state of the loop once it is past write j.
Reached(e, l, S, j, s) ==
  /\ s.vecs = Walked(e, l, S, j)
  /\ s.pastWindow <=> Started(e, l, Lowest(e, l), j)
  /\ s.isDone => s.pastWindow /\ \A v \in s.vecs : Full(v)

LEMMA WindowFacts ==
  ASSUME NEW e, NEW l, WindowOK(e, getCacheID(l))
  PROVE  /\ Lowest(e, l) \in Window(e, l)
         /\ \A q \in Window(e, l) : q \in 0 .. MaxSeq /\ Lowest(e, l) =< q /\ q =< Highest(e, l)
         /\ Highest(e, l) \in 0 .. MaxSeq
BY CrashReadsAssumption DEF WindowOK, Lowest, Highest, Window

LEMMA StartedStep ==
  ASSUME NEW e, NEW l \in Loc, Ordered(e, alignAddress(l)), NEW q, NEW k \in DOMAIN Writes(e, l)
  PROVE  Started(e, l, q, k) <=>
           \/ Started(e, l, q, k + 1)
           \/ Writes(e, l)[k].seq =< q /\ Overlap(Writes(e, l)[k].loc, l)
<1>1. DOMAIN Writes(e, l) \subseteq Nat
  BY DEF Writes, Ordered
<1> QED
  BY <1>1 DEF Started

\* Later cuts keep no less, and what a cut keeps from a write on is newer.
LEMMA StartedLater ==
  ASSUME NEW e, NEW l \in Loc, Ordered(e, alignAddress(l)), NEW k \in DOMAIN Writes(e, l),
         NEW q \in Nat, Started(e, l, q, k + 1)
  PROVE  /\ Writes(e, l)[k].seq < q
         /\ \A r \in Nat : q =< r => Started(e, l, r, k + 1)
<1>1. PICK x \in DOMAIN Writes(e, l) :
        x >= k + 1 /\ Writes(e, l)[x].seq =< q /\ Overlap(Writes(e, l)[x].loc, l)
  BY DEF Started
<1>2. x \in Nat /\ k \in Nat /\ Writes(e, l)[k].seq < Writes(e, l)[x].seq
      /\ Writes(e, l)[k].seq \in Nat /\ Writes(e, l)[x].seq \in Nat
  <2>1. Writes(e, l)[k] \in WriteRecord /\ Writes(e, l)[x] \in WriteRecord /\ x \in Nat /\ k \in Nat
    BY DEF Writes, Ordered
  <2> QED
    BY <1>1, <2>1, WriteLoc DEF Writes, Ordered
<1> QED
  BY <1>1, <1>2 DEF Started

LEMMA FillFull ==
  ASSUME NEW e, NEW l, NEW v \in Vectors(l), NEW k, Full(v)
  PROVE  Fill(v, e, k, l) = v
BY DEF Fill, Full, Vectors

LEMMA FillElsewhere ==
  ASSUME NEW e \in Exec, NEW l \in Loc, Ordered(e, alignAddress(l)),
         NEW v \in Vectors(l), NEW k \in DOMAIN Writes(e, l), ~Overlap(Writes(e, l)[k].loc, l)
  PROVE  Fill(v, e, k, l) = v
BY CoveringOverlaps DEF Fill, Vectors

\* Nothing more is laid: write k is not kept, or does not overlap, or comes
\* under vectors that are full.
LEMMA WalkSkip ==
  ASSUME NEW e \in Exec, NEW l \in Loc, Ordered(e, alignAddress(l)),
         WindowOK(e, getCacheID(l)),
         NEW S \in SUBSET Vectors(l), NEW k \in DOMAIN Writes(e, l),
         NEW s, Reached(e, l, S, k + 1, s),
         s.isDone \/ ~InWindow(e, l, k) \/ ~Overlap(Writes(e, l)[k].loc, l)
  PROVE  Reached(e, l, S, k, s)
<1>0. Writes(e, l)[k].seq \in 0 .. MaxSeq
  BY WriteLoc DEF Writes, Ordered
<1>1. CASE s.isDone
  <2>1. \A q \in Window(e, l) : Started(e, l, q, k + 1) /\ Started(e, l, q, k)
    <3>1. Lowest(e, l) \in Nat /\ Started(e, l, Lowest(e, l), k + 1)
      BY <1>1, WindowFacts DEF Reached
    <3>2. \A q \in Window(e, l) : q \in Nat /\ Lowest(e, l) =< q
      BY WindowFacts
    <3> QED
      BY <3>1, <3>2, StartedLater, StartedStep
  <2>2. ASSUME NEW v \in S, NEW q \in Window(e, l)
        PROVE  Laid(e, l, v, q, k) = Laid(e, l, v, q, k + 1)
    <3>1. Laid(e, l, v, q, k + 1) \in Vectors(l)
      BY LaidVector
    <3>2. Full(Laid(e, l, v, q, k + 1))
      BY <1>1, <2>1, <3>1 DEF Reached, Walked
    <3> QED
      BY <3>1, <3>2, LaidStep, FillFull
  <2>3. Walked(e, l, S, k) = Walked(e, l, S, k + 1)
    BY <2>1, <2>2 DEF Walked
  <2>4. Started(e, l, Lowest(e, l), k)
    BY <2>1, WindowFacts
  <2> QED
    BY <1>1, <2>3, <2>4 DEF Reached
<1>2. CASE ~InWindow(e, l, k) \/ ~Overlap(Writes(e, l)[k].loc, l)
  <2>1. ASSUME NEW q \in Window(e, l)
        PROVE  /\ Started(e, l, q, k) <=> Started(e, l, q, k + 1)
               /\ \A v \in S : Laid(e, l, v, q, k) = Laid(e, l, v, q, k + 1)
    <3>1. CASE ~Overlap(Writes(e, l)[k].loc, l)
      BY <3>1, StartedStep, LaidStep, LaidVector, FillElsewhere
    <3>2. CASE ~InWindow(e, l, k)
      <4>1. ~(Writes(e, l)[k].seq =< q)
        BY <1>0, <3>2 DEF InWindow, Window, Highest, WindowOK, Lowest
      <4> QED
        BY <4>1, StartedStep, LaidStep
    <3> QED
      BY <1>2, <3>1, <3>2
  <2>2. Walked(e, l, S, k) = Walked(e, l, S, k + 1)
    BY <2>1 DEF Walked
  <2> QED
    BY <2>1, <2>2, WindowFacts DEF Reached
<1> QED
  BY <1>1, <1>2

LEMMA WalkStep ==
  ASSUME NEW e \in Exec, NEW l \in Loc, Ordered(e, alignAddress(l)),
         WindowOK(e, getCacheID(l)),
         NEW S \in SUBSET Vectors(l), NEW k \in DOMAIN Writes(e, l),
         NEW s, Reached(e, l, S, k + 1, s)
  PROVE  Reached(e, l, S, k, visit(e, l, S, k, s))
<1> DEFINE lo == Lowest(e, l)
           x == Writes(e, l)[k]
           From == s.vecs \cup (IF s.pastWindow THEN {} ELSE S)
           t == visit(e, l, S, k, s)
<1>1. CASE s.isDone \/ ~InWindow(e, l, k) \/ ~Overlap(x.loc, l)
  <2>1. t = s
    BY <1>1 DEF visit
  <2> QED
    BY <1>1, <2>1, WalkSkip
<1>2. CASE ~(s.isDone \/ ~InWindow(e, l, k) \/ ~Overlap(x.loc, l))
  <2>1. /\ t.vecs = {Fill(v, e, k, l) : v \in From}
        /\ t.pastWindow <=> (s.pastWindow \/ IsOlder(e, l, k))
        /\ t.isDone => (t.pastWindow /\ \A v \in t.vecs : Full(v))
    BY <1>2 DEF visit
  <2>2. /\ x.seq \in 0 .. MaxSeq /\ lo \in Nat /\ lo \in Window(e, l)
        /\ IsOlder(e, l, k) <=> x.seq =< lo
        /\ \A q \in Window(e, l) : q \in Nat /\ lo =< q
    <3>1. x.seq \in 0 .. MaxSeq
      BY WriteLoc DEF Writes, Ordered
    <3> QED
      BY <3>1, WindowFacts DEF IsOlder, Lowest
  <2>3. t.pastWindow <=> Started(e, l, lo, k)
    BY <1>2, <2>1, <2>2, StartedStep DEF Reached
  <2>4. ASSUME NEW v \in From PROVE Fill(v, e, k, l) \in Walked(e, l, S, k)
    <3>1. CASE v \in s.vecs
      <4>1. PICK w \in S, q \in Window(e, l) :
              Started(e, l, q, k + 1) /\ v = Laid(e, l, w, q, k + 1)
        BY <3>1 DEF Reached, Walked
      <4>2. x.seq < q /\ q \in Nat
        BY <2>2, <4>1, StartedLater
      <4>3. Fill(v, e, k, l) = Laid(e, l, w, q, k)
        BY <2>2, <4>1, <4>2, LaidStep
      <4>4. Started(e, l, q, k)
        BY <4>1, StartedStep
      <4> QED
        BY <4>3, <4>4, LaidVector DEF Walked
    <3>2. CASE v \in S /\ ~s.pastWindow
      <4> DEFINE q == IF x.seq =< lo THEN lo ELSE x.seq
      <4>1. q \in Window(e, l) /\ x.seq =< q /\ q \in Nat
        BY <1>2, <2>2 DEF InWindow, Window, Lowest, Highest, WindowOK
      <4>2. ~Started(e, l, q, k + 1)
        <5>1. ~Started(e, l, lo, k + 1)
          BY <3>2 DEF Reached
        <5>2. Started(e, l, q, k + 1) => x.seq < q
          BY <4>1, StartedLater
        <5> QED
          BY <2>2, <5>1, <5>2
      <4>3. Laid(e, l, v, q, k + 1) = v
        BY <3>2, <4>2, NothingLaid
      <4>4. Fill(v, e, k, l) = Laid(e, l, v, q, k)
        BY <3>2, <4>1, <4>3, LaidStep
      <4>5. Started(e, l, q, k)
        BY <1>2, <4>1, StartedStep
      <4> QED
        BY <3>2, <4>1, <4>4, <4>5, LaidVector DEF Walked
    <3> QED
      BY <3>1, <3>2
  <2>5. ASSUME NEW u \in Walked(e, l, S, k) PROVE \E v \in From : u = Fill(v, e, k, l)
    <3>1. PICK w \in S, q \in Window(e, l) : Started(e, l, q, k) /\ u = Laid(e, l, w, q, k)
      BY DEF Walked
    <3>2. CASE Started(e, l, q, k + 1)
      <4>1. x.seq =< q
        BY <2>2, <3>2, StartedLater
      <4>2. Laid(e, l, w, q, k + 1) \in s.vecs
        BY <3>2, LaidVector DEF Reached, Walked
      <4> QED
        BY <3>1, <4>1, <4>2, LaidStep
    <3>3. CASE ~Started(e, l, q, k + 1)
      <4>1. x.seq =< q
        BY <3>1, <3>3, StartedStep
      <4>2. Laid(e, l, w, q, k + 1) = w
        BY <3>3, NothingLaid
      <4>3. ~s.pastWindow
        BY <2>2, <3>3, StartedLater DEF Reached
      <4> QED
        BY <3>1, <4>1, <4>2, <4>3, LaidStep
    <3> QED
      BY <3>2, <3>3
  <2>6. t.vecs = Walked(e, l, S, k)
    <3> HIDE DEF From, t
    <3> QED
      BY <2>1, <2>4, <2>5
  <2> QED
    BY <2>1, <2>3, <2>6 DEF Reached
<1> QED
  BY <1>1, <1>2

\* The whole loop, by induction over the writes from the newest back.
LEMMA WalkAll ==
  ASSUME NEW e \in Exec, NEW l \in Loc, Ordered(e, alignAddress(l)),
         WindowOK(e, getCacheID(l)), NEW S \in SUBSET Vectors(l)
  PROVE  Reached(e, l, S, 1, visitAll(e, l, S))
<1> DEFINE m == Len(Writes(e, l))
           Start == [vecs |-> {}, pastWindow |-> FALSE, isDone |-> FALSE]
           Walk(w, i) == w = [x \in 0 .. i |->
                                IF x = 0 THEN Start ELSE visit(e, l, S, m + 1 - x, w[x - 1])]
           I == {i \in Nat : \E w : Walk(w, i)}
<1>1. m \in Nat /\ DOMAIN Writes(e, l) = 1 .. m
  BY DEF Writes, Ordered
<1>2. 0 \in I
  <2>1. Walk([x \in 0 .. 0 |-> Start], 0)
    OBVIOUS
  <2> QED
    BY <2>1
<1>3. ASSUME NEW i \in Nat, i \in I PROVE i + 1 \in I
  <2>1. PICK w : Walk(w, i)
    BY <1>3
  <2> DEFINE z == [x \in 0 .. i + 1 |->
                     IF x =< i THEN w[x] ELSE visit(e, l, S, m + 1 - (i + 1), w[i])]
  <2>2. ASSUME NEW x \in 0 .. i + 1
        PROVE  z[x] = IF x = 0 THEN Start ELSE visit(e, l, S, m + 1 - x, z[x - 1])
    <3>1. CASE x = 0
      BY <2>1, <3>1
    <3>2. CASE x # 0 /\ x =< i
      <4>1. z[x] = w[x] /\ z[x - 1] = w[x - 1]
        BY <3>2
      <4>2. w[x] = visit(e, l, S, m + 1 - x, w[x - 1])
        <5>1. x \in 0 .. i /\ x # 0
          BY <3>2
        <5> HIDE DEF m
        <5> QED
          BY <2>1, <5>1
      <4> QED
        BY <3>2, <4>1, <4>2
    <3>3. CASE x = i + 1
      <4>1. z[x] = visit(e, l, S, m + 1 - (i + 1), w[i]) /\ z[x - 1] = w[i] /\ x # 0
        BY <3>3
      <4> QED
        BY <3>3, <4>1
    <3> QED
      BY <3>1, <3>2, <3>3
  <2>3. Walk(z, i + 1)
    <3>1. z = [x \in 0 .. i + 1 |-> z[x]]
      OBVIOUS
    <3> HIDE DEF z
    <3> QED
      BY <2>2, <3>1
  <2> HIDE DEF Walk, z
  <2> QED
    BY <2>3
<1>4. PICK w : Walk(w, m) /\ visitAll(e, l, S) = w[m]
  <2>1. Nat \subseteq I
    <3> HIDE DEF I
    <3> QED
      BY <1>2, <1>3, InductionInSet
  <2>2. \E w : Walk(w, m)
    <3> HIDE DEF Walk
    <3> QED
      BY <1>1, <2>1
  <2>3. visitAll(e, l, S) = (CHOOSE w : Walk(w, m))[m]
    BY DEF visitAll
  <2> HIDE DEF Walk
  <2> QED
    BY <2>2, <2>3
<1> DEFINE R == {i \in Nat : i =< m => Reached(e, l, S, m + 1 - i, w[i])}
<1>5. 0 \in R
  <2>1. w[0] = Start
    BY <1>1, <1>4
  <2>2. \A q : ~Started(e, l, q, m + 1)
    BY <1>1 DEF Started
  <2>3. Reached(e, l, S, m + 1, Start)
    BY <2>2 DEF Reached, Walked
  <2> QED
    BY <1>1, <2>1, <2>3
<1>6. ASSUME NEW i \in Nat, i \in R PROVE i + 1 \in R
  <2> SUFFICES ASSUME i + 1 =< m PROVE Reached(e, l, S, m + 1 - (i + 1), w[i + 1])
    OBVIOUS
  <2> DEFINE k == m + 1 - (i + 1)
  <2>1. k \in DOMAIN Writes(e, l) /\ m + 1 - i = k + 1
    BY <1>1
  <2>2. Reached(e, l, S, k + 1, w[i])
    BY <1>1, <1>6, <2>1
  <2>3. w[i + 1] = visit(e, l, S, k, w[i])
    <3>1. i + 1 \in 0 .. m /\ i + 1 # 0 /\ (i + 1) - 1 = i
      BY <1>1
    <3> QED
      BY <1>4, <3>1
  <2> HIDE DEF k
  <2>4. Reached(e, l, S, k, visit(e, l, S, k, w[i]))
    BY <2>1, <2>2, WalkStep
  <2> QED
    BY <2>3, <2>4 DEF k
<1>7. m \in R
  <2> HIDE DEF R
  <2> QED
    BY <1>1, <1>5, <1>6, InductionInSet
<1>8. m + 1 - m = 1
  BY <1>1
<1> QED
  BY <1>1, <1>4, <1>7, <1>8

\* The choices in an execution are those of the cuts in its window, and the
\* search ends only when every slot of each is filled.
LEMMA PriorExecution ==
  ASSUME NEW e \in Exec, NEW l \in Loc, Ordered(e, alignAddress(l)),
         WindowOK(e, getCacheID(l)), NEW S \in SUBSET Vectors(l)
  PROVE  LET r == lookforWritesInPriorExecution(e, l, S)
         IN  /\ r.vecs = {u \in Vectors(l) :
                            \E v \in S, q \in Window(e, l) : u = Laid(e, l, v, q, 1)}
             /\ r.isDone => \A v \in r.vecs : Full(v)
<1> DEFINE t == visitAll(e, l, S)
           r == lookforWritesInPriorExecution(e, l, S)
           lo == Lowest(e, l)
<1>1. Reached(e, l, S, 1, t)
  BY WalkAll
<1>2. /\ r.vecs = t.vecs \cup (IF t.pastWindow THEN {} ELSE S)
      /\ r.isDone = t.isDone
  BY DEF lookforWritesInPriorExecution
<1> HIDE DEF t, r
<1>3. lo \in Window(e, l) /\ lo \in Nat /\ \A q \in Window(e, l) : q \in Nat /\ lo =< q
  BY WindowFacts
<1>4. ASSUME NEW u \in r.vecs
      PROVE  u \in Vectors(l) /\ \E v \in S, q \in Window(e, l) : u = Laid(e, l, v, q, 1)
  <2>1. CASE u \in t.vecs
    BY <1>1, <2>1 DEF Reached, Walked
  <2>2. CASE u \in S /\ ~t.pastWindow
    BY <1>1, <1>3, <2>2, NothingLaid DEF Reached
  <2> QED
    BY <1>2, <2>1, <2>2
<1>5. ASSUME NEW v \in S, NEW q \in Window(e, l) PROVE Laid(e, l, v, q, 1) \in r.vecs
  <2>1. CASE Started(e, l, q, 1)
    BY <1>1, <1>2, <2>1, LaidVector DEF Reached, Walked
  <2>2. CASE ~Started(e, l, q, 1)
    <3>1. ~Started(e, l, lo, 1)
      <4>1. DOMAIN Writes(e, l) \subseteq Nat /\ \A k \in DOMAIN Writes(e, l) : Writes(e, l)[k].seq \in Nat
        BY WriteLoc DEF Writes, Ordered
      <4> QED
        BY <1>3, <2>2, <4>1 DEF Started
    <3>2. Laid(e, l, v, q, 1) = v
      BY <2>2, NothingLaid
    <3> QED
      BY <1>1, <1>2, <3>1, <3>2 DEF Reached
  <2> QED
    BY <2>1, <2>2
<1>6. r.isDone => \A v \in r.vecs : Full(v)
  BY <1>1, <1>2 DEF Reached
<1>7. r.vecs = {u \in Vectors(l) : \E v \in S, q \in Window(e, l) : u = Laid(e, l, v, q, 1)}
  BY <1>4, <1>5
<1> QED
  BY <1>6, <1>7 DEF r

-------------------------------------------------------------------------------
(* The search through the executions.                                      *)

OrderInv == n \in Exec /\ \A e \in Exec, w \in Word : Ordered(e, w)

WindowInv == \A e \in Exec, c \in Line : WindowOK(e, c)

\* A word's first write in the first execution is its ATOMIC_INIT write.
InitialInv ==
  \A w \in Word : wr[1][w] # <<>> =>
    wr[1][w][1] = [loc |-> [addr |-> w, size |-> WordSize], seq |-> 0]

\* What the executions from m on show when cuts p happened.
View(p, m, l) ==
  [b \in BytesAt(l) |->
     LET K == {x \in m .. n : Cuts!Kept(p, x, b, l) # {}}
     IN  IF K = {} THEN None ELSE [exec |-> Max(K), idx |-> Max(Cuts!Kept(p, Max(K), b, l))]]

LEMMA CutsAre ==
  ASSUME NEW l \in Loc, WindowInv
  PROVE  /\ cuts[getCacheID(l)] = {p \in [Crashing -> 0 .. MaxSeq] :
                                     \A e \in Crashing : p[e] \in Window(e, l)}
         /\ [e \in Crashing |-> Lowest(e, l)] \in cuts[getCacheID(l)]
         /\ Crashing \subseteq Exec /\ Crashing \subseteq Nat \ {0}
<1>1. getCacheID(l) \in Line /\ Crashing \subseteq Exec /\ Crashing \subseteq Nat \ {0}
  BY Bytes, CrashReadsAssumption DEF Crashing, Exec
<1>2. ASSUME NEW e \in Crashing, NEW q \in 0 .. MaxSeq
      PROVE  q \in Window(e, l) <=>
               /\ begin[e][getCacheID(l)] =< q
               /\ end[e][getCacheID(l)] = 0 \/ q =< end[e][getCacheID(l)]
  BY <1>1, CrashReadsAssumption DEF WindowInv, WindowOK, Window, Lowest, Highest
<1>3. cuts[getCacheID(l)] = {p \in [Crashing -> 0 .. MaxSeq] :
                               \A e \in Crashing : p[e] \in Window(e, l)}
  <2>1. cuts[getCacheID(l)] =
          {p \in [Crashing -> 0 .. MaxSeq] :
             \A e \in Crashing :
               /\ begin[e][getCacheID(l)] =< p[e]
               /\ end[e][getCacheID(l)] = 0 \/ p[e] =< end[e][getCacheID(l)]}
    BY <1>1 DEF cuts, Crashing
  <2> QED
    BY <1>2, <2>1
<1>4. \A e \in Crashing : Lowest(e, l) \in Window(e, l) /\ Lowest(e, l) \in 0 .. MaxSeq
  BY <1>1, WindowFacts DEF WindowInv
<1> QED
  BY <1>1, <1>3, <1>4

\* PersistedCuts has the same addresses.
LEMMA SameAddresses ==
  /\ \A l : Cuts!alignAddress(l) = alignAddress(l) /\ Cuts!getCacheID(l) = getCacheID(l)
           /\ Cuts!BytesAt(l) = BytesAt(l) /\ (Cuts!Initialized(l) <=> Initialized(l))
  /\ \A S : Cuts!Max(S) = Max(S)
  /\ Cuts!Word = Word /\ Cuts!Line = Line /\ Cuts!Exec = Exec /\ Cuts!Crashing = Crashing
BY DEF Cuts!alignAddress, alignAddress, Cuts!getCacheID, getCacheID, Cuts!BytesAt, BytesAt,
       Cuts!Initialized, Initialized, Writes, Cuts!Max, Max, Cuts!Word, Word, Cuts!Line, Line,
       Cuts!Exec, Exec, Cuts!Crashing, Crashing

LEMMA KeptIs ==
  ASSUME NEW l \in Loc, OrderInv, NEW e \in 1 .. n, NEW p, NEW b \in BytesAt(l)
  PROVE  /\ e < n => Cuts!Kept(p, e, b, l) = KeptFrom(e, l, p[e], 1, b)
         /\ e = n => Cuts!Kept(p, e, b, l) = Covering(e, l, b)
         /\ Cuts!Kept(p, e, b, l) # {} =>
              /\ Max(Cuts!Kept(p, e, b, l)) \in Cuts!Kept(p, e, b, l)
              /\ \A k \in Cuts!Kept(p, e, b, l) : k =< Max(Cuts!Kept(p, e, b, l))
              /\ Max(Cuts!Kept(p, e, b, l)) \in Nat \ {0}
         /\ Cuts!Kept(p, e, b, l) \subseteq Covering(e, l, b)
<1>1. e \in Exec /\ n \in Nat /\ alignAddress(l) \in Word /\ Ordered(e, alignAddress(l))
  BY Bytes, CrashReadsAssumption DEF OrderInv, Exec
<1>2. Cuts!Kept(p, e, b, l) \subseteq Covering(e, l, b)
  BY SameAddresses DEF Cuts!Kept, Covering, Writes
<1>3. \A k \in Covering(e, l, b) : k \in Nat \ {0}
  BY <1>1, CoveringOverlaps
<1>4. e < n => Cuts!Kept(p, e, b, l) = KeptFrom(e, l, p[e], 1, b)
  BY <1>3, SameAddresses DEF Cuts!Kept, KeptFrom, Covering, Writes
<1>5. e = n => Cuts!Kept(p, e, b, l) = Covering(e, l, b)
  BY <1>1, SameAddresses DEF Cuts!Kept, Covering, Writes
<1> QED
  BY <1>1, <1>2, <1>4, <1>5, NewestKept

\* A set of executions has a newest one.
LEMMA NewestExec ==
  ASSUME OrderInv, NEW m \in 1 .. n, NEW K \in SUBSET (m .. n), K # {}
  PROVE  Max(K) \in K /\ (\A x \in K : x =< Max(K)) /\ Max(K) \in 1 .. n
<1>1. n \in Nat
  BY CrashReadsAssumption DEF OrderInv, Exec
<1>2. K \in SUBSET Nat /\ \A x \in K : x =< n
  BY <1>1
<1>3. Max(K) \in K /\ \A x \in K : x =< Max(K)
  BY <1>1, <1>2, GreatestOf
<1>4. K \subseteq 1 .. n
  BY <1>1
<1> QED
  BY <1>3, <1>4

LEMMA ViewVector ==
  ASSUME NEW l \in Loc, OrderInv, NEW m \in 1 .. n, NEW p
  PROVE  View(p, m, l) \in Vectors(l)
<1> SUFFICES ASSUME NEW b \in BytesAt(l)
             PROVE  View(p, m, l)[b] \in {None} \cup [exec : Nat \ {0}, idx : Nat]
  BY DEF View, Vectors
<1> DEFINE K == {x \in m .. n : Cuts!Kept(p, x, b, l) # {}}
<1>1. CASE K = {}
  BY <1>1 DEF View
<1>2. CASE K # {}
  <2>1. Max(K) \in K /\ Max(K) \in 1 .. n
    BY <1>2, NewestExec
  <2>2. Max(Cuts!Kept(p, Max(K), b, l)) \in Nat
    BY <2>1, KeptIs
  <2>3. View(p, m, l)[b] = [exec |-> Max(K), idx |-> Max(Cuts!Kept(p, Max(K), b, l))]
    BY <1>2 DEF View
  <2>4. Max(K) \in Nat \ {0}
    BY <2>1, CrashReadsAssumption DEF OrderInv, Exec
  <2> HIDE DEF K
  <2> QED
    BY <2>2, <2>3, <2>4
<1> QED
  BY <1>1, <1>2

\* The running execution shows what processWrites finds.
LEMMA ViewNewest ==
  ASSUME NEW l \in Loc, OrderInv, NEW p
  PROVE  View(p, n, l) = processWrites(l)
<1>1. n \in Nat \ {0} /\ n .. n = {n} /\ n \in 1 .. n
  BY CrashReadsAssumption DEF OrderInv, Exec
<1>2. ASSUME NEW b \in BytesAt(l)
      PROVE  View(p, n, l)[b] = processWrites(l)[b]
  <2> DEFINE K == {x \in n .. n : Cuts!Kept(p, x, b, l) # {}}
  <2>1. Cuts!Kept(p, n, b, l) = Covering(n, l, b)
    BY <1>1, KeptIs
  <2>2. CASE Covering(n, l, b) = {}
    BY <1>1, <2>1, <2>2 DEF View, processWrites
  <2>3. CASE Covering(n, l, b) # {}
    <3>1. K = {n} /\ Max({n}) = n
      BY <1>1, <2>1, <2>3 DEF Max
    <3> QED
      BY <2>1, <2>3, <3>1 DEF View, processWrites
  <2> QED
    BY <2>2, <2>3
<1> QED
  BY <1>2 DEF View, processWrites

\* An older execution is laid under the newer ones.
LEMMA ViewStep ==
  ASSUME NEW l \in Loc, OrderInv, NEW e \in 1 .. n, e < n, NEW p
  PROVE  View(p, e, l) = Laid(e, l, View(p, e + 1, l), p[e], 1)
<1> DEFINE K(m, b) == {x \in m .. n : Cuts!Kept(p, x, b, l) # {}}
<1>0. n \in Nat /\ e \in Nat \ {0} /\ e + 1 \in 1 .. n
  BY CrashReadsAssumption DEF OrderInv, Exec
<1>1. ASSUME NEW b \in BytesAt(l)
      PROVE  View(p, e, l)[b] = Laid(e, l, View(p, e + 1, l), p[e], 1)[b]
  <2>1. KeptFrom(e, l, p[e], 1, b) = Cuts!Kept(p, e, b, l)
    BY KeptIs
  <2>2. K(e, b) = K(e + 1, b) \cup (IF Cuts!Kept(p, e, b, l) = {} THEN {} ELSE {e})
    <3>1. e .. n = {e} \cup ((e + 1) .. n)
      BY <1>0
    <3> QED
      BY <3>1
  <2>3. View(p, e, l)[b] = IF K(e, b) = {} THEN None
                           ELSE [exec |-> Max(K(e, b)), idx |-> Max(Cuts!Kept(p, Max(K(e, b)), b, l))]
    BY DEF View
  <2>4. View(p, e + 1, l)[b] =
          IF K(e + 1, b) = {} THEN None
          ELSE [exec |-> Max(K(e + 1, b)), idx |-> Max(Cuts!Kept(p, Max(K(e + 1, b)), b, l))]
    BY DEF View
  <2>5. CASE K(e + 1, b) # {}
    <3>1. /\ Max(K(e + 1, b)) \in K(e + 1, b)
          /\ \A x \in K(e + 1, b) : x =< Max(K(e + 1, b))
          /\ Max(K(e + 1, b)) \in 1 .. n
      BY <1>0, <2>5, NewestExec
    <3>2. /\ Max(K(e, b)) \in K(e, b)
          /\ \A x \in K(e, b) : x =< Max(K(e, b))
          /\ Max(K(e, b)) \in 1 .. n
      BY <1>0, <2>2, <2>5, NewestExec
    <3>3. \A x \in K(e + 1, b) : e < x
      BY <1>0
    <3>4. Max(K(e, b)) = Max(K(e + 1, b))
      <4> HIDE DEF K
      <4> QED
        BY <1>0, <2>2, <3>1, <3>2, <3>3
    <3>5. View(p, e + 1, l)[b] # None
      BY <2>4, <2>5, <3>1 DEF None
    <3>6. View(p, e, l)[b] = View(p, e + 1, l)[b]
      <4> HIDE DEF K
      <4> QED
        BY <2>2, <2>3, <2>4, <2>5, <3>4
    <3> QED
      BY <3>5, <3>6 DEF Laid
  <2>6. CASE K(e + 1, b) = {} /\ Cuts!Kept(p, e, b, l) = {}
    <3>1. View(p, e, l)[b] = None /\ View(p, e + 1, l)[b] = None
      <4> HIDE DEF K
      <4> QED
        BY <2>2, <2>3, <2>4, <2>6
    <3> QED
      BY <2>1, <2>6, <3>1 DEF Laid
  <2>7. CASE K(e + 1, b) = {} /\ Cuts!Kept(p, e, b, l) # {}
    <3>1. K(e, b) = {e} /\ Max({e}) = e
      <4> HIDE DEF K
      <4> QED
        BY <1>0, <2>2, <2>7 DEF Max
    <3>2. /\ View(p, e, l)[b] = [exec |-> e, idx |-> Max(Cuts!Kept(p, e, b, l))]
          /\ View(p, e + 1, l)[b] = None
      <4> HIDE DEF K
      <4> QED
        BY <2>3, <2>4, <2>7, <3>1
    <3> QED
      BY <2>1, <2>7, <3>2 DEF Laid
  <2> QED
    BY <2>5, <2>6, <2>7
<1> QED
  BY <1>1 DEF View, Laid

\* Only the cuts of those executions matter.
LEMMA ViewSame ==
  ASSUME NEW l \in Loc, OrderInv, NEW m \in 1 .. n, NEW p, NEW q,
         \A x \in m .. n : x < n => p[x] = q[x]
  PROVE  View(p, m, l) = View(q, m, l)
<1>1. \A b \in BytesAt(l) : \A x \in m .. n : Cuts!Kept(p, x, b, l) = Cuts!Kept(q, x, b, l)
  BY DEF Cuts!Kept
<1>2. ASSUME NEW b \in BytesAt(l) PROVE View(p, m, l)[b] = View(q, m, l)[b]
  <2> DEFINE K == {x \in m .. n : Cuts!Kept(p, x, b, l) # {}}
             H == {x \in m .. n : Cuts!Kept(q, x, b, l) # {}}
  <2>1. K = H
    BY <1>1
  <2>2. CASE K = {}
    BY <2>1, <2>2 DEF View
  <2>3. CASE K # {}
    <3>1. Max(K) \in m .. n
      BY <2>3, NewestExec
    <3>2. /\ View(p, m, l)[b] = [exec |-> Max(K), idx |-> Max(Cuts!Kept(p, Max(K), b, l))]
          /\ View(q, m, l)[b] = [exec |-> Max(H), idx |-> Max(Cuts!Kept(q, Max(H), b, l))]
      BY <2>1, <2>3 DEF View
    <3> HIDE DEF K, H
    <3> QED
      BY <1>1, <2>1, <3>1, <3>2
  <2> QED
    BY <2>2, <2>3
<1> QED
  BY <1>2 DEF View

\* The initial write leaves no slot open.
LEMMA ViewAll ==
  ASSUME NEW l \in Loc, OrderInv, WindowInv, InitialInv, Initialized(l),
         NEW p \in cuts[getCacheID(l)]
  PROVE  /\ View(p, 1, l) = Cuts!Shown(p, l)
         /\ \A b \in BytesAt(l) :
              /\ Cuts!Kept(p, 1, b, l) # {}
              /\ {x \in 1 .. n : Cuts!Kept(p, x, b, l) # {}} # {}
<1> DEFINE w == alignAddress(l)
<1>1. 1 \in Exec /\ n \in Nat \ {0} /\ 1 \in 1 .. n /\ w \in Word /\ Ordered(1, w)
  BY Bytes, CrashReadsAssumption DEF OrderInv, Exec
<1>2. wr[1][w] # <<>> /\ wr[1][w] \in Seq(WriteRecord)
  BY <1>1 DEF Initialized, Writes, Ordered
<1>3. 1 \in DOMAIN wr[1][w]
  BY <1>2
<1>4. wr[1][w][1] = [loc |-> [addr |-> w, size |-> WordSize], seq |-> 0]
  BY <1>1, <1>2 DEF InitialInv
<1>5. 1 < n => 0 =< p[1]
  <2>1. 1 < n => 1 \in Crashing
    BY <1>1, CrashReadsAssumption DEF OrderInv, Crashing, Exec
  <2>2. p \in [Crashing -> 0 .. MaxSeq]
    BY CutsAre
  <2> QED
    BY <2>1, <2>2
<1>6. ASSUME NEW b \in BytesAt(l) PROVE 1 \in Cuts!Kept(p, 1, b, l)
  <2>1. b \in BytesAt([addr |-> w, size |-> WordSize])
    BY Bytes DEF BytesAt
  <2> QED
    BY <1>3, <1>4, <1>5, <2>1, SameAddresses DEF Cuts!Kept
<1>7. \A b \in BytesAt(l) : Cuts!Kept(p, 1, b, l) # {} /\ {x \in 1 .. n : Cuts!Kept(p, x, b, l) # {}} # {}
  BY <1>1, <1>6
<1>8. View(p, 1, l) = Cuts!Shown(p, l)
  BY <1>7, SameAddresses DEF View, Cuts!Shown
<1> QED
  BY <1>7, <1>8

\* The whole search, by induction over the executions from the newest back.
LEMMA LookAll ==
  ASSUME NEW l \in Loc, OrderInv, WindowInv
  PROVE  build_may_read_from(l) = {View(p, 1, l) : p \in cuts[getCacheID(l)]}
<1> DEFINE C == cuts[getCacheID(l)]
           Own == [vecs |-> {processWrites(l)}, isDone |-> Full(processWrites(l))]
           Prior(k, s) == IF s.isDone THEN s ELSE lookforWritesInPriorExecution(n - k, l, s.vecs)
           Look(w, i) == w = [k \in 0 .. i |-> IF k = 0 THEN Own ELSE Prior(k, w[k - 1])]
           I == {i \in Nat : \E w : Look(w, i)}
<1>1. n \in Nat \ {0} /\ 1 .. n \subseteq Exec
  BY CrashReadsAssumption DEF OrderInv, Exec
<1>2. 0 \in I
  <2>1. Look([k \in 0 .. 0 |-> Own], 0)
    OBVIOUS
  <2> QED
    BY <2>1
<1>3. ASSUME NEW i \in Nat, i \in I PROVE i + 1 \in I
  <2>1. PICK w : Look(w, i)
    BY <1>3
  <2> DEFINE z == [k \in 0 .. i + 1 |-> IF k =< i THEN w[k] ELSE Prior(i + 1, w[i])]
  <2>2. ASSUME NEW k \in 0 .. i + 1
        PROVE  z[k] = IF k = 0 THEN Own ELSE Prior(k, z[k - 1])
    <3> HIDE DEF Own, Prior
    <3>1. CASE k = 0
      BY <2>1, <3>1
    <3>2. CASE k # 0 /\ k =< i
      <4>1. z[k] = w[k] /\ z[k - 1] = w[k - 1]
        BY <3>2
      <4>2. w[k] = Prior(k, w[k - 1])
        <5>1. k \in 0 .. i /\ k # 0
          BY <3>2
        <5> QED
          BY <2>1, <5>1
      <4> QED
        BY <3>2, <4>1, <4>2
    <3>3. CASE k = i + 1
      <4>1. z[k] = Prior(i + 1, w[i]) /\ z[k - 1] = w[i] /\ k # 0
        BY <3>3
      <4> QED
        BY <3>3, <4>1
    <3> QED
      BY <3>1, <3>2, <3>3
  <2>3. Look(z, i + 1)
    <3>1. z = [k \in 0 .. i + 1 |-> z[k]]
      OBVIOUS
    <3> HIDE DEF z, Own, Prior
    <3> QED
      BY <2>2, <3>1
  <2> HIDE DEF Look, z
  <2> QED
    BY <2>3
<1>4. PICK w : Look(w, n - 1) /\ build_may_read_from(l) = w[n - 1].vecs
  <2>1. Nat \subseteq I
    <3> HIDE DEF I
    <3> QED
      BY <1>2, <1>3, InductionInSet
  <2>2. \E w : Look(w, n - 1)
    <3> HIDE DEF Look
    <3> QED
      BY <1>1, <2>1
  <2>3. build_may_read_from(l) = (CHOOSE w : Look(w, n - 1))[n - 1].vecs
    BY DEF build_may_read_from
  <2> HIDE DEF Look
  <2> QED
    BY <2>2, <2>3
<1> DEFINE Found(i) == /\ w[i].vecs = {View(p, n - i, l) : p \in C}
                       /\ w[i].isDone => \A v \in w[i].vecs : Full(v)
           R == {i \in Nat : i =< n - 1 => Found(i)}
<1>5. 0 \in R
  <2>1. w[0] = Own
    <3> HIDE DEF Own, Prior
    <3> QED
      BY <1>1, <1>4
  <2>2. PICK p \in C : TRUE
    BY CutsAre
  <2>3. \A q \in C : View(q, n - 0, l) = processWrites(l)
    BY <1>1, ViewNewest
  <2> QED
    BY <2>1, <2>2, <2>3
<1>6. ASSUME NEW i \in Nat, i \in R PROVE i + 1 \in R
  <2> SUFFICES ASSUME i + 1 =< n - 1 PROVE Found(i + 1)
    OBVIOUS
  <2> DEFINE e == n - (i + 1)
  <2>1. /\ e \in 1 .. n /\ e < n /\ e + 1 \in 1 .. n /\ e + 1 = n - i /\ e \in Exec
        /\ e \in Crashing
    BY <1>1, CrashReadsAssumption DEF Crashing, OrderInv, Exec
  <2>2. Found(i)
    BY <1>1, <1>6
  <2>3. w[i + 1] = Prior(i + 1, w[i])
    <3>1. i + 1 \in 0 .. n - 1 /\ i + 1 # 0 /\ (i + 1) - 1 = i
      BY <1>1
    <3> HIDE DEF Own, Prior
    <3> QED
      BY <1>4, <3>1
  <2>4. Ordered(e, alignAddress(l)) /\ WindowOK(e, getCacheID(l))
    BY <2>1, Bytes DEF OrderInv, WindowInv
  <2>5. \A p : View(p, e + 1, l) \in Vectors(l) /\ View(p, e, l) = Laid(e, l, View(p, e + 1, l), p[e], 1)
    BY <2>1, ViewVector, ViewStep
  <2>6. \A p \in C : p[e] \in Window(e, l)
    BY <2>1, CutsAre
  <2>7. CASE w[i].isDone
    <3>1. ASSUME NEW p \in C PROVE View(p, e, l) = View(p, e + 1, l)
      <4>1. View(p, e + 1, l) \in w[i].vecs
        BY <2>1, <2>2
      <4>2. \A b \in BytesAt(l) : View(p, e + 1, l)[b] # None
        BY <2>2, <2>5, <2>7, <4>1 DEF Full, Vectors
      <4>3. Laid(e, l, View(p, e + 1, l), p[e], 1) = View(p, e + 1, l)
        BY <2>5, <4>2 DEF Laid, Vectors
      <4> QED
        BY <2>5, <4>3
    <3>2. {View(p, e, l) : p \in C} = {View(p, n - i, l) : p \in C}
      BY <2>1, <3>1
    <3> QED
      BY <2>2, <2>3, <2>7, <3>2
  <2>8. CASE ~w[i].isDone
    <3>1. w[i].vecs \in SUBSET Vectors(l)
      BY <2>1, <2>2, <2>5
    <3>2. w[i + 1] = lookforWritesInPriorExecution(e, l, w[i].vecs)
      BY <2>3, <2>8
    <3> HIDE DEF e
    <3>3. /\ w[i + 1].vecs = {u \in Vectors(l) :
                                \E v \in w[i].vecs, q \in Window(e, l) : u = Laid(e, l, v, q, 1)}
          /\ w[i + 1].isDone => \A v \in w[i + 1].vecs : Full(v)
      BY <2>1, <2>4, <3>1, <3>2, PriorExecution
    <3>4. ASSUME NEW u \in w[i + 1].vecs PROVE \E p \in C : u = View(p, e, l)
      <4>1. PICK v \in w[i].vecs, q \in Window(e, l) : u = Laid(e, l, v, q, 1)
        BY <3>3
      <4>2. PICK p \in C : v = View(p, e + 1, l)
        BY <2>1, <2>2, <4>1
      <4> DEFINE r == [p EXCEPT ![e] = q]
      <4>3. p \in [Crashing -> 0 .. MaxSeq] /\ \A x \in Crashing : p[x] \in Window(x, l)
        BY CutsAre
      <4>4. q \in 0 .. MaxSeq
        BY <2>4, WindowFacts
      <4>5. r \in C
        <5>1. r \in [Crashing -> 0 .. MaxSeq] /\ \A x \in Crashing : r[x] \in Window(x, l)
          BY <2>1, <4>3, <4>4
        <5> HIDE DEF r
        <5> QED
          BY <5>1, CutsAre
      <4>6. r[e] = q
        BY <2>1, <4>3
      <4>7. \A x \in e + 1 .. n : x < n => p[x] = r[x]
        <5>1. \A x \in e + 1 .. n : x # e
          BY <1>1, <2>1
        <5> QED
          BY <4>3, <5>1
      <4> HIDE DEF r
      <4>8. View(p, e + 1, l) = View(r, e + 1, l)
        BY <2>1, <4>7, ViewSame
      <4>9. u = View(r, e, l)
        BY <2>5, <4>1, <4>2, <4>6, <4>8
      <4> QED
        BY <4>5, <4>9
    <3>5. ASSUME NEW p \in C PROVE View(p, e, l) \in w[i + 1].vecs
      <4>1. View(p, e + 1, l) \in w[i].vecs
        BY <2>1, <2>2
      <4>2. View(p, e, l) \in Vectors(l)
        BY <2>1, ViewVector
      <4> QED
        BY <2>5, <2>6, <3>3, <4>1, <4>2
    <3>6. w[i + 1].vecs = {View(p, e, l) : p \in C}
      BY <3>4, <3>5
    <3> QED
      BY <3>3, <3>6 DEF e
  <2> QED
    BY <2>7, <2>8
<1>7. n - 1 \in R
  <2> HIDE DEF R
  <2>1. Nat \subseteq R
    BY <1>5, <1>6, InductionInSet
  <2> QED
    BY <1>1, <2>1
<1>8. n - 1 \in Nat /\ n - 1 =< n - 1 /\ n - (n - 1) = 1
  BY <1>1
<1>9. w[n - 1].vecs = {View(p, n - (n - 1), l) : p \in C}
  BY <1>7, <1>8
<1> QED
  BY <1>4, <1>8, <1>9

\* A load's choices are what the possible cuts show.
LEMMA ChoicesAreShown ==
  ASSUME NEW l \in Loc, OrderInv, WindowInv, InitialInv, Initialized(l)
  PROVE  build_may_read_from(l) = {Cuts!Shown(p, l) : p \in cuts[getCacheID(l)]}
<1> DEFINE C == cuts[getCacheID(l)]
<1>1. build_may_read_from(l) = {View(p, 1, l) : p \in C}
  BY LookAll
<1>2. \A p \in C : View(p, 1, l) = Cuts!Shown(p, l)
  BY ViewAll
<1> HIDE DEF C
<1>3. {View(p, 1, l) : p \in C} = {Cuts!Shown(p, l) : p \in C}
  BY <1>2
<1> QED
  BY <1>1, <1>3 DEF C

-------------------------------------------------------------------------------
(* The inductive invariant.                                                *)

\* Clocks: flushes and writes carry earlier ones, and only the ATOMIC_INIT
\* writes of the first execution carry none.
ClockInv ==
  \A e \in Exec :
    /\ used[e] \in Nat /\ BootSeq =< used[e]
    /\ \A c \in Line : begin[e][c] =< used[e]
    /\ \A w \in Word : \A i \in DOMAIN wr[e][w] :
         /\ wr[e][w][i].seq =< used[e]
         /\ (e # 1 \/ i # 1) => wr[e][w][i].seq > BootSeq

\* Only reads of crashed executions narrow windows from above.
RunningInv == \A e \in Exec, c \in Line : e >= n => end[e][c] = 0

IInv == TypeOK /\ OrderInv /\ InitialInv /\ ClockInv /\ RunningInv

LEMMA InvFacts ==
  ASSUME IInv
  PROVE  /\ WindowInv
         /\ n \in Nat \ {0} /\ 1 .. n \subseteq Exec /\ 1 \in Exec
         /\ \A e \in 1 .. n : e < n => e \in Crashing
         /\ \A l \in Loc, e \in Exec :
              /\ alignAddress(l) \in Word /\ getCacheID(l) \in Line
              /\ Ordered(e, alignAddress(l)) /\ WindowOK(e, getCacheID(l))
<1>1. WindowInv
  BY DEF IInv, TypeOK, WindowInv, WindowOK
<1>2. n \in Nat \ {0} /\ 1 .. n \subseteq Exec /\ 1 \in Exec /\ \A e \in 1 .. n : e < n => e \in Crashing
  BY CrashReadsAssumption DEF IInv, TypeOK, Exec, Crashing
<1> QED
  BY <1>1, <1>2, Bytes DEF IInv, OrderInv, WindowInv

\* The greatest element is the only one that no other exceeds.
LEMMA GreatestIs ==
  ASSUME NEW S \in SUBSET Nat, NEW x \in S, \A y \in S : y =< x
  PROVE  Max(S) = x
<1>1. Max(S) \in S /\ \A y \in S : y =< Max(S)
  BY GreatestOf
<1>2. x =< Max(S) /\ Max(S) =< x /\ x \in Nat /\ Max(S) \in Nat
  BY <1>1
<1> QED
  BY <1>2

\* The write that a byte shows, told by its place among those kept.
LEMMA ShownIs ==
  ASSUME IInv, NEW l \in Loc, Initialized(l), NEW p \in cuts[getCacheID(l)], NEW b \in BytesAt(l)
  PROVE  LET x == Cuts!Shown(p, l)[b]
         IN  /\ x.exec \in 1 .. n /\ x.idx \in Nat \ {0} /\ x = [exec |-> x.exec, idx |-> x.idx]
             /\ x.idx \in Cuts!Kept(p, x.exec, b, l)
             /\ \A k \in Cuts!Kept(p, x.exec, b, l) : k =< x.idx
             /\ \A e \in 1 .. n : e > x.exec => Cuts!Kept(p, e, b, l) = {}
<1> DEFINE K == {x \in 1 .. n : Cuts!Kept(p, x, b, l) # {}}
<1>1. K # {}
  BY InvFacts, ViewAll DEF IInv
<1>2. n \in Nat \ {0} /\ 1 \in 1 .. n /\ OrderInv
  BY InvFacts DEF IInv
<1>3. Max(K) \in K /\ (\A x \in K : x =< Max(K)) /\ Max(K) \in 1 .. n
  BY <1>1, <1>2, NewestExec
<1>4. Cuts!Shown(p, l)[b] = [exec |-> Max(K), idx |-> Max(Cuts!Kept(p, Max(K), b, l))]
  BY SameAddresses DEF Cuts!Shown
<1>5. /\ Max(Cuts!Kept(p, Max(K), b, l)) \in Cuts!Kept(p, Max(K), b, l)
      /\ \A k \in Cuts!Kept(p, Max(K), b, l) : k =< Max(Cuts!Kept(p, Max(K), b, l))
      /\ Max(Cuts!Kept(p, Max(K), b, l)) \in Nat \ {0}
  BY <1>2, <1>3, KeptIs
<1>6. \A e \in 1 .. n : e > Max(K) => Cuts!Kept(p, e, b, l) = {}
  <2> SUFFICES ASSUME NEW e \in 1 .. n, e > Max(K), Cuts!Kept(p, e, b, l) # {} PROVE FALSE
    OBVIOUS
  <2>1. e \in K
    OBVIOUS
  <2> HIDE DEF K
  <2> QED
    BY <1>2, <1>3, <2>1
<1> HIDE DEF K
<1> QED
  BY <1>3, <1>4, <1>5, <1>6

LEMMA ShownUnique ==
  ASSUME IInv, NEW l \in Loc, Initialized(l), NEW p \in cuts[getCacheID(l)], NEW b \in BytesAt(l),
         NEW e \in 1 .. n, NEW i \in Cuts!Kept(p, e, b, l),
         \A k \in Cuts!Kept(p, e, b, l) : k =< i,
         \A x \in 1 .. n : x > e => Cuts!Kept(p, x, b, l) = {}
  PROVE  Cuts!Shown(p, l)[b] = [exec |-> e, idx |-> i]
<1> DEFINE x == Cuts!Shown(p, l)[b]
<1>1. /\ x.exec \in 1 .. n /\ x.idx \in Nat \ {0} /\ x = [exec |-> x.exec, idx |-> x.idx]
      /\ x.idx \in Cuts!Kept(p, x.exec, b, l)
      /\ \A k \in Cuts!Kept(p, x.exec, b, l) : k =< x.idx
      /\ \A y \in 1 .. n : y > x.exec => Cuts!Kept(p, y, b, l) = {}
  BY ShownIs
<1> HIDE DEF x
<1>2. x.exec = e
  BY <1>1, InvFacts
<1>3. i \in Nat
  <2>1. i \in Covering(e, l, b) /\ Ordered(e, alignAddress(l))
    BY InvFacts, KeptIs DEF IInv
  <2> QED
    BY <2>1, CoveringOverlaps
<1>4. x.idx = i
  BY <1>1, <1>2, <1>3
<1> QED
  BY <1>1, <1>2, <1>4 DEF x

\* A cut keeps the writes up to its clock.
LEMMA KeptUpTo ==
  ASSUME IInv, NEW l \in Loc, NEW p, NEW b \in BytesAt(l), NEW e \in 1 .. n, NEW k
  PROVE  k \in Cuts!Kept(p, e, b, l) <=>
           k \in Covering(e, l, b) /\ (e < n => Writes(e, l)[k].seq =< p[e])
<1>1. k \in Covering(e, l, b) => k \in Nat \ {0}
  BY InvFacts, CoveringOverlaps
<1>2. /\ e < n => Cuts!Kept(p, e, b, l) = KeptFrom(e, l, p[e], 1, b)
      /\ e = n => Cuts!Kept(p, e, b, l) = Covering(e, l, b)
  BY KeptIs DEF IInv
<1> QED
  BY <1>1, <1>2, InvFacts DEF KeptFrom

-------------------------------------------------------------------------------
(* A read narrows the windows to the cuts that explain it.                 *)

\* The writes to byte b that are newer than the one read.
Newer(e, l, rf, b) ==
  {k \in Covering(e, l, b) : rf[b].exec < e \/ (rf[b].exec = e /\ k > rf[b].idx)}

\* Cut q of execution e is not one that the read rules out.
Explains(e, l, rf, q) ==
  /\ \A x \in ReadClocks(e, l, rf) : x =< q
  /\ \A x \in Limits(e, l, rf) : q =< x

LEMMA LimitsAre ==
  ASSUME NEW e, NEW l, NEW rf
  PROVE  Limits(e, l, rf) = {Writes(e, l)[Min(Newer(e, l, rf, b))].seq - 1 :
                               b \in {x \in BytesAt(l) : Newer(e, l, rf, x) # {}}}
BY DEF Limits, Newer

\* The oldest of the newer writes has the least clock.
LEMMA OldestNewer ==
  ASSUME IInv, NEW e \in 1 .. n, NEW l \in Loc, NEW rf, NEW b \in BytesAt(l),
         NEW k \in Newer(e, l, rf, b)
  PROVE  /\ Min(Newer(e, l, rf, b)) \in Newer(e, l, rf, b)
         /\ Writes(e, l)[Min(Newer(e, l, rf, b))].seq =< Writes(e, l)[k].seq
         /\ Writes(e, l)[k].seq \in Nat
<1> DEFINE S == Newer(e, l, rf, b)
<1>1. /\ Ordered(e, alignAddress(l))
      /\ \A i \in Covering(e, l, b) :
           i \in Nat \ {0} /\ i \in DOMAIN Writes(e, l) /\ Writes(e, l)[i].seq \in 0 .. MaxSeq
  BY InvFacts, CoveringOverlaps
<1>2. S \in SUBSET Nat /\ S \subseteq Covering(e, l, b)
  BY <1>1 DEF Newer
<1>3. Min(S) \in S /\ \A i \in S : Min(S) =< i
  <2> HIDE DEF S
  <2>1. k \in S
    BY DEF S
  <2> QED
    BY <1>2, <2>1, LeastOf
<1>4. CASE Min(S) = k
  BY <1>1, <1>2, <1>3, <1>4
<1>5. CASE Min(S) # k
  <2>1. Min(S) < k
    BY <1>1, <1>2, <1>3, <1>5
  <2>2. Min(S) \in DOMAIN wr[e][alignAddress(l)] /\ k \in DOMAIN wr[e][alignAddress(l)]
    BY <1>1, <1>2, <1>3 DEF Writes
  <2>3. wr[e][alignAddress(l)][Min(S)].seq < wr[e][alignAddress(l)][k].seq
    <3> HIDE DEF S
    <3> QED
      BY <1>1, <2>1, <2>2 DEF Ordered
  <2>4. Writes(e, l)[Min(S)].seq \in Nat /\ Writes(e, l)[k].seq \in Nat
    <3> HIDE DEF S
    <3> QED
      BY <1>1, <1>2, <1>3 DEF S
  <2> HIDE DEF S
  <2> QED
    BY <1>1, <1>3, <2>3, <2>4 DEF S, Writes
<1> QED
  BY <1>4, <1>5

\* What a vector of cuts shows has no newer write below its cuts.
LEMMA ShownExplains ==
  ASSUME IInv, NEW l \in Loc, Initialized(l), NEW p \in cuts[getCacheID(l)], NEW e \in 1 .. n, e < n
  PROVE  Explains(e, l, Cuts!Shown(p, l), p[e])
<1> DEFINE rf == Cuts!Shown(p, l)
<1>0. p[e] \in Nat
  <2>1. p \in [Crashing -> 0 .. MaxSeq]
    BY InvFacts, CutsAre
  <2> QED
    BY <2>1, InvFacts
<1>1. ASSUME NEW b \in BytesAt(l), rf[b].exec = e PROVE Writes(e, l)[rf[b].idx].seq =< p[e]
  <2>1. rf[b].idx \in Cuts!Kept(p, e, b, l)
    BY <1>1, ShownIs
  <2> QED
    BY <2>1, KeptUpTo
<1>2. ASSUME NEW b \in BytesAt(l), NEW k \in Newer(e, l, rf, b) PROVE p[e] < Writes(e, l)[k].seq
  <2> SUFFICES ASSUME Writes(e, l)[k].seq =< p[e] PROVE FALSE
    BY <1>0, OldestNewer
  <2>1. k \in Cuts!Kept(p, e, b, l)
    BY KeptUpTo DEF Newer
  <2>2. /\ rf[b].exec \in 1 .. n /\ rf[b].idx \in Nat \ {0}
        /\ \A i \in Cuts!Kept(p, rf[b].exec, b, l) : i =< rf[b].idx
        /\ \A x \in 1 .. n : x > rf[b].exec => Cuts!Kept(p, x, b, l) = {}
    BY ShownIs
  <2>3. k \in Nat /\ e \in Nat /\ n \in Nat
    <3>1. k \in Covering(e, l, b) /\ Ordered(e, alignAddress(l))
      BY InvFacts DEF Newer
    <3> QED
      BY <3>1, CoveringOverlaps, InvFacts
  <2>4. rf[b].exec < e \/ (rf[b].exec = e /\ k > rf[b].idx)
    BY DEF Newer
  <2> HIDE DEF rf
  <2>5. CASE rf[b].exec < e
    BY <2>1, <2>2, <2>3, <2>5
  <2>6. CASE rf[b].exec = e /\ k > rf[b].idx
    BY <2>1, <2>2, <2>3, <2>6
  <2> QED
    BY <2>4, <2>5, <2>6
<1>3. \A x \in ReadClocks(e, l, rf) : x =< p[e]
  BY <1>1 DEF ReadClocks
<1>4. ASSUME NEW x \in Limits(e, l, rf) PROVE p[e] =< x
  <2>1. PICK b \in BytesAt(l) :
          Newer(e, l, rf, b) # {} /\ x = Writes(e, l)[Min(Newer(e, l, rf, b))].seq - 1
    BY LimitsAre
  <2>2. PICK k \in Newer(e, l, rf, b) : TRUE
    BY <2>1
  <2>3. Min(Newer(e, l, rf, b)) \in Newer(e, l, rf, b)
    BY OldestNewer
  <2>4. p[e] < Writes(e, l)[Min(Newer(e, l, rf, b))].seq /\ Writes(e, l)[Min(Newer(e, l, rf, b))].seq \in Nat
    BY <1>2, <2>3, OldestNewer
  <2> QED
    BY <1>0, <2>1, <2>4
<1> QED
  BY <1>3, <1>4 DEF Explains

\* Cuts that the read does not rule out show the same.
LEMMA ExplainsShown ==
  ASSUME IInv, NEW l \in Loc, Initialized(l),
         NEW p \in cuts[getCacheID(l)], NEW q \in cuts[getCacheID(l)],
         \A e \in 1 .. n : e < n => Explains(e, l, Cuts!Shown(p, l), q[e])
  PROVE  Cuts!Shown(q, l) = Cuts!Shown(p, l)
<1> DEFINE rf == Cuts!Shown(p, l)
<1>0. n \in Nat /\ \A e \in 1 .. n : e < n => q[e] \in Nat
  <2>1. q \in [Crashing -> 0 .. MaxSeq]
    BY InvFacts, CutsAre
  <2> QED
    BY <2>1, InvFacts
<1>1. ASSUME NEW b \in BytesAt(l) PROVE Cuts!Shown(q, l)[b] = rf[b]
  <2> DEFINE E == rf[b].exec
             i == rf[b].idx
  <2>1. /\ E \in 1 .. n /\ i \in Nat \ {0} /\ rf[b] = [exec |-> E, idx |-> i]
        /\ i \in Cuts!Kept(p, E, b, l)
        /\ \A k \in Cuts!Kept(p, E, b, l) : k =< i
        /\ \A x \in 1 .. n : x > E => Cuts!Kept(p, x, b, l) = {}
    BY ShownIs
  <2>2. ASSUME NEW e \in 1 .. n, e < n, NEW k \in Newer(e, l, rf, b)
        PROVE  k \notin Cuts!Kept(q, e, b, l)
    <3>1. Writes(e, l)[Min(Newer(e, l, rf, b))].seq - 1 \in Limits(e, l, rf)
      BY LimitsAre
    <3>2. q[e] =< Writes(e, l)[Min(Newer(e, l, rf, b))].seq - 1
      BY <2>2, <3>1 DEF Explains
    <3>3. /\ Writes(e, l)[Min(Newer(e, l, rf, b))].seq =< Writes(e, l)[k].seq
          /\ Writes(e, l)[k].seq \in Nat
          /\ Writes(e, l)[Min(Newer(e, l, rf, b))].seq \in Nat
      BY OldestNewer
    <3>4. ~(Writes(e, l)[k].seq =< q[e])
      BY <1>0, <2>2, <3>2, <3>3
    <3> QED
      BY <2>2, <3>4, KeptUpTo
  <2>3. i \in Cuts!Kept(q, E, b, l)
    <3>1. CASE E = n
      <4>1. i \in Covering(E, l, b)
        BY <2>1, KeptUpTo
      <4> QED
        BY <1>0, <2>1, <3>1, <4>1, KeptUpTo
    <3>2. CASE E # n
      <4>0. E < n
        BY <1>0, <2>1, <3>2
      <4>1. i \in Covering(E, l, b)
        BY <2>1, KeptUpTo
      <4>2. Writes(E, l)[i].seq \in ReadClocks(E, l, rf)
        BY DEF ReadClocks
      <4>3. Writes(E, l)[i].seq =< q[E]
        BY <2>1, <4>0, <4>2 DEF Explains
      <4> QED
        BY <2>1, <4>1, <4>3, KeptUpTo
    <3> QED
      BY <3>1, <3>2
  <2>4. \A k \in Cuts!Kept(q, E, b, l) : k =< i
    <3> SUFFICES ASSUME NEW k \in Cuts!Kept(q, E, b, l), ~(k =< i) PROVE FALSE
      OBVIOUS
    <3>1. k \in Covering(E, l, b) /\ k \in Nat
      <4>1. k \in Covering(E, l, b) /\ Ordered(E, alignAddress(l))
        BY <2>1, KeptUpTo, InvFacts
      <4> QED
        BY <2>1, <4>1, CoveringOverlaps
    <3>2. CASE E = n
      <4>1. k \in Cuts!Kept(p, E, b, l)
        BY <1>0, <2>1, <3>1, <3>2, KeptUpTo
      <4> QED
        BY <2>1, <4>1
    <3>3. CASE E # n
      <4>1. k \in Newer(E, l, rf, b)
        BY <2>1, <3>1 DEF Newer
      <4> QED
        BY <1>0, <2>1, <2>2, <3>3, <4>1
    <3> QED
      BY <3>2, <3>3
  <2>5. ASSUME NEW x \in 1 .. n, x > E PROVE Cuts!Kept(q, x, b, l) = {}
    <3> SUFFICES ASSUME NEW k \in Cuts!Kept(q, x, b, l) PROVE FALSE
      OBVIOUS
    <3>1. k \in Covering(x, l, b)
      BY KeptUpTo
    <3>2. CASE x = n
      <4>1. k \in Cuts!Kept(p, x, b, l)
        BY <1>0, <3>1, <3>2, KeptUpTo
      <4> QED
        BY <2>1, <2>5, <4>1
    <3>3. CASE x # n
      <4>1. k \in Newer(x, l, rf, b)
        BY <1>0, <2>1, <2>5, <3>1 DEF Newer
      <4> QED
        BY <1>0, <2>2, <3>3, <4>1
    <3> QED
      BY <3>2, <3>3
  <2> HIDE DEF E, i, rf
  <2>6. Cuts!Shown(q, l)[b] = [exec |-> E, idx |-> i]
    BY <2>1, <2>3, <2>4, <2>5, ShownUnique
  <2> QED
    BY <2>1, <2>6
<1>2. DOMAIN Cuts!Shown(q, l) = BytesAt(l) /\ DOMAIN rf = BytesAt(l)
  BY SameAddresses DEF Cuts!Shown
<1> QED
  BY <1>1, <1>2, SameAddresses DEF Cuts!Shown

\* A window [b, x] cut down by lower bounds R and upper bounds S.
Lower(b, R) == Max({b} \cup R)
Upper(x, S) == IF x = 0 /\ S = {} THEN x ELSE Min(S \cup ({x} \ {0}))

LEMMA Narrow ==
  ASSUME NEW b \in 0 .. MaxSeq, NEW x \in 0 .. MaxSeq,
         NEW R \in SUBSET (0 .. MaxSeq), NEW S \in SUBSET (1 .. MaxSeq)
  PROVE  /\ Lower(b, R) \in 0 .. MaxSeq /\ Lower(b, R) \in {b} \cup R /\ Upper(x, S) \in 0 .. MaxSeq
         /\ \A q \in 0 .. MaxSeq :
              (Lower(b, R) =< q /\ (Upper(x, S) = 0 \/ q =< Upper(x, S))) <=>
                /\ b =< q /\ (x = 0 \/ q =< x)
                /\ (\A y \in R : y =< q) /\ (\A y \in S : q =< y)
<1> DEFINE U == {b} \cup R
           V == S \cup ({x} \ {0})
           lo == Max(U)
           hi == IF x = 0 /\ S = {} THEN x ELSE Min(V)
<1>0. MaxSeq \in Nat
  BY CrashReadsAssumption
<1>1. lo \in U /\ \A y \in U : y =< lo
  <2>1. U \in SUBSET Nat /\ U # {} /\ \A y \in U : y =< MaxSeq
    BY <1>0
  <2> HIDE DEF U
  <2> QED
    BY <1>0, <2>1, GreatestOf
<1>2. lo \in 0 .. MaxSeq /\ \A q \in 0 .. MaxSeq : lo =< q <=> (b =< q /\ \A y \in R : y =< q)
  <2>1. U \subseteq 0 .. MaxSeq
    OBVIOUS
  <2>2. \A q \in 0 .. MaxSeq : (\A y \in U : y =< q) <=> (b =< q /\ \A y \in R : y =< q)
    OBVIOUS
  <2>3. ASSUME NEW q \in 0 .. MaxSeq PROVE lo =< q <=> \A y \in U : y =< q
    <3> HIDE DEF U, lo
    <3>1. \A y \in U : y \in Nat /\ lo \in Nat /\ y =< lo
      BY <1>1, <2>1
    <3> QED
      BY <1>1, <3>1
  <2> HIDE DEF U
  <2> QED
    BY <1>1, <2>1, <2>2, <2>3
<1>3. /\ hi \in 0 .. MaxSeq
      /\ \A q \in 0 .. MaxSeq : (hi = 0 \/ q =< hi) <=> ((x = 0 \/ q =< x) /\ \A y \in S : q =< y)
  <2>1. CASE x = 0 /\ S = {}
    BY <2>1
  <2>2. CASE ~(x = 0 /\ S = {})
    <3>1. V \subseteq 1 .. MaxSeq /\ V # {} /\ hi = Min(V)
      BY <1>0, <2>2
    <3>2. Min(V) \in V /\ \A y \in V : Min(V) =< y
      <4>1. V \in SUBSET Nat
        BY <1>0, <3>1
      <4> HIDE DEF V
      <4> QED
        BY <3>1, <4>1, LeastOf
    <3>3. \A q \in 0 .. MaxSeq : (\A y \in V : q =< y) <=> ((x = 0 \/ q =< x) /\ \A y \in S : q =< y)
      OBVIOUS
    <3>4. hi \in 1 .. MaxSeq
      BY <3>1, <3>2
    <3>5. ASSUME NEW q \in 0 .. MaxSeq PROVE q =< hi <=> \A y \in V : q =< y
      <4> HIDE DEF V, hi
      <4>1. hi \in V /\ \A y \in V : hi =< y
        BY <3>1, <3>2
      <4>2. \A y \in V : y \in Nat
        BY <1>0, <3>1
      <4> QED
        BY <4>1, <4>2
    <3> HIDE DEF V, hi
    <3> QED
      BY <1>0, <3>3, <3>4, <3>5, SMTT(20)
  <2> QED
    BY <2>1, <2>2
<1> HIDE DEF lo, hi, U
<1>4. \A q \in 0 .. MaxSeq :
        (lo =< q /\ (hi = 0 \/ q =< hi)) <=>
          /\ b =< q /\ (x = 0 \/ q =< x)
          /\ (\A y \in R : y =< q) /\ (\A y \in S : q =< y)
  BY <1>2, <1>3
<1> QED
  BY <1>1, <1>2, <1>3, <1>4 DEF lo, hi, U, V, Lower, Upper

\* The clocks that a read compares with.
LEMMA ReadBounds ==
  ASSUME IInv, NEW l \in Loc, Initialized(l), NEW p \in cuts[getCacheID(l)],
         NEW e \in 1 .. n, e < n
  PROVE  /\ ReadClocks(e, l, Cuts!Shown(p, l)) \in SUBSET (0 .. MaxSeq)
         /\ \A x \in ReadClocks(e, l, Cuts!Shown(p, l)) : x =< used[e]
         /\ Limits(e, l, Cuts!Shown(p, l)) \in SUBSET (1 .. MaxSeq)
<1> DEFINE rf == Cuts!Shown(p, l)
<1>0. /\ e \in Exec /\ e \in Nat /\ alignAddress(l) \in Word /\ Ordered(e, alignAddress(l))
      /\ MaxSeq \in Nat /\ BootSeq \in Nat \ {0}
  BY InvFacts, CrashReadsAssumption
<1>1. \A b \in BytesAt(l) : \A k \in Covering(e, l, b) :
        /\ k \in Nat \ {0} /\ Writes(e, l)[k].seq \in 0 .. MaxSeq
        /\ Writes(e, l)[k].seq =< used[e]
        /\ (e # 1 \/ k # 1) => Writes(e, l)[k].seq > BootSeq
  BY <1>0, CoveringOverlaps DEF IInv, ClockInv, Writes
<1>2. ASSUME NEW b \in BytesAt(l), rf[b].exec = e PROVE rf[b].idx \in Covering(e, l, b)
  <2>1. rf[b].idx \in Cuts!Kept(p, e, b, l)
    BY <1>2, ShownIs
  <2> QED
    BY <2>1, KeptUpTo
<1>3. ASSUME NEW x \in Limits(e, l, rf) PROVE x \in 1 .. MaxSeq
  <2>1. PICK b \in BytesAt(l) :
          Newer(e, l, rf, b) # {} /\ x = Writes(e, l)[Min(Newer(e, l, rf, b))].seq - 1
    BY LimitsAre
  <2> DEFINE k == Min(Newer(e, l, rf, b))
  <2>2. k \in Newer(e, l, rf, b)
    BY <2>1, OldestNewer
  <2>3. rf[b].exec \in 1 .. n /\ rf[b].idx \in Nat \ {0}
    BY ShownIs
  <2>4. k \in Covering(e, l, b) /\ (rf[b].exec < e \/ (rf[b].exec = e /\ k > rf[b].idx))
    BY <2>2 DEF Newer
  <2> HIDE DEF k, rf
  <2>5. k \in Nat \ {0} /\ (e # 1 \/ k # 1)
    BY <1>0, <1>1, <2>3, <2>4
  <2>6. Writes(e, l)[k].seq > BootSeq /\ Writes(e, l)[k].seq \in 0 .. MaxSeq
    BY <1>1, <2>4, <2>5
  <2>7. Writes(e, l)[k].seq - 1 \in 1 .. MaxSeq
    BY <1>0, <2>6
  <2> QED
    BY <2>1, <2>7 DEF k
<1>4. \A x \in ReadClocks(e, l, rf) : x \in 0 .. MaxSeq /\ x =< used[e]
  <2> SUFFICES ASSUME NEW b \in BytesAt(l), rf[b].exec = e
               PROVE  Writes(e, l)[rf[b].idx].seq \in 0 .. MaxSeq /\ Writes(e, l)[rf[b].idx].seq =< used[e]
    BY DEF ReadClocks
  <2> HIDE DEF rf
  <2> QED
    BY <1>1, <1>2
<1> QED
  BY <1>3, <1>4

\* The windows after a read that shows what cuts p show.
LEMMA ReadWindows ==
  ASSUME IInv, NEW l \in Loc, Initialized(l), NEW p \in cuts[getCacheID(l)],
         process_read(l, Cuts!Shown(p, l)), NEW e \in Exec, NEW c \in Line
  PROVE  /\ begin'[e][c] \in 0 .. MaxSeq /\ end'[e][c] \in 0 .. MaxSeq
         /\ begin'[e][c] =< used[e]
         /\ e >= n \/ c # getCacheID(l) => begin'[e][c] = begin[e][c] /\ end'[e][c] = end[e][c]
         /\ e < n /\ c = getCacheID(l) =>
              \A q \in 0 .. MaxSeq :
                (begin'[e][c] =< q /\ (end'[e][c] = 0 \/ q =< end'[e][c])) <=>
                  /\ begin[e][c] =< q /\ (end[e][c] = 0 \/ q =< end[e][c])
                  /\ Explains(e, l, Cuts!Shown(p, l), q)
<1> DEFINE rf == Cuts!Shown(p, l)
           R == ReadClocks(e, l, rf)
           S == Limits(e, l, rf)
<1>1. /\ begin[e] \in [Line -> 0 .. MaxSeq] /\ end[e] \in [Line -> 0 .. MaxSeq]
      /\ begin[e][c] =< used[e] /\ used[e] \in Nat
      /\ n \in Nat /\ e \in Nat /\ MaxSeq \in Nat /\ getCacheID(l) \in Line
  <2>1. /\ begin[e] \in [Line -> 0 .. MaxSeq] /\ end[e] \in [Line -> 0 .. MaxSeq]
        /\ begin[e][c] =< used[e] /\ used[e] \in Nat
    BY DEF IInv, TypeOK
  <2>2. n \in Nat /\ getCacheID(l) \in Line
    BY InvFacts
  <2> QED
    BY <2>1, <2>2, CrashReadsAssumption DEF Exec
<1>2. /\ begin'[e] = IF e >= n THEN begin[e]
                     ELSE [begin[e] EXCEPT ![getCacheID(l)] = Max({@} \cup R)]
      /\ end'[e] = IF e >= n \/ (end[e][getCacheID(l)] = 0 /\ S = {}) THEN end[e]
                   ELSE [end[e] EXCEPT ![getCacheID(l)] = Min(S \cup ({@} \ {0}))]
  BY DEF process_read
<1> HIDE DEF R, S, rf
<1>3. CASE e >= n \/ c # getCacheID(l)
  <2>1. begin'[e][c] = begin[e][c] /\ end'[e][c] = end[e][c]
    BY <1>1, <1>2, <1>3
  <2> QED
    BY <1>1, <1>3, <2>1
<1>4. CASE ~(e >= n \/ c # getCacheID(l))
  <2>1. /\ R \in SUBSET (0 .. MaxSeq) /\ S \in SUBSET (1 .. MaxSeq)
        /\ \A x \in R : x =< used[e]
    <3>1. e \in 1 .. n /\ e < n
      BY <1>1, <1>4 DEF Exec
    <3> QED
      BY <3>1, ReadBounds DEF R, S, rf
  <2>2. /\ begin'[e][c] = Max({begin[e][c]} \cup R)
        /\ end'[e][c] = IF end[e][c] = 0 /\ S = {} THEN end[e][c] ELSE Min(S \cup ({end[e][c]} \ {0}))
    BY <1>1, <1>2, <1>4
  <2>3. begin[e][c] \in 0 .. MaxSeq /\ end[e][c] \in 0 .. MaxSeq
    BY <1>1
  <2>4. /\ begin'[e][c] \in 0 .. MaxSeq /\ begin'[e][c] \in {begin[e][c]} \cup R
        /\ end'[e][c] \in 0 .. MaxSeq
        /\ \A q \in 0 .. MaxSeq :
             (begin'[e][c] =< q /\ (end'[e][c] = 0 \/ q =< end'[e][c])) <=>
               /\ begin[e][c] =< q /\ (end[e][c] = 0 \/ q =< end[e][c])
               /\ (\A y \in R : y =< q) /\ (\A y \in S : q =< y)
    <3> DEFINE b == begin[e][c]
               x == end[e][c]
    <3>1. begin'[e][c] = Lower(b, R) /\ end'[e][c] = Upper(x, S)
      BY <2>2 DEF Lower, Upper
    <3>2. b \in 0 .. MaxSeq /\ x \in 0 .. MaxSeq
      BY <2>3
    <3> HIDE DEF b, x
    <3>3. /\ Lower(b, R) \in 0 .. MaxSeq /\ Lower(b, R) \in {b} \cup R /\ Upper(x, S) \in 0 .. MaxSeq
          /\ \A q \in 0 .. MaxSeq :
               (Lower(b, R) =< q /\ (Upper(x, S) = 0 \/ q =< Upper(x, S))) <=>
                 /\ b =< q /\ (x = 0 \/ q =< x)
                 /\ (\A y \in R : y =< q) /\ (\A y \in S : q =< y)
      BY <2>1, <3>2, Narrow
    <3> QED
      BY <3>1, <3>3 DEF b, x
  <2>5. begin'[e][c] =< used[e]
    BY <1>1, <2>1, <2>4
  <2> QED
    BY <1>4, <2>4, <2>5 DEF Explains, R, S, rf
<1> QED
  BY <1>3, <1>4

LEMMA CutsOf ==
  ASSUME IInv, NEW c \in Line
  PROVE  cuts[c] = {q \in [Crashing -> 0 .. MaxSeq] :
                      \A e \in Crashing : begin[e][c] =< q[e] /\ (end[e][c] = 0 \/ q[e] =< end[e][c])}
BY DEF cuts, Crashing

LEMMA CutsOfNext ==
  ASSUME NEW c \in Line
  PROVE  cuts'[c] = {q \in [Crashing -> 0 .. MaxSeq] :
                       \A e \in Crashing : begin'[e][c] =< q[e] /\ (end'[e][c] = 0 \/ q[e] =< end'[e][c])}
BY DEF cuts, Crashing

\* The cuts that are left are those that show what was read.
LEMMA ReadCuts ==
  ASSUME IInv, NEW l \in Loc, Initialized(l), NEW p \in cuts[getCacheID(l)],
         process_read(l, Cuts!Shown(p, l))
  PROVE  cuts' = [cuts EXCEPT ![getCacheID(l)] = {q \in @ : Cuts!Shown(q, l) = Cuts!Shown(p, l)}]
<1> DEFINE rf == Cuts!Shown(p, l)
           lc == getCacheID(l)
           Allowed(e, c, q) == begin[e][c] =< q /\ (end[e][c] = 0 \/ q =< end[e][c])
           Left(e, c, q) == begin'[e][c] =< q /\ (end'[e][c] = 0 \/ q =< end'[e][c])
<1>1. Crashing \subseteq Exec /\ lc \in Line /\ n \in Nat /\ \A e \in Crashing : e \in Nat /\ (e < n => e \in 1 .. n)
  <2>1. lc \in Line /\ WindowInv /\ n \in Nat
    BY InvFacts
  <2>2. Crashing \subseteq Exec /\ Crashing \subseteq Nat \ {0}
    BY <2>1, CutsAre
  <2> HIDE DEF lc
  <2>3. ASSUME NEW e \in Crashing PROVE e \in Nat /\ (e < n => e \in 1 .. n)
    <3>1. e \in Nat /\ e # 0
      BY <2>2
    <3> QED
      BY <2>1, <3>1
  <2> QED
    BY <2>1, <2>2, <2>3
<1>2. ASSUME NEW c \in Line, c # lc PROVE cuts'[c] = cuts[c]
  <2>1. \A e \in Crashing : begin'[e][c] = begin[e][c] /\ end'[e][c] = end[e][c]
    BY <1>1, <1>2, ReadWindows
  <2> DEFINE A(q) == \A e \in Crashing : Allowed(e, c, q[e])
             B(q) == \A e \in Crashing : Left(e, c, q[e])
  <2>2. \A q : A(q) <=> B(q)
    BY <2>1
  <2>3. /\ cuts[c] = {q \in [Crashing -> 0 .. MaxSeq] : A(q)}
        /\ cuts'[c] = {q \in [Crashing -> 0 .. MaxSeq] : B(q)}
    BY CutsOf, CutsOfNext
  <2> HIDE DEF A, B
  <2> QED
    BY <2>2, <2>3
<1>3. ASSUME NEW q \in [Crashing -> 0 .. MaxSeq]
      PROVE  q \in cuts'[lc] <=> q \in cuts[lc] /\ Cuts!Shown(q, l) = rf
  <2>1. q \in cuts[lc] <=> \A e \in Crashing : Allowed(e, lc, q[e])
    BY <1>1, CutsOf
  <2>2. q \in cuts'[lc] <=> \A e \in Crashing : Left(e, lc, q[e])
    BY <1>1, CutsOfNext
  <2>3. \A e \in Crashing :
          Left(e, lc, q[e]) <=> (Allowed(e, lc, q[e]) /\ (e < n => Explains(e, l, rf, q[e])))
    <3> SUFFICES ASSUME NEW e \in Crashing
                 PROVE  Left(e, lc, q[e]) <=> (Allowed(e, lc, q[e]) /\ (e < n => Explains(e, l, rf, q[e])))
      OBVIOUS
    <3>1. q[e] \in 0 .. MaxSeq /\ e \in Exec
      BY <1>1
    <3>2. CASE e < n
      BY <1>1, <3>1, <3>2, ReadWindows
    <3>3. CASE ~(e < n)
      <4>1. e >= n
        BY <1>1, <3>3
      <4>2. begin'[e][lc] = begin[e][lc] /\ end'[e][lc] = end[e][lc]
        BY <1>1, <3>1, <4>1, ReadWindows
      <4> QED
        BY <3>3, <4>2
    <3> QED
      BY <3>2, <3>3
  <2>4. ASSUME q \in cuts[lc]
        PROVE  Cuts!Shown(q, l) = rf <=> \A e \in Crashing : e < n => Explains(e, l, rf, q[e])
    <3>1. ASSUME Cuts!Shown(q, l) = rf, NEW e \in Crashing, e < n PROVE Explains(e, l, rf, q[e])
      <4>1. Explains(e, l, Cuts!Shown(q, l), q[e])
        BY <1>1, <2>4, <3>1, ShownExplains
      <4> QED
        BY <3>1, <4>1
    <3>2. ASSUME \A e \in Crashing : e < n => Explains(e, l, rf, q[e]) PROVE Cuts!Shown(q, l) = rf
      <4>1. \A e \in 1 .. n : e < n => Explains(e, l, rf, q[e])
        BY <3>2, InvFacts
      <4> QED
        BY <2>4, <4>1, ExplainsShown
    <3> QED
      BY <3>1, <3>2
  <2> HIDE DEF Allowed, Left, rf, lc
  <2> QED
    BY <2>1, <2>2, <2>3, <2>4
<1>4. cuts'[lc] = {q \in cuts[lc] : Cuts!Shown(q, l) = rf}
  <2>1. cuts[lc] \subseteq [Crashing -> 0 .. MaxSeq] /\ cuts'[lc] \subseteq [Crashing -> 0 .. MaxSeq]
    BY <1>1, CutsOf, CutsOfNext
  <2> HIDE DEF lc, rf
  <2> QED
    BY <1>3, <2>1
<1>5. cuts = [c \in Line |-> cuts[c]] /\ cuts' = [c \in Line |-> cuts'[c]]
  BY DEF cuts
<1> HIDE DEF lc, rf
<1> QED
  BY <1>1, <1>2, <1>4, <1>5 DEF lc, rf

-------------------------------------------------------------------------------
(* Every step preserves the invariant and is one of PersistedCuts.         *)

LEMMA InitStep == Init => IInv /\ Cuts!Init
<1> SUFFICES ASSUME Init PROVE IInv /\ Cuts!Init
  OBVIOUS
<1>1. /\ 1 \in Exec /\ MaxSeq \in Nat /\ BootSeq \in Nat \ {0} /\ Exec \subseteq Nat
  BY CrashReadsAssumption DEF Exec
<1>2. <<>> \in Seq(WriteRecord)
  OBVIOUS
<1>3. TypeOK
  BY <1>1, <1>2 DEF Init, TypeOK
<1>4. OrderInv /\ InitialInv /\ ClockInv /\ RunningInv
  BY <1>1, <1>2 DEF Init, OrderInv, Ordered, InitialInv, ClockInv, RunningInv
<1>5. ASSUME NEW c \in Line PROVE cuts[c] = [Crashing -> 0 .. MaxSeq]
  <2>1. \A e \in Crashing : begin[e][c] = 0 /\ end[e][c] = 0
    BY <1>1, CrashReadsAssumption DEF Init, Crashing, Exec
  <2>2. \A q \in [Crashing -> 0 .. MaxSeq] :
          \A e \in Crashing : begin[e][c] =< q[e] /\ (end[e][c] = 0 \/ q[e] =< end[e][c])
    BY <2>1
  <2> QED
    BY <1>3, <1>4, <2>2, CutsOf DEF IInv
<1>6. cuts = [c \in Line |-> [Crashing -> 0 .. MaxSeq]]
  <2>1. cuts = [c \in Line |-> cuts[c]]
    BY DEF cuts
  <2> QED
    BY <1>5, <2>1
<1>7. Cuts!Init
  BY <1>6, SameAddresses DEF Init, Cuts!Init
<1> QED
  BY <1>3, <1>4, <1>7 DEF IInv

LEMMA TickStep ==
  ASSUME IInv, Tick
  PROVE  /\ Cuts!Tick
         /\ used' \in [Exec -> Nat] /\ used'[n] = used[n] + 1 /\ used[n] \in Nat
         /\ used[n] + 1 \in 1 .. MaxSeq
         /\ \A e \in Exec : used[e] \in Nat /\ used[e] =< used'[e] /\ used'[e] \in Nat
BY CrashReadsAssumption DEF IInv, TypeOK, Tick, Cuts!Tick

\* Steps that write nothing.
LEMMA SameWrites ==
  ASSUME IInv, UNCHANGED <<n, wr>>
  PROVE  /\ OrderInv' /\ InitialInv'
         /\ wr' \in [Exec -> [Word -> Seq(WriteRecord)]] /\ n' \in Exec
BY DEF IInv, TypeOK, OrderInv, Ordered, InitialInv

LEMMA SameCuts ==
  ASSUME UNCHANGED <<begin, end>>
  PROVE  cuts' = cuts
BY DEF cuts

LEMMA ReadStep ==
  ASSUME IInv, NEW l \in Loc, NEW rf \in build_may_read_from(l), Read(l, rf)
  PROVE  IInv' /\ Cuts!Read(l)
<1>1. Initialized(l) /\ Tick /\ process_read(l, rf) /\ UNCHANGED <<n, wr>>
  BY DEF Read
<1>2. PICK p \in cuts[getCacheID(l)] : rf = Cuts!Shown(p, l)
  <2>1. OrderInv /\ WindowInv /\ InitialInv
    BY InvFacts DEF IInv
  <2> QED
    BY <1>1, <2>1, ChoicesAreShown
<1>3. cuts' = [cuts EXCEPT ![getCacheID(l)] = {q \in @ : Cuts!Shown(q, l) = rf}]
  BY <1>1, <1>2, ReadCuts
<1>4. Cuts!Read(l)
  BY <1>1, <1>2, <1>3, TickStep, SameAddresses DEF Cuts!Read
<1>5. /\ \A e \in Exec, c \in Line : begin'[e][c] \in 0 .. MaxSeq /\ end'[e][c] \in 0 .. MaxSeq
                                     /\ begin'[e][c] =< used[e]
      /\ \A e \in Exec, c \in Line : e >= n => end'[e][c] = end[e][c]
  BY <1>1, <1>2, ReadWindows
<1>6. begin' \in [Exec -> [Line -> 0 .. MaxSeq]] /\ end' \in [Exec -> [Line -> 0 .. MaxSeq]]
  <2>1. ASSUME NEW e \in Exec
        PROVE  begin'[e] \in [Line -> 0 .. MaxSeq] /\ end'[e] \in [Line -> 0 .. MaxSeq]
    <3>1. begin'[e] = [c \in Line |-> begin'[e][c]] /\ end'[e] = [c \in Line |-> end'[e][c]]
      BY <1>1 DEF process_read, IInv, TypeOK
    <3> QED
      BY <1>5, <3>1
  <2>2. begin' = [e \in Exec |-> begin'[e]] /\ end' = [e \in Exec |-> end'[e]]
    BY <1>1 DEF process_read
  <2> QED
    BY <2>1, <2>2
<1>7. ASSUME NEW e \in Exec, NEW c \in Line
      PROVE  end'[e][c] = 0 \/ begin'[e][c] =< end'[e][c]
  <2>0. e \in Nat /\ n \in Nat /\ (e < n => e \in 1 .. n)
    BY InvFacts DEF Exec
  <2>1. CASE e >= n \/ c # getCacheID(l)
    <3>1. begin'[e][c] = begin[e][c] /\ end'[e][c] = end[e][c]
      BY <1>1, <1>2, <2>1, ReadWindows
    <3> QED
      BY <3>1 DEF IInv, TypeOK
  <2>2. CASE ~(e >= n \/ c # getCacheID(l))
    <3>1. e < n /\ c = getCacheID(l) /\ e \in Crashing
      BY <2>0, <2>2, InvFacts
    <3>2. p \in [Crashing -> 0 .. MaxSeq] /\ begin[e][c] =< p[e] /\ (end[e][c] = 0 \/ p[e] =< end[e][c])
      BY <1>2, <3>1, CutsOf
    <3>3. Explains(e, l, rf, p[e])
      BY <1>1, <1>2, <2>0, <3>1, ShownExplains
    <3>4. p[e] \in 0 .. MaxSeq
      BY <3>1, <3>2
    <3>5. begin'[e][c] =< p[e] /\ (end'[e][c] = 0 \/ p[e] =< end'[e][c])
      BY <1>1, <1>2, <3>1, <3>2, <3>3, <3>4, ReadWindows
    <3> QED
      BY <1>5, <3>4, <3>5
  <2> QED
    BY <2>1, <2>2
<1>8. ASSUME NEW e \in Exec, NEW c \in Line PROVE begin'[e][c] =< used'[e]
  BY <1>1, <1>5, TickStep
<1>9. TypeOK'
  BY <1>1, <1>6, <1>7, <1>8, TickStep, SameWrites DEF TypeOK
<1>10. ClockInv'
  <2>1. \A e \in Exec : used[e] \in Nat /\ used'[e] \in Nat /\ used[e] =< used'[e]
    BY <1>1, TickStep
  <2>2. ASSUME NEW e \in Exec, NEW w \in Word, NEW i \in DOMAIN wr[e][w]
        PROVE  wr[e][w][i].seq \in Nat
    BY WriteLoc DEF IInv, OrderInv, Ordered
  <2> QED
    BY <1>1, <1>8, <2>1, <2>2, CrashReadsAssumption DEF IInv, ClockInv
<1>11. RunningInv'
  BY <1>1, <1>5 DEF IInv, RunningInv
<1> QED
  BY <1>1, <1>4, <1>9, <1>10, <1>11, SameWrites DEF IInv

\* A flush after which the line keeps the writes up to clock c.
LEMMA FlushStep ==
  ASSUME IInv, Tick, UNCHANGED <<n, wr, end>>, NEW l \in Line, NEW c \in 0 .. MaxSeq, NEW d \in 0 .. MaxSeq,
         begin' = [begin EXCEPT ![n][l] = d], d =< used[n] + 1,
         \A q \in Nat : d =< q <=> (begin[n][l] =< q /\ c =< q)
  PROVE  IInv' /\ Cuts!Persist(l, c)
<1>1. /\ n \in Exec /\ begin \in [Exec -> [Line -> 0 .. MaxSeq]]
      /\ begin' \in [Exec -> [Line -> 0 .. MaxSeq]] /\ begin'[n][l] = d
      /\ \A e \in Exec, k \in Line : e # n \/ k # l => begin'[e][k] = begin[e][k]
  BY DEF IInv, TypeOK
<1>2. /\ used' \in [Exec -> Nat] /\ used'[n] = used[n] + 1 /\ used[n] \in Nat
      /\ \A e \in Exec : used[e] \in Nat /\ used[e] =< used'[e] /\ used'[e] \in Nat
  BY TickStep
<1>3. ASSUME NEW e \in Exec, NEW k \in Line PROVE begin'[e][k] =< used'[e]
  <2>1. CASE e = n /\ k = l
    BY <1>1, <1>2, <2>1
  <2>2. CASE e # n \/ k # l
    BY <1>1, <1>2, <2>2 DEF IInv, ClockInv
  <2> QED
    BY <2>1, <2>2
<1>4. ASSUME NEW e \in Exec, NEW k \in Line PROVE end'[e][k] = 0 \/ begin'[e][k] =< end'[e][k]
  <2>1. CASE e = n
    <3>1. n \in Nat
      BY InvFacts
    <3> QED
      BY <2>1, <3>1 DEF IInv, RunningInv
  <2>2. CASE e # n
    BY <1>1, <2>2 DEF IInv, TypeOK
  <2> QED
    BY <2>1, <2>2
<1>5. TypeOK'
  BY <1>1, <1>2, <1>3, <1>4, SameWrites DEF IInv, TypeOK
<1>6. ClockInv'
  <2>1. ASSUME NEW e \in Exec, NEW w \in Word, NEW i \in DOMAIN wr[e][w]
        PROVE  wr[e][w][i].seq \in Nat
    BY WriteLoc DEF IInv, OrderInv, Ordered
  <2> QED
    BY <1>2, <1>3, <2>1, CrashReadsAssumption DEF IInv, ClockInv
<1>7. RunningInv'
  BY DEF IInv, RunningInv
<1>8. ASSUME NEW k \in Line
      PROVE  cuts'[k] = IF k = l THEN {p \in cuts[k] : n \in Crashing => p[n] >= c} ELSE cuts[k]
  <2> DEFINE Allowed(e, q) == begin[e][k] =< q /\ (end[e][k] = 0 \/ q =< end[e][k])
             Left(e, q) == begin'[e][k] =< q /\ (end[e][k] = 0 \/ q =< end[e][k])
             A(q) == \A e \in Crashing : Allowed(e, q[e])
             B(q) == \A e \in Crashing : Left(e, q[e])
  <2>1. /\ cuts[k] = {q \in [Crashing -> 0 .. MaxSeq] : A(q)}
        /\ cuts'[k] = {q \in [Crashing -> 0 .. MaxSeq] : B(q)}
    BY CutsOf, CutsOfNext
  <2>2. Crashing \subseteq Exec
    BY CrashReadsAssumption DEF Crashing, Exec
  <2>3. CASE k # l
    <3>1. \A q : A(q) <=> B(q)
      BY <1>1, <2>2, <2>3
    <3> HIDE DEF A, B
    <3> QED
      BY <2>1, <2>3, <3>1
  <2>4. CASE k = l
    <3>1. ASSUME NEW q \in [Crashing -> 0 .. MaxSeq]
          PROVE  B(q) <=> (A(q) /\ (n \in Crashing => q[n] >= c))
      <4>1. \A e \in Crashing : q[e] \in Nat
        BY CrashReadsAssumption
      <4>2. \A e \in Crashing : e # n => (Left(e, q[e]) <=> Allowed(e, q[e]))
        BY <1>1, <2>2
      <4>3. n \in Crashing => (Left(n, q[n]) <=> (Allowed(n, q[n]) /\ q[n] >= c))
        BY <1>1, <2>4, <4>1
      <4> HIDE DEF Left, Allowed
      <4> QED
        BY <4>2, <4>3
    <3> HIDE DEF A, B
    <3> QED
      BY <2>1, <2>4, <3>1
  <2> QED
    BY <2>3, <2>4
<1>9. cuts' = [cuts EXCEPT ![l] = {p \in @ : n \in Crashing => p[n] >= c}]
  <2>1. cuts = [k \in Line |-> cuts[k]] /\ cuts' = [k \in Line |-> cuts'[k]]
    BY DEF cuts
  <2> QED
    BY <1>8, <2>1
<1>10. Cuts!Persist(l, c)
  BY <1>9, TickStep, SameAddresses DEF Cuts!Persist
<1> QED
  BY <1>5, <1>6, <1>7, <1>10, SameWrites DEF IInv

LEMMA ClflushStep ==
  ASSUME IInv, NEW l \in Line, Clflush(l)
  PROVE  IInv' /\ \E c \in 0 .. MaxSeq : Cuts!Persist(l, c)
<1> DEFINE c == used[n] + 1
<1>1. Tick /\ begin' = [begin EXCEPT ![n][l] = c] /\ UNCHANGED <<n, wr, end>>
  BY DEF Clflush
<1>2. used[n] \in Nat /\ c \in 1 .. MaxSeq /\ begin[n][l] \in Nat /\ begin[n][l] =< used[n]
  BY <1>1, TickStep, CrashReadsAssumption DEF IInv, TypeOK
<1>3. c \in 0 .. MaxSeq /\ c =< used[n] + 1 /\ \A q \in Nat : c =< q <=> (begin[n][l] =< q /\ c =< q)
  BY <1>2
<1> HIDE DEF c
<1> QED
  BY <1>1, <1>3, FlushStep

LEMMA ClflushoptStep ==
  ASSUME IInv, NEW l \in Line, NEW c \in 0 .. MaxSeq, Clflushopt(l, c)
  PROVE  IInv' /\ Cuts!Persist(l, c)
<1> DEFINE d == Max({begin[n][l], c})
<1>1. Tick /\ begin' = [begin EXCEPT ![n][l] = d] /\ UNCHANGED <<n, wr, end>> /\ c =< used[n]
  BY DEF Clflushopt
<1>2. /\ used[n] \in Nat /\ begin[n][l] \in 0 .. MaxSeq /\ begin[n][l] =< used[n]
      /\ MaxSeq \in Nat
  BY <1>1, TickStep, CrashReadsAssumption DEF IInv, TypeOK
<1>3. d \in {begin[n][l], c} /\ \A y \in {begin[n][l], c} : y =< d
  <2>1. {begin[n][l], c} \in SUBSET Nat /\ \A y \in {begin[n][l], c} : y =< MaxSeq
    BY <1>2
  <2> QED
    BY <1>2, <2>1, GreatestOf
<1> HIDE DEF d
<1>4. d \in 0 .. MaxSeq /\ d =< used[n] + 1 /\ \A q \in Nat : d =< q <=> (begin[n][l] =< q /\ c =< q)
  BY <1>1, <1>2, <1>3
<1> QED
  BY <1>1, <1>4, FlushStep

\* Steps that leave the windows alone.
LEMMA SameWindows ==
  ASSUME IInv, UNCHANGED <<begin, end>>, wr' \in [Exec -> [Word -> Seq(WriteRecord)]],
         used' \in [Exec -> Nat], \A e \in Exec : used[e] =< used'[e],
         n' \in Exec, n =< n'
  PROVE  TypeOK' /\ RunningInv' /\ \A e \in Exec, c \in Line : begin'[e][c] =< used'[e]
<1>1. \A e \in Exec, c \in Line : begin'[e][c] =< used'[e]
  BY CrashReadsAssumption, SMTT(20) DEF IInv, TypeOK
<1>2. TypeOK'
  BY <1>1 DEF IInv, TypeOK
<1>3. RunningInv'
  BY DEF IInv, TypeOK, RunningInv, Exec
<1> QED
  BY <1>1, <1>2, <1>3

LEMMA InitialStep ==
  ASSUME IInv, NEW w \in Word, EnsureInitialValue(w)
  PROVE  IInv' /\ Cuts!EnsureInitialValue(w)
<1> DEFINE x == [loc |-> [addr |-> w, size |-> WordSize], seq |-> 0]
<1>0. 1 \in Exec /\ MaxSeq \in Nat /\ n \in Nat
  BY InvFacts, CrashReadsAssumption
<1>1. x \in WriteRecord
  BY <1>0 DEF WriteRecord
<1>2. wr' = [wr EXCEPT ![1][w] = <<x>>] /\ UNCHANGED <<n, begin, end, used>>
  BY DEF EnsureInitialValue
<1>3. wr \in [Exec -> [Word -> Seq(WriteRecord)]] /\ used \in [Exec -> Nat] /\ n \in Exec
  BY DEF IInv, TypeOK
<1>4. /\ wr'[1][w] = <<x>>
      /\ \A e \in Exec, v \in Word : e # 1 \/ v # w => wr'[e][v] = wr[e][v]
  BY <1>0, <1>2, <1>3
<1>5. wr' \in [Exec -> [Word -> Seq(WriteRecord)]]
  <2>1. <<x>> \in Seq(WriteRecord)
    BY <1>1
  <2> HIDE DEF x
  <2> QED
    BY <1>2, <1>3, <2>1
<1>6. DOMAIN <<x>> = {1} /\ <<x>>[1] = x /\ x.seq = 0
  OBVIOUS
<1> HIDE DEF x
<1>7. OrderInv'
  <2>1. ASSUME NEW e \in Exec, NEW v \in Word
        PROVE  Ordered(e, v)'
    <3>1. CASE e = 1 /\ v = w
      BY <1>4, <1>5, <1>6, <3>1 DEF Ordered
    <3>2. CASE e # 1 \/ v # w
      BY <1>4, <3>2 DEF IInv, OrderInv, Ordered
    <3> QED
      BY <3>1, <3>2
  <2> QED
    BY <1>2, <1>3, <2>1 DEF OrderInv
<1>8. InitialInv'
  BY <1>0, <1>4, <1>6 DEF IInv, InitialInv, x
<1>9. TypeOK' /\ RunningInv' /\ \A e \in Exec, c \in Line : begin'[e][c] =< used'[e]
  BY <1>2, <1>3, <1>5, <1>0, SameWindows
<1>10. ClockInv'
  <2>1. ASSUME NEW e \in Exec, NEW v \in Word, NEW i \in DOMAIN wr'[e][v]
        PROVE  /\ wr'[e][v][i].seq =< used[e]
               /\ (e # 1 \/ i # 1) => wr'[e][v][i].seq > BootSeq
    <3>1. CASE e = 1 /\ v = w
      BY <1>3, <1>4, <1>6, <3>1
    <3>2. CASE e # 1 \/ v # w
      BY <1>4, <3>2 DEF IInv, ClockInv
    <3> QED
      BY <3>1, <3>2
  <2> QED
    BY <1>2, <1>9, <2>1 DEF IInv, ClockInv
<1>11. Cuts!EnsureInitialValue(w)
  BY <1>2, SameCuts DEF EnsureInitialValue, Cuts!EnsureInitialValue, x
<1> QED
  BY <1>7, <1>8, <1>9, <1>10, <1>11 DEF IInv

LEMMA StoreStep ==
  ASSUME IInv, NEW l \in Loc, Store(l)
  PROVE  IInv' /\ Cuts!Store(l)
<1> DEFINE w == alignAddress(l)
           x == [loc |-> l, seq |-> used[n] + 1]
           s == wr[n][w]
<1>0. 1 \in Exec /\ MaxSeq \in Nat /\ n \in Nat /\ n \in Exec /\ w \in Word /\ BootSeq \in Nat
  BY InvFacts, CrashReadsAssumption DEF IInv, TypeOK
<1>1. Initialized(l) /\ Tick /\ UNCHANGED <<n, begin, end>>
  BY DEF Store
<1>2. wr' = [wr EXCEPT ![n][w] = Append(@, x)]
  BY DEF Store
<1>3. /\ used' \in [Exec -> Nat] /\ used'[n] = used[n] + 1 /\ used[n] \in Nat
      /\ used[n] + 1 \in 1 .. MaxSeq
      /\ \A e \in Exec : used[e] \in Nat /\ used[e] =< used'[e] /\ used'[e] \in Nat
  BY <1>1, TickStep
<1>4. wr \in [Exec -> [Word -> Seq(WriteRecord)]] /\ s \in Seq(WriteRecord)
  BY <1>0 DEF IInv, TypeOK
<1>5. x \in WriteRecord /\ x.seq = used[n] + 1
  BY <1>0, <1>3 DEF WriteRecord
<1> HIDE DEF x, w
<1>6. /\ wr'[n][w] = Append(s, x)
      /\ \A e \in Exec, v \in Word : e # n \/ v # w => wr'[e][v] = wr[e][v]
  BY <1>0, <1>2, <1>4
<1>7. /\ Append(s, x) \in Seq(WriteRecord) /\ Len(s) \in Nat
      /\ DOMAIN s = 1 .. Len(s) /\ DOMAIN Append(s, x) = 1 .. Len(s) + 1
      /\ \A i \in 1 .. Len(s) : Append(s, x)[i] = s[i]
      /\ Append(s, x)[Len(s) + 1] = x
  BY <1>4, <1>5
<1>8. wr' \in [Exec -> [Word -> Seq(WriteRecord)]]
  BY <1>0, <1>2, <1>4, <1>7
<1>9. \A i \in DOMAIN s : s[i].seq =< used[n] /\ s[i].seq \in Nat
  BY <1>0, <1>4, WriteLoc DEF IInv, ClockInv
<1>10. OrderInv'
  <2>1. ASSUME NEW e \in Exec, NEW v \in Word PROVE Ordered(e, v)'
    <3>1. CASE e = n /\ v = w
      <4>1. \A i, j \in DOMAIN s : i < j => s[i].seq < s[j].seq
        BY <1>0 DEF IInv, OrderInv, Ordered
      <4>2. ASSUME NEW i \in DOMAIN Append(s, x), NEW j \in DOMAIN Append(s, x), i < j
            PROVE  Append(s, x)[i].seq < Append(s, x)[j].seq
        <5> HIDE DEF s
        <5>1. i \in DOMAIN s /\ Append(s, x)[i] = s[i]
          BY <1>7, <4>2
        <5>2. CASE j \in DOMAIN s
          BY <1>7, <4>1, <4>2, <5>1, <5>2
        <5>3. CASE j \notin DOMAIN s
          <6>1. Append(s, x)[j] = x
            BY <1>7, <5>3
          <6> QED
            BY <1>3, <1>5, <1>9, <5>1, <6>1
        <5> QED
          BY <5>2, <5>3
      <4> HIDE DEF s
      <4> QED
        BY <1>6, <1>7, <3>1, <4>2 DEF Ordered
    <3>2. CASE e # n \/ v # w
      BY <1>6, <3>2 DEF IInv, OrderInv, Ordered
    <3> QED
      BY <3>1, <3>2
  <2> QED
    BY <1>0, <1>1, <2>1 DEF OrderInv
<1>11. InitialInv'
  <2> SUFFICES ASSUME NEW v \in Word, wr'[1][v] # <<>>
               PROVE  wr'[1][v][1] = [loc |-> [addr |-> v, size |-> WordSize], seq |-> 0]
    BY DEF InitialInv
  <2>1. CASE 1 = n /\ v = w
    <3>1. s # <<>>
      BY <1>1, <2>1 DEF Initialized, Writes, w
    <3>2. 1 \in 1 .. Len(s)
      BY <1>4, <3>1
    <3>3. Append(s, x)[1] = s[1]
      BY <1>7, <3>2
    <3> QED
      BY <1>0, <1>6, <2>1, <3>1, <3>3 DEF IInv, InitialInv
  <2>2. CASE 1 # n \/ v # w
    BY <1>0, <1>6, <2>2 DEF IInv, InitialInv
  <2> QED
    BY <2>1, <2>2
<1>12. TypeOK' /\ RunningInv' /\ \A e \in Exec, c \in Line : begin'[e][c] =< used'[e]
  <2>1. UNCHANGED <<begin, end>> /\ n' \in Exec /\ n =< n'
    BY <1>0, <1>1
  <2> QED
    BY <1>3, <1>8, <2>1, SameWindows
<1>13. ClockInv'
  <2>1. ASSUME NEW e \in Exec, NEW v \in Word, NEW i \in DOMAIN wr'[e][v]
        PROVE  /\ wr'[e][v][i].seq =< used'[e]
               /\ (e # 1 \/ i # 1) => wr'[e][v][i].seq > BootSeq
    <3>1. CASE e = n /\ v = w
      <4>1. CASE i \in DOMAIN s
        <5>1. wr'[e][v][i] = s[i] /\ s[i].seq =< used[n] /\ s[i].seq \in Nat
          BY <1>6, <1>7, <1>9, <3>1, <4>1
        <5>2. (e # 1 \/ i # 1) => s[i].seq > BootSeq
          BY <1>0, <3>1, <4>1 DEF IInv, ClockInv
        <5> HIDE DEF s
        <5> QED
          BY <1>3, <3>1, <5>1, <5>2
      <4>2. CASE i \notin DOMAIN s
        <5>1. wr'[e][v][i] = x
          <6> HIDE DEF s
          <6>1. i \in 1 .. Len(s) + 1 /\ i \notin 1 .. Len(s)
            BY <1>6, <1>7, <3>1, <4>2
          <6>2. i = Len(s) + 1
            BY <1>7, <6>1
          <6> QED
            BY <1>6, <1>7, <3>1, <6>2
        <5>2. BootSeq =< used[n]
          BY <1>0 DEF IInv, ClockInv
        <5> QED
          BY <1>0, <1>3, <1>5, <3>1, <5>1, <5>2
      <4> QED
        BY <4>1, <4>2
    <3>2. CASE e # n \/ v # w
      <4>1. wr'[e][v] = wr[e][v]
        BY <1>6, <3>2
      <4>2. wr[e][v][i].seq =< used[e] /\ wr[e][v][i].seq \in Nat
        BY <4>1, WriteLoc DEF IInv, ClockInv, OrderInv, Ordered
      <4> QED
        BY <1>3, <4>1, <4>2 DEF IInv, ClockInv
    <3> QED
      BY <3>1, <3>2
  <2>2. \A e \in Exec : used'[e] \in Nat /\ BootSeq =< used'[e]
    BY <1>0, <1>3 DEF IInv, ClockInv
  <2> QED
    BY <1>12, <2>1, <2>2 DEF ClockInv
<1>14. Cuts!Store(l)
  BY <1>1, SameCuts, SameAddresses, TickStep DEF Store, Cuts!Store
<1> QED
  BY <1>10, <1>11, <1>12, <1>13, <1>14 DEF IInv

LEMMA CrashStep ==
  ASSUME IInv, Crash
  PROVE  IInv' /\ Cuts!Crash
<1>1. n < MaxExec /\ n' = n + 1 /\ UNCHANGED <<wr, begin, end, used>> /\ n \in Nat
  BY InvFacts DEF Crash
<1>2. n' \in Exec /\ n =< n'
  BY <1>1, CrashReadsAssumption DEF Exec
<1>3. TypeOK' /\ RunningInv'
  <2>1. /\ wr' \in [Exec -> [Word -> Seq(WriteRecord)]] /\ used' \in [Exec -> Nat]
        /\ \A e \in Exec : used[e] =< used'[e]
    BY <1>1 DEF IInv, TypeOK
  <2> QED
    BY <1>1, <1>2, <2>1, SameWindows
<1>4. OrderInv' /\ InitialInv' /\ ClockInv'
  BY <1>1, <1>2 DEF IInv, OrderInv, Ordered, InitialInv, ClockInv
<1>5. Cuts!Crash
  BY <1>1, SameCuts DEF Cuts!Crash
<1> QED
  BY <1>3, <1>4, <1>5 DEF IInv

LEMMA NextStep ==
  ASSUME IInv, [Next]_vars
  PROVE  IInv' /\ [Cuts!Next]_Cuts!vars
<1>1. ASSUME NEW w \in Word, EnsureInitialValue(w) PROVE IInv' /\ Cuts!Next
  BY <1>1, InitialStep, SameAddresses DEF Cuts!Next
<1>2. ASSUME NEW l \in Loc, Store(l) PROVE IInv' /\ Cuts!Next
  BY <1>2, StoreStep DEF Cuts!Next
<1>3. ASSUME NEW l \in Loc, NEW rf \in build_may_read_from(l), Read(l, rf) PROVE IInv' /\ Cuts!Next
  BY <1>3, ReadStep DEF Cuts!Next
<1>4. ASSUME NEW l \in Line, Clflush(l) PROVE IInv' /\ Cuts!Next
  BY <1>4, ClflushStep, SameAddresses DEF Cuts!Next
<1>5. ASSUME NEW l \in Line, NEW c \in 0 .. MaxSeq, Clflushopt(l, c) PROVE IInv' /\ Cuts!Next
  BY <1>5, ClflushoptStep, SameAddresses DEF Cuts!Next
<1>6. ASSUME Crash PROVE IInv' /\ Cuts!Next
  BY <1>6, CrashStep DEF Cuts!Next
<1>7. CASE UNCHANGED vars
  <2>1. UNCHANGED <<n, wr, begin, end, used>>
    BY <1>7 DEF vars
  <2>2. IInv'
    BY <2>1 DEF IInv, TypeOK, OrderInv, Ordered, InitialInv, ClockInv, RunningInv
  <2>3. UNCHANGED Cuts!vars
    BY <2>1, SameCuts DEF Cuts!vars
  <2> QED
    BY <2>2, <2>3
<1> QED
  BY <1>1, <1>2, <1>3, <1>4, <1>5, <1>6, <1>7 DEF Next

-------------------------------------------------------------------------------
(* The theorems.                                                           *)

LEMMA InvHolds == Spec => []IInv
<1>1. Init => IInv
  BY InitStep
<1>2. IInv /\ [Next]_vars => IInv'
  BY NextStep
<1> QED
  BY <1>1, <1>2, PTL DEF Spec

\* The shape of the state; no window of a line becomes empty, however flushes,
\* crashes and reads interleave (CacheLine::getBeginRange and getEndRange).
THEOREM TypeCorrect == Spec => []TypeOK
<1>1. IInv => TypeOK
  BY DEF IInv
<1> QED
  BY <1>1, InvHolds, PTL

\* The search of build_may_read_from misses no crash state that the windows
\* still allow, although it stops early and lays writes under each other.
THEOREM AllCutsOfferedTheorem == Spec => []AllCutsOffered
<1>1. IInv => AllCutsOffered
  <2> SUFFICES ASSUME IInv, NEW l \in Loc, Initialized(l)
               PROVE  {Cuts!Shown(p, l) : p \in cuts[getCacheID(l)]} \subseteq build_may_read_from(l)
    BY DEF AllCutsOffered
  <2>1. OrderInv /\ WindowInv /\ InitialInv
    BY InvFacts DEF IInv
  <2> QED
    BY <2>1, ChoicesAreShown
<1> QED
  BY <1>1, InvHolds, PTL

\* Loads return only what some crash state shows, and the windows that
\* process_read leaves are exactly the crash states that explain every load.
THEOREM ImplementsCutsTheorem == Spec => ImplementsCuts
<1>1. Init => Cuts!Init
  BY InitStep
<1>2. IInv /\ [Next]_vars => [Cuts!Next]_Cuts!vars
  BY NextStep
<1> QED
  BY <1>1, <1>2, InvHolds, PTL DEF Spec, ImplementsCuts, Cuts!Spec
===============================================================================
