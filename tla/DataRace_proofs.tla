---------------------------- MODULE DataRace_proofs ----------------------------
(***************************************************************************)
(* The detector misses no race, makes none up, and its sized checks do     *)
(* what those of single bytes do, for any number of threads, set of bytes  *)
(* and programs.                                                           *)
(*                                                                         *)
(* Threads, buffered stores, bytes of memory and the mutex all tell those  *)
(* who read them a clock vector together with the accesses that come       *)
(* before (Tells); a shadow word describes the last write and stands for   *)
(* every read since (WordOK).                                              *)
(***************************************************************************)
EXTENDS DataRace, TLAPS, WellFoundedInduction

LEMMA Constants ==
  /\ N \in Nat \ {0} /\ InitCapacity \in Nat \ {0, 1}
  /\ Address \subseteq Nat /\ {PageSize, ThreadMask, VectorMask} \subseteq Nat
BY DataRaceAssumption

USE Constants DEF Thread

-------------------------------------------------------------------------------
(* Sets of naturals.                                                       *)

\* A set of naturals that is not empty has a least element.
LEMMA LeastExists ==
  ASSUME NEW S \in SUBSET Nat, S # {}
  PROVE  Min(S) \in S /\ \A m \in S : Min(S) =< m
<1>1. PICK n \in S : \A m \in S : <<m, n>> \notin OpToRel(<, Nat)
  BY NatLessThanWellFounded, WFMin
<1>2. \A m \in S : n =< m
  <2> SUFFICES ASSUME NEW m \in S, m < n PROVE FALSE
    OBVIOUS
  <2>1. <<m, n>> \in OpToRel(<, Nat)
    BY DEF OpToRel
  <2> QED  BY <1>1, <2>1
<1> QED  BY <1>2 DEF Min

\* One that is bounded has a greatest.
LEMMA GreatestExists ==
  ASSUME NEW S \in SUBSET Nat, S # {}, NEW n \in Nat, \A m \in S : m =< n
  PROVE  Max(S) \in S /\ \A m \in S : m =< Max(S)
<1> DEFINE D == {k \in 0 .. n : n - k \in S}
<1>1. D \in SUBSET Nat /\ D # {}
  <2>1. PICK m \in S : TRUE
    OBVIOUS
  <2>2. m \in Nat /\ m =< n
    OBVIOUS
  <2>3. n - m \in 0 .. n /\ n - (n - m) = m
    BY <2>2
  <2>4. n - m \in D
    BY <2>1, <2>3
  <2>5. D \subseteq Nat
    OBVIOUS
  <2> HIDE DEF D
  <2> QED  BY <2>4, <2>5
<1>2. PICK k \in D : \A j \in D : k =< j
  <2> HIDE DEF D
  <2> QED  BY <1>1, LeastExists
<1>3. n - k \in S /\ k \in 0 .. n
  OBVIOUS
<1>4. \A m \in S : m =< n - k
  <2> SUFFICES ASSUME NEW m \in S PROVE m =< n - k
    OBVIOUS
  <2>1. m \in Nat /\ m =< n
    OBVIOUS
  <2>2. n - m \in D
    <3>1. n - m \in 0 .. n /\ n - (n - m) = m
      BY <2>1
    <3> QED  BY <3>1
  <2>3. k =< n - m
    BY <1>2, <2>2
  <2> QED  BY <1>3, <2>1, <2>3
<1>5. \A m \in S : n - k >= m
  <2> SUFFICES ASSUME NEW m \in S PROVE n - k >= m
    OBVIOUS
  <2>1. m \in Nat /\ m =< n - k
    BY <1>4
  <2> QED  BY <1>3, <2>1
<1>6. \E x \in S : \A y \in S : x >= y
  BY <1>3, <1>5
<1> HIDE DEF D
<1>7. Max(S) \in S /\ \A m \in S : Max(S) >= m
  BY <1>6 DEF Max
<1> QED  BY <1>7

\* Induction over a prefix of the naturals, with a set for the hypothesis.
LEMMA Climb ==
  ASSUME NEW n \in Nat, NEW P, 0 \in P, \A k \in 0 .. (n - 1) : k \in P => k + 1 \in P
  PROVE  \A k \in 0 .. n : k \in P
<1> DEFINE Out == {k \in 0 .. n : k \notin P}
<1> SUFFICES ASSUME Out # {} PROVE FALSE
  OBVIOUS
<1>1. Out \in SUBSET Nat
  OBVIOUS
<1>2. PICK k \in Out : \A m \in Out : k =< m
  <2> HIDE DEF Out
  <2> QED  BY <1>1, LeastExists
<1>3. k \in 0 .. n /\ k \notin P /\ k # 0
  OBVIOUS
<1>4. k - 1 \in 0 .. (n - 1) /\ k - 1 \in 0 .. n /\ (k - 1) + 1 = k
  BY <1>3
<1>5. k - 1 \in P
  BY <1>2, <1>3, <1>4
<1> QED  BY <1>3, <1>4, <1>5

-------------------------------------------------------------------------------
(* The recorded reads that a read keeps.                                   *)

ReadRecord == [t : Thread, clock : Nat]

\* f[i] holds those of the first i recorded reads that are kept, for i up to n.
IsKept(f, s, c, t, n) ==
  f = [i \in 0 .. n |->
         IF i = 0 THEN <<>>
         ELSE IF clock_may_race(c, t, s.reads[i].clock, s.reads[i].t)
              THEN Append(f[i - 1], s.reads[i])
         ELSE f[i - 1]]

LEMMA KeptExists ==
  ASSUME NEW s, NEW c, NEW t, NEW n \in Nat
  PROVE  \E f : IsKept(f, s, c, t, n)
<1> DEFINE P == {k \in 0 .. n : \E f : IsKept(f, s, c, t, k)}
<1>1. 0 \in P
  <2> DEFINE f == [i \in 0 .. 0 |-> << >>]
  <2>1. \A i \in 0 .. 0 : i = 0
    OBVIOUS
  <2>2. IsKept(f, s, c, t, 0)
    BY <2>1 DEF IsKept
  <2>3. 0 \in 0 .. n
    OBVIOUS
  <2> QED  BY <2>2, <2>3
<1>2. ASSUME NEW k \in 0 .. (n - 1), k \in P PROVE k + 1 \in P
  <2>1. PICK f : IsKept(f, s, c, t, k)
    BY <1>2
  <2> DEFINE r == s.reads[k + 1]
             g == [i \in 0 .. (k + 1) |->
                     IF i = k + 1
                     THEN IF clock_may_race(c, t, r.clock, r.t) THEN Append(f[k], r) ELSE f[k]
                     ELSE f[i]]
             G(i) == IF i = 0 THEN << >>
                     ELSE IF clock_may_race(c, t, s.reads[i].clock, s.reads[i].t)
                          THEN Append(g[i - 1], s.reads[i])
                     ELSE g[i - 1]
  <2>2. \A i \in 0 .. (k + 1) : g[i] = G(i)
    <3> SUFFICES ASSUME NEW i \in 0 .. (k + 1) PROVE g[i] = G(i)
      OBVIOUS
    <3>1. CASE i = k + 1
      <4>1. i - 1 \in 0 .. (k + 1) /\ i - 1 # k + 1 /\ i - 1 = k /\ i # 0
        BY <3>1
      <4>2. g[i - 1] = f[k]
        BY <4>1
      <4> QED  BY <3>1, <4>1, <4>2
    <3>2. CASE i \in 0 .. k
      <4>1. i # k + 1
        BY <3>2
      <4>2. g[i] = f[i]
        BY <4>1
      <4>3. CASE i = 0
        <5>1. f[0] = << >>
          BY <2>1 DEF IsKept
        <5> QED  BY <4>2, <4>3, <5>1
      <4>4. CASE i # 0
        <5>1. i - 1 \in 0 .. (k + 1) /\ i - 1 # k + 1
          BY <3>2, <4>4
        <5>2. g[i - 1] = f[i - 1]
          BY <5>1
        <5>3. f[i] = IF clock_may_race(c, t, s.reads[i].clock, s.reads[i].t)
                     THEN Append(f[i - 1], s.reads[i])
                     ELSE f[i - 1]
          BY <2>1, <3>2, <4>4 DEF IsKept
        <5> HIDE DEF g
        <5> QED  BY <4>2, <4>4, <5>2, <5>3
      <4> QED  BY <4>3, <4>4
    <3>3. i = k + 1 \/ i \in 0 .. k
      OBVIOUS
    <3> QED  BY <3>1, <3>2, <3>3
  <2>3. g = [i \in 0 .. (k + 1) |-> g[i]]
    OBVIOUS
  <2> HIDE DEF g
  <2>4. g = [i \in 0 .. (k + 1) |-> G(i)]
    BY <2>2, <2>3
  <2>5. IsKept(g, s, c, t, k + 1)
    BY <2>4 DEF IsKept
  <2>6. k + 1 \in 0 .. n
    OBVIOUS
  <2> QED  BY <2>5, <2>6
<1> HIDE DEF P
<1>3. \A k \in 0 .. n : k \in P
  BY <1>1, <1>2, Climb
<1>4. n \in P
  BY <1>3
<1> QED  BY <1>4 DEF P

LEMMA KeptIs ==
  ASSUME NEW s, NEW c, NEW t, s.reads \in Seq(ReadRecord)
  PROVE  \E f : IsKept(f, s, c, t, Len(s.reads)) /\ keptReads(s, c, t) = f[Len(s.reads)]
<1>1. Len(s.reads) \in Nat
  OBVIOUS
<1>2. \E f : IsKept(f, s, c, t, Len(s.reads))
  BY <1>1, KeptExists
<1> DEFINE f == CHOOSE f : IsKept(f, s, c, t, Len(s.reads))
<1>3. IsKept(f, s, c, t, Len(s.reads))
  <2> HIDE DEF f
  <2>1. f = CHOOSE g : IsKept(g, s, c, t, Len(s.reads))
    BY DEF f
  <2> QED  BY <1>2, <2>1
<1>4. keptReads(s, c, t) = f[Len(s.reads)]
  BY Zenon DEF keptReads, IsKept
<1> QED  BY <1>3, <1>4

\* The k-th recorded read of s may race with a read of t.
MayRace(s, c, t, k) == clock_may_race(c, t, s.reads[k].clock, s.reads[k].t)

\* The kept reads are the recorded ones that may race.
LEMMA KeptReads ==
  ASSUME NEW s, NEW c, NEW t, s.reads \in Seq(ReadRecord)
  PROVE  LET kept == keptReads(s, c, t)
         IN  /\ kept \in Seq(ReadRecord)
             /\ \A j \in DOMAIN kept : \E k \in DOMAIN s.reads : kept[j] = s.reads[k]
             /\ \A k \in DOMAIN s.reads : MayRace(s, c, t, k) => \E j \in DOMAIN kept : kept[j] = s.reads[k]
<1>1. PICK f : IsKept(f, s, c, t, Len(s.reads)) /\ keptReads(s, c, t) = f[Len(s.reads)]
  BY KeptIs
<1> DEFINE n == Len(s.reads)
           Kept(i) == /\ f[i] \in Seq(ReadRecord)
                      /\ \A j \in DOMAIN f[i] : \E k \in 1 .. i : f[i][j] = s.reads[k]
                      /\ \A k \in 1 .. i : MayRace(s, c, t, k) => \E j \in DOMAIN f[i] : f[i][j] = s.reads[k]
           P == {i \in 0 .. n : Kept(i)}
<1>2. n \in Nat /\ DOMAIN s.reads = 1 .. n /\ \A k \in 1 .. n : s.reads[k] \in ReadRecord
  OBVIOUS
<1> HIDE DEF n
<1>3. 0 \in P
  <2>1. f[0] = << >>
    BY <1>1, <1>2 DEF IsKept, n
  <2>2. Kept(0)
    BY <2>1
  <2> QED  BY <1>2, <2>2
<1>4. ASSUME NEW i \in 0 .. (n - 1), i \in P PROVE i + 1 \in P
  <2> DEFINE r == s.reads[i + 1]
             g == f[i + 1]
  <2>1. i \in Nat /\ i + 1 \in 1 .. n /\ i + 1 # 0 /\ (i + 1) - 1 = i /\ i + 1 \in 0 .. n
    BY <1>2
  <2>2. r \in ReadRecord
    BY <1>2, <2>1
  <2>3. g = IF MayRace(s, c, t, i + 1) THEN Append(f[i], r) ELSE f[i]
    <3>1. f[i + 1] = IF clock_may_race(c, t, s.reads[i + 1].clock, s.reads[i + 1].t)
                     THEN Append(f[(i + 1) - 1], s.reads[i + 1])
                     ELSE f[(i + 1) - 1]
      BY <1>1, <2>1 DEF IsKept, n
    <3> QED  BY <2>1, <3>1 DEF MayRace
  <2>4. Kept(i)
    BY <1>4
  <2> HIDE DEF g, r
  <2>5. CASE MayRace(s, c, t, i + 1)
    <3>1. /\ g \in Seq(ReadRecord) /\ Len(g) = Len(f[i]) + 1 /\ g[Len(f[i]) + 1] = r
          /\ \A j \in 1 .. Len(f[i]) : g[j] = f[i][j]
      BY <2>2, <2>3, <2>4, <2>5
    <3>2. /\ DOMAIN f[i] = 1 .. Len(f[i]) /\ DOMAIN g = 1 .. (Len(f[i]) + 1) /\ Len(f[i]) \in Nat
      BY <2>4, <3>1
    <3>3. \A j \in DOMAIN g : \E k \in 1 .. (i + 1) : g[j] = s.reads[k]
      <4> SUFFICES ASSUME NEW j \in DOMAIN g PROVE \E k \in 1 .. (i + 1) : g[j] = s.reads[k]
        OBVIOUS
      <4>1. CASE j = Len(f[i]) + 1
        BY <2>1, <3>1, <4>1 DEF r
      <4>2. CASE j \in 1 .. Len(f[i])
        <5>1. PICK k \in 1 .. i : f[i][j] = s.reads[k]
          BY <2>4, <3>2, <4>2
        <5> QED  BY <2>1, <3>1, <4>2, SMTT(40), <5>1
      <4> QED  BY <3>2, <4>1, <4>2
    <3>4. ASSUME NEW k \in 1 .. (i + 1), MayRace(s, c, t, k) PROVE \E j \in DOMAIN g : g[j] = s.reads[k]
      <4>1. CASE k = i + 1
        BY <3>1, <3>2, <4>1, SMTT(40) DEF r
      <4>2. CASE k \in 1 .. i
        <5>1. PICK j \in DOMAIN f[i] : f[i][j] = s.reads[k]
          BY <2>4, <3>4, <4>2
        <5> QED  BY <3>1, <3>2, <5>1
      <4> QED  BY <2>1, <4>1, <4>2
    <3> QED  BY <2>1, <3>1, <3>3, <3>4 DEF g
  <2>6. CASE ~MayRace(s, c, t, i + 1)
    <3>1. g = f[i]
      BY <2>3, <2>6
    <3>2. \A j \in DOMAIN g : \E k \in 1 .. (i + 1) : g[j] = s.reads[k]
      <4> SUFFICES ASSUME NEW j \in DOMAIN g PROVE \E k \in 1 .. (i + 1) : g[j] = s.reads[k]
        OBVIOUS
      <4>1. PICK k \in 1 .. i : f[i][j] = s.reads[k]
        BY <2>4, <3>1
      <4> QED  BY <2>1, <3>1, <4>1
    <3>3. ASSUME NEW k \in 1 .. (i + 1), MayRace(s, c, t, k) PROVE \E j \in DOMAIN g : g[j] = s.reads[k]
      <4>1. k \in 1 .. i
        <5>1. k # i + 1
          BY <2>6, <3>3
        <5> QED  BY <2>1, <5>1
      <4> QED  BY <2>4, <3>1, <3>3, <4>1
    <3> QED  BY <2>1, <2>4, <3>1, <3>2, <3>3 DEF g
  <2> QED  BY <2>5, <2>6
<1>5. Kept(n)
  <2> HIDE DEF Kept, n
  <2>1. n \in Nat
    BY <1>2
  <2>2. \A i \in 0 .. n : i \in P
    <3> HIDE DEF P
    <3> QED  BY <1>3, <1>4, <2>1, Climb
  <2> QED  BY <2>1, <2>2
<1>6. keptReads(s, c, t) = f[n]
  BY <1>1 DEF n
<1> QED  BY <1>2, <1>5, <1>6

\* If there is one and it may race, it is kept.
LEMMA KeptAlone ==
  ASSUME NEW s, NEW c, NEW t, s.reads \in Seq(ReadRecord), Len(s.reads) = 1, MayRace(s, c, t, 1)
  PROVE  keptReads(s, c, t) = s.reads
<1>1. PICK f : IsKept(f, s, c, t, 1) /\ keptReads(s, c, t) = f[1]
  BY KeptIs
<1>2. f[0] = << >>
  BY <1>1 DEF IsKept
<1>3. f[1] = Append(f[0], s.reads[1])
  BY <1>1 DEF IsKept, MayRace
<1>4. Append(<< >>, s.reads[1]) = s.reads
  OBVIOUS
<1> QED  BY <1>1, <1>2, <1>3, <1>4

-------------------------------------------------------------------------------
(* The checks of a shadow word.                                            *)

WordFields ==
  [kind : {"none", "short", "full"}, reads : Seq(ReadRecord), cap : Nat, wt : 0 .. N, wc : Nat,
   isAtomic : BOOLEAN]

\* Words with at most one read unless they are RaceRecords.
Word == {s \in WordFields : s.kind # "full" => Len(s.reads) =< 1}

\* A race is reported with the read that is found if there is one that may race.
LEMMA ReadRaceIs ==
  ASSUME NEW s \in Word, NEW c, NEW t
  PROVE  /\ \A r \in ReadRace(s, c, t) :
              \E k \in DOMAIN s.reads :
                 /\ MayRace(s, c, t, k)
                 /\ r.t = s.reads[k].t /\ r.clock = s.reads[k].clock /\ r.isWrite = FALSE
         /\ ReadRace(s, c, t) = {} => \A k \in DOMAIN s.reads : ~MayRace(s, c, t, k)
<1> DEFINE racing == {k \in DOMAIN s.reads : MayRace(s, c, t, k)}
<1>1. DOMAIN s.reads \subseteq Nat
  BY DEF Word, WordFields
<1>2. ReadRace(s, c, t) = IF racing = {} THEN {}
                         ELSE RaceWith(s.reads[Min(racing)].t, s.reads[Min(racing)].clock, FALSE)
  BY DEF ReadRace, MayRace
<1>3. racing \subseteq DOMAIN s.reads /\ \A k \in racing : MayRace(s, c, t, k)
  OBVIOUS
<1>4. racing = {} => \A k \in DOMAIN s.reads : ~MayRace(s, c, t, k)
  OBVIOUS
<1> HIDE DEF racing
<1>5. racing # {} => Min(racing) \in racing
  BY <1>1, <1>3, LeastExists
<1>6. RaceWith(s.reads[Min(racing)].t, s.reads[Min(racing)].clock, FALSE) # {}
  BY DEF RaceWith
<1>7. \A r \in RaceWith(s.reads[Min(racing)].t, s.reads[Min(racing)].clock, FALSE) :
         r.t = s.reads[Min(racing)].t /\ r.clock = s.reads[Min(racing)].clock /\ r.isWrite = FALSE
  BY DEF RaceWith
<1>8. CASE racing = {}
  BY <1>2, <1>4, <1>8
<1>9. CASE racing # {}
  BY <1>2, <1>3, <1>5, <1>6, <1>7, <1>9
<1> QED  BY <1>8, <1>9

\* So with the last write.
LEMMA WriteRaceIs ==
  ASSUME NEW s, NEW c, NEW t
  PROVE  /\ \A r \in WriteRace(s, c, t) :
              clock_may_race(c, t, s.wc, s.wt) /\ r.t = s.wt /\ r.clock = s.wc /\ r.isWrite = TRUE
         /\ WriteRace(s, c, t) = {} => ~clock_may_race(c, t, s.wc, s.wt)
<1> DEFINE r == RaceWith(s.wt, s.wc, TRUE)
<1>1. WriteRace(s, c, t) = IF clock_may_race(c, t, s.wc, s.wt) THEN r ELSE {}
  BY DEF WriteRace
<1>2. r # {} /\ \A x \in r : x.t = s.wt /\ x.clock = s.wc /\ x.isWrite = TRUE
  BY DEF RaceWith
<1> HIDE DEF r
<1> QED  BY <1>1, <1>2

LEMMA AnyRaceIs ==
  ASSUME NEW s, NEW c, NEW t
  PROVE  /\ AnyRace(s, c, t) \subseteq ReadRace(s, c, t) \cup WriteRace(s, c, t)
         /\ AnyRace(s, c, t) = {} => ReadRace(s, c, t) = {} /\ WriteRace(s, c, t) = {}
BY DEF AnyRace

\* What a write of t leaves: nothing of what was there.
IsWritten(s, c, t, atomic) ==
  s \in Word /\ s.reads = << >> /\ s.wt = t /\ s.wc = c[t] /\ s.isAtomic = atomic

\* What a read of t leaves of s: itself, the reads that may race, and no other.
IsRead(new, s, c, t) ==
  /\ new \in Word /\ new.wt = s.wt /\ new.wc = s.wc /\ new.isAtomic = s.isAtomic
  /\ \E j \in DOMAIN new.reads : new.reads[j] = [t |-> t, clock |-> c[t]]
  /\ \A j \in DOMAIN new.reads : \/ new.reads[j] = [t |-> t, clock |-> c[t]]
                                 \/ \E k \in DOMAIN s.reads : new.reads[j] = s.reads[k]
  /\ \A k \in DOMAIN s.reads :
       MayRace(s, c, t, k) => \E j \in DOMAIN new.reads : new.reads[j] = s.reads[k]

LEMMA ExpandIs ==
  ASSUME NEW s \in Word
  PROVE  LET e == expandRecord(s)
         IN  /\ e \in Word /\ e.kind = "full" /\ e.reads = s.reads
             /\ e.wt = s.wt /\ e.wc = s.wc /\ e.isAtomic = s.isAtomic
             /\ e.cap = IF s.reads = << >> THEN 0 ELSE InitCapacity
<1>1. InitCapacity \in Nat
  OBVIOUS
<1>2. s \in WordFields
  BY DEF Word
<1>3. expandRecord(s) \in WordFields /\ expandRecord(s).kind = "full"
  BY <1>1, <1>2 DEF WordFields, expandRecord
<1> QED  BY <1>2, <1>3 DEF Word, WordFields, expandRecord

LEMMA ShortWritten ==
  ASSUME NEW c \in Clock, NEW t \in Thread, NEW atomic \in BOOLEAN
  PROVE  IsWritten(Short(<< >>, t, c[t], atomic), c, t, atomic)
<1>1. c[t] \in Nat /\ t \in 0 .. N
  BY DEF Clock
<1>2. Short(<< >>, t, c[t], atomic) \in WordFields
  BY <1>1 DEF Short, WordFields
<1> QED  BY <1>1, <1>2 DEF Short, IsWritten, Word

LEMMA FullWritten ==
  ASSUME NEW s \in Word, s.kind = "full", NEW c \in Clock, NEW t \in Thread, NEW atomic \in BOOLEAN
  PROVE  IsWritten(fullRecordWrite(s, c, t, atomic), c, t, atomic)
<1>1. c[t] \in Nat /\ t \in 0 .. N
  BY DEF Clock
<1>2. s \in WordFields /\ << >> \in Seq(ReadRecord)
  BY DEF Word
<1> DEFINE n == c[t]
           new == [s EXCEPT !.reads = << >>, !.wt = t, !.wc = n, !.isAtomic = atomic]
<1>3. /\ new \in WordFields /\ new.kind = "full" /\ new.reads = << >>
      /\ new.wt = t /\ new.wc = n /\ new.isAtomic = atomic
  <2> HIDE DEF n
  <2> QED  BY <1>1, <1>2 DEF WordFields, n
<1>4. fullRecordWrite(s, c, t, atomic) = new
  BY DEF fullRecordWrite
<1> HIDE DEF new
<1> QED  BY <1>3, <1>4 DEF n, IsWritten, Word

\* Every write check leaves what a write leaves.
LEMMA WritesRecorded ==
  ASSUME NEW s \in Word, NEW c \in Clock, NEW t \in Thread
  PROVE  /\ IsWritten(raceCheckWrite(s, c, t).s, c, t, FALSE)
         /\ IsWritten(atomraceCheckWrite(s, c, t).s, c, t, TRUE)
         /\ IsWritten(recordWrite(s, c, t), c, t, TRUE)
<1> DEFINE e == expandRecord(s)
<1>1. e \in Word /\ e.kind = "full"
  BY ExpandIs
<1>2. /\ IsWritten(Short(<< >>, t, c[t], FALSE), c, t, FALSE)
      /\ IsWritten(Short(<< >>, t, c[t], TRUE), c, t, TRUE)
  BY ShortWritten
<1>3. /\ IsWritten(fullRecordWrite(e, c, t, FALSE), c, t, FALSE)
      /\ IsWritten(fullRecordWrite(e, c, t, TRUE), c, t, TRUE)
  <2> HIDE DEF e
  <2> QED  BY <1>1, FullWritten
<1>4. s.kind = "full" => /\ IsWritten(fullRecordWrite(s, c, t, FALSE), c, t, FALSE)
                         /\ IsWritten(fullRecordWrite(s, c, t, TRUE), c, t, TRUE)
  BY FullWritten
<1>5. raceCheckWrite(s, c, t).s = IF s.kind = "full" THEN fullRecordWrite(s, c, t, FALSE)
                                 ELSE IF TooLarge(t, c[t]) THEN fullRecordWrite(e, c, t, FALSE)
                                 ELSE Short(<< >>, t, c[t], FALSE)
  BY DEF raceCheckWrite, fullRaceCheckWrite, Checked
<1>6. atomraceCheckWrite(s, c, t).s = IF s.kind = "full" THEN fullRecordWrite(s, c, t, TRUE)
                                     ELSE IF TooLarge(t, c[t]) THEN fullRecordWrite(e, c, t, TRUE)
                                     ELSE Short(<< >>, t, c[t], TRUE)
  BY DEF atomraceCheckWrite, atomfullRaceCheckWrite, Checked
<1>7. recordWrite(s, c, t) = IF s.kind = "full" THEN fullRecordWrite(s, c, t, TRUE)
                             ELSE IF TooLarge(t, c[t]) THEN fullRecordWrite(e, c, t, TRUE)
                             ELSE Short(<< >>, t, c[t], TRUE)
  BY DEF recordWrite
<1> HIDE DEF e
<1> QED  BY <1>2, <1>3, <1>4, <1>5, <1>6, <1>7

LEMMA FullRead ==
  ASSUME NEW s \in Word, s.kind = "full", NEW c \in Clock, NEW t \in Thread
  PROVE  IsRead(fullRaceCheckRead(s, c, t).s, s, c, t)
<1> DEFINE kept == keptReads(s, c, t)
           r == [t |-> t, clock |-> c[t]]
           cap == NewCapacity(s, Len(kept))
           reads == Append(kept, r)
           new == [s EXCEPT !.reads = reads, !.cap = cap]
<1>1. fullRaceCheckRead(s, c, t).s = new
  BY DEF fullRaceCheckRead, Checked
<1>2. s \in WordFields /\ s.reads \in Seq(ReadRecord) /\ s.cap \in Nat
  BY DEF Word, WordFields
<1>3. /\ kept \in Seq(ReadRecord)
      /\ \A j \in DOMAIN kept : \E k \in DOMAIN s.reads : kept[j] = s.reads[k]
      /\ \A k \in DOMAIN s.reads : MayRace(s, c, t, k) => \E j \in DOMAIN kept : kept[j] = s.reads[k]
  <2>1. s.reads \in Seq(ReadRecord)
    BY <1>2
  <2> HIDE DEF r, cap, reads, new
  <2> QED  BY <2>1, KeptReads
<1>4. r \in ReadRecord
  BY DEF ReadRecord, Clock
<1>5. cap \in Nat
  <2>1. Len(kept) \in Nat
    BY <1>3
  <2> HIDE DEF kept
  <2> QED  BY <1>2, <2>1 DEF NewCapacity
<1> HIDE DEF kept, r, cap
<1>6. /\ reads \in Seq(ReadRecord) /\ DOMAIN reads = 1 .. (Len(kept) + 1) /\ DOMAIN kept = 1 .. Len(kept)
      /\ reads[Len(kept) + 1] = r /\ Len(kept) \in Nat
      /\ \A j \in 1 .. Len(kept) : reads[j] = kept[j]
  BY <1>3, <1>4
<1> HIDE DEF reads
<1>7. /\ new \in WordFields /\ new.kind = "full" /\ new.reads = reads
      /\ new.wt = s.wt /\ new.wc = s.wc /\ new.isAtomic = s.isAtomic
  BY <1>2, <1>5, <1>6 DEF WordFields
<1> HIDE DEF new
<1>8. new \in Word
  BY <1>7 DEF Word
<1>9. \E j \in DOMAIN reads : reads[j] = r
  BY <1>6
<1>10. \A j \in DOMAIN reads : reads[j] = r \/ \E k \in DOMAIN s.reads : reads[j] = s.reads[k]
  <2> SUFFICES ASSUME NEW j \in DOMAIN reads, reads[j] # r PROVE \E k \in DOMAIN s.reads : reads[j] = s.reads[k]
    OBVIOUS
  <2>1. j \in 1 .. Len(kept)
    BY <1>6
  <2> QED  BY <1>3, <1>6, <2>1
<1>11. ASSUME NEW k \in DOMAIN s.reads, MayRace(s, c, t, k) PROVE \E j \in DOMAIN reads : reads[j] = s.reads[k]
  <2>1. PICK j \in DOMAIN kept : kept[j] = s.reads[k]
    BY <1>3, <1>11
  <2>2. j \in DOMAIN reads /\ reads[j] = kept[j]
    BY <1>6
  <2> QED  BY <2>1, <2>2
<1> QED  BY <1>1, <1>7, <1>8, <1>9, <1>10, <1>11 DEF IsRead, r

LEMMA ReadsRecorded ==
  ASSUME NEW s \in Word, NEW c \in Clock, NEW t \in Thread
  PROVE  /\ IsRead(raceCheckRead_otherIt(s, c, t).s, s, c, t)
         /\ raceCheckRead_otherIt(s, c, t).races = WriteRace(s, c, t)
         /\ raceCheckRead(s, c, t).s = raceCheckRead_otherIt(s, c, t).s
<1> DEFINE e == expandRecord(s)
           r == [t |-> t, clock |-> c[t]]
           more == [e EXCEPT !.reads = Append(@, r)]
           short == Short(<<r>>, s.wt, s.wc, s.isAtomic)
           new == raceCheckRead_otherIt(s, c, t)
<1>1. /\ e \in Word /\ e.kind = "full" /\ e.reads = s.reads
      /\ e.wt = s.wt /\ e.wc = s.wc /\ e.isAtomic = s.isAtomic
      /\ e.cap = IF s.reads = << >> THEN 0 ELSE InitCapacity
  BY ExpandIs
<1>2. r \in ReadRecord /\ r = [t |-> t, clock |-> c[t]]
  BY DEF ReadRecord, Clock
<1>3. s \in WordFields /\ s.reads \in Seq(ReadRecord) /\ e \in WordFields
  BY <1>1 DEF Word, WordFields
<1>4. WriteRace(e, c, t) = WriteRace(s, c, t)
  BY <1>1 DEF WriteRace
<1>5. /\ new = IF s.kind = "full" THEN fullRaceCheckRead(s, c, t)
               ELSE IF TooLarge(t, c[t]) THEN fullRaceCheckRead(e, c, t)
               ELSE IF NotSubsumed(s, c, t) THEN Checked(more, WriteRace(s, c, t))
               ELSE Checked(short, WriteRace(s, c, t))
      /\ raceCheckRead(s, c, t)
             = IF s.kind = "full" THEN fullRaceCheckRead(s, c, t)
               ELSE IF TooLarge(t, c[t]) THEN fullRaceCheckRead(e, c, t)
               ELSE IF NotSubsumed(s, c, t) THEN Checked(fullRaceCheckRead(e, c, t).s, WriteRace(s, c, t))
               ELSE Checked(short, WriteRace(s, c, t))
  BY DEF raceCheckRead_otherIt, raceCheckRead
<1> HIDE DEF r
<1>6. CASE s.kind = "full"
  <2>1. new = fullRaceCheckRead(s, c, t) /\ raceCheckRead(s, c, t) = new
    BY <1>5, <1>6
  <2>2. fullRaceCheckRead(s, c, t).races = WriteRace(s, c, t)
    BY DEF fullRaceCheckRead, Checked
  <2> HIDE DEF new
  <2> QED  BY <1>6, <2>1, <2>2, FullRead DEF new
<1>7. CASE s.kind # "full" /\ TooLarge(t, c[t])
  <2>1. new = fullRaceCheckRead(e, c, t) /\ raceCheckRead(s, c, t) = new
    BY <1>5, <1>7
  <2>2. fullRaceCheckRead(e, c, t).races = WriteRace(e, c, t)
    BY DEF fullRaceCheckRead, Checked
  <2>3. IsRead(fullRaceCheckRead(e, c, t).s, e, c, t)
    <3> HIDE DEF e
    <3> QED  BY <1>1, FullRead
  <2>4. \A k : MayRace(e, c, t, k) <=> MayRace(s, c, t, k)
    BY <1>1 DEF MayRace
  <2> HIDE DEF new, e
  <2>5. IsRead(fullRaceCheckRead(e, c, t).s, s, c, t)
    BY <1>1, <2>3, <2>4 DEF IsRead
  <2> QED  BY <1>4, <2>1, <2>2, <2>5 DEF new
<1>8. CASE s.kind # "full" /\ ~TooLarge(t, c[t]) /\ NotSubsumed(s, c, t)
  <2>1. new = Checked(more, WriteRace(s, c, t))
    BY <1>5, <1>8
  <2>2. raceCheckRead(s, c, t) = Checked(fullRaceCheckRead(e, c, t).s, WriteRace(s, c, t))
    BY <1>5, <1>8
  <2>3. PICK k \in DOMAIN s.reads : MayRace(s, c, t, k)
    BY <1>8, ReadRaceIs DEF NotSubsumed
  <2>4. Len(s.reads) = 1 /\ k = 1 /\ DOMAIN s.reads = {1}
    <3>1. Len(s.reads) \in Nat /\ Len(s.reads) =< 1 /\ DOMAIN s.reads = 1 .. Len(s.reads)
      BY <1>3, <1>8 DEF Word
    <3>2. PICK n \in Nat : n = Len(s.reads)
      BY <3>1
    <3>3. k \in 1 .. n /\ n =< 1
      BY <3>1, <3>2
    <3>4. n = 1 /\ k = 1
      BY <3>3
    <3>5. 1 .. 1 = {1}
      OBVIOUS
    <3> QED  BY <3>1, <3>2, <3>4, <3>5
  <2>5. keptReads(e, c, t) = s.reads
    <3>1. MayRace(e, c, t, 1)
      BY <1>1, <2>3, <2>4 DEF MayRace
    <3> HIDE DEF e
    <3> QED  BY <1>1, <1>3, <2>4, <3>1, KeptAlone
  <2>6. NewCapacity(e, 1) = e.cap
    <3>1. IsPowerOf2(1)
      <4>1. 2 ^ 0 = 1 /\ 0 \in 0 .. 1
        OBVIOUS
      <4> QED  BY <4>1 DEF IsPowerOf2
    <3>2. ~(1 >= InitCapacity)
      OBVIOUS
    <3> HIDE DEF e
    <3> QED  BY <3>2 DEF NewCapacity
  <2>7. fullRaceCheckRead(e, c, t).s = [e EXCEPT !.reads = Append(s.reads, r), !.cap = e.cap]
    <3> HIDE DEF e
    <3> QED  BY <2>4, <2>5, <2>6 DEF fullRaceCheckRead, Checked, r
  <2> HIDE DEF e
  <2>8. more = [e EXCEPT !.reads = Append(s.reads, r)]
    BY <1>1
  <2>9. [e EXCEPT !.reads = Append(s.reads, r), !.cap = e.cap] = [e EXCEPT !.reads = Append(s.reads, r)]
    BY <1>3 DEF WordFields
  <2>10. IsRead(fullRaceCheckRead(e, c, t).s, e, c, t)
    BY <1>1, FullRead
  <2>11. \A j : MayRace(e, c, t, j) <=> MayRace(s, c, t, j)
    BY <1>1 DEF MayRace
  <2>12. IsRead(fullRaceCheckRead(e, c, t).s, s, c, t)
    BY <1>1, <2>10, <2>11 DEF IsRead
  <2>13. new.s = more /\ new.races = WriteRace(s, c, t) /\ raceCheckRead(s, c, t).s = fullRaceCheckRead(e, c, t).s
    BY <2>1, <2>2 DEF Checked
  <2> HIDE DEF new, more
  <2> QED  BY <2>7, <2>8, <2>9, <2>12, <2>13 DEF new
<1>9. CASE s.kind # "full" /\ ~TooLarge(t, c[t]) /\ ~NotSubsumed(s, c, t)
  <2>1. new = Checked(short, WriteRace(s, c, t)) /\ raceCheckRead(s, c, t) = Checked(short, WriteRace(s, c, t))
    BY <1>5, <1>9
  <2>2. \A k \in DOMAIN s.reads : ~MayRace(s, c, t, k)
    BY <1>9, ReadRaceIs DEF NotSubsumed
  <2>3. <<r>> \in Seq(ReadRecord) /\ Len(<<r>>) = 1 /\ DOMAIN <<r>> = {1} /\ <<r>>[1] = r
    BY <1>2
  <2>4. /\ short \in WordFields /\ short.reads = <<r>> /\ short.wt = s.wt /\ short.wc = s.wc
        /\ short.isAtomic = s.isAtomic
    <3> DEFINE reads == <<r>>
    <3>1. reads \in Seq(ReadRecord)
      BY <2>3
    <3> HIDE DEF reads
    <3>2. Short(reads, s.wt, s.wc, s.isAtomic) \in WordFields
      BY <1>3, <3>1 DEF WordFields, Short
    <3> QED  BY <3>2 DEF reads, Short
  <2> HIDE DEF short
  <2>5. short \in Word
    <3>1. Len(short.reads) =< 1
      BY <2>3, <2>4
    <3> QED  BY <2>4, <3>1 DEF Word
  <2>6. IsRead(short, s, c, t)
    BY <1>2, <2>2, <2>3, <2>4, <2>5 DEF IsRead
  <2> HIDE DEF new
  <2> QED  BY <2>1, <2>6 DEF new, Checked
<1> QED  BY <1>6, <1>7, <1>8, <1>9

-------------------------------------------------------------------------------
(* What a shadow word says of the accesses.                                *)

Entry ==
  [t : Thread, bytes : SUBSET Address, kind : {"store", "atomicstore", "rmw", "load", "atomicload"},
   clock : Nat \ {0}, own : BOOLEAN, over : SUBSET Nat]

WritesTo(lg, b) == {i \in DOMAIN lg : b \in lg[i].bytes /\ IsWrite(lg[i])}

\* r records the load a of b.
Describes(r, b, a) == a.kind = "load" /\ b \in a.bytes /\ a.t = r.t /\ a.clock = r.clock

\* Access i is a load of b, and no write came after it.
FreshRead(lg, b, i) == lg[i].kind = "load" /\ b \in lg[i].bytes /\ \A w \in WritesTo(lg, b) : w < i

\* s describes the last write to b among the accesses lg and loads of b: for
\* every load since the last write itself, or one that takes its place.
WordOK(s, b, lg) ==
  /\ s \in Word
  /\ WritesTo(lg, b) = {} => s.wc = 0 /\ s.isAtomic = FALSE
  /\ \A w \in WritesTo(lg, b) :
       (\A v \in WritesTo(lg, b) : v =< w)
         => s.wt = lg[w].t /\ s.wc = lg[w].clock /\ s.isAtomic = IsAtomic(lg[w])
  /\ \A k \in DOMAIN s.reads : \E i \in DOMAIN lg : Describes(s.reads[k], b, lg[i])
  /\ \A i \in DOMAIN lg :
       FreshRead(lg, b, i)
         => \E k \in DOMAIN s.reads, j \in DOMAIN lg :
              Describes(s.reads[k], b, lg[j]) /\ (i = j \/ i \in lg[j].over)

LEMMA AppendIs ==
  ASSUME NEW lg \in Seq(Entry), NEW e \in Entry
  PROVE  /\ Append(lg, e) \in Seq(Entry) /\ Len(lg) \in Nat /\ Len(Append(lg, e)) = Len(lg) + 1
         /\ DOMAIN lg = 1 .. Len(lg) /\ DOMAIN Append(lg, e) = 1 .. (Len(lg) + 1)
         /\ \A i \in 1 .. Len(lg) : Append(lg, e)[i] = lg[i] /\ lg[i] \in Entry
         /\ Append(lg, e)[Len(lg) + 1] = e
OBVIOUS

LEMMA WritesAppend ==
  ASSUME NEW lg \in Seq(Entry), NEW e \in Entry, NEW b
  PROVE  WritesTo(Append(lg, e), b)
           = WritesTo(lg, b) \cup (IF b \in e.bytes /\ IsWrite(e) THEN {Len(lg) + 1} ELSE {})
<1> DEFINE new == Append(lg, e)
<1>1. /\ Len(lg) \in Nat /\ DOMAIN lg = 1 .. Len(lg) /\ DOMAIN new = 1 .. (Len(lg) + 1)
      /\ \A i \in 1 .. Len(lg) : new[i] = lg[i]
      /\ new[Len(lg) + 1] = e
  BY AppendIs
<1> HIDE DEF new
<1>2. \A i \in 1 .. Len(lg) : i \in WritesTo(new, b) <=> i \in WritesTo(lg, b)
  BY <1>1 DEF WritesTo
<1>3. Len(lg) + 1 \in WritesTo(new, b) <=> (b \in e.bytes /\ IsWrite(e))
  BY <1>1 DEF WritesTo
<1>4. Len(lg) + 1 \notin WritesTo(lg, b)
  BY <1>1 DEF WritesTo
<1>5. \A i \in 1 .. (Len(lg) + 1) : i \in 1 .. Len(lg) \/ i = Len(lg) + 1
  BY <1>1
<1>6. WritesTo(new, b) \subseteq 1 .. (Len(lg) + 1) /\ WritesTo(lg, b) \subseteq 1 .. Len(lg)
  BY <1>1 DEF WritesTo
<1>7. WritesTo(new, b) = WritesTo(lg, b) \cup (IF b \in e.bytes /\ IsWrite(e) THEN {Len(lg) + 1} ELSE {})
  BY <1>2, <1>3, <1>4, <1>5, <1>6
<1> QED  BY <1>7 DEF new

\* An access of other bytes, or an atomic load, changes nothing of that.
LEMMA WordUntouched ==
  ASSUME NEW lg \in Seq(Entry), NEW e \in Entry, NEW b, NEW s, WordOK(s, b, lg),
         b \in e.bytes => e.kind = "atomicload"
  PROVE  WordOK(s, b, Append(lg, e))
<1> DEFINE new == Append(lg, e)
<1>1. /\ Len(lg) \in Nat /\ DOMAIN lg = 1 .. Len(lg) /\ DOMAIN new = 1 .. (Len(lg) + 1)
      /\ \A i \in 1 .. Len(lg) : new[i] = lg[i]
      /\ new[Len(lg) + 1] = e
  BY AppendIs
<1>2. WritesTo(new, b) = WritesTo(lg, b)
  BY WritesAppend DEF IsWrite
<1>3. WritesTo(lg, b) \subseteq 1 .. Len(lg) /\ 1 .. Len(lg) \subseteq DOMAIN new
  BY <1>1 DEF WritesTo
<1> HIDE DEF new
<1>4. \A w \in WritesTo(lg, b) : new[w] = lg[w]
  BY <1>1, <1>3
<1>5. \A k \in DOMAIN s.reads : \E i \in DOMAIN new : Describes(s.reads[k], b, new[i])
  <2> SUFFICES ASSUME NEW k \in DOMAIN s.reads PROVE \E i \in DOMAIN new : Describes(s.reads[k], b, new[i])
    OBVIOUS
  <2>1. PICK i \in DOMAIN lg : Describes(s.reads[k], b, lg[i])
    BY DEF WordOK
  <2> QED  BY <1>1, <1>3, <2>1
<1>6. ASSUME NEW i \in DOMAIN new, FreshRead(new, b, i)
      PROVE  \E k \in DOMAIN s.reads, j \in DOMAIN new :
               Describes(s.reads[k], b, new[j]) /\ (i = j \/ i \in new[j].over)
  <2>1. i # Len(lg) + 1
    <3>1. ~(e.kind = "load" /\ b \in e.bytes)
      OBVIOUS
    <3> QED  BY <1>1, <1>6, <3>1 DEF FreshRead
  <2>2. i \in 1 .. Len(lg) /\ new[i] = lg[i]
    BY <1>1, <2>1
  <2>3. FreshRead(lg, b, i)
    BY <1>2, <1>6, <2>2 DEF FreshRead
  <2>4. PICK k \in DOMAIN s.reads, j \in DOMAIN lg :
               Describes(s.reads[k], b, lg[j]) /\ (i = j \/ i \in lg[j].over)
    BY <1>1, <2>2, <2>3 DEF WordOK
  <2>5. j \in DOMAIN new /\ new[j] = lg[j]
    BY <1>1, <1>3
  <2> QED  BY <2>4, <2>5
<1>7. WordOK(s, b, new)
  BY <1>2, <1>4, <1>5, <1>6 DEF WordOK
<1> QED  BY <1>7 DEF new

\* What a write leaves describes it.
LEMMA WordWritten ==
  ASSUME NEW lg \in Seq(Entry), NEW e \in Entry, NEW b, NEW new, NEW c,
         b \in e.bytes, IsWrite(e), e.clock = c[e.t],
         IsWritten(new, c, e.t, IsAtomic(e))
  PROVE  WordOK(new, b, Append(lg, e))
<1> DEFINE n == Len(lg) + 1
           all == Append(lg, e)
<1>1. /\ Len(lg) \in Nat /\ DOMAIN lg = 1 .. Len(lg) /\ DOMAIN all = 1 .. (Len(lg) + 1)
      /\ \A i \in 1 .. Len(lg) : all[i] = lg[i]
      /\ all[n] = e
  BY AppendIs
<1>2. WritesTo(all, b) = WritesTo(lg, b) \cup {n}
  BY WritesAppend
<1>3. WritesTo(lg, b) \subseteq 1 .. Len(lg)
  BY <1>1 DEF WritesTo
<1> HIDE DEF all
<1>4. ASSUME NEW w \in WritesTo(all, b), \A v \in WritesTo(all, b) : v =< w PROVE w = n
  <2>1. n =< w
    BY <1>2, <1>4
  <2> QED  BY <1>1, <1>2, <1>3, <2>1
<1>5. new \in Word /\ new.reads = << >> /\ new.wt = e.t /\ new.wc = e.clock /\ new.isAtomic = IsAtomic(e)
  BY DEF IsWritten
<1>6. DOMAIN new.reads = {}
  BY <1>5
<1>7. \A i \in DOMAIN all : ~FreshRead(all, b, i)
  <2> SUFFICES ASSUME NEW i \in DOMAIN all, FreshRead(all, b, i) PROVE FALSE
    OBVIOUS
  <2>1. n < i
    BY <1>2 DEF FreshRead
  <2> QED  BY <1>1, <2>1
<1>8. WritesTo(all, b) # {}
  BY <1>2
<1> HIDE DEF n
<1>9. WordOK(new, b, all)
  BY <1>1, <1>4, <1>5, <1>6, <1>7, <1>8 DEF WordOK
<1> QED  BY <1>9 DEF all

\* kC has the accesses that t comes after at clock vector c.
Knows(kC, c, t, lg) ==
  \A j \in DOMAIN lg : (lg[j].t = t \/ lg[j].clock < c[lg[j].t]) => {j} \cup lg[j].over \subseteq kC

\* A recorded read that the access of t does not race with is one it knows of,
\* and so are those that read takes the place of.
LEMMA NotRacingIsKnown ==
  ASSUME NEW lg \in Seq(Entry), NEW s, NEW c \in Clock, NEW t, NEW kC, Knows(kC, c, t, lg),
         NEW b, NEW k, NEW j \in DOMAIN lg, Describes(s.reads[k], b, lg[j]), ~MayRace(s, c, t, k)
  PROVE  {j} \cup lg[j].over \subseteq kC
<1>1. lg[j] \in Entry
  OBVIOUS
<1>2. lg[j].clock \in Nat \ {0} /\ lg[j].t \in Thread
  BY <1>1 DEF Entry
<1>3. c[lg[j].t] \in Nat
  BY <1>2 DEF Clock
<1>4. ~(t # lg[j].t /\ lg[j].clock # 0 /\ c[lg[j].t] =< lg[j].clock)
  BY DEF MayRace, clock_may_race, Describes
<1>5. lg[j].t = t \/ lg[j].clock < c[lg[j].t]
  BY <1>2, <1>3, <1>4
<1> QED  BY <1>5 DEF Knows

\* What a read leaves stands for it and for every read that it drops.
LEMMA WordRead ==
  ASSUME NEW lg \in Seq(Entry), NEW e \in Entry, NEW b, NEW s, NEW new, NEW c \in Clock, NEW kC,
         WordOK(s, b, lg), IsRead(new, s, c, e.t), Knows(kC, c, e.t, lg),
         e.kind = "load", b \in e.bytes, e.clock = c[e.t],
         e.over = {i \in kC : lg[i].kind = "load" /\ lg[i].bytes \cap e.bytes # {}}
  PROVE  WordOK(new, b, Append(lg, e))
<1> DEFINE n == Len(lg) + 1
           all == Append(lg, e)
           r == [t |-> e.t, clock |-> c[e.t]]
<1>1. /\ Len(lg) \in Nat /\ DOMAIN lg = 1 .. Len(lg) /\ DOMAIN all = 1 .. (Len(lg) + 1)
      /\ \A i \in 1 .. Len(lg) : all[i] = lg[i] /\ i \in DOMAIN all
      /\ all[n] = e /\ n \in DOMAIN all
  BY AppendIs
<1>2. WritesTo(all, b) = WritesTo(lg, b)
  <2>1. ~IsWrite(e)
    BY DEF IsWrite
  <2> QED  BY <2>1, WritesAppend, ZenonT(60)
<1>3. WritesTo(lg, b) \subseteq 1 .. Len(lg)
  BY <1>1 DEF WritesTo
<1>4. Describes(r, b, e)
  BY DEF Describes
<1> HIDE DEF all, r
<1>5. /\ new \in Word /\ new.wt = s.wt /\ new.wc = s.wc /\ new.isAtomic = s.isAtomic
      /\ \E j \in DOMAIN new.reads : new.reads[j] = r
      /\ \A j \in DOMAIN new.reads : \/ new.reads[j] = r
                                     \/ \E k \in DOMAIN s.reads : new.reads[j] = s.reads[k]
      /\ \A k \in DOMAIN s.reads :
           MayRace(s, c, e.t, k) => \E j \in DOMAIN new.reads : new.reads[j] = s.reads[k]
  BY DEF IsRead, r
<1> HIDE DEF n
<1>6. ASSUME NEW k \in DOMAIN new.reads PROVE \E i \in DOMAIN all : Describes(new.reads[k], b, all[i])
  <2>1. CASE new.reads[k] = r
    BY <1>1, <1>4, <2>1
  <2>2. CASE new.reads[k] # r
    <3>1. PICK m \in DOMAIN s.reads : new.reads[k] = s.reads[m]
      BY <1>5, <2>2
    <3>2. PICK i \in DOMAIN lg : Describes(s.reads[m], b, lg[i])
      BY DEF WordOK
    <3> QED  BY <1>1, <3>1, <3>2
  <2> QED  BY <2>1, <2>2
<1>7. ASSUME NEW i \in DOMAIN all, FreshRead(all, b, i)
      PROVE  \E k \in DOMAIN new.reads, j \in DOMAIN all :
               Describes(new.reads[k], b, all[j]) /\ (i = j \/ i \in all[j].over)
  <2>1. PICK k0 \in DOMAIN new.reads : new.reads[k0] = r
    BY <1>5
  <2>2. CASE i = n
    BY <1>1, <1>4, <2>1, <2>2
  <2>3. CASE i # n
    <3>1. i \in 1 .. Len(lg) /\ i \in DOMAIN lg /\ all[i] = lg[i]
      BY <1>1, <2>3 DEF n
    <3>2. FreshRead(lg, b, i)
      BY <1>2, <1>7, <3>1 DEF FreshRead
    <3>3. PICK k \in DOMAIN s.reads, j \in DOMAIN lg :
                 Describes(s.reads[k], b, lg[j]) /\ (i = j \/ i \in lg[j].over)
      BY <3>1, <3>2 DEF WordOK
    <3>4. j \in DOMAIN all /\ all[j] = lg[j]
      BY <1>1
    <3>5. CASE MayRace(s, c, e.t, k)
      <4>1. PICK m \in DOMAIN new.reads : new.reads[m] = s.reads[k]
        BY <1>5, <3>5
      <4> QED  BY <3>3, <3>4, <4>1
    <3>6. CASE ~MayRace(s, c, e.t, k)
      <4>1. {j} \cup lg[j].over \subseteq kC
        BY <3>3, <3>6, NotRacingIsKnown
      <4>2. i \in kC
        BY <3>3, <4>1
      <4>3. lg[i].kind = "load" /\ b \in lg[i].bytes \cap e.bytes
        BY <3>2 DEF FreshRead
      <4>4. i \in e.over
        BY <4>2, <4>3
      <4> QED  BY <1>1, <1>4, <2>1, <4>4
    <3> QED  BY <3>5, <3>6
  <2> QED  BY <2>2, <2>3
<1>8. \A w \in WritesTo(lg, b) : all[w] = lg[w]
  BY <1>1, <1>3
<1>9. WordOK(new, b, all)
  BY <1>2, <1>5, <1>6, <1>7, <1>8 DEF WordOK
<1> QED  BY <1>9 DEF all

-------------------------------------------------------------------------------
(* The checks of several bytes.                                            *)

\* The checks of the bytes B, one by one, on the shadow table sh.
OneByOne(sh, B, new, races, check) ==
  /\ new = [a \in DOMAIN sh |-> IF a \in B THEN check[a].s ELSE sh[a]]
  /\ \A x \in races : x[1] \in B /\ x[2] \in check[x[1]].races
  /\ (\E a \in B : check[a].races # {}) => races # {}

LEMMA EachIs ==
  ASSUME NEW sh, NEW check
  PROVE  OneByOne(sh, DOMAIN check, Each(sh, check).shadow, Each(sh, check).races, check)
<1>1. Each(sh, check).shadow = [a \in DOMAIN sh |-> IF a \in DOMAIN check THEN check[a].s ELSE sh[a]]
  BY DEF Each
<1>2. Each(sh, check).races = UNION {{<<a, r>> : r \in check[a].races} : a \in DOMAIN check}
  BY DEF Each
<1>3. \A x \in Each(sh, check).races : x[1] \in DOMAIN check /\ x[2] \in check[x[1]].races
  BY <1>2
<1>4. ASSUME NEW a \in DOMAIN check, check[a].races # {} PROVE Each(sh, check).races # {}
  <2>1. PICK r \in check[a].races : TRUE
    BY <1>4
  <2>2. <<a, r>> \in Each(sh, check).races
    BY <1>2
  <2> QED  BY <2>2
<1> QED  BY <1>1, <1>3, <1>4 DEF OneByOne

\* Copying the first byte's word to bytes that held the same word makes no
\* difference, other than that a race is reported once.
LEMMA SizedIs ==
  ASSUME NEW sh, NEW b \in Nat, NEW n \in Nat \ {0}, NEW copies, NEW other,
         \A a \in Bytes(b, n) : sh[a] = sh[b] => other[a] = other[b]
  PROVE  LET z == Sized(sh, b, n, copies, other[b], other)
         IN  OneByOne(sh, Bytes(b, n), z.shadow, z.races, other)
<1> DEFINE B == Bytes(b, n)
           fast == copies /\ InOneTable(b, n)
           Copy(a) == fast /\ \A d \in Bytes(b, n) : d =< a => sh[d] = sh[b]
           New(a) == IF a = b THEN other[b] ELSE IF Copy(a) THEN Checked(other[b].s, {}) ELSE other[a]
           z == Sized(sh, b, n, copies, other[b], other)
<1>1. z.shadow = [a \in DOMAIN sh |-> IF a \in B THEN New(a).s ELSE sh[a]]
  BY DEF Sized
<1>2. z.races = UNION {{<<a, r>> : r \in New(a).races} : a \in B}
  BY DEF Sized
<1>3. b \in B
  BY DEF Bytes
<1>4. \A a \in B : Copy(a) => other[a] = other[b]
  <2>1. \A a \in B : a =< a
    BY DEF Bytes
  <2> QED  BY <2>1
<1>5. \A a \in B : New(a) = other[a] \/ (New(a) = Checked(other[b].s, {}) /\ other[a] = other[b])
  <2> HIDE DEF Copy
  <2> QED  BY <1>4
<1>6. New(b) = other[b]
  OBVIOUS
<1> HIDE DEF New, B, z
<1>7. \A a \in B : New(a).s = other[a].s /\ New(a).races \subseteq other[a].races
  BY <1>5 DEF Checked
<1>8. z.shadow = [a \in DOMAIN sh |-> IF a \in B THEN other[a].s ELSE sh[a]]
  BY <1>1, <1>7
<1>9. \A x \in z.races : x[1] \in B /\ x[2] \in other[x[1]].races
  BY <1>2, <1>7
<1>10. ASSUME NEW a \in B, other[a].races # {} PROVE z.races # {}
  <2>1. New(a).races # {} \/ New(b).races # {}
    BY <1>5, <1>6, <1>10 DEF Checked
  <2>2. PICK d \in B : New(d).races # {}
    BY <1>3, <2>1
  <2>3. PICK r \in New(d).races : TRUE
    BY <2>2
  <2>4. <<d, r>> \in z.races
    BY <1>2, <2>3
  <2> QED  BY <2>4
<1> QED  BY <1>8, <1>9, <1>10 DEF OneByOne, B, z

LEMMA SizedReadIs ==
  ASSUME NEW sh, NEW b \in Nat, NEW n \in Nat \ {0}, NEW c, NEW t
  PROVE  LET z == raceCheckReadSized(sh, b, n, c, t)
         IN  OneByOne(sh, Bytes(b, n), z.shadow, z.races,
                      [a \in Bytes(b, n) |-> raceCheckRead_otherIt(sh[a], c, t)])
<1> DEFINE other == [a \in Bytes(b, n) |-> raceCheckRead_otherIt(sh[a], c, t)]
           copies == Copies(sh[b], c, t)
<1>1. b \in Bytes(b, n)
  BY DEF Bytes
<1>2. other[b] = raceCheckRead_firstIt(sh[b], c, t)
  BY <1>1 DEF raceCheckRead_firstIt
<1>3. raceCheckReadSized(sh, b, n, c, t) = Sized(sh, b, n, copies, other[b], other)
  BY <1>2 DEF raceCheckReadSized
<1>4. \A a \in Bytes(b, n) : sh[a] = sh[b] => other[a] = other[b]
  BY <1>1
<1> HIDE DEF other, copies
<1>5. LET z == Sized(sh, b, n, copies, other[b], other) IN OneByOne(sh, Bytes(b, n), z.shadow, z.races, other)
  BY <1>4, SizedIs
<1> QED  BY <1>3, <1>5 DEF other

LEMMA SizedWriteIs ==
  ASSUME NEW sh, NEW b \in Nat, NEW n \in Nat \ {0}, NEW c, NEW t
  PROVE  LET z == raceCheckWriteSized(sh, b, n, c, t)
         IN  OneByOne(sh, Bytes(b, n), z.shadow, z.races,
                      [a \in Bytes(b, n) |-> raceCheckWrite(sh[a], c, t)])
<1> DEFINE other == [a \in Bytes(b, n) |-> raceCheckWrite(sh[a], c, t)]
           copies == sh[b].kind # "full" /\ ~TooLarge(t, c[t])
<1>1. b \in Bytes(b, n)
  BY DEF Bytes
<1>2. raceCheckWriteSized(sh, b, n, c, t) = Sized(sh, b, n, copies, other[b], other)
  BY DEF raceCheckWriteSized
<1>3. \A a \in Bytes(b, n) : sh[a] = sh[b] => other[a] = other[b]
  BY <1>1
<1> HIDE DEF other, copies
<1>4. LET z == Sized(sh, b, n, copies, other[b], other) IN OneByOne(sh, Bytes(b, n), z.shadow, z.races, other)
  BY <1>3, SizedIs
<1> QED  BY <1>2, <1>4 DEF other

\* The sized checks leave what the checks for one byte leave.
LEMMA SizedHolds ==
  ASSUME \A a \in Address : shadow[a] \in Word, DOMAIN shadow = Address,
         \A t \in Thread : last[t] \in Clock
  PROVE  SizedAsBytes
<1> SUFFICES ASSUME NEW t \in Thread, NEW b \in Address, NEW n \in Size \ {1}, Bytes(b, n) \subseteq Address
             PROVE  LET c == last[t]
                        R == [a \in Bytes(b, n) |-> raceCheckRead(shadow[a], c, t)]
                        W == [a \in Bytes(b, n) |-> raceCheckWrite(shadow[a], c, t)]
                    IN  /\ raceCheckReadSized(shadow, b, n, c, t).shadow = Each(shadow, R).shadow
                        /\ raceCheckWriteSized(shadow, b, n, c, t).shadow = Each(shadow, W).shadow
  BY DEF SizedAsBytes
<1> DEFINE B == Bytes(b, n)
           c == last[t]
           R == [a \in B |-> raceCheckRead(shadow[a], c, t)]
           O == [a \in B |-> raceCheckRead_otherIt(shadow[a], c, t)]
           W == [a \in B |-> raceCheckWrite(shadow[a], c, t)]
           zr == raceCheckReadSized(shadow, b, n, c, t)
           zw == raceCheckWriteSized(shadow, b, n, c, t)
<1>1. b \in Nat /\ n \in Nat \ {0} /\ c \in Clock
  BY DEF Size
<1>2. OneByOne(shadow, B, zr.shadow, zr.races, O) /\ OneByOne(shadow, B, zw.shadow, zw.races, W)
  BY <1>1, SizedReadIs, SizedWriteIs
<1>3. DOMAIN R = B /\ DOMAIN W = B
  OBVIOUS
<1>4. \A a \in B : R[a].s = O[a].s
  <2> SUFFICES ASSUME NEW a \in B PROVE raceCheckRead(shadow[a], c, t).s = raceCheckRead_otherIt(shadow[a], c, t).s
    OBVIOUS
  <2> HIDE DEF c
  <2> QED  BY <1>1, ReadsRecorded
<1> HIDE DEF B, R, O, W, zr, zw, c
<1>5. OneByOne(shadow, B, Each(shadow, R).shadow, Each(shadow, R).races, R)
  BY <1>3, EachIs
<1>6. OneByOne(shadow, B, Each(shadow, W).shadow, Each(shadow, W).races, W)
  BY <1>3, EachIs
<1>7. zr.shadow = Each(shadow, R).shadow
  <2>1. zr.shadow = [a \in DOMAIN shadow |-> IF a \in B THEN O[a].s ELSE shadow[a]]
    BY <1>2 DEF OneByOne
  <2>2. Each(shadow, R).shadow = [a \in DOMAIN shadow |-> IF a \in B THEN R[a].s ELSE shadow[a]]
    BY <1>5 DEF OneByOne
  <2> QED  BY <1>4, <2>1, <2>2
<1>8. zw.shadow = Each(shadow, W).shadow
  BY <1>2, <1>6 DEF OneByOne
<1> QED  BY <1>7, <1>8 DEF B, R, W, zr, zw, c

-------------------------------------------------------------------------------
(* Clock vectors and the accesses that come before.                        *)

\* Access a comes before what has clock vector cv, by its clock.
Before(a, cv) == a.clock < cv[a.t] \/ (a.clock = cv[a.t] /\ a.own /\ IsAtomic(a))

\* s tells a clock vector and accesses among lg, when threads have the clock
\* vectors la: the accesses have clocks the vector covers, unless it regressed
\* (rg), and those it covers are among the accesses.  What thread own made is
\* left aside.
Tells(s, own, lg, la, rg) ==
  /\ s.cv \in Clock /\ s.k \subseteq DOMAIN lg /\ s.kC \subseteq DOMAIN lg
  /\ \A u \in Thread : s.cv[u] =< la[u][u]
  /\ rg \/ \A i \in s.k : lg[i].t # own => Before(lg[i], s.cv)
  /\ \A i \in DOMAIN lg :
       lg[i].t # own /\ lg[i].clock < s.cv[lg[i].t] => {i} \cup lg[i].over \subseteq s.kC

\* la and rg are followed by la2 and rg2.
Later(la, rg, la2, rg2) ==
  /\ \A u \in Thread : la[u] \in Clock /\ la2[u] \in Clock /\ la[u][u] =< la2[u][u]
  /\ rg => rg2

\* What was told stays true as time passes.
LEMMA TellsLater ==
  ASSUME NEW s, NEW own, NEW lg \in Seq(Entry), NEW la, NEW rg, NEW la2, NEW rg2,
         Later(la, rg, la2, rg2), Tells(s, own, lg, la, rg)
  PROVE  Tells(s, own, lg, la2, rg2)
<1>1. \A u \in Thread : s.cv[u] =< la2[u][u]
  <2> SUFFICES ASSUME NEW u \in Thread PROVE s.cv[u] =< la2[u][u]
    OBVIOUS
  <2>1. s.cv[u] \in Nat /\ la[u][u] \in Nat /\ la2[u][u] \in Nat
    BY DEF Tells, Later, Clock
  <2>2. s.cv[u] =< la[u][u] /\ la[u][u] =< la2[u][u]
    BY DEF Tells, Later
  <2> QED  BY <2>1, <2>2
<1> QED  BY <1>1 DEF Tells, Later

\* It stays true when an access is made, at the clock its thread has reached.
LEMMA TellsAppend ==
  ASSUME NEW s, NEW own, NEW lg \in Seq(Entry), NEW e \in Entry, NEW la, NEW rg,
         \A u \in Thread : la[u] \in Clock,
         Tells(s, own, lg, la, rg), e.clock = la[e.t][e.t]
  PROVE  Tells(s, own, Append(lg, e), la, rg)
<1> DEFINE new == Append(lg, e)
<1>1. /\ Len(lg) \in Nat /\ DOMAIN lg = 1 .. Len(lg) /\ DOMAIN new = 1 .. (Len(lg) + 1)
      /\ \A i \in 1 .. Len(lg) : new[i] = lg[i] /\ i \in DOMAIN new
      /\ new[Len(lg) + 1] = e
  BY AppendIs
<1> HIDE DEF new
<1>2. s.k \subseteq DOMAIN new /\ s.kC \subseteq DOMAIN new
  BY <1>1 DEF Tells
<1>3. rg \/ \A i \in s.k : new[i].t # own => Before(new[i], s.cv)
  BY <1>1 DEF Tells
<1>4. ASSUME NEW i \in DOMAIN new, new[i].t # own, new[i].clock < s.cv[new[i].t]
      PROVE  {i} \cup new[i].over \subseteq s.kC
  <2>1. CASE i = Len(lg) + 1
    <3>1. e.t \in Thread /\ s.cv[e.t] \in Nat /\ la[e.t][e.t] \in Nat
      BY DEF Entry, Tells, Clock
    <3>2. s.cv[e.t] =< e.clock
      BY <3>1 DEF Tells
    <3> QED  BY <1>1, <1>4, <2>1, <3>1, <3>2
  <2>2. CASE i # Len(lg) + 1
    <3>1. i \in DOMAIN lg /\ new[i] = lg[i]
      BY <1>1, <2>2
    <3> QED  BY <1>4, <3>1 DEF Tells
  <2> QED  BY <2>1, <2>2
<1>5. Tells(s, own, new, la, rg)
  BY <1>2, <1>3, <1>4 DEF Tells
<1> QED  BY <1>5 DEF new

\* What is told to all is told to thread t.
LEMMA TellsOne ==
  ASSUME NEW s, NEW t, NEW lg \in Seq(Entry), NEW la, NEW rg, Tells(s, 0, lg, la, rg)
  PROVE  Tells(s, t, lg, la, rg)
<1>1. \A i \in DOMAIN lg : lg[i].t # 0
  <2>1. \A i \in DOMAIN lg : lg[i] \in Entry
    OBVIOUS
  <2> QED  BY <2>1 DEF Entry
<1>2. s.k \subseteq DOMAIN lg
  BY DEF Tells
<1> QED  BY <1>1, <1>2 DEF Tells

\* s tells what those in Z tell together.
Joins(s, Z) ==
  /\ s.cv \in Clock
  /\ \A u \in Thread : \E z \in Z : s.cv[u] = z.cv[u]
  /\ \A z \in Z : \A u \in Thread : z.cv[u] =< s.cv[u]
  /\ s.k = UNION {z.k : z \in Z} /\ s.kC = UNION {z.kC : z \in Z}

LEMMA TellsJoined ==
  ASSUME NEW s, NEW Z, NEW own, NEW lg \in Seq(Entry), NEW la, NEW rg, Joins(s, Z),
         \A z \in Z : Tells(z, own, lg, la, rg)
  PROVE  Tells(s, own, lg, la, rg)
<1>1. \A i \in DOMAIN lg : lg[i] \in Entry
  OBVIOUS
<1>2. s.cv \in Clock /\ s.k \subseteq DOMAIN lg /\ s.kC \subseteq DOMAIN lg
  BY DEF Joins, Tells
<1>3. \A u \in Thread : s.cv[u] =< la[u][u]
  <2> SUFFICES ASSUME NEW u \in Thread PROVE s.cv[u] =< la[u][u]
    OBVIOUS
  <2>1. PICK z \in Z : s.cv[u] = z.cv[u]
    BY DEF Joins
  <2> QED  BY <2>1 DEF Tells
<1>4. ASSUME ~rg, NEW i \in s.k, lg[i].t # own PROVE Before(lg[i], s.cv)
  <2>1. PICK z \in Z : i \in z.k
    BY DEF Joins
  <2>2. Before(lg[i], z.cv)
    BY <1>4, <2>1 DEF Tells
  <2> DEFINE n == lg[i].clock
             a == z.cv[lg[i].t]
             d == s.cv[lg[i].t]
  <2>3. lg[i].t \in Thread /\ n \in Nat
    BY <1>1, <1>2 DEF Entry
  <2>4. a \in Nat /\ d \in Nat /\ a =< d
    BY <1>2, <2>3 DEF Joins, Tells, Clock
  <2>5. n < a \/ (n = a /\ lg[i].own /\ IsAtomic(lg[i]))
    BY <2>2 DEF Before
  <2> HIDE DEF n, a, d
  <2>6. n < d \/ (n = d /\ lg[i].own /\ IsAtomic(lg[i]))
    <3>1. CASE n < a
      BY <2>3, <2>4, <3>1
    <3>2. CASE n = a /\ lg[i].own /\ IsAtomic(lg[i])
      <4>1. n < d \/ n = d
        BY <2>3, <2>4, <3>2
      <4> QED  BY <3>2, <4>1
    <3> QED  BY <2>5, <3>1, <3>2
  <2> QED  BY <2>6 DEF Before, n, d
<1>5. ASSUME NEW i \in DOMAIN lg, lg[i].t # own, lg[i].clock < s.cv[lg[i].t] PROVE {i} \cup lg[i].over \subseteq s.kC
  <2>1. lg[i].t \in Thread
    BY <1>1 DEF Entry
  <2>2. PICK z \in Z : s.cv[lg[i].t] = z.cv[lg[i].t]
    BY <2>1 DEF Joins
  <2>3. {i} \cup lg[i].over \subseteq z.kC
    BY <1>5, <2>2 DEF Tells
  <2>4. z.kC \subseteq s.kC
    BY DEF Joins
  <2> QED  BY <2>3, <2>4
<1> QED  BY <1>2, <1>3, <1>4, <1>5 DEF Tells

\* Thread t may be told with any clock of its own that it has reached.
LEMMA TellsStamped ==
  ASSUME NEW s, NEW t \in Thread, NEW lg \in Seq(Entry), NEW la, NEW rg, Tells(s, t, lg, la, rg),
         NEW n \in Nat, n =< la[t][t]
  PROVE  Tells([cv |-> setClock(s.cv, t, n), k |-> s.k, kC |-> s.kC], t, lg, la, rg)
<1> DEFINE c == setClock(s.cv, t, n)
           new == [cv |-> c, k |-> s.k, kC |-> s.kC]
<1>1. s.cv \in Clock
  BY DEF Tells
<1>2. c \in Clock /\ c[t] = n /\ \A u \in Thread : u # t => c[u] = s.cv[u]
  BY <1>1 DEF setClock, Clock
<1> HIDE DEF c
<1>3. \A u \in Thread : c[u] =< la[u][u]
  BY <1>2 DEF Tells
<1>4. \A i \in DOMAIN lg : lg[i].t \in Thread
  <2>1. \A i \in DOMAIN lg : lg[i] \in Entry
    OBVIOUS
  <2> QED  BY <2>1 DEF Entry
<1>5. s.k \subseteq DOMAIN lg
  BY DEF Tells
<1>6. rg \/ \A i \in s.k : lg[i].t # t => Before(lg[i], c)
  BY <1>2, <1>4, <1>5 DEF Tells, Before
<1>7. \A i \in DOMAIN lg : lg[i].t # t /\ lg[i].clock < c[lg[i].t] => {i} \cup lg[i].over \subseteq s.kC
  BY <1>2, <1>4 DEF Tells
<1>8. Tells(new, t, lg, la, rg)
  BY <1>2, <1>3, <1>5, <1>6, <1>7 DEF Tells
<1> QED  BY <1>8 DEF c

\* kC has the accesses t made, and those they take the place of.
Mine(kC, t, lg) == \A j \in DOMAIN lg : lg[j].t = t => {j} \cup lg[j].over \subseteq kC

\* With a clock that none of its accesses has reached and all of its accesses,
\* what t is told may be told to all.
LEMMA TellsAll ==
  ASSUME NEW s, NEW t \in Thread, NEW lg \in Seq(Entry), NEW la, NEW rg, Tells(s, t, lg, la, rg),
         NEW n \in Nat, n =< la[t][t], \A i \in DOMAIN lg : lg[i].t = t => lg[i].clock < n,
         NEW kC \in SUBSET DOMAIN lg, s.kC \subseteq kC, Mine(kC, t, lg)
  PROVE  Tells([cv |-> setClock(s.cv, t, n), k |-> s.k, kC |-> kC], 0, lg, la, rg)
<1> DEFINE c == setClock(s.cv, t, n)
           new == [cv |-> c, k |-> s.k, kC |-> kC]
<1>1. s.cv \in Clock
  BY DEF Tells
<1>2. c \in Clock /\ c[t] = n /\ \A u \in Thread : u # t => c[u] = s.cv[u]
  BY <1>1 DEF setClock, Clock
<1> HIDE DEF c
<1>3. \A u \in Thread : c[u] =< la[u][u]
  BY <1>2 DEF Tells
<1>4. \A i \in DOMAIN lg : lg[i].t \in Thread
  <2>1. \A i \in DOMAIN lg : lg[i] \in Entry
    OBVIOUS
  <2> QED  BY <2>1 DEF Entry
<1>5. s.k \subseteq DOMAIN lg
  BY DEF Tells
<1>6. ASSUME ~rg, NEW i \in s.k PROVE Before(lg[i], c)
  <2>1. CASE lg[i].t = t
    BY <1>2, <1>5, <2>1 DEF Before
  <2>2. CASE lg[i].t # t
    BY <1>2, <1>4, <1>5, <1>6, <2>2 DEF Tells, Before
  <2> QED  BY <2>1, <2>2
<1>7. ASSUME NEW i \in DOMAIN lg, lg[i].clock < c[lg[i].t] PROVE {i} \cup lg[i].over \subseteq kC
  <2>1. CASE lg[i].t = t
    BY <2>1 DEF Mine
  <2>2. CASE lg[i].t # t
    BY <1>2, <1>4, <1>7, <2>2 DEF Tells
  <2> QED  BY <2>1, <2>2
<1>8. Tells(new, 0, lg, la, rg)
  BY <1>2, <1>3, <1>5, <1>6, <1>7 DEF Tells
<1> QED  BY <1>8 DEF c

\* One may be told of more accesses, if the vector covers those before.
LEMMA TellsMore ==
  ASSUME NEW s, NEW own, NEW lg \in Seq(Entry), NEW la, NEW rg, Tells(s, own, lg, la, rg),
         NEW i \in DOMAIN lg, lg[i].t = own \/ Before(lg[i], s.cv)
  PROVE  Tells([cv |-> s.cv, k |-> s.k \cup {i}, kC |-> s.kC \cup {i}], own, lg, la, rg)
BY DEF Tells

-------------------------------------------------------------------------------
(* The inductive invariant.                                                *)

Buffered == [bytes : SUBSET Address, cv : Clock, k : SUBSET Nat, kC : SUBSET Nat]

TimeOK ==
  /\ used \in Nat /\ last \in [Thread -> Clock] /\ \A t \in Thread : last[t][t] \in 1 .. used
  /\ log \in Seq(Entry) /\ \A i \in DOMAIN log : log[i].clock =< last[log[i].t][log[i].t]

Told(s, own) == Tells(s, own, log, last, regress)

ToldOK ==
  /\ DOMAIN know = Thread /\ DOMAIN knowC = Thread
  /\ \A t \in Thread : Told(Known(t), t) /\ Mine(knowC[t], t, log)
  /\ \A b \in Address : Told(mem[b], 0)
  /\ Told(unlock, 0)

BufferOK ==
  /\ sb \in [Thread -> Seq(Buffered)]
  /\ \A t \in Thread : \A i \in DOMAIN sb[t] : Told(sb[t][i], t) /\ sb[t][i].kC \subseteq knowC[t]

ShadowOK == DOMAIN shadow = Address /\ \A b \in Address : WordOK(shadow[b], b, log)

ProgOK == prog \in Program \cup Recovery /\ pc \in [Thread -> Nat \ {0}]

IInv ==
  /\ ProgOK /\ TimeOK /\ ToldOK /\ BufferOK /\ ShadowOK
  /\ RacesAreReal /\ RacesAreFound

-------------------------------------------------------------------------------
(* What a thread comes after.                                              *)

\* x is told to t: all that t knows, at least.
Learns(t, x) == Told(x, t) /\ knowC[t] \subseteq x.kC

LEMMA KnownLearns ==
  ASSUME ToldOK, NEW t \in Thread
  PROVE  Learns(t, Known(t)) /\ Known(t).cv = last[t] /\ Known(t).k = know[t] /\ Known(t).kC = knowC[t]
BY DEF ToldOK, Learns, Known

LEMMA FromLearns ==
  ASSUME TimeOK, ToldOK, NEW t \in Thread, NEW B \in SUBSET Address
  PROVE  Learns(t, From(mem, t, B))
<1> DEFINE outer == {b \in B : Storing(sb[t], b) = {}}
           x == From(mem, t, B)
           Z == {Known(t)} \cup {mem[b] : b \in outer}
           V(u) == {last[t][u]} \cup {d[u] : d \in {mem[b].cv : b \in outer}}
<1>1. /\ x.cv = mergeAll(last[t], {mem[b].cv : b \in outer})
      /\ x.k = know[t] \cup UNION {mem[b].k : b \in outer}
      /\ x.kC = knowC[t] \cup UNION {mem[b].kC : b \in outer}
  BY DEF From
<1>2. outer \subseteq Address
  OBVIOUS
<1>3. Known(t).cv = last[t] /\ Known(t).k = know[t] /\ Known(t).kC = knowC[t] /\ Learns(t, Known(t))
  BY KnownLearns
<1> HIDE DEF outer, x
<1>4. \A z \in Z : Told(z, t)
  <2>1. Told(Known(t), t)
    BY DEF ToldOK
  <2>2. ASSUME NEW b \in outer PROVE Told(mem[b], t)
    <3>1. Told(mem[b], 0) /\ log \in Seq(Entry)
      BY <1>2 DEF ToldOK, TimeOK
    <3> QED  BY <3>1, TellsOne DEF Told
  <2> QED  BY <2>1, <2>2
<1>5. \A u \in Thread : /\ x.cv[u] \in V(u) /\ x.cv[u] \in Nat
                        /\ \A m \in V(u) : m =< x.cv[u]
  <2> SUFFICES ASSUME NEW u \in Thread
               PROVE  x.cv[u] \in V(u) /\ x.cv[u] \in Nat /\ \A m \in V(u) : m =< x.cv[u]
    OBVIOUS
  <2>1. last[u][u] \in Nat /\ last[t][u] \in Nat
    BY DEF TimeOK, Clock
  <2>2. last[t][u] =< last[u][u]
    BY <1>3, <1>4 DEF Told, Tells
  <2>3. \A b \in outer : mem[b].cv[u] \in Nat /\ mem[b].cv[u] =< last[u][u]
    BY <1>4 DEF Told, Tells, Clock
  <2>4. V(u) \in SUBSET Nat /\ V(u) # {} /\ \A m \in V(u) : m =< last[u][u]
    BY <2>1, <2>2, <2>3
  <2>5. x.cv[u] = Max(V(u))
    BY <1>1 DEF mergeAll
  <2> HIDE DEF V
  <2>6. Max(V(u)) \in V(u) /\ \A m \in V(u) : m =< Max(V(u))
    BY <2>1, <2>4, GreatestExists
  <2> QED  BY <2>4, <2>5, <2>6
<1>6. x.cv \in Clock
  BY <1>1, <1>5 DEF mergeAll, Clock
<1>7. \A u \in Thread : \E z \in Z : x.cv[u] = z.cv[u]
  <2> SUFFICES ASSUME NEW u \in Thread PROVE \E z \in Z : x.cv[u] = z.cv[u]
    OBVIOUS
  <2>1. x.cv[u] = last[t][u] \/ \E b \in outer : x.cv[u] = mem[b].cv[u]
    BY <1>5
  <2> QED  BY <1>3, <2>1
<1>8. \A z \in Z : \A u \in Thread : z.cv[u] =< x.cv[u]
  <2> SUFFICES ASSUME NEW z \in Z, NEW u \in Thread PROVE z.cv[u] =< x.cv[u]
    OBVIOUS
  <2>1. z.cv[u] \in V(u)
    BY <1>3
  <2> QED  BY <1>5, <2>1
<1>9. x.k = UNION {z.k : z \in Z} /\ x.kC = UNION {z.kC : z \in Z}
  BY <1>1, <1>3
<1>10. Joins(x, Z)
  BY <1>6, <1>7, <1>8, <1>9 DEF Joins
<1> HIDE DEF Z
<1>11. Told(x, t)
  BY <1>4, <1>10, TellsJoined DEF Told, TimeOK
<1>12. knowC[t] \subseteq x.kC
  BY <1>1
<1> QED  BY <1>11, <1>12 DEF Learns, x

LEMMA EmptiedLearns ==
  ASSUME TimeOK, ToldOK, NEW t \in Thread, NEW b \in Address
  PROVE  Learns(t, Emptied(t, b))
<1>1. Learns(t, From(mem, t, {b})) /\ Learns(t, Known(t))
  BY FromLearns, KnownLearns
<1> QED  BY <1>1 DEF Emptied

\* What t is told by the last unlock.
Unlocked(t) ==
  [cv |-> merge(last[t], unlock.cv), k |-> know[t] \cup unlock.k, kC |-> knowC[t] \cup unlock.kC]

LEMMA UnlockedLearns ==
  ASSUME TimeOK, ToldOK, NEW t \in Thread
  PROVE  Learns(t, Unlocked(t))
<1> DEFINE x == Unlocked(t)
           Z == {Known(t), unlock}
<1>1. Known(t).cv = last[t] /\ Known(t).k = know[t] /\ Known(t).kC = knowC[t] /\ Learns(t, Known(t))
  BY KnownLearns
<1>2. \A z \in Z : Told(z, t)
  <2>1. Told(unlock, 0) /\ log \in Seq(Entry)
    BY DEF ToldOK, TimeOK
  <2>2. Told(unlock, t)
    BY <2>1, TellsOne DEF Told
  <2> QED  BY <1>1, <2>2 DEF Learns
<1>3. last[t] \in Clock /\ unlock.cv \in Clock
  BY DEF TimeOK, ToldOK, Told, Tells
<1>4. \A u \in Thread : /\ x.cv[u] \in {last[t][u], unlock.cv[u]} /\ x.cv[u] \in Nat
                        /\ last[t][u] =< x.cv[u] /\ unlock.cv[u] =< x.cv[u]
  BY <1>3 DEF Unlocked, merge, Clock
<1>5. x.cv \in Clock
  BY <1>3 DEF Unlocked, merge, Clock
<1>6. x.k = know[t] \cup unlock.k /\ x.kC = knowC[t] \cup unlock.kC
  BY DEF Unlocked
<1> HIDE DEF x
<1>7. Joins(x, Z)
  BY <1>1, <1>4, <1>5, <1>6 DEF Joins
<1> HIDE DEF Z
<1>8. Told(x, t)
  BY <1>2, <1>7, TellsJoined DEF Told, TimeOK
<1> QED  BY <1>6, <1>8 DEF Learns, x

-------------------------------------------------------------------------------
(* Clocks go on and stores are committed.                                  *)

\* The last action of t comes after x, at the sequence number n.
Moves(t, x, n) ==
  /\ Learns(t, x) /\ n \in Nat /\ last[t][t] =< n
  /\ used' \in Nat /\ used =< used' /\ n =< used'
  /\ last' = [last EXCEPT ![t] = setClock(x.cv, t, n)]
  /\ regress' = regress

LEMMA MovesLater ==
  ASSUME TimeOK, NEW t \in Thread, NEW x, NEW n, Moves(t, x, n)
  PROVE  /\ Later(last, regress, last', regress') /\ last' \in [Thread -> Clock]
         /\ \A u \in Thread : last'[u][u] \in 1 .. used'
         /\ last'[t] = setClock(x.cv, t, n) /\ last'[t][t] = n
         /\ Tells([cv |-> last'[t], k |-> x.k, kC |-> x.kC], t, log, last', regress')
<1> DEFINE c == setClock(x.cv, t, n)
<1>1. Tells(x, t, log, last, regress) /\ x.cv \in Clock /\ n \in Nat /\ log \in Seq(Entry)
  BY DEF Moves, Learns, Told, Tells, TimeOK
<1>2. c \in Clock /\ c[t] = n
  BY <1>1 DEF setClock, Clock
<1>3. last' = [last EXCEPT ![t] = c]
  BY DEF Moves
<1> HIDE DEF c
<1>4. last' \in [Thread -> Clock] /\ last'[t] = c /\ \A u \in Thread : u # t => last'[u] = last[u]
  BY <1>2, <1>3 DEF TimeOK
<1>5. \A u \in Thread : last[u] \in Clock /\ last'[u] \in Clock
  BY <1>4 DEF TimeOK
<1>6. \A u \in Thread : last[u][u] \in Nat /\ last'[u][u] \in Nat
  BY <1>5 DEF Clock
<1>7. used \in Nat /\ used' \in Nat /\ used =< used' /\ n =< used' /\ last[t][t] =< n
  BY DEF TimeOK, Moves
<1>8. \A u \in Thread : last[u][u] =< last'[u][u] /\ last'[u][u] \in 1 .. used'
  <2> SUFFICES ASSUME NEW u \in Thread PROVE last[u][u] =< last'[u][u] /\ last'[u][u] \in 1 .. used'
    OBVIOUS
  <2>1. last[u][u] \in 1 .. used
    BY DEF TimeOK
  <2>2. CASE u = t
    <3>1. last'[u][u] = n /\ last[u][u] =< n
      BY <1>2, <1>4, <1>7, <2>2
    <3>2. last[u][u] \in Nat /\ 1 =< last[u][u]
      BY <1>7, <2>1
    <3> QED  BY <1>1, <1>7, <3>1, <3>2
  <2>3. CASE u # t
    BY <1>4, <1>6, <1>7, <2>1, <2>3
  <2> QED  BY <2>2, <2>3
<1>9. Later(last, regress, last', regress')
  BY <1>5, <1>8 DEF Later, Moves
<1>10. Tells(x, t, log, last', regress')
  BY <1>1, <1>9, TellsLater
<1>11. Tells([cv |-> setClock(x.cv, t, n), k |-> x.k, kC |-> x.kC], t, log, last', regress')
  <2>1. last'[t][t] = n
    BY <1>2, <1>4
  <2>2. n =< last'[t][t]
    BY <1>1, <2>1
  <2> QED  BY <1>1, <1>10, <2>2, TellsStamped
<1> QED  BY <1>2, <1>4, <1>8, <1>9, <1>11 DEF c

\* All that is told to all stays true, and what the buffered stores tell.
LEMMA LaterTold ==
  ASSUME TimeOK, ToldOK, BufferOK, Later(last, regress, last', regress')
  PROVE  /\ \A u \in Thread : Tells(Known(u), u, log, last', regress')
         /\ \A b \in Address : Tells(mem[b], 0, log, last', regress')
         /\ Tells(unlock, 0, log, last', regress')
         /\ \A u \in Thread : \A i \in DOMAIN sb[u] : Tells(sb[u][i], u, log, last', regress')
<1>1. log \in Seq(Entry)
  BY DEF TimeOK
<1>2. /\ \A u \in Thread : Tells(Known(u), u, log, last, regress)
      /\ \A b \in Address : Tells(mem[b], 0, log, last, regress)
      /\ Tells(unlock, 0, log, last, regress)
      /\ \A u \in Thread : \A i \in DOMAIN sb[u] : Tells(sb[u][i], u, log, last, regress)
  BY DEF ToldOK, BufferOK, Told
<1>3. \A s, own : Tells(s, own, log, last, regress) => Tells(s, own, log, last', regress')
  BY <1>1, TellsLater
<1> QED  BY <1>2, <1>3

\* t's accesses and those they take the place of.
Passed(t) == Accesses(t) \cup UNION {log[j].over : j \in Accesses(t)}

LEMMA PassedIs ==
  ASSUME TimeOK, ToldOK, NEW t \in Thread
  PROVE  Passed(t) \subseteq knowC[t] /\ knowC[t] \subseteq DOMAIN log /\ Mine(Passed(t), t, log)
<1>1. Mine(knowC[t], t, log) /\ knowC[t] \subseteq DOMAIN log
  BY DEF ToldOK, Told, Tells, Known
<1>2. \A j \in Accesses(t) : {j} \cup log[j].over \subseteq knowC[t]
  BY <1>1 DEF Mine, Accesses
<1>3. Passed(t) \subseteq knowC[t]
  BY <1>2 DEF Passed
<1>4. Mine(Passed(t), t, log)
  BY DEF Mine, Passed, Accesses
<1> QED  BY <1>1, <1>3, <1>4

\* The committed stores may be told to all.
LEMMA CommitTold ==
  ASSUME TimeOK, ToldOK, BufferOK, Later(last, regress, last', regress'),
         NEW t \in Thread, NEW n \in Nat, n =< Len(sb[t]), used + n =< last'[t][t], NEW i \in 1 .. n
  PROVE  LET w == Commit(t, n)[i]
         IN  /\ w.bytes = sb[t][i].bytes
             /\ Tells([cv |-> w.cv, k |-> w.k, kC |-> w.kC], 0, log, last', regress')
             /\ w.cv = setClock(sb[t][i].cv, t, used + i)
<1> DEFINE s == sb[t][i]
           c == setClock(s.cv, t, used + i)
           kC == s.kC \cup Passed(t)
           w == [s EXCEPT !.cv = c, !.kC = kC]
<1>1. i \in DOMAIN sb[t] /\ s \in Buffered
  BY DEF BufferOK
<1>2. Commit(t, n)[i] = w
  BY DEF Commit, Passed
<1>3. Tells(s, t, log, last', regress') /\ log \in Seq(Entry) /\ s.kC \subseteq knowC[t]
  BY <1>1, LaterTold DEF TimeOK, BufferOK
<1>4. Passed(t) \subseteq DOMAIN log /\ Mine(Passed(t), t, log) /\ s.kC \subseteq DOMAIN log
  BY <1>3, PassedIs
<1>5. kC \in SUBSET DOMAIN log /\ s.kC \subseteq kC /\ Mine(kC, t, log)
  BY <1>4 DEF Mine
<1>6. used + i \in Nat /\ used + i =< last'[t][t] /\ last[t][t] < used + i
  <2>1. used \in Nat /\ last[t][t] \in 1 .. used
    BY DEF TimeOK
  <2>2. last'[t][t] \in Nat
    BY DEF Later, Clock
  <2>3. i \in Nat /\ 1 =< i /\ i =< n
    OBVIOUS
  <2>4. used + i =< used + n
    BY <2>1, <2>3
  <2>5. used + i =< last'[t][t]
    BY <2>1, <2>2, <2>3, <2>4
  <2>6. last[t][t] < used + i
    BY <2>1, <2>3
  <2> QED  BY <2>1, <2>3, <2>5, <2>6
<1>7. \A j \in DOMAIN log : log[j].t = t => log[j].clock < used + i
  <2> SUFFICES ASSUME NEW j \in DOMAIN log, log[j].t = t PROVE log[j].clock < used + i
    OBVIOUS
  <2>1. log[j].clock \in Nat /\ log[j].clock =< last[t][t] /\ last[t][t] \in Nat
    <3>1. log[j] \in Entry
      BY DEF TimeOK
    <3>2. last[t][t] \in 1 .. used
      BY DEF TimeOK
    <3>3. log[j].clock =< last[log[j].t][log[j].t]
      BY DEF TimeOK
    <3> QED  BY <3>1, <3>2, <3>3 DEF Entry
  <2> QED  BY <1>6, <2>1
<1> HIDE DEF s, kC
<1>8. Tells([cv |-> c, k |-> s.k, kC |-> kC], 0, log, last', regress')
  BY <1>3, <1>5, <1>6, <1>7, TellsAll
<1>9. w.cv = c /\ w.k = s.k /\ w.kC = kC /\ w.bytes = s.bytes
  <2> HIDE DEF c
  <2> QED  BY <1>1 DEF Buffered
<1> QED  BY <1>2, <1>8, <1>9 DEF s

LEMMA StoredTold ==
  ASSUME TimeOK, ToldOK, BufferOK, Later(last, regress, last', regress'),
         NEW t \in Thread, NEW n \in Nat, n =< Len(sb[t]), used + n =< last'[t][t], NEW b \in Address
  PROVE  Tells(Stored(Commit(t, n))[b], 0, log, last', regress')
<1> DEFINE w == Commit(t, n)
<1>1. w = [i \in 1 .. n |-> [sb[t][i] EXCEPT !.cv = setClock(@, t, used + i), !.kC = @ \cup Passed(t)]]
  BY DEF Commit, Passed
<1>2. DOMAIN w = 1 .. n
  BY <1>1
<1> HIDE DEF w
<1>3. Stored(w)[b] = IF Storing(w, b) = {} THEN mem[b]
                     ELSE [cv |-> w[Max(Storing(w, b))].cv, k |-> w[Max(Storing(w, b))].k,
                           kC |-> w[Max(Storing(w, b))].kC]
  BY DEF Stored
<1>4. CASE Storing(w, b) = {}
  BY <1>3, <1>4, LaterTold DEF w
<1>5. CASE Storing(w, b) # {}
  <2>1. Storing(w, b) \in SUBSET Nat /\ \A m \in Storing(w, b) : m =< n
    BY <1>2 DEF Storing
  <2>2. Max(Storing(w, b)) \in Storing(w, b)
    BY <1>5, <2>1, GreatestExists
  <2>3. PICK i \in 1 .. n : i = Max(Storing(w, b))
    BY <1>2, <2>2 DEF Storing
  <2>4. Tells([cv |-> w[i].cv, k |-> w[i].k, kC |-> w[i].kC], 0, log, last', regress')
    BY CommitTold DEF w
  <2> QED  BY <1>3, <1>5, <2>3, <2>4 DEF w
<1> QED  BY <1>4, <1>5

-------------------------------------------------------------------------------
(* An access is made.                                                      *)

Kind == {"store", "atomicstore", "rmw", "load", "atomicload"}

\* The checks leave in the words of the bytes B what the access leaves there.
LeavesWords(B, kind, c, t, new) ==
  /\ DOMAIN new = Address
  /\ \A b \in Address \ B : new[b] = shadow[b]
  /\ \A b \in B : /\ kind = "load" => IsRead(new[b], shadow[b], c, t)
                  /\ kind = "atomicload" => new[b] = shadow[b]
                  /\ kind \in {"store", "atomicstore", "rmw"} => IsWritten(new[b], c, t, kind # "store")

\* Which recorded accesses an access of that kind is compared with.
ComparesWrite(b, kind) == ~(kind \in {"atomicload", "atomicstore", "rmw"} /\ shadow[b].isAtomic)
ComparesReads(b, kind) == kind \in {"store", "atomicstore"} /\ ComparesWrite(b, kind)

\* They report such accesses, and one if there is one.
Reports(B, kind, c, t, races) ==
  /\ \A x \in races :
       /\ x[1] \in B
       /\ \/ ComparesWrite(x[1], kind) /\ x[2] \in WriteRace(shadow[x[1]], c, t)
          \/ ComparesReads(x[1], kind) /\ x[2] \in ReadRace(shadow[x[1]], c, t)
  /\ \A b \in B : \/ ComparesWrite(b, kind) /\ WriteRace(shadow[b], c, t) # {}
                  \/ ComparesReads(b, kind) /\ ReadRace(shadow[b], c, t) # {}
                  => races # {}

\* Thread t accesses the bytes B, coming after x, at the sequence number n.
Makes(t, B, kind, c, own, x, n, check) ==
  /\ t \in Thread /\ B \in SUBSET Address /\ kind \in Kind /\ own \in BOOLEAN
  /\ Moves(t, x, n) /\ c = last'[t]
  /\ LeavesWords(B, kind, c, t, check.shadow) /\ Reports(B, kind, c, t, check.races)
  /\ Access(t, B, kind, c, own, x, check)

\* The entry it leaves in the log.
EntryOf(t, B, kind, c, own, x) ==
  [t |-> t, bytes |-> B, kind |-> kind, clock |-> c[t], own |-> own,
   over |-> IF kind = "load" THEN {i \in x.kC : log[i].kind = "load" /\ log[i].bytes \cap B # {}} ELSE {}]

LEMMA MakesEntry ==
  ASSUME TimeOK, ToldOK, NEW t, NEW B, NEW kind, NEW c, NEW own, NEW x, NEW n, NEW check,
         Makes(t, B, kind, c, own, x, n, check)
  PROVE  LET e == EntryOf(t, B, kind, c, own, x)
         IN  /\ e \in Entry /\ log' = Append(log, e) /\ e.over \subseteq x.kC
             /\ e.clock = last'[t][t] /\ e.t = t /\ c \in Clock /\ log \in Seq(Entry)
             /\ x.k \subseteq DOMAIN log /\ x.kC \subseteq DOMAIN log
             /\ \A u \in Thread : u # t => c[u] = x.cv[u]
             /\ Knows(x.kC, c, t, log)
<1> DEFINE over == IF kind = "load" THEN {i \in x.kC : log[i].kind = "load" /\ log[i].bytes \cap B # {}} ELSE {}
<1>1. /\ t \in Thread /\ B \in SUBSET Address /\ kind \in Kind /\ own \in BOOLEAN /\ Moves(t, x, n)
      /\ c = last'[t]
  BY DEF Makes
<1>2. /\ Later(last, regress, last', regress') /\ last' \in [Thread -> Clock]
      /\ last'[t][t] \in 1 .. used' /\ last'[t] = setClock(x.cv, t, n)
  BY <1>1, MovesLater
<1>3. x.k \subseteq DOMAIN log /\ x.kC \subseteq DOMAIN log /\ x.cv \in Clock /\ knowC[t] \subseteq x.kC
  BY <1>1 DEF Moves, Learns, Told, Tells
<1>4. log \in Seq(Entry) /\ DOMAIN log \subseteq Nat
  BY DEF TimeOK
<1>5. c \in Clock /\ c[t] \in Nat \ {0} /\ c[t] = last'[t][t]
  BY <1>1, <1>2 DEF Moves
<1>6. over \subseteq x.kC /\ over \in SUBSET Nat
  BY <1>3, <1>4
<1>7. log' = Append(log, EntryOf(t, B, kind, c, own, x))
  BY DEF Makes, Access, EntryOf
<1>8. EntryOf(t, B, kind, c, own, x) = [t |-> t, bytes |-> B, kind |-> kind, clock |-> c[t], own |-> own, over |-> over]
  BY DEF EntryOf
<1> HIDE DEF over
<1>9. EntryOf(t, B, kind, c, own, x) \in Entry
  <2> DEFINE m == c[t]
  <2>1. m \in Nat \ {0}
    BY <1>5
  <2> HIDE DEF m
  <2>2. [t |-> t, bytes |-> B, kind |-> kind, clock |-> m, own |-> own, over |-> over] \in Entry
    BY <1>1, <1>6, <2>1 DEF Entry, Kind
  <2> QED  BY <1>8, <2>2 DEF m
<1>10. \A u \in Thread : u # t => c[u] = x.cv[u]
  BY <1>1, <1>2, <1>3 DEF setClock, Clock
<1>11. Knows(x.kC, c, t, log)
  <2> SUFFICES ASSUME NEW j \in DOMAIN log, log[j].t = t \/ log[j].clock < c[log[j].t]
               PROVE  {j} \cup log[j].over \subseteq x.kC
    BY DEF Knows
  <2>1. CASE log[j].t = t
    <3>1. Mine(knowC[t], t, log)
      BY <1>1 DEF ToldOK
    <3> QED  BY <1>3, <2>1, <3>1 DEF Mine
  <2>2. CASE log[j].t # t
    <3>1. log[j].t \in Thread
      <4>1. log[j] \in Entry
        BY <1>4
      <4> QED  BY <4>1 DEF Entry
    <3>2. log[j].clock < x.cv[log[j].t]
      BY <1>10, <2>2, <3>1
    <3>3. Tells(x, t, log, last, regress)
      BY <1>1 DEF Moves, Learns, Told
    <3> QED  BY <2>2, <3>2, <3>3 DEF Tells
  <2> QED  BY <2>1, <2>2
<1> QED  BY <1>3, <1>4, <1>5, <1>6, <1>7, <1>8, <1>9, <1>10, <1>11

LEMMA MakesTime ==
  ASSUME TimeOK, ToldOK, NEW t, NEW B, NEW kind, NEW c, NEW own, NEW x, NEW n, NEW check,
         Makes(t, B, kind, c, own, x, n, check)
  PROVE  TimeOK'
<1> DEFINE e == EntryOf(t, B, kind, c, own, x)
<1>1. e \in Entry /\ log' = Append(log, e) /\ e.clock = last'[t][t] /\ e.t = t /\ log \in Seq(Entry)
  BY MakesEntry
<1>2. t \in Thread /\ Moves(t, x, n)
  BY DEF Makes
<1>3. /\ Later(last, regress, last', regress') /\ last' \in [Thread -> Clock]
      /\ \A u \in Thread : last'[u][u] \in 1 .. used'
  BY <1>2, MovesLater
<1> HIDE DEF e
<1>4. /\ Len(log) \in Nat /\ DOMAIN log = 1 .. Len(log) /\ DOMAIN log' = 1 .. (Len(log) + 1)
      /\ \A i \in 1 .. Len(log) : log'[i] = log[i] /\ log[i] \in Entry
      /\ log'[Len(log) + 1] = e /\ log' \in Seq(Entry)
  BY <1>1, AppendIs
<1>5. ASSUME NEW i \in DOMAIN log' PROVE log'[i].clock =< last'[log'[i].t][log'[i].t]
  <2>1. CASE i = Len(log) + 1
    <3>1. last'[t][t] \in Nat
      BY <1>2, <1>3 DEF Clock
    <3> QED  BY <1>1, <1>4, <2>1, <3>1
  <2>2. CASE i # Len(log) + 1
    <3>1. i \in 1 .. Len(log) /\ log'[i] = log[i] /\ i \in DOMAIN log
      BY <1>4, <2>2
    <3>2. log[i].t \in Thread /\ log[i].clock \in Nat
      BY <1>4, <3>1 DEF Entry
    <3> DEFINE u == log[i].t
    <3>3. log[i].clock =< last[u][u] /\ last[u][u] =< last'[u][u]
      BY <1>3, <3>1, <3>2 DEF TimeOK, Later
    <3>4. last[u][u] \in Nat /\ last'[u][u] \in Nat
      BY <1>3, <3>2 DEF Later, Clock
    <3>5. log[i].clock =< last'[u][u]
      BY <3>2, <3>3, <3>4
    <3> QED  BY <3>1, <3>5
  <2> QED  BY <2>1, <2>2
<1>6. used' \in Nat
  BY <1>2 DEF Moves
<1> QED  BY <1>3, <1>4, <1>5, <1>6 DEF TimeOK

LEMMA MakesShadow ==
  ASSUME TimeOK, ToldOK, ShadowOK,
         NEW t, NEW B, NEW kind, NEW c, NEW own, NEW x, NEW n, NEW check,
         Makes(t, B, kind, c, own, x, n, check)
  PROVE  ShadowOK'
<1> DEFINE e == EntryOf(t, B, kind, c, own, x)
           new == check.shadow
<1>1. /\ e \in Entry /\ log' = Append(log, e) /\ e.clock = last'[t][t] /\ e.t = t /\ log \in Seq(Entry)
      /\ c \in Clock /\ Knows(x.kC, c, t, log)
  BY MakesEntry
<1>2. /\ t \in Thread /\ B \in SUBSET Address /\ kind \in Kind /\ c = last'[t]
      /\ LeavesWords(B, kind, c, t, new) /\ shadow' = new
  BY DEF Makes, Access
<1>3. /\ e.bytes = B /\ e.kind = kind
      /\ kind = "load" => e.over = {i \in x.kC : log[i].kind = "load" /\ log[i].bytes \cap B # {}}
  BY DEF EntryOf
<1> HIDE DEF e, new
<1>4. ASSUME NEW b \in Address PROVE WordOK(new[b], b, Append(log, e))
  <2>1. WordOK(shadow[b], b, log)
    BY DEF ShadowOK
  <2>2. CASE b \notin B
    <3>1. new[b] = shadow[b]
      BY <1>2, <2>2 DEF LeavesWords
    <3> QED  BY <1>1, <1>3, <2>1, <2>2, <3>1, WordUntouched
  <2>3. CASE b \in B /\ kind = "atomicload"
    <3>1. new[b] = shadow[b]
      BY <1>2, <2>3 DEF LeavesWords
    <3> QED  BY <1>1, <1>3, <2>1, <2>3, <3>1, WordUntouched
  <2>4. CASE b \in B /\ kind = "load"
    <3>1. IsRead(new[b], shadow[b], c, e.t)
      BY <1>1, <1>2, <2>4 DEF LeavesWords
    <3>2. e.clock = c[e.t] /\ Knows(x.kC, c, e.t, log)
      BY <1>1, <1>2
    <3>3. e.over = {i \in x.kC : log[i].kind = "load" /\ log[i].bytes \cap e.bytes # {}}
      BY <1>3, <2>4
    <3>4. e.kind = "load" /\ b \in e.bytes
      BY <1>3, <2>4
    <3> QED  BY <1>1, <2>1, <3>1, <3>2, <3>3, <3>4, WordRead
  <2>5. CASE b \in B /\ kind \in {"store", "atomicstore", "rmw"}
    <3>1. IsWritten(new[b], c, t, kind # "store")
      BY <1>2, <2>5 DEF LeavesWords
    <3>2. IsWrite(e) /\ (IsAtomic(e) <=> kind # "store")
      BY <1>3, <2>5 DEF IsWrite, IsAtomic
    <3>3. IsAtomic(e) = (kind # "store")
      BY <3>2 DEF IsAtomic
    <3>4. e.clock = c[e.t] /\ b \in e.bytes
      BY <1>1, <1>2, <1>3, <2>5
    <3>5. IsWritten(new[b], c, e.t, IsAtomic(e))
      BY <1>1, <3>1, <3>3
    <3> QED  BY <1>1, <3>2, <3>4, <3>5, WordWritten
  <2> QED  BY <1>2, <2>2, <2>3, <2>4, <2>5 DEF Kind
<1>5. DOMAIN new = Address
  BY <1>2 DEF LeavesWords
<1> QED  BY <1>1, <1>2, <1>4, <1>5 DEF ShadowOK

\* The last write to a byte that has been written.
LEMMA LastWriteExists ==
  ASSUME NEW lg \in Seq(Entry), NEW b, WritesTo(lg, b) # {}
  PROVE  /\ Max(WritesTo(lg, b)) \in WritesTo(lg, b)
         /\ \A v \in WritesTo(lg, b) : v =< Max(WritesTo(lg, b))
<1>1. WritesTo(lg, b) \in SUBSET Nat /\ Len(lg) \in Nat /\ \A m \in WritesTo(lg, b) : m =< Len(lg)
  BY DEF WritesTo
<1> QED  BY <1>1, GreatestExists

LEMMA MakesReal ==
  ASSUME TimeOK, ToldOK, ShadowOK,
         NEW t, NEW B, NEW kind, NEW c, NEW own, NEW x, NEW n, NEW check,
         Makes(t, B, kind, c, own, x, n, check)
  PROVE  RacesAreReal'
<1> DEFINE e == EntryOf(t, B, kind, c, own, x)
<1>1. /\ e \in Entry /\ log' = Append(log, e) /\ log \in Seq(Entry) /\ c \in Clock
      /\ x.k \subseteq DOMAIN log /\ \A u \in Thread : u # t => c[u] = x.cv[u]
  BY MakesEntry
<1>2. /\ t \in Thread /\ B \in SUBSET Address /\ kind \in Kind /\ Moves(t, x, n)
      /\ Reports(B, kind, c, t, check.races)
      /\ latest' = [t |-> t, bytes |-> B, kind |-> kind, before |-> x.k, beforeC |-> x.kC, races |-> check.races]
  BY DEF Makes, Access
<1>3. latest'.t = t /\ latest'.bytes = B /\ latest'.kind = kind /\ latest'.before = x.k /\ latest'.races = check.races
  BY <1>2
<1> HIDE DEF e
<1>4. /\ Len(log) \in Nat /\ DOMAIN log = 1 .. Len(log) /\ Len(log') = Len(log) + 1
      /\ \A i \in 1 .. Len(log) : log'[i] = log[i] /\ log[i] \in Entry
  BY <1>1, AppendIs
<1>5. 1 .. (Len(log') - 1) = DOMAIN log
  BY <1>4
<1> SUFFICES ASSUME ~regress', NEW z \in check.races
             PROVE  \E i \in DOMAIN log :
                      /\ log'[i].t = z[2].t /\ log'[i].clock = z[2].clock /\ IsWrite(log'[i]) = z[2].isWrite
                      /\ Conflict(log'[i], latest', z[1])
                      /\ ~(IsAtomic(log'[i]) /\ IsAtomic(latest'))
                      /\ i \in x.k => log'[i].own /\ IsAtomic(log'[i])
  BY <1>3, <1>5 DEF RacesAreReal
<1> DEFINE b == z[1]
           r == z[2]
           s == shadow[b]
<1>6. ASSUME NEW i \in DOMAIN log, clock_may_race(c, t, log[i].clock, log[i].t), i \in x.k
      PROVE  log[i].own /\ IsAtomic(log[i])
  <2>1. log[i].t \in Thread /\ log[i].clock \in Nat
    BY <1>4 DEF Entry
  <2>2. t # log[i].t /\ c[log[i].t] =< log[i].clock
    BY <1>6 DEF clock_may_race
  <2>3. Before(log[i], x.cv)
    BY <1>2, <1>6, <2>2 DEF Moves, Learns, Told, Tells
  <2>4. x.cv[log[i].t] = c[log[i].t] /\ c[log[i].t] \in Nat
    BY <1>1, <2>1, <2>2 DEF Clock
  <2> QED  BY <2>1, <2>2, <2>3, <2>4 DEF Before
<1>7. /\ b \in B /\ b \in Address
      /\ \/ ComparesWrite(b, kind) /\ r \in WriteRace(s, c, t)
         \/ ComparesReads(b, kind) /\ r \in ReadRace(s, c, t)
  BY <1>2 DEF Reports
<1>8. WordOK(s, b, log)
  BY <1>7 DEF ShadowOK
<1>9. IsAtomic(latest') <=> kind \in {"atomicload", "atomicstore", "rmw"}
  BY <1>3 DEF IsAtomic
<1>10. IsWrite(latest') <=> kind \in {"store", "atomicstore", "rmw"}
  BY <1>3 DEF IsWrite
<1> HIDE DEF b, r, s
<1>11. CASE ComparesWrite(b, kind) /\ r \in WriteRace(s, c, t)
  <2>1. clock_may_race(c, t, s.wc, s.wt) /\ r.t = s.wt /\ r.clock = s.wc /\ r.isWrite = TRUE
    BY <1>11, WriteRaceIs
  <2>2. WritesTo(log, b) # {}
    BY <1>8, <2>1 DEF WordOK, clock_may_race
  <2> DEFINE i == Max(WritesTo(log, b))
  <2>3. i \in WritesTo(log, b) /\ \A v \in WritesTo(log, b) : v =< i
    BY <1>1, <2>2, LastWriteExists
  <2> HIDE DEF i
  <2>4. s.wt = log[i].t /\ s.wc = log[i].clock /\ s.isAtomic = IsAtomic(log[i])
    BY <1>8, <2>3 DEF WordOK
  <2>5. i \in DOMAIN log /\ b \in log[i].bytes /\ IsWrite(log[i]) /\ log'[i] = log[i]
    BY <1>4, <2>3 DEF WritesTo
  <2>6. clock_may_race(c, t, log[i].clock, log[i].t)
    BY <2>1, <2>4
  <2>7. Conflict(log[i], latest', b)
    BY <1>3, <1>7, <2>5, <2>6 DEF Conflict, clock_may_race
  <2>8. ~(IsAtomic(log[i]) /\ IsAtomic(latest'))
    BY <1>9, <1>11, <2>4 DEF ComparesWrite, s
  <2>9. i \in x.k => log[i].own /\ IsAtomic(log[i])
    BY <1>6, <2>5, <2>6
  <2>10. IsWrite(log[i]) = r.isWrite
    BY <2>1, <2>5 DEF IsWrite
  <2> QED  BY <2>1, <2>4, <2>5, <2>7, <2>8, <2>9, <2>10 DEF b, r
<1>12. CASE ComparesReads(b, kind) /\ r \in ReadRace(s, c, t)
  <2>1. s \in Word
    BY <1>8 DEF WordOK
  <2>2. PICK k \in DOMAIN s.reads :
          MayRace(s, c, t, k) /\ r.t = s.reads[k].t /\ r.clock = s.reads[k].clock /\ r.isWrite = FALSE
    BY <1>12, <2>1, ReadRaceIs
  <2>3. PICK i \in DOMAIN log : Describes(s.reads[k], b, log[i])
    BY <1>8 DEF WordOK
  <2>4. log'[i] = log[i] /\ log[i].kind = "load" /\ b \in log[i].bytes /\ log[i].t = r.t /\ log[i].clock = r.clock
    BY <1>4, <2>2, <2>3 DEF Describes
  <2>5. clock_may_race(c, t, log[i].clock, log[i].t)
    BY <2>2, <2>4 DEF MayRace
  <2>6. ~IsWrite(log[i]) /\ ~IsAtomic(log[i])
    BY <2>4 DEF IsWrite, IsAtomic
  <2>7. IsWrite(latest')
    BY <1>10, <1>12 DEF ComparesReads
  <2>8. Conflict(log[i], latest', b)
    BY <1>3, <1>7, <2>4, <2>5, <2>7 DEF Conflict, clock_may_race
  <2>9. i \in x.k => log[i].own /\ IsAtomic(log[i])
    BY <1>6, <2>5
  <2>10. IsWrite(log[i]) = r.isWrite
    <3>1. IsWrite(log[i]) = FALSE
      BY <2>4 DEF IsWrite
    <3> QED  BY <2>2, <3>1
  <2> QED  BY <2>4, <2>6, <2>8, <2>9, <2>10 DEF b, r
<1> QED  BY <1>7, <1>11, <1>12

LEMMA MakesFound ==
  ASSUME TimeOK, ToldOK, ShadowOK,
         NEW t, NEW B, NEW kind, NEW c, NEW own, NEW x, NEW n, NEW check,
         Makes(t, B, kind, c, own, x, n, check)
  PROVE  RacesAreFound'
<1> DEFINE e == EntryOf(t, B, kind, c, own, x)
<1>1. /\ e \in Entry /\ log' = Append(log, e) /\ log \in Seq(Entry) /\ c \in Clock
      /\ Knows(x.kC, c, t, log)
  BY MakesEntry
<1>2. /\ t \in Thread /\ B \in SUBSET Address /\ kind \in Kind
      /\ Reports(B, kind, c, t, check.races)
      /\ latest' = [t |-> t, bytes |-> B, kind |-> kind, before |-> x.k, beforeC |-> x.kC, races |-> check.races]
  BY DEF Makes, Access
<1>3. /\ latest'.t = t /\ latest'.bytes = B /\ latest'.kind = kind /\ latest'.beforeC = x.kC
      /\ latest'.races = check.races
  BY <1>2
<1> HIDE DEF e
<1>4. /\ Len(log) \in Nat /\ DOMAIN log = 1 .. Len(log) /\ Len(log') = Len(log) + 1
      /\ \A i \in 1 .. Len(log) : log'[i] = log[i] /\ log[i] \in Entry
  BY <1>1, AppendIs
<1>5. 1 .. (Len(log') - 1) = DOMAIN log
  BY <1>4
<1> SUFFICES ASSUME NEW b \in B, NEW i \in Compared(b)', Conflict(log'[i], latest', b), i \notin x.kC
             PROVE  check.races # {}
  <2>1. ASSUME NEW b \in B, \E i \in Compared(b)' : Conflict(log'[i], latest', b) /\ i \notin x.kC
        PROVE  check.races # {}
    BY <2>1
  <2> QED  BY <1>3, <2>1 DEF RacesAreFound
<1> DEFINE s == shadow[b]
           w == LastWrite(b)'
<1>6. WordOK(s, b, log)
  BY <1>2 DEF ShadowOK
<1>7. w = IF WritesTo(log, b) = {} THEN 0 ELSE Max(WritesTo(log, b))
  <2>1. {m \in 1 .. (Len(log') - 1) : b \in log'[m].bytes /\ IsWrite(log'[m])} = WritesTo(log, b)
    BY <1>4, <1>5 DEF WritesTo
  <2> QED  BY <2>1 DEF LastWrite
<1>8. IsAtomic(latest') <=> kind \in {"atomicload", "atomicstore", "rmw"}
  BY <1>3 DEF IsAtomic
<1> DEFINE plain == w = 0 \/ ~IsAtomic(log'[w])
           reads == {m \in (w + 1) .. (Len(log') - 1) : b \in log'[m].bytes /\ log'[m].kind = "load"}
<1>9. Compared(b)' = IF IsAtomic(latest') /\ ~plain THEN {}
                     ELSE ({w} \ {0}) \cup (IF kind \in {"store", "atomicstore"} THEN reads ELSE {})
  BY <1>3 DEF Compared
<1>10. /\ WritesTo(log, b) # {} => w \in WritesTo(log, b) /\ \A v \in WritesTo(log, b) : v =< w
       /\ WritesTo(log, b) = {} => w = 0
  BY <1>1, <1>7, LastWriteExists
<1>11. w \in Nat /\ (w # 0 => w \in DOMAIN log /\ w \in WritesTo(log, b) /\ log'[w] = log[w])
  BY <1>4, <1>10 DEF WritesTo
<1>12. s.isAtomic = TRUE => ~plain
  <2> SUFFICES ASSUME s.isAtomic = TRUE PROVE ~plain
    OBVIOUS
  <2>1. WritesTo(log, b) # {}
    BY <1>6 DEF WordOK
  <2>2. s.isAtomic = IsAtomic(log[w])
    BY <1>6, <1>10, <2>1 DEF WordOK
  <2>3. w # 0
    BY <1>4, <1>10, <2>1 DEF WritesTo
  <2> QED  BY <1>11, <2>2, <2>3
<1>13. s \in Word /\ s.isAtomic \in BOOLEAN
  BY <1>6 DEF WordOK, Word, WordFields
<1>14. ~(IsAtomic(latest') /\ ~plain)
  BY <1>9
<1>15. ComparesWrite(b, kind)
  BY <1>8, <1>12, <1>13, <1>14 DEF ComparesWrite
<1>16. (i = w /\ w # 0) \/ (i \in reads /\ kind \in {"store", "atomicstore"})
  BY <1>9
<1> HIDE DEF s, w, plain
<1>17. CASE i = w /\ w # 0
  <2>1. s.wt = log[i].t /\ s.wc = log[i].clock
    BY <1>6, <1>10, <1>11, <1>17 DEF WordOK
  <2>2. i \in DOMAIN log /\ log'[i] = log[i]
    BY <1>11, <1>17
  <2>3. log[i].t \in Thread /\ log[i].clock \in Nat \ {0} /\ log[i].t # t
    <3>1. log[i] \in Entry
      BY <1>4, <2>2
    <3>2. log'[i].t # latest'.t
      BY DEF Conflict
    <3> QED  BY <1>3, <2>2, <3>1, <3>2 DEF Entry
  <2>4. ~(log[i].clock < c[log[i].t])
    BY <1>1, <2>2 DEF Knows
  <2>5. c[log[i].t] \in Nat
    BY <1>1, <2>3 DEF Clock
  <2>6. clock_may_race(c, t, s.wc, s.wt)
    BY <2>1, <2>3, <2>4, <2>5 DEF clock_may_race
  <2>7. WriteRace(s, c, t) # {}
    BY <2>6, WriteRaceIs
  <2> QED  BY <1>2, <1>15, <2>7 DEF Reports, s
<1>18. CASE i \in reads /\ kind \in {"store", "atomicstore"}
  <2>1. i \in DOMAIN log /\ log'[i] = log[i] /\ w < i /\ b \in log[i].bytes /\ log[i].kind = "load"
    BY <1>4, <1>11, <1>18
  <2>2. \A v \in WritesTo(log, b) : v < i
    <3> SUFFICES ASSUME NEW v \in WritesTo(log, b) PROVE v < i
      OBVIOUS
    <3>1. v =< w
      BY <1>10
    <3>2. v \in Nat /\ i \in Nat
      BY <1>4, <2>1 DEF WritesTo
    <3> QED  BY <1>11, <2>1, <3>1, <3>2
  <2>3. FreshRead(log, b, i)
    BY <2>1, <2>2 DEF FreshRead
  <2>4. PICK k \in DOMAIN s.reads, j \in DOMAIN log :
          Describes(s.reads[k], b, log[j]) /\ (i = j \/ i \in log[j].over)
    BY <1>6, <2>1, <2>3 DEF WordOK
  <2>5. MayRace(s, c, t, k)
    <3> SUFFICES ASSUME ~MayRace(s, c, t, k) PROVE FALSE
      OBVIOUS
    <3>1. {j} \cup log[j].over \subseteq x.kC
      BY <1>1, <2>4, NotRacingIsKnown
    <3> QED  BY <2>4, <3>1
  <2>6. ReadRace(s, c, t) # {}
    BY <1>13, <2>5, ReadRaceIs
  <2>7. ComparesReads(b, kind)
    BY <1>15, <1>18 DEF ComparesReads
  <2> QED  BY <1>2, <2>6, <2>7 DEF Reports, s
<1> QED  BY <1>16, <1>17, <1>18

\* What is told stays true, and t is told of its access.
LEMMA MakesTold ==
  ASSUME TimeOK, ToldOK, NEW t, NEW B, NEW kind, NEW c, NEW own, NEW x, NEW n, NEW check,
         Makes(t, B, kind, c, own, x, n, check)
  PROVE  /\ \A s, u : Tells(s, u, log, last', regress') => Told(s, u)'
         /\ \A u \in Thread : Told(Known(u), u)' /\ Mine(knowC[u], u, log)'
         /\ \A u \in Thread : knowC[u] \subseteq knowC'[u]
         /\ knowC'[t] = x.kC \cup {Len(log) + 1}
         /\ DOMAIN know' = Thread /\ DOMAIN knowC' = Thread
<1> DEFINE e == EntryOf(t, B, kind, c, own, x)
           m == Len(log) + 1
<1>1. /\ e \in Entry /\ log' = Append(log, e) /\ e.clock = last'[t][t] /\ e.t = t /\ log \in Seq(Entry)
      /\ e.over \subseteq x.kC
  BY MakesEntry
<1>2. /\ t \in Thread /\ Moves(t, x, n)
      /\ know' = [know EXCEPT ![t] = x.k \cup {m}] /\ knowC' = [knowC EXCEPT ![t] = x.kC \cup {m}]
  BY DEF Makes, Access
<1>3. /\ Later(last, regress, last', regress')
      /\ Tells([cv |-> last'[t], k |-> x.k, kC |-> x.kC], t, log, last', regress')
      /\ \A u \in Thread : u # t => last'[u] = last[u]
  <2>1. /\ Later(last, regress, last', regress')
        /\ Tells([cv |-> last'[t], k |-> x.k, kC |-> x.kC], t, log, last', regress')
    BY <1>2, MovesLater
  <2>2. \A u \in Thread : u # t => last'[u] = last[u]
    BY <1>2 DEF Moves, TimeOK
  <2> QED  BY <2>1, <2>2
<1>4. \A u \in Thread : last'[u] \in Clock
  BY <1>3 DEF Later
<1> HIDE DEF e
<1>5. /\ Len(log) \in Nat /\ DOMAIN log = 1 .. Len(log) /\ DOMAIN log' = 1 .. (Len(log) + 1)
      /\ \A i \in 1 .. Len(log) : log'[i] = log[i]
      /\ log'[m] = e /\ m \in DOMAIN log' /\ log' \in Seq(Entry)
  BY <1>1, AppendIs
<1>6. ASSUME NEW s, NEW u, Tells(s, u, log, last', regress') PROVE Tells(s, u, log', last', regress')
  <2>1. e.clock = last'[e.t][e.t]
    BY <1>1
  <2> HIDE DEF m
  <2> QED  BY <1>1, <1>4, <1>6, <2>1, TellsAppend
<1>7. DOMAIN know' = Thread /\ DOMAIN knowC' = Thread
  BY <1>2 DEF ToldOK
<1>8. know'[t] = x.k \cup {m} /\ knowC'[t] = x.kC \cup {m}
  BY <1>2 DEF ToldOK
<1>9. \A u \in Thread : u # t => know'[u] = know[u] /\ knowC'[u] = knowC[u]
  BY <1>2 DEF ToldOK
<1>10. knowC[t] \subseteq x.kC
  BY <1>2 DEF Moves, Learns
<1>11. \A u \in Thread : knowC[u] \subseteq knowC'[u]
  BY <1>8, <1>9, <1>10
<1> HIDE DEF m
<1>12. ASSUME NEW u \in Thread PROVE Tells(Known(u)', u, log', last', regress')
  <2>1. Known(u)' = [cv |-> last'[u], k |-> know'[u], kC |-> knowC'[u]]
    BY DEF Known
  <2>2. CASE u = t
    <3> DEFINE y == [cv |-> last'[t], k |-> x.k, kC |-> x.kC]
    <3>1. Tells(y, t, log', last', regress')
      BY <1>3, <1>6
    <3>2. log'[m].t = t
      BY <1>1, <1>5
    <3>3. y.cv = last'[t] /\ y.k = x.k /\ y.kC = x.kC
      OBVIOUS
    <3> HIDE DEF y
    <3>4. Tells([cv |-> y.cv, k |-> y.k \cup {m}, kC |-> y.kC \cup {m}], t, log', last', regress')
      BY <1>5, <3>1, <3>2, TellsMore
    <3> QED  BY <1>8, <2>1, <2>2, <3>3, <3>4
  <2>3. CASE u # t
    <3>1. Tells(Known(u), u, log, last, regress)
      BY DEF ToldOK, Told
    <3>2. Tells(Known(u), u, log, last', regress')
      BY <1>1, <1>3, <3>1, TellsLater
    <3>3. Known(u)' = Known(u)
      BY <1>3, <1>9, <2>3 DEF Known
    <3> QED  BY <1>6, <3>2, <3>3
  <2> QED  BY <2>2, <2>3
<1>13. ASSUME NEW u \in Thread PROVE Mine(knowC'[u], u, log')
  <2>1. Mine(knowC[u], u, log)
    BY DEF ToldOK
  <2> SUFFICES ASSUME NEW j \in DOMAIN log', log'[j].t = u PROVE {j} \cup log'[j].over \subseteq knowC'[u]
    BY DEF Mine
  <2>2. CASE j = m
    <3>1. u = t /\ log'[j] = e
      BY <1>1, <1>5, <2>2
    <3> QED  BY <1>1, <1>8, <2>2, <3>1
  <2>3. CASE j # m
    <3>1. j \in DOMAIN log /\ log'[j] = log[j]
      BY <1>5, <2>3 DEF m
    <3> QED  BY <1>11, <2>1, <3>1 DEF Mine
  <2> QED  BY <2>2, <2>3
<1>14. \A u \in Thread : Told(Known(u), u)' /\ Mine(knowC[u], u, log)'
  BY <1>12, <1>13 DEF Told
<1>15. ASSUME NEW s, NEW u, Tells(s, u, log, last', regress') PROVE Told(s, u)'
  BY <1>6, <1>15 DEF Told
<1> QED  BY <1>7, <1>8, <1>11, <1>14, <1>15 DEF m

-------------------------------------------------------------------------------
(* The checks of the operations.                                           *)

\* What the check z of byte b leaves and reports is what it should be.
ByteOK(b, kind, c, t, z) ==
  /\ kind = "load" => IsRead(z.s, shadow[b], c, t)
  /\ kind = "atomicload" => z.s = shadow[b]
  /\ kind \in {"store", "atomicstore", "rmw"} => IsWritten(z.s, c, t, kind # "store")
  /\ \A r \in z.races : \/ ComparesWrite(b, kind) /\ r \in WriteRace(shadow[b], c, t)
                        \/ ComparesReads(b, kind) /\ r \in ReadRace(shadow[b], c, t)
  /\ \/ ComparesWrite(b, kind) /\ WriteRace(shadow[b], c, t) # {}
     \/ ComparesReads(b, kind) /\ ReadRace(shadow[b], c, t) # {}
     => z.races # {}

LEMMA BytesOK ==
  ASSUME ShadowOK, NEW B \in SUBSET Address, NEW kind, NEW c, NEW t, NEW check, NEW new, NEW races,
         OneByOne(shadow, B, new, races, check), \A b \in B : ByteOK(b, kind, c, t, check[b])
  PROVE  LeavesWords(B, kind, c, t, new) /\ Reports(B, kind, c, t, races)
<1>1. DOMAIN shadow = Address
  BY DEF ShadowOK
<1>2. new = [a \in Address |-> IF a \in B THEN check[a].s ELSE shadow[a]]
  BY <1>1 DEF OneByOne
<1>3. /\ DOMAIN new = Address /\ \A b \in Address \ B : new[b] = shadow[b]
      /\ \A b \in B : new[b] = check[b].s
  BY <1>2
<1>4. LeavesWords(B, kind, c, t, new)
  BY <1>3 DEF LeavesWords, ByteOK
<1>5. Reports(B, kind, c, t, races)
  BY DEF Reports, ByteOK, OneByOne
<1> QED  BY <1>4, <1>5

\* An expanded word has the same races.
LEMMA ExpandRaces ==
  ASSUME NEW s \in Word, NEW c, NEW t
  PROVE  /\ ReadRace(expandRecord(s), c, t) = ReadRace(s, c, t)
         /\ WriteRace(expandRecord(s), c, t) = WriteRace(s, c, t)
         /\ AnyRace(expandRecord(s), c, t) = AnyRace(s, c, t)
<1> DEFINE e == expandRecord(s)
<1>1. e.reads = s.reads /\ e.wt = s.wt /\ e.wc = s.wc
  BY ExpandIs
<1> HIDE DEF e
<1>2. ReadRace(e, c, t) = ReadRace(s, c, t)
  BY <1>1 DEF ReadRace
<1>3. WriteRace(e, c, t) = WriteRace(s, c, t)
  BY <1>1 DEF WriteRace
<1>4. AnyRace(e, c, t) = AnyRace(s, c, t)
  BY <1>2, <1>3 DEF AnyRace
<1> QED  BY <1>2, <1>3, <1>4 DEF e

LEMMA CheckRaces ==
  ASSUME NEW s \in Word, NEW c, NEW t
  PROVE  /\ raceCheckWrite(s, c, t).races = AnyRace(s, c, t)
         /\ atomraceCheckWrite(s, c, t).races = IF s.isAtomic THEN {} ELSE AnyRace(s, c, t)
         /\ atomraceCheckRead(s, c, t) = IF s.isAtomic THEN {} ELSE WriteRace(s, c, t)
<1> DEFINE e == expandRecord(s)
           any == AnyRace(s, c, t)
<1>1. e.isAtomic = s.isAtomic /\ AnyRace(e, c, t) = any
  BY ExpandIs, ExpandRaces
<1>2. fullRaceCheckWrite(s, c, t).races = any /\ fullRaceCheckWrite(e, c, t).races = any
  <2> HIDE DEF e, any
  <2> QED  BY <1>1 DEF fullRaceCheckWrite, Checked, any
<1>3. /\ atomfullRaceCheckWrite(s, c, t).races = IF s.isAtomic THEN {} ELSE any
      /\ atomfullRaceCheckWrite(e, c, t).races = IF s.isAtomic THEN {} ELSE any
  <2> HIDE DEF e, any
  <2> QED  BY <1>1 DEF atomfullRaceCheckWrite, Checked, any
<1>4. raceCheckWrite(s, c, t).races = any
  <2>1. Checked(Short(<< >>, t, c[t], FALSE), any).races = any
    BY DEF Checked
  <2>2. raceCheckWrite(s, c, t) = IF s.kind = "full" THEN fullRaceCheckWrite(s, c, t)
                                 ELSE IF TooLarge(t, c[t]) THEN fullRaceCheckWrite(e, c, t)
                                 ELSE Checked(Short(<< >>, t, c[t], FALSE), any)
    BY DEF raceCheckWrite
  <2> HIDE DEF e, any
  <2> QED  BY <1>2, <2>1, <2>2
<1>5. atomraceCheckWrite(s, c, t).races = IF s.isAtomic THEN {} ELSE any
  <2> DEFINE some == IF s.isAtomic THEN {} ELSE any
  <2>1. Checked(Short(<< >>, t, c[t], TRUE), some).races = some
    BY DEF Checked
  <2>2. atomraceCheckWrite(s, c, t) = IF s.kind = "full" THEN atomfullRaceCheckWrite(s, c, t)
                                     ELSE IF TooLarge(t, c[t]) THEN atomfullRaceCheckWrite(e, c, t)
                                     ELSE Checked(Short(<< >>, t, c[t], TRUE), some)
    BY DEF atomraceCheckWrite
  <2> HIDE DEF e, any, some
  <2> QED  BY <1>3, <2>1, <2>2 DEF some
<1>6. atomraceCheckRead(s, c, t) = IF s.isAtomic THEN {} ELSE WriteRace(s, c, t)
  BY DEF atomraceCheckRead, atomfullRaceCheckRead
<1> QED  BY <1>4, <1>5, <1>6

LEMMA StoreChecks ==
  ASSUME ShadowOK, NEW t \in Thread, NEW c \in Clock, NEW b \in Nat, NEW n \in Nat \ {0}, Bytes(b, n) \subseteq Address
  PROVE  LET z == raceCheckWriteSized(shadow, b, n, c, t)
         IN  LeavesWords(Bytes(b, n), "store", c, t, z.shadow) /\ Reports(Bytes(b, n), "store", c, t, z.races)
<1> DEFINE B == Bytes(b, n)
           z == raceCheckWriteSized(shadow, b, n, c, t)
           check == [a \in B |-> raceCheckWrite(shadow[a], c, t)]
<1>1. OneByOne(shadow, B, z.shadow, z.races, check)
  BY SizedWriteIs
<1>2. ASSUME NEW a \in B PROVE ByteOK(a, "store", c, t, raceCheckWrite(shadow[a], c, t))
  <2>1. shadow[a] \in Word
    BY DEF ShadowOK, WordOK
  <2>2. IsWritten(raceCheckWrite(shadow[a], c, t).s, c, t, FALSE)
    BY <2>1, WritesRecorded
  <2>3. raceCheckWrite(shadow[a], c, t).races = AnyRace(shadow[a], c, t)
    BY <2>1, CheckRaces
  <2>4. ComparesWrite(a, "store") /\ ComparesReads(a, "store")
    BY DEF ComparesWrite, ComparesReads
  <2> QED  BY <2>2, <2>3, <2>4, AnyRaceIs DEF ByteOK
<1>3. \A a \in B : ByteOK(a, "store", c, t, check[a])
  BY <1>2
<1> HIDE DEF B, z, check
<1>4. B \in SUBSET Address
  BY DEF B
<1> QED  BY <1>1, <1>3, <1>4, BytesOK DEF B, z

LEMMA LoadChecks ==
  ASSUME ShadowOK, NEW t \in Thread, NEW c \in Clock, NEW b \in Nat, NEW n \in Nat \ {0}, Bytes(b, n) \subseteq Address
  PROVE  LET z == raceCheckReadSized(shadow, b, n, c, t)
         IN  LeavesWords(Bytes(b, n), "load", c, t, z.shadow) /\ Reports(Bytes(b, n), "load", c, t, z.races)
<1> DEFINE B == Bytes(b, n)
           z == raceCheckReadSized(shadow, b, n, c, t)
           check == [a \in B |-> raceCheckRead_otherIt(shadow[a], c, t)]
<1>1. OneByOne(shadow, B, z.shadow, z.races, check)
  BY SizedReadIs
<1>2. ASSUME NEW a \in B PROVE ByteOK(a, "load", c, t, raceCheckRead_otherIt(shadow[a], c, t))
  <2>1. shadow[a] \in Word
    BY DEF ShadowOK, WordOK
  <2>2. IsRead(raceCheckRead_otherIt(shadow[a], c, t).s, shadow[a], c, t)
    BY <2>1, ReadsRecorded
  <2>3. raceCheckRead_otherIt(shadow[a], c, t).races = WriteRace(shadow[a], c, t)
    BY <2>1, ReadsRecorded
  <2>4. ComparesWrite(a, "load") /\ ~ComparesReads(a, "load")
    BY DEF ComparesWrite, ComparesReads
  <2> QED  BY <2>2, <2>3, <2>4 DEF ByteOK
<1>3. \A a \in B : ByteOK(a, "load", c, t, check[a])
  BY <1>2
<1> HIDE DEF B, z, check
<1>4. B \in SUBSET Address
  BY DEF B
<1> QED  BY <1>1, <1>3, <1>4, BytesOK DEF B, z

\* A check of one byte.
LEMMA OneCheck ==
  ASSUME ShadowOK, NEW b \in Address, NEW kind, NEW c, NEW t, NEW check, ByteOK(b, kind, c, t, check)
  PROVE  LET z == Each(shadow, [a \in {b} |-> check])
         IN  LeavesWords({b}, kind, c, t, z.shadow) /\ Reports({b}, kind, c, t, z.races)
<1> DEFINE f == [a \in {b} |-> check]
           z == Each(shadow, f)
<1>1. DOMAIN f = {b} /\ \A a \in {b} : ByteOK(a, kind, c, t, f[a])
  OBVIOUS
<1> HIDE DEF f
<1>2. OneByOne(shadow, {b}, z.shadow, z.races, f)
  BY <1>1, EachIs
<1>3. {b} \in SUBSET Address
  OBVIOUS
<1> HIDE DEF z
<1> QED  BY <1>1, <1>2, <1>3, BytesOK DEF z, f

LEMMA AtomicChecks ==
  ASSUME ShadowOK, NEW t \in Thread, NEW c \in Clock, NEW b \in Address
  PROVE  LET s == shadow[b]
             r == atomraceCheckRead(s, c, t)
         IN  /\ ByteOK(b, "atomicstore", c, t, atomraceCheckWrite(s, c, t))
             /\ ByteOK(b, "atomicload", c, t, Checked(s, r))
             /\ ByteOK(b, "rmw", c, t, Checked(recordWrite(s, c, t), r))
<1> DEFINE s == shadow[b]
           w == atomraceCheckWrite(s, c, t)
           r == atomraceCheckRead(s, c, t)
<1>1. s \in Word /\ s.isAtomic \in BOOLEAN
  BY DEF ShadowOK, WordOK, Word, WordFields
<1>2. IsWritten(w.s, c, t, TRUE) /\ IsWritten(recordWrite(s, c, t), c, t, TRUE)
  BY <1>1, WritesRecorded
<1>3. w.races = IF s.isAtomic THEN {} ELSE AnyRace(s, c, t)
  BY <1>1, CheckRaces
<1>4. r = IF s.isAtomic THEN {} ELSE WriteRace(s, c, t)
  BY <1>1, CheckRaces
<1>5. /\ ComparesWrite(b, "atomicstore") <=> ~s.isAtomic
      /\ ComparesReads(b, "atomicstore") <=> ~s.isAtomic
      /\ ComparesWrite(b, "atomicload") <=> ~s.isAtomic
      /\ ~ComparesReads(b, "atomicload")
      /\ ComparesWrite(b, "rmw") <=> ~s.isAtomic
      /\ ~ComparesReads(b, "rmw")
  BY DEF ComparesWrite, ComparesReads
<1> HIDE DEF w, r
<1>6. ByteOK(b, "atomicstore", c, t, w)
  BY <1>2, <1>3, <1>5, AnyRaceIs DEF ByteOK
<1>7. ByteOK(b, "atomicload", c, t, Checked(s, r))
  BY <1>4, <1>5 DEF ByteOK, Checked
<1>8. ByteOK(b, "rmw", c, t, Checked(recordWrite(s, c, t), r))
  BY <1>2, <1>4, <1>5 DEF ByteOK, Checked
<1> QED  BY <1>6, <1>7, <1>8 DEF w, r

-------------------------------------------------------------------------------
(* What the steps do to buffers and memory.                                *)

LEMMA ProgNext ==
  ASSUME ProgOK, NEW t \in Thread, NEW o, Does(t, o)
  PROVE  ProgOK' /\ o.b .. (o.b + o.n - 1) \subseteq Address
<1>1. pc[t] \in Nat \ {0} /\ pc' = [pc EXCEPT ![t] = @ + 1] /\ prog' = prog
  BY DEF ProgOK, Does
<1>2. pc' \in [Thread -> Nat \ {0}]
  BY <1>1 DEF ProgOK
<1>3. pc[t] =< Len(prog[t]) /\ prog[t][pc[t]] = o /\ prog \in Program \cup Recovery
  BY DEF Does, ProgOK
<1>4. \A i \in 1 .. Len(prog[t]) : prog[t][i].b .. (prog[t][i].b + prog[t][i].n - 1) \subseteq Address
  BY <1>3, DataRaceAssumption
<1>5. pc[t] \in 1 .. Len(prog[t])
  <2>1. PICK m : m = Len(prog[t])
    OBVIOUS
  <2> QED  BY <1>1, <1>3, <2>1
<1> QED  BY <1>1, <1>2, <1>3, <1>4, <1>5 DEF ProgOK

\* The clocks of t's accesses are no later than the thread's.
LEMMA ClocksBelow ==
  ASSUME TimeOK, NEW t \in Thread, NEW n \in Nat, used < n
  PROVE  \A j \in DOMAIN log : log[j].t = t => log[j].clock < n
<1> SUFFICES ASSUME NEW j \in DOMAIN log, log[j].t = t PROVE log[j].clock < n
  OBVIOUS
<1>1. log[j] \in Entry /\ last[t][t] \in 1 .. used /\ log[j].clock =< last[log[j].t][log[j].t] /\ used \in Nat
  BY DEF TimeOK
<1> QED  BY <1>1 DEF Entry

LEMMA MakesInv ==
  ASSUME IInv, NEW t, NEW B, NEW kind, NEW c, NEW own, NEW x, NEW n, NEW check,
         Makes(t, B, kind, c, own, x, n, check),
         ProgOK', \A b \in Address : Told(mem[b], 0)', Told(unlock, 0)', BufferOK'
  PROVE  IInv'
<1>1. TimeOK /\ ToldOK /\ ShadowOK
  BY DEF IInv
<1>2. TimeOK'
  BY <1>1, MakesTime
<1>3. ShadowOK'
  BY <1>1, MakesShadow
<1>4. RacesAreReal'
  BY <1>1, MakesReal
<1>5. RacesAreFound'
  BY <1>1, MakesFound
<1>6. ToldOK'
  <2>1. /\ \A u \in Thread : Told(Known(u), u)' /\ Mine(knowC[u], u, log)'
        /\ DOMAIN know' = Thread /\ DOMAIN knowC' = Thread
    BY <1>1, MakesTold
  <2> QED  BY <2>1 DEF ToldOK
<1> QED  BY <1>2, <1>3, <1>4, <1>5, <1>6 DEF IInv

\* Memory, the mutex and the buffers stay as they are.
LEMMA MakesSame ==
  ASSUME IInv, NEW t, NEW B, NEW kind, NEW c, NEW own, NEW x, NEW n, NEW check,
         Makes(t, B, kind, c, own, x, n, check)
  PROVE  /\ mem' = mem => \A b \in Address : Told(mem[b], 0)'
         /\ unlock' = unlock => Told(unlock, 0)'
         /\ sb' = sb => BufferOK'
         /\ sb' = [sb EXCEPT ![t] = << >>] => BufferOK'
         /\ \A u \in Thread : \A i \in DOMAIN sb[u] :
              Tells(sb[u][i], u, log', last', regress') /\ sb[u][i].kC \subseteq knowC'[u]
<1>1. TimeOK /\ ToldOK /\ BufferOK
  BY DEF IInv
<1>2. Later(last, regress, last', regress')
  BY <1>1, MovesLater DEF Makes
<1>3. /\ \A b \in Address : Tells(mem[b], 0, log, last', regress')
      /\ Tells(unlock, 0, log, last', regress')
      /\ \A u \in Thread : \A i \in DOMAIN sb[u] : Tells(sb[u][i], u, log, last', regress')
  BY <1>1, <1>2, LaterTold
<1>4. /\ \A s, u : Tells(s, u, log, last', regress') => Tells(s, u, log', last', regress')
      /\ \A u \in Thread : knowC[u] \subseteq knowC'[u]
  BY <1>1, MakesTold DEF Told
<1>5. mem' = mem => \A b \in Address : Told(mem[b], 0)'
  BY <1>3, <1>4 DEF Told
<1>6. unlock' = unlock => Told(unlock, 0)'
  BY <1>3, <1>4 DEF Told
<1>7. \A u \in Thread : \A i \in DOMAIN sb[u] : Tells(sb[u][i], u, log', last', regress') /\ sb[u][i].kC \subseteq knowC'[u]
  BY <1>1, <1>3, <1>4 DEF BufferOK
<1>8. sb' = sb => BufferOK'
  BY <1>1, <1>7 DEF BufferOK, Told
<1>9. ASSUME sb' = [sb EXCEPT ![t] = << >>] PROVE BufferOK'
  <2>1. sb' \in [Thread -> Seq(Buffered)]
    <3> DEFINE none == << >>
    <3>1. none \in Seq(Buffered)
      OBVIOUS
    <3>2. sb' = [sb EXCEPT ![t] = none] /\ sb \in [Thread -> Seq(Buffered)]
      BY <1>1, <1>9 DEF BufferOK
    <3> HIDE DEF none
    <3> QED  BY <3>1, <3>2
  <2>2. ASSUME NEW u \in Thread, NEW i \in DOMAIN sb'[u]
        PROVE  Tells(sb'[u][i], u, log', last', regress') /\ sb'[u][i].kC \subseteq knowC'[u]
    <3>1. u # t /\ sb'[u] = sb[u]
      BY <1>1, <1>9, <2>2 DEF BufferOK
    <3> QED  BY <1>7, <2>2, <3>1
  <2> QED  BY <2>1, <2>2 DEF BufferOK, Told
<1> QED  BY <1>5, <1>6, <1>7, <1>8, <1>9

\* A store enters the buffer.
LEMMA MakesBuffered ==
  ASSUME IInv, NEW t, NEW B, NEW kind, NEW c, NEW own, NEW n, NEW check,
         Makes(t, B, kind, c, own, Known(t), n, check), Buffer(t, B), last' = last
  PROVE  BufferOK'
<1> DEFINE m == Len(log) + 1
           z == setClock(last[t], t, 0)
           y == [bytes |-> B, cv |-> z, k |-> know[t] \cup {m}, kC |-> knowC[t] \cup {m}]
<1>1. TimeOK /\ ToldOK /\ BufferOK /\ t \in Thread /\ B \in SUBSET Address
  BY DEF IInv, Makes
<1>2. know'[t] = know[t] \cup {m} /\ knowC'[t] = knowC[t] \cup {m}
  BY <1>1 DEF Makes, Access, Known, ToldOK
<1>3. Tells(Known(t)', t, log', last', regress')
  BY <1>1, MakesTold DEF Told
<1>4. Known(t)'.cv = last[t] /\ Known(t)'.k = know'[t] /\ Known(t)'.kC = knowC'[t]
  BY DEF Known
<1>5. TimeOK'
  BY <1>1, MakesTime
<1>6. Tells([cv |-> z, k |-> know'[t], kC |-> knowC'[t]], t, log', last', regress')
  <2>1. 0 \in Nat /\ 0 =< last'[t][t] /\ log' \in Seq(Entry)
    BY <1>1, <1>5 DEF TimeOK
  <2> QED  BY <1>1, <1>3, <1>4, <2>1, TellsStamped
<1>7. /\ sb' = [sb EXCEPT ![t] = Append(sb[t], y)] /\ sb \in [Thread -> Seq(Buffered)]
  BY <1>1 DEF Buffer, BufferOK
<1> HIDE DEF m, z
<1>8. Tells(y, t, log', last', regress') /\ y.kC = knowC'[t]
  BY <1>2, <1>6 DEF Tells
<1>9. y \in Buffered
  <2>1. y.cv \in Clock /\ y.k \subseteq DOMAIN log' /\ y.kC \subseteq DOMAIN log'
    BY <1>8 DEF Tells
  <2>2. DOMAIN log' \subseteq Nat
    BY <1>5 DEF TimeOK
  <2> QED  BY <1>1, <2>1, <2>2 DEF Buffered
<1> HIDE DEF y
<1>10. sb' \in [Thread -> Seq(Buffered)]
  BY <1>1, <1>7, <1>9
<1>11. ASSUME NEW u \in Thread, NEW i \in DOMAIN sb'[u]
       PROVE  Tells(sb'[u][i], u, log', last', regress') /\ sb'[u][i].kC \subseteq knowC'[u]
  <2>1. CASE u # t
    <3>1. sb'[u] = sb[u]
      BY <1>7, <2>1
    <3> QED  BY <1>11, <3>1, MakesSame
  <2>2. CASE u = t
    <3>1. sb'[u] = Append(sb[t], y) /\ sb[t] \in Seq(Buffered)
      BY <1>1, <1>7, <2>2
    <3>2. i \in 1 .. (Len(sb[t]) + 1) /\ Len(sb[t]) \in Nat
      BY <1>9, <1>11, <3>1
    <3>3. CASE i = Len(sb[t]) + 1
      <4>1. sb'[u][i] = y
        BY <1>9, <3>1, <3>3
      <4> QED  BY <1>8, <2>2, <4>1
    <3>4. CASE i # Len(sb[t]) + 1
      <4>1. i \in DOMAIN sb[t] /\ sb'[u][i] = sb[t][i]
        BY <1>9, <3>1, <3>2, <3>4
      <4> QED  BY <1>1, <2>2, <4>1, MakesSame
    <3> QED  BY <3>3, <3>4
  <2> QED  BY <2>1, <2>2
<1> QED  BY <1>10, <1>11 DEF BufferOK, Told

\* The buffer of t is emptied by an action of t.
LEMMA DrainedTold ==
  ASSUME IInv, NEW t \in Thread, NEW x, NEW n, Moves(t, x, n), used + Len(sb[t]) =< n
  PROVE  \A b \in Address : Tells(Drained(t)[b], 0, log, last', regress')
<1>1. TimeOK /\ ToldOK /\ BufferOK
  BY DEF IInv
<1>2. Later(last, regress, last', regress') /\ last'[t][t] = n
  BY <1>1, MovesLater
<1>3. Len(sb[t]) \in Nat /\ Len(sb[t]) =< Len(sb[t])
  BY <1>1 DEF BufferOK
<1> QED  BY <1>1, <1>2, <1>3, StoredTold DEF Drained

LEMMA MakesDrained ==
  ASSUME IInv, NEW t, NEW B, NEW kind, NEW c, NEW own, NEW x, NEW n, NEW check,
         Makes(t, B, kind, c, own, x, n, check), used + Len(sb[t]) =< n, mem' = Drained(t)
  PROVE  \A b \in Address : Told(mem[b], 0)'
<1>1. \A b \in Address : Tells(Drained(t)[b], 0, log, last', regress')
  BY DrainedTold DEF Makes
<1>2. \A s, u : Tells(s, u, log, last', regress') => Tells(s, u, log', last', regress')
  BY MakesTold DEF Told, IInv
<1> QED  BY <1>1, <1>2 DEF Told

\* The bytes B are b, written with the clock n of the write itself.
OwnClock(t, b, B, own, n) == B = {b} /\ own = TRUE /\ n = used + Len(sb[t]) + 1

\* A write that is the last to leave the buffer may be told to all, if the
\* clock of the access is that of the write.
LEMMA MakesWritten ==
  ASSUME IInv, NEW t, NEW b \in Address, NEW B, NEW kind \in {"atomicstore", "rmw"}, NEW c, NEW own,
         NEW x, NEW n, NEW check, Makes(t, B, kind, c, own, x, n, check),
         OwnClock(t, b, B, own, n), WriteThrough(t, b, x)
  PROVE  (\A a \in Address : Told(mem[a], 0)') /\ BufferOK'
<1> DEFINE m == Len(log) + 1
           e == EntryOf(t, B, kind, c, own, x)
           w == [cv |-> c, k |-> x.k \cup {m}, kC |-> x.kC \cup {m}]
<1>1. TimeOK /\ ToldOK /\ BufferOK /\ t \in Thread /\ Moves(t, x, n) /\ c = last'[t]
  BY DEF IInv, Makes
<1>2. Later(last, regress, last', regress') /\ c = setClock(x.cv, t, n) /\ last'[t][t] = n
  BY <1>1, MovesLater
<1>3. /\ e \in Entry /\ log' = Append(log, e) /\ e.clock = last'[t][t] /\ e.t = t /\ log \in Seq(Entry)
      /\ x.kC \subseteq DOMAIN log
  BY <1>1, MakesEntry
<1>4. e.own = TRUE /\ IsAtomic(e)
  BY DEF OwnClock, EntryOf, IsAtomic
<1> HIDE DEF e
<1>5. n \in Nat /\ used < n /\ used + Len(sb[t]) =< n
  <2>1. used \in Nat /\ Len(sb[t]) \in Nat
    BY <1>1 DEF TimeOK, BufferOK
  <2> QED  BY <2>1 DEF OwnClock
<1>6. /\ sb' = [sb EXCEPT ![t] = << >>] /\ mem' = [Drained(t) EXCEPT ![b] = w]
  BY <1>2 DEF WriteThrough, OwnClock
<1>7. Tells(x, t, log, last', regress')
  BY <1>1, <1>2, <1>3, TellsLater DEF Moves, Learns, Told
<1>8. Mine(x.kC, t, log)
  BY <1>1 DEF ToldOK, Mine, Moves, Learns
<1>9. Tells([cv |-> setClock(x.cv, t, n), k |-> x.k, kC |-> x.kC], 0, log, last', regress')
  <2>1. \A j \in DOMAIN log : log[j].t = t => log[j].clock < n
    BY <1>1, <1>5, ClocksBelow
  <2>2. n =< last'[t][t]
    BY <1>2, <1>5
  <2> QED  BY <1>1, <1>3, <1>5, <1>7, <1>8, <2>1, <2>2, TellsAll
<1>10. \A s, u : Tells(s, u, log, last', regress') => Tells(s, u, log', last', regress')
  BY <1>1, MakesTold DEF Told
<1>11. Tells(w, 0, log', last', regress')
  <2> DEFINE y == [cv |-> c, k |-> x.k, kC |-> x.kC]
  <2>1. Tells(y, 0, log', last', regress')
    BY <1>2, <1>9, <1>10
  <2>2. m \in DOMAIN log' /\ log'[m] = e /\ log' \in Seq(Entry)
    BY <1>3, AppendIs
  <2>3. Before(log'[m], y.cv)
    BY <1>1, <1>2, <1>3, <1>4, <2>2 DEF Before
  <2>4. y.cv = c /\ y.k = x.k /\ y.kC = x.kC
    OBVIOUS
  <2> HIDE DEF y, m
  <2>5. Tells([cv |-> y.cv, k |-> y.k \cup {m}, kC |-> y.kC \cup {m}], 0, log', last', regress')
    BY <2>1, <2>2, <2>3, TellsMore
  <2> QED  BY <2>4, <2>5
<1> HIDE DEF w
<1>12. \A a \in Address : Tells(Drained(t)[a], 0, log', last', regress')
  BY <1>1, <1>5, <1>10, DrainedTold
<1>13. \A a \in Address : mem'[a] = w \/ mem'[a] = Drained(t)[a]
  BY <1>6 DEF Drained, Stored
<1>14. \A a \in Address : Told(mem[a], 0)'
  BY <1>11, <1>12, <1>13 DEF Told
<1> QED  BY <1>6, <1>14, MakesSame

-------------------------------------------------------------------------------
(* The invariant holds.                                                    *)

\* Thread t's clock vector of now, if it makes no new action.
LEMMA StandsStill ==
  ASSUME TimeOK, ToldOK, NEW t \in Thread, last' = last, used' = used, regress' = regress
  PROVE  Moves(t, Known(t), last[t][t]) /\ last[t] = last'[t] /\ last[t] \in Clock
<1>1. last[t] \in Clock /\ last[t][t] \in 1 .. used /\ used \in Nat
  BY DEF TimeOK
<1>2. setClock(last[t], t, last[t][t]) = last[t]
  BY <1>1 DEF setClock, Clock
<1>3. [last EXCEPT ![t] = last[t]] = last
  BY DEF TimeOK
<1>4. Known(t).cv = last[t] /\ Learns(t, Known(t))
  BY KnownLearns
<1> QED  BY <1>1, <1>2, <1>3, <1>4 DEF Moves

LEMMA StoreInv ==
  ASSUME IInv, NEW t \in Thread, NEW b \in Address, NEW n \in Size, Store(t, b, n)
  PROVE  IInv'
<1>1. TimeOK /\ ToldOK /\ ShadowOK /\ ProgOK
  BY DEF IInv
<1>2. PICK B, kind, c, own, k, check :
        /\ B = Bytes(b, n) /\ kind = "store" /\ c = last[t] /\ own = FALSE /\ k = last[t][t]
        /\ check = raceCheckWriteSized(shadow, b, n, c, t)
  OBVIOUS
<1>3. ProgOK' /\ B \subseteq Address
  <2>1. Does(t, At("store", b, n))
    BY DEF Store
  <2>2. At("store", b, n).b = b /\ At("store", b, n).n = n
    BY DEF At
  <2> QED  BY <1>1, <1>2, <2>1, <2>2, ProgNext DEF Bytes
<1>4. last' = last /\ used' = used /\ regress' = regress /\ mem' = mem /\ unlock' = unlock
  BY DEF Store
<1>5. Moves(t, Known(t), k) /\ c = last'[t] /\ c \in Clock
  BY <1>1, <1>2, <1>4, StandsStill
<1>6. LeavesWords(B, kind, c, t, check.shadow) /\ Reports(B, kind, c, t, check.races)
  <2>1. b \in Nat /\ n \in Nat \ {0}
    BY DEF Size
  <2> QED  BY <1>1, <1>2, <1>3, <1>5, <2>1, StoreChecks
<1>7. Access(t, B, kind, c, own, Known(t), check) /\ Buffer(t, B)
  BY <1>2 DEF Store
<1>8. kind \in Kind /\ own \in BOOLEAN
  BY <1>2 DEF Kind
<1>9. Makes(t, B, kind, c, own, Known(t), k, check)
  BY <1>3, <1>5, <1>6, <1>7, <1>8 DEF Makes
<1>10. BufferOK'
  BY <1>4, <1>7, <1>9, MakesBuffered
<1>11. (\A a \in Address : Told(mem[a], 0)') /\ Told(unlock, 0)'
  BY <1>4, <1>9, MakesSame
<1> QED  BY <1>3, <1>9, <1>10, <1>11, MakesInv

LEMMA AtomicStoreInv ==
  ASSUME IInv, NEW t \in Thread, NEW b \in Address, AtomicStore(t, b)
  PROVE  IInv'
<1>1. TimeOK /\ ToldOK /\ ShadowOK /\ ProgOK
  BY DEF IInv
<1>2. PICK B, kind, c, own, k, check :
        /\ B = {b} /\ kind = "atomicstore" /\ c = last[t] /\ own = FALSE /\ k = last[t][t]
        /\ check = Each(shadow, [a \in {b} |-> atomraceCheckWrite(shadow[b], c, t)])
  OBVIOUS
<1>3. ProgOK'
  <2>1. Does(t, At("atomicstore", b, 1))
    BY DEF AtomicStore
  <2> QED  BY <1>1, <2>1, ProgNext
<1>4. last' = last /\ used' = used /\ regress' = regress /\ mem' = mem /\ unlock' = unlock
  BY DEF AtomicStore
<1>5. Moves(t, Known(t), k) /\ c = last'[t] /\ c \in Clock
  BY <1>1, <1>2, <1>4, StandsStill
<1>6. LeavesWords(B, kind, c, t, check.shadow) /\ Reports(B, kind, c, t, check.races)
  <2>1. ByteOK(b, kind, c, t, atomraceCheckWrite(shadow[b], c, t))
    BY <1>1, <1>2, <1>5, AtomicChecks
  <2> QED  BY <1>1, <1>2, <2>1, OneCheck, ZenonT(60)
<1>7. Access(t, B, kind, c, own, Known(t), check) /\ Buffer(t, B)
  BY <1>2 DEF AtomicStore
<1>8. kind \in Kind /\ own \in BOOLEAN /\ B \in SUBSET Address
  BY <1>2 DEF Kind
<1>9. Makes(t, B, kind, c, own, Known(t), k, check)
  BY <1>5, <1>6, <1>7, <1>8 DEF Makes
<1>10. BufferOK'
  BY <1>4, <1>7, <1>9, MakesBuffered
<1>11. (\A a \in Address : Told(mem[a], 0)') /\ Told(unlock, 0)'
  BY <1>4, <1>9, MakesSame
<1> QED  BY <1>3, <1>9, <1>10, <1>11, MakesInv

\* An action of t gets a sequence number from those not used.
LEMMA GoesOn ==
  ASSUME TimeOK, BufferOK, NEW t \in Thread, NEW x, Learns(t, x), NEW m \in {1, Len(sb[t]) + 1},
         used' = used + m, last' = [last EXCEPT ![t] = setClock(x.cv, t, used + m)], regress' = regress
  PROVE  /\ Moves(t, x, used + m)
         /\ setClock(x.cv, t, used + m) = last'[t] /\ setClock(x.cv, t, used + m) \in Clock
<1>1. used \in Nat /\ m \in Nat /\ last[t][t] \in 1 .. used
  BY DEF TimeOK, BufferOK
<1>2. Moves(t, x, used + m)
  BY <1>1 DEF Moves
<1>3. last' \in [Thread -> Clock] /\ last'[t] = setClock(x.cv, t, used + m)
  BY <1>2, MovesLater
<1> QED  BY <1>2, <1>3

LEMMA LoadInv ==
  ASSUME IInv, NEW t \in Thread, NEW b \in Address, NEW n \in Size, Load(t, b, n)
  PROVE  IInv'
<1>1. TimeOK /\ ToldOK /\ ShadowOK /\ ProgOK /\ BufferOK
  BY DEF IInv
<1>2. PICK B, kind, x, k, c, own, check :
        /\ B = Bytes(b, n) /\ kind = "load" /\ x = From(mem, t, B) /\ k = used + 1
        /\ c = setClock(x.cv, t, used + 1) /\ own = TRUE
        /\ check = raceCheckReadSized(shadow, b, n, c, t)
  OBVIOUS
<1>3. ProgOK' /\ B \subseteq Address
  <2>1. Does(t, At("load", b, n))
    BY DEF Load
  <2>2. At("load", b, n).b = b /\ At("load", b, n).n = n
    BY DEF At
  <2> QED  BY <1>1, <1>2, <2>1, <2>2, ProgNext DEF Bytes
<1>4. /\ last' = [last EXCEPT ![t] = c] /\ used' = used + 1 /\ regress' = regress
      /\ mem' = mem /\ unlock' = unlock /\ sb' = sb
  BY <1>2 DEF Load
<1>5. Learns(t, x)
  BY <1>1, <1>2, <1>3, FromLearns
<1>6. Moves(t, x, k) /\ c = last'[t] /\ c \in Clock
  BY <1>1, <1>2, <1>4, <1>5, GoesOn
<1>7. LeavesWords(B, kind, c, t, check.shadow) /\ Reports(B, kind, c, t, check.races)
  <2>1. b \in Nat /\ n \in Nat \ {0}
    BY DEF Size
  <2> QED  BY <1>1, <1>2, <1>3, <1>6, <2>1, LoadChecks
<1>8. Access(t, B, kind, c, own, x, check)
  BY <1>2 DEF Load
<1>9. kind \in Kind /\ own \in BOOLEAN
  BY <1>2 DEF Kind
<1>10. Makes(t, B, kind, c, own, x, k, check)
  BY <1>3, <1>6, <1>7, <1>8, <1>9 DEF Makes
<1>11. (\A a \in Address : Told(mem[a], 0)') /\ Told(unlock, 0)' /\ BufferOK'
  BY <1>4, <1>10, MakesSame
<1> QED  BY <1>3, <1>10, <1>11, MakesInv

LEMMA AtomicLoadInv ==
  ASSUME IInv, NEW t \in Thread, NEW b \in Address, AtomicLoad(t, b)
  PROVE  IInv'
<1>1. TimeOK /\ ToldOK /\ ShadowOK /\ ProgOK /\ BufferOK
  BY DEF IInv
<1>2. PICK B, kind, x, k, c, own, z, check :
        /\ B = {b} /\ kind = "atomicload" /\ x = From(mem, t, B) /\ k = used + 1
        /\ c = setClock(x.cv, t, used + 1) /\ own = TRUE
        /\ z = Checked(shadow[b], atomraceCheckRead(shadow[b], c, t))
        /\ check = Each(shadow, [a \in {b} |-> z])
  OBVIOUS
<1>3. ProgOK'
  <2>1. Does(t, At("atomicload", b, 1))
    BY DEF AtomicLoad
  <2> QED  BY <1>1, <2>1, ProgNext
<1>4. /\ last' = [last EXCEPT ![t] = c] /\ used' = used + 1 /\ regress' = regress
      /\ mem' = mem /\ unlock' = unlock /\ sb' = sb
  BY <1>2 DEF AtomicLoad
<1>5. Learns(t, x)
  BY <1>1, <1>2, FromLearns
<1>6. Moves(t, x, k) /\ c = last'[t] /\ c \in Clock
  BY <1>1, <1>2, <1>4, <1>5, GoesOn
<1>7. LeavesWords(B, kind, c, t, check.shadow) /\ Reports(B, kind, c, t, check.races)
  <2>1. ByteOK(b, kind, c, t, z)
    BY <1>1, <1>2, <1>6, AtomicChecks
  <2> QED  BY <1>1, <1>2, <2>1, OneCheck, ZenonT(60)
<1>8. Access(t, B, kind, c, own, x, check)
  BY <1>2 DEF AtomicLoad
<1>9. kind \in Kind /\ own \in BOOLEAN /\ B \in SUBSET Address
  BY <1>2 DEF Kind
<1>10. Makes(t, B, kind, c, own, x, k, check)
  BY <1>6, <1>7, <1>8, <1>9 DEF Makes
<1>11. (\A a \in Address : Told(mem[a], 0)') /\ Told(unlock, 0)' /\ BufferOK'
  BY <1>4, <1>10, MakesSame
<1> QED  BY <1>3, <1>10, <1>11, MakesInv

LEMMA SeqCstStoreInv ==
  ASSUME IInv, NEW t \in Thread, NEW b \in Address, SeqCstStore(t, b)
  PROVE  IInv'
<1>1. TimeOK /\ ToldOK /\ ShadowOK /\ ProgOK /\ BufferOK
  BY DEF IInv
<1>2. PICK B, kind, x, k, c, own, z, check :
        /\ B = {b} /\ kind = "atomicstore" /\ x = Known(t) /\ k = used + Len(sb[t]) + 1
        /\ c = setClock(x.cv, t, k) /\ own = TRUE
        /\ z = atomraceCheckWrite(shadow[b], c, t)
        /\ check = Each(shadow, [a \in {b} |-> z])
  OBVIOUS
<1>3. ProgOK'
  <2>1. Does(t, At("seqcst", b, 1))
    BY DEF SeqCstStore
  <2> QED  BY <1>1, <2>1, ProgNext
<1>4. /\ WriteThrough(t, b, x) /\ regress' = regress /\ unlock' = unlock
      /\ c = setClock(last[t], t, k)
  BY <1>2 DEF SeqCstStore, Known
<1>5. Learns(t, x)
  BY <1>1, <1>2, KnownLearns
<1>6. used \in Nat /\ Len(sb[t]) \in Nat /\ k = used + (Len(sb[t]) + 1)
  BY <1>1, <1>2 DEF TimeOK, BufferOK
<1>7. used' = used + (Len(sb[t]) + 1) /\ last' = [last EXCEPT ![t] = setClock(x.cv, t, used + (Len(sb[t]) + 1))]
  <2>1. used' = k /\ last' = [last EXCEPT ![t] = setClock(x.cv, t, k)]
    BY <1>2, <1>4 DEF WriteThrough
  <2> QED  BY <1>6, <2>1
<1>8. Moves(t, x, k) /\ c = last'[t] /\ c \in Clock
  <2>1. PICK m : m = Len(sb[t]) + 1
    OBVIOUS
  <2>2. Moves(t, x, used + m) /\ setClock(x.cv, t, used + m) = last'[t] /\ setClock(x.cv, t, used + m) \in Clock
    BY <1>1, <1>4, <1>5, <1>7, <2>1, GoesOn
  <2>3. k = used + m /\ c = setClock(x.cv, t, k)
    BY <1>2, <1>6, <2>1
  <2> QED  BY <2>2, <2>3
<1>9. LeavesWords(B, kind, c, t, check.shadow) /\ Reports(B, kind, c, t, check.races)
  <2>1. ByteOK(b, kind, c, t, z)
    BY <1>1, <1>2, <1>8, AtomicChecks
  <2> QED  BY <1>1, <1>2, <2>1, OneCheck, ZenonT(60)
<1>10. Access(t, B, kind, c, own, x, check)
  BY <1>2, <1>4 DEF SeqCstStore
<1>11. kind \in Kind /\ own \in BOOLEAN /\ B \in SUBSET Address /\ kind \in {"atomicstore", "rmw"}
  BY <1>2 DEF Kind
<1>12. Makes(t, B, kind, c, own, x, k, check)
  BY <1>8, <1>9, <1>10, <1>11 DEF Makes
<1>13. OwnClock(t, b, B, own, k)
  BY <1>2 DEF OwnClock
<1>14. (\A a \in Address : Told(mem[a], 0)') /\ BufferOK'
  BY <1>4, <1>11, <1>12, <1>13, MakesWritten
<1>15. Told(unlock, 0)'
  BY <1>4, <1>12, MakesSame
<1> QED  BY <1>3, <1>12, <1>14, <1>15, MakesInv

LEMMA RMWInv ==
  ASSUME IInv, NEW t \in Thread, NEW b \in Address, RMW(t, b)
  PROVE  IInv'
<1>1. TimeOK /\ ToldOK /\ ShadowOK /\ ProgOK /\ BufferOK
  BY DEF IInv
<1>2. PICK B, kind, x, k, c, own, z, check :
        /\ B = {b} /\ kind = "rmw" /\ x = Emptied(t, b) /\ k = used + Len(sb[t]) + 1
        /\ c = setClock(x.cv, t, k) /\ own = TRUE
        /\ z = Checked(recordWrite(shadow[b], c, t), atomraceCheckRead(shadow[b], c, t))
        /\ check = Each(shadow, [a \in {b} |-> z])
  OBVIOUS
<1>3. ProgOK'
  <2>1. Does(t, At("rmw", b, 1))
    BY DEF RMW
  <2> QED  BY <1>1, <2>1, ProgNext
<1>4. WriteThrough(t, b, x) /\ regress' = regress /\ unlock' = unlock
  BY <1>2 DEF RMW
<1>5. Learns(t, x)
  BY <1>1, <1>2, EmptiedLearns
<1>6. used \in Nat /\ Len(sb[t]) \in Nat /\ k = used + (Len(sb[t]) + 1)
  BY <1>1, <1>2 DEF TimeOK, BufferOK
<1>7. used' = used + (Len(sb[t]) + 1) /\ last' = [last EXCEPT ![t] = setClock(x.cv, t, used + (Len(sb[t]) + 1))]
  <2>1. used' = k /\ last' = [last EXCEPT ![t] = setClock(x.cv, t, k)]
    BY <1>2, <1>4 DEF WriteThrough
  <2> QED  BY <1>6, <2>1
<1>8. Moves(t, x, k) /\ c = last'[t] /\ c \in Clock
  <2>1. PICK m : m = Len(sb[t]) + 1
    OBVIOUS
  <2>2. Moves(t, x, used + m) /\ setClock(x.cv, t, used + m) = last'[t] /\ setClock(x.cv, t, used + m) \in Clock
    BY <1>1, <1>4, <1>5, <1>7, <2>1, GoesOn
  <2>3. k = used + m /\ c = setClock(x.cv, t, k)
    BY <1>2, <1>6, <2>1
  <2> QED  BY <2>2, <2>3
<1>9. LeavesWords(B, kind, c, t, check.shadow) /\ Reports(B, kind, c, t, check.races)
  <2>1. ByteOK(b, kind, c, t, z)
    BY <1>1, <1>2, <1>8, AtomicChecks
  <2> QED  BY <1>1, <1>2, <2>1, OneCheck, ZenonT(60)
<1>10. Access(t, B, kind, c, own, x, check)
  BY <1>2 DEF RMW
<1>11. kind \in Kind /\ own \in BOOLEAN /\ B \in SUBSET Address /\ kind \in {"atomicstore", "rmw"}
  BY <1>2 DEF Kind
<1>12. Makes(t, B, kind, c, own, x, k, check)
  BY <1>8, <1>9, <1>10, <1>11 DEF Makes
<1>13. OwnClock(t, b, B, own, k)
  BY <1>2 DEF OwnClock
<1>14. (\A a \in Address : Told(mem[a], 0)') /\ BufferOK'
  BY <1>4, <1>11, <1>12, <1>13, MakesWritten
<1>15. Told(unlock, 0)'
  BY <1>4, <1>12, MakesSame
<1> QED  BY <1>3, <1>12, <1>14, <1>15, MakesInv

LEMMA CASFailInv ==
  ASSUME IInv, NEW t \in Thread, NEW b \in Address, CASFail(t, b)
  PROVE  IInv'
<1>1. TimeOK /\ ToldOK /\ ShadowOK /\ ProgOK /\ BufferOK
  BY DEF IInv
<1>2. PICK B, kind, x, k, c, own, z, check :
        /\ B = {b} /\ kind = "atomicload" /\ x = Emptied(t, b) /\ k = used + Len(sb[t]) + 1
        /\ c = setClock(x.cv, t, k) /\ own = TRUE
        /\ z = Checked(shadow[b], atomraceCheckRead(shadow[b], c, t))
        /\ check = Each(shadow, [a \in {b} |-> z])
  OBVIOUS
<1>3. ProgOK'
  <2>1. Does(t, At("casfail", b, 1))
    BY DEF CASFail
  <2> QED  BY <1>1, <2>1, ProgNext
<1>4. /\ used' = k /\ last' = [last EXCEPT ![t] = setClock(x.cv, t, k)] /\ regress' = regress
      /\ unlock' = unlock /\ sb' = [sb EXCEPT ![t] = << >>] /\ mem' = Drained(t)
  BY <1>2 DEF CASFail
<1>5. Learns(t, x)
  BY <1>1, <1>2, EmptiedLearns
<1>6. used \in Nat /\ Len(sb[t]) \in Nat /\ k = used + (Len(sb[t]) + 1)
  BY <1>1, <1>2 DEF TimeOK, BufferOK
<1>7. used' = used + (Len(sb[t]) + 1) /\ last' = [last EXCEPT ![t] = setClock(x.cv, t, used + (Len(sb[t]) + 1))]
  BY <1>4, <1>6
<1>8. Moves(t, x, k) /\ c = last'[t] /\ c \in Clock
  <2>1. PICK m : m = Len(sb[t]) + 1
    OBVIOUS
  <2>2. Moves(t, x, used + m) /\ setClock(x.cv, t, used + m) = last'[t] /\ setClock(x.cv, t, used + m) \in Clock
    BY <1>1, <1>4, <1>5, <1>7, <2>1, GoesOn
  <2>3. k = used + m /\ c = setClock(x.cv, t, k)
    BY <1>2, <1>6, <2>1
  <2> QED  BY <2>2, <2>3
<1>9. LeavesWords(B, kind, c, t, check.shadow) /\ Reports(B, kind, c, t, check.races)
  <2>1. ByteOK(b, kind, c, t, z)
    BY <1>1, <1>2, <1>8, AtomicChecks
  <2> QED  BY <1>1, <1>2, <2>1, OneCheck, ZenonT(60)
<1>10. Access(t, B, kind, c, own, x, check)
  BY <1>2 DEF CASFail
<1>11. kind \in Kind /\ own \in BOOLEAN /\ B \in SUBSET Address
  BY <1>2 DEF Kind
<1>12. Makes(t, B, kind, c, own, x, k, check)
  BY <1>8, <1>9, <1>10, <1>11 DEF Makes
<1>13. used + Len(sb[t]) =< k
  BY <1>6
<1>14. \A a \in Address : Told(mem[a], 0)'
  BY <1>4, <1>12, <1>13, MakesDrained
<1>15. Told(unlock, 0)' /\ BufferOK'
  BY <1>4, <1>12, MakesSame
<1> QED  BY <1>3, <1>12, <1>14, <1>15, MakesInv

\* A step that makes no access leaves what is said of the accesses.
LEMMA QuietInv ==
  ASSUME IInv, shadow' = shadow, log' = log, latest' = latest, regress => regress'
  PROVE  /\ ShadowOK' /\ RacesAreReal' /\ RacesAreFound'
<1>1. ShadowOK'
  BY DEF IInv, ShadowOK
<1>2. RacesAreReal'
  BY DEF IInv, RacesAreReal
<1>3. RacesAreFound'
  BY ZenonT(60) DEF IInv, RacesAreFound, Compared, LastWrite
<1> QED  BY <1>1, <1>2, <1>3

\* The clocks of the accesses stay below those of the threads.
LEMMA QuietTime ==
  ASSUME TimeOK, log' = log, used' \in Nat, Later(last, regress, last', regress'),
         last' \in [Thread -> Clock], \A u \in Thread : last'[u][u] \in 1 .. used'
  PROVE  TimeOK'
<1>1. ASSUME NEW i \in DOMAIN log PROVE log[i].clock =< last'[log[i].t][log[i].t]
  <2> DEFINE u == log[i].t
  <2>1. log[i] \in Entry
    BY DEF TimeOK
  <2>2. u \in Thread /\ log[i].clock \in Nat
    BY <2>1 DEF Entry
  <2>3. log[i].clock =< last[u][u] /\ last[u][u] =< last'[u][u]
    BY <2>2 DEF TimeOK, Later
  <2>4. last[u][u] \in Nat /\ last'[u][u] \in Nat
    BY <2>2 DEF Later, Clock
  <2> HIDE DEF u
  <2>5. log[i].clock =< last'[u][u]
    BY <2>2, <2>3, <2>4
  <2> QED  BY <2>5 DEF u
<1> QED  BY <1>1 DEF TimeOK

LEMMA FenceInv ==
  ASSUME IInv, NEW t \in Thread, NEW x, Fence(t, x), Learns(t, x), ProgOK',
         unlock' = unlock \/ unlock' = [cv |-> setClock(last[t], t, used + Len(sb[t]) + 1), k |-> know[t], kC |-> knowC[t]]
  PROVE  IInv'
<1>1. TimeOK /\ ToldOK /\ BufferOK
  BY DEF IInv
<1>2. PICK m, n : m = Len(sb[t]) + 1 /\ n = used + m
  OBVIOUS
<1>3. used \in Nat /\ Len(sb[t]) \in Nat /\ n = used + Len(sb[t]) + 1
  BY <1>1, <1>2 DEF TimeOK, BufferOK
<1>4. /\ used' = used + m /\ last' = [last EXCEPT ![t] = setClock(x.cv, t, used + m)] /\ regress' = regress
      /\ sb' = [sb EXCEPT ![t] = << >>] /\ mem' = Drained(t)
      /\ know' = [know EXCEPT ![t] = x.k] /\ knowC' = [knowC EXCEPT ![t] = x.kC]
      /\ shadow' = shadow /\ log' = log /\ latest' = latest
  <2>1. used' = n /\ last' = [last EXCEPT ![t] = setClock(x.cv, t, n)]
    BY <1>3 DEF Fence
  <2> QED  BY <1>2, <2>1 DEF Fence
<1>5. Moves(t, x, n)
  BY <1>1, <1>2, <1>4, GoesOn
<1>6. /\ Later(last, regress, last', regress') /\ last' \in [Thread -> Clock]
      /\ \A u \in Thread : last'[u][u] \in 1 .. used' /\ last'[t][t] = n
      /\ Tells([cv |-> last'[t], k |-> x.k, kC |-> x.kC], t, log, last', regress')
      /\ \A u \in Thread : u # t => last'[u] = last[u]
  <2>1. \A u \in Thread : u # t => last'[u] = last[u]
    BY <1>1, <1>4 DEF TimeOK
  <2> QED  BY <1>1, <1>5, <2>1, MovesLater
<1>7. TimeOK'
  BY <1>1, <1>3, <1>4, <1>5, <1>6, QuietTime DEF Moves
<1>8. \A b \in Address : Tells(mem'[b], 0, log, last', regress')
  <2>1. used + Len(sb[t]) =< n
    BY <1>3
  <2> QED  BY <1>4, <1>5, <2>1, DrainedTold
<1>9. /\ \A u \in Thread : Tells(Known(u), u, log, last', regress')
      /\ Tells(unlock, 0, log, last', regress')
      /\ \A u \in Thread : \A i \in DOMAIN sb[u] : Tells(sb[u][i], u, log, last', regress')
  BY <1>1, <1>6, LaterTold
<1>10. Tells(unlock', 0, log, last', regress')
  <2>1. CASE unlock' = unlock
    BY <1>9, <2>1
  <2>2. CASE unlock' = [cv |-> setClock(last[t], t, used + Len(sb[t]) + 1), k |-> know[t], kC |-> knowC[t]]
    <3>1. Known(t).cv = last[t] /\ Known(t).k = know[t] /\ Known(t).kC = knowC[t]
      BY DEF Known
    <3>2. \A j \in DOMAIN log : log[j].t = t => log[j].clock < n
      BY <1>1, <1>3, ClocksBelow
    <3>3. Mine(knowC[t], t, log) /\ knowC[t] \in SUBSET DOMAIN log /\ log \in Seq(Entry)
      BY <1>1, PassedIs DEF ToldOK, TimeOK
    <3>4. n \in Nat /\ n =< last'[t][t]
      BY <1>3, <1>6
    <3>5. Tells([cv |-> setClock(Known(t).cv, t, n), k |-> Known(t).k, kC |-> knowC[t]], 0, log, last', regress')
      BY <1>9, <3>1, <3>2, <3>3, <3>4, TellsAll
    <3> QED  BY <1>3, <2>2, <3>1, <3>5
  <2> QED  BY <2>1, <2>2
<1>11. DOMAIN know' = Thread /\ DOMAIN knowC' = Thread /\ know'[t] = x.k /\ knowC'[t] = x.kC
  BY <1>1, <1>4 DEF ToldOK
<1>12. \A u \in Thread : u # t => know'[u] = know[u] /\ knowC'[u] = knowC[u]
  BY <1>1, <1>4 DEF ToldOK
<1>13. \A u \in Thread : Tells(Known(u)', u, log, last', regress')
  <2> SUFFICES ASSUME NEW u \in Thread PROVE Tells(Known(u)', u, log, last', regress')
    OBVIOUS
  <2>1. CASE u = t
    <3>1. Known(u)' = [cv |-> last'[t], k |-> x.k, kC |-> x.kC]
      BY <1>11, <2>1 DEF Known
    <3> QED  BY <1>6, <2>1, <3>1
  <2>2. CASE u # t
    <3>1. Known(u)' = Known(u)
      BY <1>6, <1>12, <2>2 DEF Known
    <3> QED  BY <1>9, <3>1
  <2> QED  BY <2>1, <2>2
<1>14. \A u \in Thread : knowC[u] \subseteq knowC'[u] /\ Mine(knowC'[u], u, log)
  <2> SUFFICES ASSUME NEW u \in Thread PROVE knowC[u] \subseteq knowC'[u] /\ Mine(knowC'[u], u, log)
    OBVIOUS
  <2>1. Mine(knowC[u], u, log)
    BY <1>1 DEF ToldOK
  <2>2. knowC[u] \subseteq knowC'[u]
    BY <1>11, <1>12 DEF Learns
  <2> QED  BY <2>1, <2>2 DEF Mine
<1>15. ToldOK'
  BY <1>4, <1>8, <1>10, <1>11, <1>13, <1>14 DEF ToldOK, Told
<1>16. BufferOK'
  <2>1. sb' \in [Thread -> Seq(Buffered)]
    <3> DEFINE none == << >>
    <3>1. none \in Seq(Buffered)
      OBVIOUS
    <3>2. sb' = [sb EXCEPT ![t] = none] /\ sb \in [Thread -> Seq(Buffered)]
      BY <1>1, <1>4 DEF BufferOK
    <3> HIDE DEF none
    <3> QED  BY <3>1, <3>2
  <2>2. ASSUME NEW u \in Thread, NEW i \in DOMAIN sb'[u]
        PROVE  Tells(sb'[u][i], u, log', last', regress') /\ sb'[u][i].kC \subseteq knowC'[u]
    <3>1. u # t /\ sb'[u] = sb[u]
      BY <1>1, <1>4, <2>2 DEF BufferOK
    <3>2. sb[u][i].kC \subseteq knowC[u]
      BY <1>1, <2>2, <3>1 DEF BufferOK
    <3> QED  BY <1>4, <1>9, <1>14, <2>2, <3>1, <3>2
  <2> QED  BY <2>1, <2>2 DEF BufferOK, Told
<1>17. ShadowOK' /\ RacesAreReal' /\ RacesAreFound'
  BY <1>4, QuietInv
<1> QED  BY <1>7, <1>15, <1>16, <1>17 DEF IInv

LEMMA FencesInv ==
  ASSUME IInv, NEW t \in Thread, MFence(t) \/ Lock(t) \/ Unlock(t)
  PROVE  IInv'
<1>1. TimeOK /\ ToldOK /\ ProgOK
  BY DEF IInv
<1>2. CASE MFence(t)
  <2>1. Does(t, At("mfence", 0, 0)) /\ Fence(t, Known(t)) /\ unlock' = unlock
    BY <1>2 DEF MFence
  <2>2. ProgOK'
    BY <1>1, <2>1, ProgNext
  <2>3. Learns(t, Known(t))
    BY <1>1, KnownLearns
  <2> QED  BY <2>1, <2>2, <2>3, FenceInv
<1>3. CASE Lock(t)
  <2>1. Does(t, At("lock", 0, 0)) /\ Fence(t, Unlocked(t)) /\ unlock' = unlock
    BY <1>3 DEF Lock, Unlocked
  <2>2. ProgOK'
    BY <1>1, <2>1, ProgNext
  <2>3. Learns(t, Unlocked(t))
    BY <1>1, UnlockedLearns
  <2> QED  BY <2>1, <2>2, <2>3, FenceInv
<1>4. CASE Unlock(t)
  <2>1. /\ Does(t, At("unlock", 0, 0)) /\ Fence(t, Known(t))
        /\ unlock' = [cv |-> setClock(last[t], t, used + Len(sb[t]) + 1), k |-> know[t], kC |-> knowC[t]]
    BY <1>4 DEF Unlock
  <2>2. ProgOK'
    BY <1>1, <2>1, ProgNext
  <2>3. Learns(t, Known(t))
    BY <1>1, KnownLearns
  <2> QED  BY <2>1, <2>2, <2>3, FenceInv
<1> QED  BY <1>2, <1>3, <1>4

\* An eviction leaves its thread with the clock vector of the store: its clock
\* goes on, and the vector covers what it did before unless it regressed.
LEMMA EvictInv ==
  ASSUME IInv, NEW t \in Thread, Evict(t)
  PROVE  IInv'
<1> DEFINE s == sb[t][1]
           c == setClock(s.cv, t, used + 1)
<1>1. TimeOK /\ ToldOK /\ BufferOK
  BY DEF IInv
<1>2. sb[t] \in Seq(Buffered) /\ sb[t] # << >>
  BY <1>1 DEF Evict, BufferOK
<1>3. Len(sb[t]) \in Nat /\ 1 =< Len(sb[t]) /\ s \in Buffered /\ 1 \in DOMAIN sb[t]
  BY <1>2
<1>4. used \in Nat /\ last \in [Thread -> Clock]
  BY <1>1 DEF TimeOK
<1>5. Tells(s, t, log, last, regress) /\ s.kC \subseteq knowC[t] /\ s.cv \in Clock
  BY <1>1, <1>3 DEF BufferOK, Told, Buffered
<1>6. c \in Clock /\ c[t] = used + 1 /\ \A u \in Thread : u # t => c[u] = s.cv[u]
  <2> DEFINE n == used + 1
  <2>1. n \in Nat
    BY <1>4
  <2> HIDE DEF n, s
  <2>2. setClock(s.cv, t, n) \in Clock /\ setClock(s.cv, t, n)[t] = n
        /\ \A u \in Thread : u # t => setClock(s.cv, t, n)[u] = s.cv[u]
    BY <1>5, <2>1 DEF setClock, Clock
  <2> QED  BY <2>2 DEF n
<1>7. Commit(t, 1)[1].cv = c
  <2> DEFINE kC == s.kC \cup Passed(t)
  <2>1. Commit(t, 1)[1] = [s EXCEPT !.cv = c, !.kC = kC]
    BY DEF Commit, Passed
  <2> HIDE DEF s, c, kC
  <2> QED  BY <1>3, <2>1 DEF Buffered
<1>8. /\ used' = used + 1 /\ last' = [last EXCEPT ![t] = c] /\ sb' = [sb EXCEPT ![t] = Tail(sb[t])]
      /\ mem' = Stored(Commit(t, 1))
      /\ regress' = (regress \/ \E u \in Thread : last[t][u] > c[u])
      /\ unlock' = unlock /\ shadow' = shadow /\ log' = log /\ know' = know /\ knowC' = knowC
      /\ latest' = latest /\ prog' = prog /\ pc' = pc
  BY <1>7 DEF Evict
<1> HIDE DEF c, s
<1>9. last' \in [Thread -> Clock] /\ last'[t] = c /\ \A u \in Thread : u # t => last'[u] = last[u]
  BY <1>4, <1>6, <1>8
<1>10. \A u \in Thread : last[u] \in Clock /\ last'[u] \in Clock /\ last[u][u] \in Nat /\ last'[u][u] \in Nat
  BY <1>4, <1>9 DEF Clock
<1>11. \A u \in Thread : last[u][u] =< last'[u][u] /\ last'[u][u] \in 1 .. used'
  <2> SUFFICES ASSUME NEW u \in Thread PROVE last[u][u] =< last'[u][u] /\ last'[u][u] \in 1 .. used'
    OBVIOUS
  <2>1. last[u][u] \in 1 .. used
    BY <1>1 DEF TimeOK
  <2>2. CASE u = t
    BY <1>4, <1>6, <1>8, <1>9, <2>1, <2>2
  <2>3. CASE u # t
    BY <1>4, <1>8, <1>9, <1>10, <2>1, <2>3
  <2> QED  BY <2>2, <2>3
<1>12. Later(last, regress, last', regress')
  BY <1>8, <1>10, <1>11 DEF Later
<1>13. TimeOK'
  <2>1. used' \in Nat
    BY <1>4, <1>8
  <2> QED  BY <1>1, <1>8, <1>9, <1>11, <1>12, <2>1, QuietTime
<1>14. /\ \A u \in Thread : Tells(Known(u), u, log, last', regress')
       /\ Tells(unlock, 0, log, last', regress')
       /\ \A u \in Thread : \A i \in DOMAIN sb[u] : Tells(sb[u][i], u, log, last', regress')
  BY <1>1, <1>12, LaterTold
<1>15. \A b \in Address : Tells(mem'[b], 0, log, last', regress')
  <2>1. PICK n \in Nat : n = 1
    OBVIOUS
  <2>2. used + n =< last'[t][t] /\ n =< Len(sb[t])
    BY <1>3, <1>4, <1>6, <1>9, <2>1
  <2>3. mem' = Stored(Commit(t, n))
    BY <1>8, <2>1
  <2> QED  BY <1>1, <1>12, <2>2, <2>3, StoredTold
<1>16. Tells([cv |-> c, k |-> know[t], kC |-> knowC[t]], t, log, last', regress')
  <2> DEFINE x == [cv |-> c, k |-> know[t], kC |-> knowC[t]]
  <2>1. log \in Seq(Entry) /\ \A i \in DOMAIN log : log[i].t \in Thread /\ log[i].clock \in Nat
    <3>1. log \in Seq(Entry)
      BY <1>1 DEF TimeOK
    <3>2. \A i \in DOMAIN log : log[i] \in Entry
      BY <3>1
    <3> QED  BY <3>1, <3>2 DEF Entry
  <2>2. /\ last[t] \in Clock /\ know[t] \subseteq DOMAIN log /\ knowC[t] \subseteq DOMAIN log
        /\ regress \/ \A i \in know[t] : log[i].t # t => Before(log[i], last[t])
    BY <1>1 DEF ToldOK, Told, Tells, Known
  <2>3. \A u \in Thread : c[u] =< last'[u][u]
    <3> SUFFICES ASSUME NEW u \in Thread PROVE c[u] =< last'[u][u]
      OBVIOUS
    <3>1. CASE u = t
      BY <1>4, <1>6, <1>9, <3>1
    <3>2. CASE u # t
      <4>1. c[u] = s.cv[u] /\ last'[u][u] = last[u][u]
        BY <1>6, <1>9, <3>2
      <4>2. s.cv[u] =< last[u][u]
        BY <1>5 DEF Tells
      <4> QED  BY <4>1, <4>2
    <3> QED  BY <3>1, <3>2
  <2>4. ASSUME ~regress', NEW i \in know[t], log[i].t # t PROVE Before(log[i], c)
    <3> DEFINE u == log[i].t
               n == log[i].clock
    <3>1. u \in Thread /\ n \in Nat
      BY <2>1, <2>2
    <3>2. n < last[t][u] \/ (n = last[t][u] /\ log[i].own /\ IsAtomic(log[i]))
      BY <1>8, <2>2, <2>4 DEF Before
    <3>3. last[t][u] \in Nat /\ c[u] \in Nat
      BY <1>6, <2>2, <3>1 DEF Clock
    <3>4. last[t][u] =< c[u]
      <4>1. \A v \in Thread : ~(last[t][v] > c[v])
        BY <1>8, <2>4
      <4> HIDE DEF u
      <4> QED  BY <3>1, <3>3, <4>1
    <3> HIDE DEF u, n
    <3>5. CASE n < last[t][u]
      <4>1. n < c[u]
        BY <3>1, <3>3, <3>4, <3>5
      <4> QED  BY <4>1 DEF Before, u, n
    <3>6. CASE n = last[t][u] /\ log[i].own /\ IsAtomic(log[i])
      <4>1. n < c[u] \/ n = c[u]
        BY <3>1, <3>3, <3>4, <3>6
      <4> QED  BY <3>6, <4>1 DEF Before, u, n
    <3> QED  BY <3>2, <3>5, <3>6
  <2>5. ASSUME NEW i \in DOMAIN log, log[i].t # t, log[i].clock < c[log[i].t]
        PROVE  {i} \cup log[i].over \subseteq knowC[t]
    <3>1. c[log[i].t] = s.cv[log[i].t]
      BY <1>6, <2>1, <2>5
    <3>2. {i} \cup log[i].over \subseteq s.kC
      BY <1>5, <2>5, <3>1 DEF Tells
    <3> QED  BY <1>5, <3>2
  <2>6. x.cv = c /\ x.k = know[t] /\ x.kC = knowC[t]
    OBVIOUS
  <2> HIDE DEF x
  <2>7. Tells(x, t, log, last', regress')
    BY <1>6, <2>2, <2>3, <2>4, <2>5, <2>6 DEF Tells
  <2> QED  BY <2>7 DEF x
<1>17. ToldOK'
  <2>1. \A u \in Thread : Tells(Known(u)', u, log, last', regress')
    <3> SUFFICES ASSUME NEW u \in Thread PROVE Tells(Known(u)', u, log, last', regress')
      OBVIOUS
    <3>1. CASE u = t
      <4>1. Known(u)' = [cv |-> c, k |-> know[t], kC |-> knowC[t]]
        BY <1>8, <1>9, <3>1 DEF Known
      <4> QED  BY <1>16, <3>1, <4>1
    <3>2. CASE u # t
      <4>1. Known(u)' = Known(u)
        BY <1>8, <1>9, <3>2 DEF Known
      <4> QED  BY <1>14, <4>1
    <3> QED  BY <3>1, <3>2
  <2>2. DOMAIN know = Thread /\ DOMAIN knowC = Thread /\ \A u \in Thread : Mine(knowC[u], u, log)
    BY <1>1 DEF ToldOK
  <2> QED  BY <1>8, <1>14, <1>15, <2>1, <2>2 DEF ToldOK, Told
<1>18. BufferOK'
  <2> DEFINE rest == Tail(sb[t])
  <2>1. rest \in Seq(Buffered) /\ \A i \in DOMAIN rest : i + 1 \in DOMAIN sb[t] /\ rest[i] = sb[t][i + 1]
    BY <1>2
  <2>2. sb' = [sb EXCEPT ![t] = rest] /\ sb \in [Thread -> Seq(Buffered)]
    BY <1>1, <1>8 DEF BufferOK
  <2> HIDE DEF rest
  <2>3. sb' \in [Thread -> Seq(Buffered)] /\ sb'[t] = rest /\ \A u \in Thread : u # t => sb'[u] = sb[u]
    BY <2>1, <2>2
  <2>4. \A u \in Thread : \A i \in DOMAIN sb[u] : sb[u][i].kC \subseteq knowC[u]
    BY <1>1 DEF BufferOK
  <2>5. ASSUME NEW u \in Thread, NEW i \in DOMAIN sb'[u]
        PROVE  Tells(sb'[u][i], u, log, last', regress') /\ sb'[u][i].kC \subseteq knowC[u]
    <3>1. CASE u = t
      <4>1. i \in DOMAIN rest /\ sb'[u][i] = rest[i]
        BY <2>3, <2>5, <3>1
      <4>2. i + 1 \in DOMAIN sb[t] /\ sb'[u][i] = sb[t][i + 1]
        BY <2>1, <4>1
      <4> QED  BY <1>14, <2>4, <3>1, <4>2
    <3>2. CASE u # t
      BY <1>14, <2>3, <2>4, <2>5, <3>2
    <3> QED  BY <3>1, <3>2
  <2> QED  BY <1>8, <2>3, <2>5 DEF BufferOK, Told
<1>19. ShadowOK' /\ RacesAreReal' /\ RacesAreFound'
  BY <1>8, QuietInv
<1>20. ProgOK'
  BY <1>8 DEF IInv, ProgOK
<1> QED  BY <1>13, <1>17, <1>18, <1>19, <1>20 DEF IInv

-------------------------------------------------------------------------------
(* The start of an execution, and the steps together.                      *)

Fresh ==
  /\ prog \in Program \cup Recovery /\ pc = [t \in Thread |-> 1]
  /\ used = 2 * N - 1 /\ last = [t \in Thread |-> StartClock(t)]
  /\ sb = [t \in Thread |-> << >>] /\ mem = [b \in Address |-> NoSync] /\ unlock = NoSync
  /\ shadow = [b \in Address |-> EmptyShadow] /\ log = << >>
  /\ know = [t \in Thread |-> {}] /\ knowC = [t \in Thread |-> {}]
  /\ regress = FALSE /\ latest = NoAccess

LEMMA StartClockIs ==
  ASSUME NEW t \in Thread
  PROVE  /\ StartClock(t) \in Clock /\ StartClock(t)[t] \in 1 .. (2 * N - 1)
         /\ \A u \in Thread : StartClock(t)[u] =< StartClock(u)[u]
<1>1. \A v \in Thread : StartClock(v)[v] = IF v = 1 THEN N ELSE N + v - 1
  BY DEF StartClock
<1>2. ASSUME NEW u \in Thread
      PROVE  StartClock(t)[u] \in Nat /\ StartClock(t)[u] =< StartClock(u)[u]
  <2>1. CASE u = t
    BY <1>1, <2>1
  <2>2. CASE u # t
    <3>1. StartClock(t)[u] = IF u = 1 /\ t > 1 THEN t ELSE 0
      BY <2>2 DEF StartClock
    <3>2. t =< N /\ 1 =< u
      OBVIOUS
    <3> QED  BY <1>1, <3>1, <3>2
  <2> QED  BY <2>1, <2>2
<1>3. StartClock(t) \in Clock
  <2>1. DOMAIN StartClock(t) = Thread /\ StartClock(t) = [u \in Thread |-> StartClock(t)[u]]
    BY DEF StartClock
  <2> QED  BY <1>2, <2>1 DEF Clock
<1>4. StartClock(t)[t] \in 1 .. (2 * N - 1)
  BY <1>1
<1> QED  BY <1>2, <1>3, <1>4

\* Nothing is told when there are no accesses.
LEMMA NothingTold ==
  ASSUME NEW s, NEW own, NEW la, NEW rg, s.cv \in Clock, s.k = {}, s.kC = {},
         \A u \in Thread : s.cv[u] =< la[u][u]
  PROVE  Tells(s, own, << >>, la, rg)
BY DEF Tells

LEMMA FreshInv == Fresh => IInv
<1> SUFFICES ASSUME Fresh PROVE IInv
  OBVIOUS
<1>1. used = 2 * N - 1 /\ \A t \in Thread : last[t] = StartClock(t)
  BY DEF Fresh
<1>2. /\ \A t \in Thread : last[t] \in Clock /\ last[t][t] \in 1 .. used
      /\ \A t, u \in Thread : last[t][u] =< last[u][u]
  BY <1>1, StartClockIs
<1>3. log = << >> /\ log \in Seq(Entry) /\ DOMAIN log = {}
  BY DEF Fresh
<1>4. TimeOK
  <2>1. last \in [Thread -> Clock]
    BY <1>2 DEF Fresh
  <2>2. used \in Nat
    BY <1>1
  <2> QED  BY <1>2, <1>3, <2>1, <2>2 DEF TimeOK
<1>5. \A t \in Thread : know[t] = {} /\ knowC[t] = {}
  BY DEF Fresh
<1>6. \A t \in Thread : Told(Known(t), t) /\ Mine(knowC[t], t, log)
  <2> SUFFICES ASSUME NEW t \in Thread PROVE Told(Known(t), t) /\ Mine(knowC[t], t, log)
    OBVIOUS
  <2>1. Known(t).cv = last[t] /\ Known(t).k = {} /\ Known(t).kC = {}
    BY <1>5 DEF Known
  <2>2. Tells(Known(t), t, << >>, last, regress)
    BY <1>2, <2>1, NothingTold
  <2> QED  BY <1>3, <2>2 DEF Told, Mine
<1>7. Told(NoSync, 0)
  <2>1. NoSync.cv \in Clock /\ NoSync.k = {} /\ NoSync.kC = {} /\ \A u \in Thread : NoSync.cv[u] = 0
    BY DEF NoSync, Clock
  <2>2. \A u \in Thread : 0 =< last[u][u]
    BY <1>2 DEF Clock
  <2>3. Tells(NoSync, 0, << >>, last, regress)
    BY <2>1, <2>2, NothingTold
  <2> QED  BY <1>3, <2>3 DEF Told
<1>8. ToldOK
  <2>1. /\ DOMAIN know = Thread /\ DOMAIN knowC = Thread /\ unlock = NoSync
        /\ \A b \in Address : mem[b] = NoSync
    BY DEF Fresh
  <2> QED  BY <1>6, <1>7, <2>1 DEF ToldOK
<1>9. BufferOK
  <2> DEFINE none == << >>
  <2>1. none \in Seq(Buffered) /\ DOMAIN none = {}
    OBVIOUS
  <2>2. sb = [t \in Thread |-> none]
    BY DEF Fresh
  <2> HIDE DEF none
  <2>3. sb \in [Thread -> Seq(Buffered)] /\ \A t \in Thread : DOMAIN sb[t] = {}
    BY <2>1, <2>2
  <2> QED  BY <2>3 DEF BufferOK
<1>10. ShadowOK
  <2>1. DOMAIN shadow = Address /\ \A b \in Address : shadow[b] = EmptyShadow
    BY DEF Fresh
  <2>2. EmptyShadow \in Word /\ EmptyShadow.reads = << >> /\ EmptyShadow.wc = 0 /\ EmptyShadow.isAtomic = FALSE
    <3>1. EmptyShadow \in WordFields /\ Len(EmptyShadow.reads) = 0
      <4> DEFINE none == << >>
      <4>1. none \in Seq(ReadRecord) /\ Len(none) = 0
        OBVIOUS
      <4>2. EmptyShadow = [kind |-> "none", reads |-> none, cap |-> 0, wt |-> 0, wc |-> 0, isAtomic |-> FALSE]
        BY DEF EmptyShadow
      <4> HIDE DEF none
      <4>3. 0 \in 0 .. N
        OBVIOUS
      <4> QED  BY <4>1, <4>2, <4>3 DEF WordFields
    <3> QED  BY <3>1 DEF Word, EmptyShadow
  <2>3. \A b \in Address : WordOK(EmptyShadow, b, log)
    BY <1>3, <2>2 DEF WordOK, WritesTo
  <2> QED  BY <2>1, <2>3 DEF ShadowOK
<1>11. RacesAreReal /\ RacesAreFound
  BY DEF Fresh, NoAccess, RacesAreReal, RacesAreFound
<1>12. ProgOK
  BY DEF Fresh, ProgOK
<1> QED  BY <1>4, <1>8, <1>9, <1>10, <1>11, <1>12 DEF IInv

LEMMA InitInv == Init => IInv
<1>1. Init => Fresh
  BY DEF Init, Fresh
<1> QED  BY <1>1, FreshInv

LEMMA CrashInv == Crash => IInv'
<1>1. Crash => Fresh'
  BY DEF Crash, Fresh, resetRaceDetector
<1>2. Fresh => IInv
  BY FreshInv
<1> QED  BY <1>1, <1>2, PTL

LEMMA StepInv == IInv /\ [Next]_vars => IInv'
<1>1. IInv /\ UNCHANGED vars => IInv'
  <2> SUFFICES ASSUME IInv, UNCHANGED vars PROVE IInv'
    OBVIOUS
  <2>1. /\ shadow' = shadow /\ log' = log /\ latest' = latest /\ regress' = regress
        /\ used' = used /\ last' = last /\ sb' = sb /\ mem' = mem /\ unlock' = unlock
        /\ know' = know /\ knowC' = knowC /\ prog' = prog /\ pc' = pc
    BY DEF vars
  <2>2. ShadowOK' /\ RacesAreReal' /\ RacesAreFound'
    BY <2>1, QuietInv
  <2>3. ProgOK' /\ TimeOK' /\ ToldOK' /\ BufferOK'
    BY <2>1 DEF IInv, ProgOK, TimeOK, ToldOK, BufferOK, Told, Known
  <2> QED  BY <2>2, <2>3 DEF IInv
<1>2. ASSUME IInv, NEW t \in Thread, NEW b \in Address, NEW n \in Size, Store(t, b, n) \/ Load(t, b, n)
      PROVE  IInv'
  BY <1>2, StoreInv, LoadInv
<1>3. ASSUME IInv, NEW t \in Thread, NEW b \in Address,
             AtomicStore(t, b) \/ AtomicLoad(t, b) \/ SeqCstStore(t, b) \/ RMW(t, b) \/ CASFail(t, b)
      PROVE  IInv'
  BY <1>3, AtomicStoreInv, AtomicLoadInv, SeqCstStoreInv, RMWInv, CASFailInv
<1>4. ASSUME IInv, NEW t \in Thread, MFence(t) \/ Lock(t) \/ Unlock(t) \/ Evict(t)
      PROVE  IInv'
  BY <1>4, FencesInv, EvictInv
<1> QED  BY <1>1, <1>2, <1>3, <1>4, CrashInv DEF Next

LEMMA Invariant == Spec => []IInv
BY InitInv, StepInv, PTL DEF Spec

\* Every race the detector reports is one, for any programs, page size, capacity
\* of a RaceRecord, width of a short shadow word and store buffer threshold: the
\* access it names conflicts with the latest one, which does not come after it,
\* unless an eviction has put back a clock vector or the access it names is an
\* atomic operation whose own sequence number is all that is known of it.
THEOREM RacesReal == Spec => []RacesAreReal
<1>1. IInv => RacesAreReal
  BY DEF IInv
<1> QED  BY <1>1, Invariant, PTL

\* The detector misses no race that clock vectors can tell: if the latest access
\* conflicts with the last write to a byte or with a read since that it is
\* compared with, and does not come after it, some race is reported.
THEOREM RacesFound == Spec => []RacesAreFound
<1>1. IInv => RacesAreFound
  BY DEF IInv
<1> QED  BY <1>1, Invariant, PTL

\* The checks of two to eight bytes, which overwrite the shadow words after the
\* first that held the same short word, leave what the checks of the single
\* bytes would leave.
THEOREM SizedCorrect == Spec => []SizedAsBytes
<1>1. IInv => SizedAsBytes
  <2> SUFFICES ASSUME IInv PROVE SizedAsBytes
    OBVIOUS
  <2>1. DOMAIN shadow = Address /\ \A a \in Address : shadow[a] \in Word
    BY DEF IInv, ShadowOK, WordOK
  <2>2. \A t \in Thread : last[t] \in Clock
    BY DEF IInv, TimeOK
  <2> QED  BY <2>1, <2>2, SizedHolds
<1> QED  BY <1>1, Invariant, PTL
===============================================================================
