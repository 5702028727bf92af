-------------------------- MODULE Containers_proofs --------------------------
(***************************************************************************)
(* Theorems about what lies below the checker: that lists and vectors      *)
(* spell their sequences (Collections), for any number of nodes, items and *)
(* cells, that copies, fills and flushes do what is asked for (PmemCopy),  *)
(* for memory, lines, ranges and alignments of any size, that files keep   *)
(* their memory across crashes (PersistentMemory), for any number of       *)
(* paths, threads and blocks, and that a hash table answers as a           *)
(* dictionary does (Collections), for any keys, hashes and capacities.     *)
(***************************************************************************)
EXTENDS Collections, PmemCopy, PersistentMemory, SequencesExt, SequenceTheorems, FiniteSetTheorems,
        NaturalsInduction, WellFoundedInduction, TLAPS

-------------------------------------------------------------------------------
(* Sequences.                                                              *)

\* r is s with t put in at place k, and without what is at place k.
IsInserted(r, s, k, t) ==
  /\ Len(r) = Len(s) + 1 /\ r[k] = t
  /\ \A i \in 1 .. (k - 1) : r[i] = s[i]
  /\ \A i \in k .. Len(s) : r[i + 1] = s[i]
IsRemoved(r, s, k) ==
  /\ Len(r) = Len(s) - 1
  /\ \A i \in 1 .. (k - 1) : r[i] = s[i]
  /\ \A i \in k .. (Len(s) - 1) : r[i] = s[i + 1]

LEMMA PartIs ==
  ASSUME NEW S, NEW s \in Seq(S), NEW j \in Nat, NEW k \in Nat, j > 0, k =< Len(s), j =< k + 1
  PROVE  /\ SubSeq(s, j, k) \in Seq(S)
         /\ Len(SubSeq(s, j, k)) = k - j + 1
         /\ \A i \in 1 .. (k - j + 1) : SubSeq(s, j, k)[i] = s[j + i - 1]
OBVIOUS

LEMMA JoinedIs ==
  ASSUME NEW S, NEW s \in Seq(S), NEW t \in Seq(S)
  PROVE  /\ s \o t \in Seq(S)
         /\ Len(s \o t) = Len(s) + Len(t)
         /\ \A i \in 1 .. Len(s) : (s \o t)[i] = s[i]
         /\ \A i \in 1 .. Len(t) : (s \o t)[Len(s) + i] = t[i]
OBVIOUS

LEMMA InsertedIs ==
  ASSUME NEW S, NEW s \in Seq(S), NEW t \in S, NEW k \in Nat, k > 0, k =< Len(s) + 1
  PROVE  InsertAt(s, k, t) \in Seq(S) /\ IsInserted(InsertAt(s, k, t), s, k, t)
<1>1. Len(s) \in Nat /\ k - 1 \in Nat /\ k - 1 =< Len(s) /\ 1 \in Nat
  OBVIOUS
<1> DEFINE a == SubSeq(s, 1, k - 1)
           b == SubSeq(s, k, Len(s))
           e == <<t>>
           c == a \o e
           r == c \o b
<1>2. a \in Seq(S) /\ Len(a) = k - 1 /\ \A i \in 1 .. (k - 1) : a[i] = s[i]
  BY <1>1
<1>3. b \in Seq(S) /\ Len(b) = Len(s) - k + 1 /\ \A i \in 1 .. (Len(s) - k + 1) : b[i] = s[k + i - 1]
  BY <1>1
<1>4. e \in Seq(S) /\ Len(e) = 1 /\ e[1] = t
  <2>1. e = [i \in 1 .. 1 |-> t]
    OBVIOUS
  <2> QED  BY <2>1
<1>5. r = InsertAt(s, k, t)
  BY Zenon DEF InsertAt
<1> HIDE DEF a, b, e
<1>6. c \in Seq(S) /\ Len(c) = k /\ c[k] = t /\ \A i \in 1 .. (k - 1) : c[i] = s[i]
  <2>1. /\ c \in Seq(S) /\ Len(c) = Len(a) + Len(e)
        /\ \A i \in 1 .. Len(a) : c[i] = a[i]
        /\ \A i \in 1 .. Len(e) : c[Len(a) + i] = e[i]
    <3>1. a \in Seq(S) /\ e \in Seq(S)
      BY <1>2, <1>4
    <3> QED  BY <3>1, JoinedIs
  <2> HIDE DEF c
  <2>2. 1 \in 1 .. Len(e) /\ Len(a) + 1 = k
    BY <1>1, <1>2, <1>4
  <2>3. c[k] = t
    BY <1>4, <2>1, <2>2
  <2> QED  BY <1>1, <1>2, <1>4, <2>1, <2>3
<1> HIDE DEF c
<1>7. /\ r \in Seq(S) /\ Len(r) = Len(s) + 1 /\ r[k] = t
      /\ \A i \in 1 .. (k - 1) : r[i] = s[i]
      /\ \A i \in 1 .. (Len(s) - k + 1) : r[k + i] = s[k + i - 1]
  <2>1. /\ r \in Seq(S) /\ Len(r) = Len(c) + Len(b)
        /\ \A i \in 1 .. Len(c) : r[i] = c[i]
        /\ \A i \in 1 .. Len(b) : r[Len(c) + i] = b[i]
    BY <1>3, <1>6, JoinedIs
  <2> HIDE DEF r
  <2>2. k \in 1 .. Len(c) /\ \A i \in 1 .. (k - 1) : i \in 1 .. Len(c)
    BY <1>1, <1>6
  <2>3. Len(r) = Len(s) + 1 /\ r[k] = t /\ \A i \in 1 .. (k - 1) : r[i] = s[i]
    <3>1. Len(r) = Len(s) + 1
      BY <1>1, <1>3, <1>6, <2>1
    <3>2. r[k] = t
      BY <1>6, <2>1, <2>2, Zenon
    <3>3. \A i \in 1 .. (k - 1) : r[i] = s[i]
      BY <1>6, <2>1, <2>2, Zenon
    <3> QED  BY <3>1, <3>2, <3>3
  <2> QED  BY <1>3, <1>6, <2>1, <2>3
<1> HIDE DEF r
<1>8. ASSUME NEW i \in k .. Len(s)  PROVE r[i + 1] = s[i]
  <2>1. i - k + 1 \in 1 .. (Len(s) - k + 1) /\ k + (i - k + 1) = i + 1 /\ k + (i - k + 1) - 1 = i
    BY <1>1
  <2>2. r[k + (i - k + 1)] = s[k + (i - k + 1) - 1]
    BY <1>7, <2>1
  <2> QED  BY <2>1, <2>2
<1>9. IsInserted(r, s, k, t)
  BY <1>7, <1>8 DEF IsInserted
<1> QED  BY <1>5, <1>7, <1>9

LEMMA RemovedIs ==
  ASSUME NEW S, NEW s \in Seq(S), NEW k \in Nat, k > 0, k =< Len(s)
  PROVE  RemoveAt(s, k) \in Seq(S) /\ IsRemoved(RemoveAt(s, k), s, k)
<1>1. Len(s) \in Nat /\ k - 1 \in Nat /\ k - 1 =< Len(s) /\ k + 1 \in Nat /\ 1 \in Nat
  OBVIOUS
<1> DEFINE a == SubSeq(s, 1, k - 1)
           b == SubSeq(s, k + 1, Len(s))
           r == a \o b
<1>2. a \in Seq(S) /\ Len(a) = k - 1 /\ \A i \in 1 .. (k - 1) : a[i] = s[i]
  BY <1>1
<1>3. b \in Seq(S) /\ Len(b) = Len(s) - k /\ \A i \in 1 .. (Len(s) - k) : b[i] = s[k + i]
  BY <1>1
<1>4. r = RemoveAt(s, k)
  BY Zenon DEF RemoveAt
<1> HIDE DEF a, b
<1>5. /\ r \in Seq(S) /\ Len(r) = Len(s) - 1
      /\ \A i \in 1 .. (k - 1) : r[i] = s[i]
      /\ \A i \in 1 .. (Len(s) - k) : r[k - 1 + i] = s[k + i]
  <2>1. /\ r \in Seq(S) /\ Len(r) = Len(a) + Len(b)
        /\ \A i \in 1 .. Len(a) : r[i] = a[i]
        /\ \A i \in 1 .. Len(b) : r[Len(a) + i] = b[i]
    <3>1. a \in Seq(S) /\ b \in Seq(S)
      BY <1>2, <1>3
    <3> QED  BY <3>1, JoinedIs
  <2> HIDE DEF r
  <2> QED  BY <1>1, <1>2, <1>3, <2>1
<1> HIDE DEF r
<1>6. ASSUME NEW i \in k .. (Len(s) - 1)  PROVE r[i] = s[i + 1]
  <2>1. i - k + 1 \in 1 .. (Len(s) - k) /\ k - 1 + (i - k + 1) = i /\ k + (i - k + 1) = i + 1
    BY <1>1
  <2>2. r[k - 1 + (i - k + 1)] = s[k + (i - k + 1)]
    BY <1>5, <2>1
  <2> QED  BY <2>1, <2>2
<1>7. IsRemoved(r, s, k)
  BY <1>5, <1>6 DEF IsRemoved
<1> QED  BY <1>4, <1>5, <1>7
-------------------------------------------------------------------------------
(* Lists.                                                                  *)

\* Nodes, head and tail are linked as the sequence s says.
IsList(nx, pv, h, tl, s) ==
  /\ s \in Seq(ListNodes) /\ \A i, j \in 1 .. Len(s) : s[i] = s[j] => i = j
  /\ DOMAIN pv = DOMAIN nx
  /\ \A i \in 1 .. Len(s) : s[i] \in DOMAIN nx
  /\ \A m \in DOMAIN nx : \E i \in 1 .. Len(s) : s[i] = m
  /\ \A i \in 1 .. Len(s) : /\ nx[s[i]] = IF i < Len(s) THEN s[i + 1] ELSE 0
                            /\ pv[s[i]] = IF i > 1 THEN s[i - 1] ELSE 0
  /\ h = IF Len(s) = 0 THEN 0 ELSE s[1]
  /\ tl = IF Len(s) = 0 THEN 0 ELSE s[Len(s)]

ListInv == IsList(lNext, lPrev, lHead, lTail, lOrder) /\ lSize = Len(lOrder)

LEMMA LinkedIs ==
  ASSUME IsList(lNext, lPrev, lHead, lTail, lOrder),
         NEW t \in ListNodes, t \notin DOMAIN lNext,
         NEW k \in Nat, k > 0, k =< Len(lOrder) + 1,
         NEW p, p = IF k > 1 THEN lOrder[k - 1] ELSE 0,
         NEW n, n = IF k =< Len(lOrder) THEN lOrder[k] ELSE 0,
         lOrder' \in Seq(ListNodes), IsInserted(lOrder', lOrder, k, t),
         lNext' = [m \in DOMAIN lNext \cup {t} |-> IF m = t THEN n ELSE IF m = p THEN t ELSE lNext[m]],
         lPrev' = [m \in DOMAIN lPrev \cup {t} |-> IF m = t THEN p ELSE IF m = n THEN t ELSE lPrev[m]],
         lHead' = IF k = 1 THEN t ELSE lHead,
         lTail' = IF k = Len(lOrder) + 1 THEN t ELSE lTail
  PROVE  IsList(lNext', lPrev', lHead', lTail', lOrder')
<1> DEFINE Old(i) == IF i < k THEN i ELSE i - 1
<1>1. Len(lOrder) \in Nat /\ Len(lOrder') = Len(lOrder) + 1 /\ lOrder'[k] = t /\ 0 \notin ListNodes
  BY CollectionsAssumption DEF IsList, IsInserted
<1>2. ASSUME NEW i \in 1 .. Len(lOrder'), i # k
      PROVE  Old(i) \in 1 .. Len(lOrder) /\ lOrder'[i] = lOrder[Old(i)] /\ lOrder[Old(i)] \in DOMAIN lNext /\ lOrder'[i] # t
  <2>1. CASE i < k
    BY <1>1, <1>2, <2>1 DEF IsInserted, IsList
  <2>2. CASE i > k
    <3>1. i - 1 \in k .. Len(lOrder) /\ (i - 1) + 1 = i
      BY <1>1, <2>2
    <3>2. lOrder'[i] = lOrder[i - 1]
      BY <3>1 DEF IsInserted
    <3>3. i - 1 \in 1 .. Len(lOrder) /\ Old(i) = i - 1
      BY <1>1, <2>2, <3>1
    <3>4. lOrder[i - 1] \in DOMAIN lNext
      BY <3>3 DEF IsList
    <3> QED  BY <3>2, <3>3, <3>4
  <2>3. i < k \/ i > k
    BY <1>1, <1>2
  <2> QED  BY <2>1, <2>2, <2>3, Zenon
<1>3. ASSUME NEW i \in 1 .. Len(lOrder'), NEW j \in 1 .. Len(lOrder'), lOrder'[i] = lOrder'[j]
      PROVE  i = j
  <2>1. CASE i = k \/ j = k
    BY <1>1, <1>2, <1>3, <2>1
  <2>2. CASE i # k /\ j # k
    <3>1. Old(i) = Old(j)
      <4>1. /\ Old(i) \in 1 .. Len(lOrder) /\ lOrder'[i] = lOrder[Old(i)]
            /\ Old(j) \in 1 .. Len(lOrder) /\ lOrder'[j] = lOrder[Old(j)]
        BY <1>2, <2>2
      <4> HIDE DEF Old
      <4> QED  BY <1>3, <4>1 DEF IsList
    <3> QED  BY <1>1, <2>2, <3>1
  <2> QED  BY <2>1, <2>2
<1>4. DOMAIN lNext' = DOMAIN lNext \cup {t} /\ DOMAIN lPrev' = DOMAIN lNext'
  BY DEF IsList
<1>5. \A i \in 1 .. Len(lOrder') : lOrder'[i] \in DOMAIN lNext'
  BY <1>1, <1>2, <1>4
<1>6. ASSUME NEW m \in DOMAIN lNext'
      PROVE  \E i \in 1 .. Len(lOrder') : lOrder'[i] = m
  <2>1. CASE m = t
    BY <1>1, <2>1
  <2>2. CASE m # t
    <3>1. PICK i \in 1 .. Len(lOrder) : lOrder[i] = m
      BY <1>4, <2>2 DEF IsList
    <3>2. CASE i < k
      BY <1>1, <3>1, <3>2 DEF IsInserted
    <3>3. CASE i >= k
      <4>1. i \in k .. Len(lOrder) /\ i + 1 \in 1 .. Len(lOrder')
        BY <1>1, <3>3
      <4> QED  BY <3>1, <4>1 DEF IsInserted
    <3> QED  BY <3>2, <3>3
  <2> QED  BY <2>1, <2>2
<1>7. ASSUME NEW i \in 1 .. Len(lOrder')
      PROVE  /\ lNext'[lOrder'[i]] = IF i < Len(lOrder') THEN lOrder'[i + 1] ELSE 0
             /\ lPrev'[lOrder'[i]] = IF i > 1 THEN lOrder'[i - 1] ELSE 0
  <2>1. CASE i = k
    <3>1. lNext'[t] = n /\ lPrev'[t] = p
      BY <1>4 DEF IsList
    <3>2. i < Len(lOrder') => lOrder'[i + 1] = lOrder[i]
      <4>1. i < Len(lOrder') => i \in k .. Len(lOrder)
        BY <1>1, <2>1
      <4> QED  BY <4>1 DEF IsInserted
    <3>3. i > 1 => lOrder'[i - 1] = lOrder[i - 1]
      <4>1. i > 1 => i - 1 \in 1 .. (k - 1)
        BY <1>1, <2>1
      <4> QED  BY <4>1 DEF IsInserted
    <3> QED  BY <1>1, <2>1, <3>1, <3>2, <3>3
  <2>2. CASE i # k
    <3>1. Old(i) \in 1 .. Len(lOrder) /\ lOrder'[i] = lOrder[Old(i)] /\ lOrder[Old(i)] \in DOMAIN lNext /\ lOrder'[i] # t
      BY <1>2, <2>2
    <3>2. p = lOrder[Old(i)] <=> i = k - 1
      <4>1. CASE k > 1
        <5>1. k - 1 \in 1 .. Len(lOrder) /\ p = lOrder[k - 1]
          BY <1>1, <4>1
        <5>2. lOrder[k - 1] = lOrder[Old(i)] <=> Old(i) = k - 1
          BY <5>1, <3>1 DEF IsList
        <5> QED  BY <1>1, <2>2, <5>1, <5>2
      <4>2. CASE k = 1
        BY <1>1, <3>1, <4>2 DEF IsList
      <4> QED  BY <4>1, <4>2
    <3>3. n = lOrder[Old(i)] <=> i = k + 1
      <4>1. CASE k =< Len(lOrder)
        <5>1. k \in 1 .. Len(lOrder) /\ n = lOrder[k]
          BY <1>1, <4>1
        <5>2. lOrder[k] = lOrder[Old(i)] <=> Old(i) = k
          BY <5>1, <3>1 DEF IsList
        <5> QED  BY <1>1, <2>2, <5>1, <5>2
      <4>2. CASE k = Len(lOrder) + 1
        BY <1>1, <3>1, <4>2 DEF IsList
      <4> QED  BY <1>1, <4>1, <4>2
    <3>4. /\ lNext'[lOrder'[i]] = IF i = k - 1 THEN t ELSE lNext[lOrder[Old(i)]]
          /\ lPrev'[lOrder'[i]] = IF i = k + 1 THEN t ELSE lPrev[lOrder[Old(i)]]
      BY <1>4, <3>1, <3>2, <3>3 DEF IsList
    <3>5. /\ lNext[lOrder[Old(i)]] = IF Old(i) < Len(lOrder) THEN lOrder[Old(i) + 1] ELSE 0
          /\ lPrev[lOrder[Old(i)]] = IF Old(i) > 1 THEN lOrder[Old(i) - 1] ELSE 0
      BY <3>1 DEF IsList
    <3>6. i < Len(lOrder') /\ i # k - 1 => Old(i) < Len(lOrder) /\ lOrder'[i + 1] = lOrder[Old(i) + 1]
      <4>1. ASSUME i < Len(lOrder'), i # k - 1
            PROVE  Old(i) < Len(lOrder) /\ i + 1 \in 1 .. Len(lOrder') /\ i + 1 # k /\ Old(i + 1) = Old(i) + 1
        BY <1>1, <2>2, <4>1
      <4>2. ASSUME i < Len(lOrder'), i # k - 1  PROVE lOrder'[i + 1] = lOrder[Old(i + 1)]
        BY <4>1, <4>2, <1>2
      <4> HIDE DEF Old
      <4> QED  BY <4>1, <4>2
    <3>7. i > 1 /\ i # k + 1 => Old(i) > 1 /\ lOrder'[i - 1] = lOrder[Old(i) - 1]
      <4>1. ASSUME i > 1, i # k + 1
            PROVE  Old(i) > 1 /\ i - 1 \in 1 .. Len(lOrder') /\ i - 1 # k /\ Old(i - 1) = Old(i) - 1
        BY <1>1, <2>2, <4>1
      <4>2. ASSUME i > 1, i # k + 1  PROVE lOrder'[i - 1] = lOrder[Old(i - 1)]
        BY <4>1, <4>2, <1>2
      <4> HIDE DEF Old
      <4> QED  BY <4>1, <4>2
    <3>8. /\ i = Len(lOrder') => Old(i) = Len(lOrder) /\ i # k - 1
          /\ i = 1 => Old(i) = 1 /\ i # k + 1
      BY <1>1, <2>2
    <3>9. lNext'[lOrder'[i]] = IF i < Len(lOrder') THEN lOrder'[i + 1] ELSE 0
      BY <1>1, <3>4, <3>5, <3>6, <3>8
    <3>10. lPrev'[lOrder'[i]] = IF i > 1 THEN lOrder'[i - 1] ELSE 0
      BY <1>1, <3>4, <3>5, <3>7, <3>8
    <3> QED  BY <3>9, <3>10
  <2> QED  BY <2>1, <2>2
<1>8. lHead' = IF Len(lOrder') = 0 THEN 0 ELSE lOrder'[1]
  BY <1>1 DEF IsList, IsInserted
<1>9. lTail' = IF Len(lOrder') = 0 THEN 0 ELSE lOrder'[Len(lOrder')]
  <2>1. CASE k = Len(lOrder) + 1
    BY <1>1, <2>1
  <2>2. CASE k =< Len(lOrder)
    <3>1. Len(lOrder) \in k .. Len(lOrder)
      BY <1>1, <2>2
    <3>2. lOrder'[Len(lOrder) + 1] = lOrder[Len(lOrder)]
      BY <3>1 DEF IsInserted
    <3> QED  BY <1>1, <2>2, <3>2 DEF IsList
  <2> QED  BY <1>1, <2>1, <2>2
<1> QED  BY <1>3, <1>4, <1>5, <1>6, <1>7, <1>8, <1>9 DEF IsList

LEMMA UnlinkedIs ==
  ASSUME IsList(lNext, lPrev, lHead, lTail, lOrder),
         NEW k \in Nat, k > 0, k =< Len(lOrder), NEW t, t = lOrder[k],
         lOrder' \in Seq(ListNodes), IsRemoved(lOrder', lOrder, k),
         lNext' = [m \in DOMAIN lNext \ {t} |-> IF m = lPrev[t] THEN lNext[t] ELSE lNext[m]],
         lPrev' = [m \in DOMAIN lPrev \ {t} |-> IF m = lNext[t] THEN lPrev[t] ELSE lPrev[m]],
         lHead' = IF k = 1 THEN lNext[t] ELSE lHead,
         lTail' = IF k = Len(lOrder) THEN lPrev[t] ELSE lTail
  PROVE  IsList(lNext', lPrev', lHead', lTail', lOrder')
<1> DEFINE Old(i) == IF i < k THEN i ELSE i + 1
<1>1. Len(lOrder) \in Nat /\ Len(lOrder') = Len(lOrder) - 1 /\ Len(lOrder') \in Nat /\ 0 \notin ListNodes
  BY CollectionsAssumption DEF IsList, IsRemoved
<1>2. ASSUME NEW i \in 1 .. Len(lOrder')
      PROVE  /\ Old(i) \in 1 .. Len(lOrder) /\ Old(i) # k /\ lOrder'[i] = lOrder[Old(i)]
             /\ lOrder[Old(i)] \in DOMAIN lNext \ {t}
  <2>1. Old(i) \in 1 .. Len(lOrder) /\ Old(i) # k /\ k \in 1 .. Len(lOrder)
    BY <1>1
  <2>2. lOrder'[i] = lOrder[Old(i)]
    <3>1. CASE i < k
      BY <1>1, <3>1 DEF IsRemoved
    <3>2. CASE i >= k
      <4>1. i \in k .. (Len(lOrder) - 1)
        BY <1>1, <3>2
      <4> QED  BY <3>2, <4>1 DEF IsRemoved
    <3> QED  BY <3>1, <3>2
  <2> HIDE DEF Old
  <2>3. lOrder[Old(i)] \in DOMAIN lNext /\ lOrder[Old(i)] # t
    BY <2>1 DEF IsList
  <2> QED  BY <2>1, <2>2, <2>3
<1>3. ASSUME NEW i \in 1 .. Len(lOrder'), NEW j \in 1 .. Len(lOrder'), lOrder'[i] = lOrder'[j]
      PROVE  i = j
  <2>1. Old(i) = Old(j)
    <3>1. /\ Old(i) \in 1 .. Len(lOrder) /\ lOrder'[i] = lOrder[Old(i)]
          /\ Old(j) \in 1 .. Len(lOrder) /\ lOrder'[j] = lOrder[Old(j)]
      BY <1>2
    <3> HIDE DEF Old
    <3> QED  BY <1>3, <3>1 DEF IsList
  <2> QED  BY <1>1, <2>1
<1>4. DOMAIN lNext' = DOMAIN lNext \ {t} /\ DOMAIN lPrev' = DOMAIN lNext'
  BY DEF IsList
<1>5. \A i \in 1 .. Len(lOrder') : lOrder'[i] \in DOMAIN lNext'
  <2> HIDE DEF Old
  <2> QED  BY <1>2, <1>4
<1>6. ASSUME NEW m \in DOMAIN lNext'
      PROVE  \E i \in 1 .. Len(lOrder') : lOrder'[i] = m
  <2>1. PICK i \in 1 .. Len(lOrder) : lOrder[i] = m /\ i # k
    BY <1>4 DEF IsList
  <2>2. CASE i < k
    <3>1. i \in 1 .. Len(lOrder') /\ i \in 1 .. (k - 1)
      BY <1>1, <2>2
    <3> QED  BY <2>1, <3>1 DEF IsRemoved
  <2>3. CASE i > k
    <3>1. i - 1 \in k .. (Len(lOrder) - 1) /\ i - 1 \in 1 .. Len(lOrder') /\ (i - 1) + 1 = i
      BY <1>1, <2>3
    <3>2. lOrder'[i - 1] = lOrder[i]
      BY <3>1 DEF IsRemoved
    <3> QED  BY <2>1, <3>1, <3>2
  <2> QED  BY <2>1, <2>2, <2>3
<1>7. ASSUME NEW i \in 1 .. Len(lOrder')
      PROVE  /\ lNext'[lOrder'[i]] = IF i < Len(lOrder') THEN lOrder'[i + 1] ELSE 0
             /\ lPrev'[lOrder'[i]] = IF i > 1 THEN lOrder'[i - 1] ELSE 0
  <2>1. /\ Old(i) \in 1 .. Len(lOrder) /\ Old(i) # k /\ lOrder'[i] = lOrder[Old(i)]
        /\ lOrder[Old(i)] \in DOMAIN lNext \ {t}
    BY <1>2
  <2>2. /\ lNext[t] = IF k < Len(lOrder) THEN lOrder[k + 1] ELSE 0
        /\ lPrev[t] = IF k > 1 THEN lOrder[k - 1] ELSE 0
    <3>1. k \in 1 .. Len(lOrder)
      BY <1>1
    <3> QED  BY <3>1 DEF IsList
  <2>3. lPrev[t] = lOrder[Old(i)] <=> Old(i) = k - 1
    <3> HIDE DEF Old
    <3>1. CASE k > 1
      <4>1. k - 1 \in 1 .. Len(lOrder)
        BY <1>1, <3>1
      <4>2. lOrder[k - 1] = lOrder[Old(i)] <=> Old(i) = k - 1
        BY <2>1, <4>1 DEF IsList
      <4> QED  BY <2>2, <3>1, <4>2
    <3>2. CASE k = 1
      <4>1. lOrder[Old(i)] \in ListNodes
        BY <2>1, ElementOfSeq DEF IsList
      <4> QED  BY <1>1, <2>1, <2>2, <3>2, <4>1
    <3> QED  BY <3>1, <3>2
  <2>4. lNext[t] = lOrder[Old(i)] <=> Old(i) = k + 1
    <3> HIDE DEF Old
    <3>1. CASE k < Len(lOrder)
      <4>1. k + 1 \in 1 .. Len(lOrder)
        BY <1>1, <3>1
      <4>2. lOrder[k + 1] = lOrder[Old(i)] <=> Old(i) = k + 1
        BY <2>1, <4>1 DEF IsList
      <4> QED  BY <2>2, <3>1, <4>2
    <3>2. CASE k = Len(lOrder)
      <4>1. lOrder[Old(i)] \in ListNodes
        BY <2>1, ElementOfSeq DEF IsList
      <4> QED  BY <1>1, <2>1, <2>2, <3>2, <4>1
    <3> QED  BY <1>1, <3>1, <3>2
  <2>5. /\ lNext'[lOrder'[i]] = IF Old(i) = k - 1 THEN lNext[t] ELSE lNext[lOrder[Old(i)]]
        /\ lPrev'[lOrder'[i]] = IF Old(i) = k + 1 THEN lPrev[t] ELSE lPrev[lOrder[Old(i)]]
    <3> HIDE DEF Old
    <3> QED  BY <1>4, <2>1, <2>3, <2>4 DEF IsList
  <2>6. /\ lNext[lOrder[Old(i)]] = IF Old(i) < Len(lOrder) THEN lOrder[Old(i) + 1] ELSE 0
        /\ lPrev[lOrder[Old(i)]] = IF Old(i) > 1 THEN lOrder[Old(i) - 1] ELSE 0
    <3> HIDE DEF Old
    <3> QED  BY <2>1 DEF IsList
  <2>7. ASSUME i < Len(lOrder')
        PROVE  /\ lOrder'[i + 1] = lOrder[Old(i + 1)]
               /\ Old(i + 1) = IF Old(i) = k - 1 THEN k + 1 ELSE Old(i) + 1
               /\ Old(i) < Len(lOrder) /\ (Old(i) = k - 1 => k < Len(lOrder))
    <3>1. i + 1 \in 1 .. Len(lOrder')
      BY <1>1, <2>7
    <3>2. lOrder'[i + 1] = lOrder[Old(i + 1)]
      BY <1>2, <3>1
    <3>3. /\ Old(i + 1) = IF Old(i) = k - 1 THEN k + 1 ELSE Old(i) + 1
          /\ Old(i) < Len(lOrder) /\ (Old(i) = k - 1 => k < Len(lOrder))
      BY <1>1, <2>7
    <3> HIDE DEF Old
    <3> QED  BY <3>2, <3>3
  <2>8. ASSUME i > 1
        PROVE  /\ lOrder'[i - 1] = lOrder[Old(i - 1)]
               /\ Old(i - 1) = IF Old(i) = k + 1 THEN k - 1 ELSE Old(i) - 1
               /\ Old(i) > 1 /\ (Old(i) = k + 1 => k > 1)
    <3>1. i - 1 \in 1 .. Len(lOrder')
      BY <1>1, <2>8
    <3>2. lOrder'[i - 1] = lOrder[Old(i - 1)]
      BY <1>2, <3>1
    <3>3. /\ Old(i - 1) = IF Old(i) = k + 1 THEN k - 1 ELSE Old(i) - 1
          /\ Old(i) > 1 /\ (Old(i) = k + 1 => k > 1)
      BY <1>1, <2>8
    <3> HIDE DEF Old
    <3> QED  BY <3>2, <3>3
  <2>9. /\ i = Len(lOrder') => Old(i) = Len(lOrder) \/ (Old(i) = k - 1 /\ k = Len(lOrder))
        /\ i = 1 => Old(i) = 1 \/ (Old(i) = k + 1 /\ k = 1)
    BY <1>1
  <2>10. i < Len(lOrder') \/ i = Len(lOrder')
    BY <1>1
  <2>11. i > 1 \/ i = 1
    OBVIOUS
  <2>12. Old(i) = Len(lOrder) => Old(i) # k - 1
    BY <1>1
  <2>13. Old(i) = 1 => Old(i) # k + 1
    BY <1>1
  <2> HIDE DEF Old
  <2>14. lNext'[lOrder'[i]] = IF i < Len(lOrder') THEN lOrder'[i + 1] ELSE 0
    <3>1. CASE i < Len(lOrder')
      BY <1>1, <2>2, <2>5, <2>6, <2>7, <3>1
    <3>2. CASE i = Len(lOrder')
      BY <1>1, <2>2, <2>5, <2>6, <2>9, <2>12, <3>2
    <3> QED  BY <2>10, <3>1, <3>2
  <2>15. lPrev'[lOrder'[i]] = IF i > 1 THEN lOrder'[i - 1] ELSE 0
    <3>1. CASE i > 1
      BY <1>1, <2>2, <2>5, <2>6, <2>8, <3>1
    <3>2. CASE i = 1
      BY <1>1, <2>2, <2>5, <2>6, <2>9, <2>13, <3>2
    <3> QED  BY <2>11, <3>1, <3>2
  <2> QED  BY <2>14, <2>15
<1>8. lHead' = IF Len(lOrder') = 0 THEN 0 ELSE lOrder'[1]
  <2>1. CASE k = 1
    <3>1. lNext[t] = IF 1 < Len(lOrder) THEN lOrder[2] ELSE 0
      BY <1>1, <2>1 DEF IsList
    <3>2. Len(lOrder') # 0 => 1 \in k .. (Len(lOrder) - 1)
      BY <1>1, <2>1
    <3>3. Len(lOrder') # 0 => lOrder'[1] = lOrder[1 + 1]
      BY <3>2 DEF IsRemoved
    <3> QED  BY <1>1, <2>1, <3>1, <3>3
  <2>2. CASE k > 1
    <3>1. 1 \in 1 .. (k - 1) /\ Len(lOrder') # 0 /\ Len(lOrder) # 0
      BY <1>1, <2>2
    <3> QED  BY <2>2, <3>1 DEF IsRemoved, IsList
  <2> QED  BY <2>1, <2>2
<1>9. lTail' = IF Len(lOrder') = 0 THEN 0 ELSE lOrder'[Len(lOrder')]
  <2>1. CASE k = Len(lOrder)
    <3>1. lPrev[t] = IF k > 1 THEN lOrder[k - 1] ELSE 0
      BY <1>1 DEF IsList
    <3>2. Len(lOrder') # 0 => Len(lOrder') \in 1 .. (k - 1) /\ Len(lOrder') = k - 1
      BY <1>1, <2>1
    <3>3. Len(lOrder') # 0 => lOrder'[Len(lOrder')] = lOrder[k - 1]
      BY <3>2 DEF IsRemoved
    <3> QED  BY <1>1, <2>1, <3>1, <3>3
  <2>2. CASE k < Len(lOrder)
    <3>1. Len(lOrder') \in k .. (Len(lOrder) - 1) /\ Len(lOrder') # 0 /\ Len(lOrder') + 1 = Len(lOrder)
      BY <1>1, <2>2
    <3>2. lOrder'[Len(lOrder')] = lOrder[Len(lOrder)]
      BY <3>1 DEF IsRemoved
    <3>3. lTail = lOrder[Len(lOrder)] /\ lTail' = lTail
      BY <1>1, <2>2 DEF IsList
    <3> QED  BY <3>1, <3>2, <3>3
  <2> QED  BY <1>1, <2>1, <2>2
<1> QED
  <2>1. lOrder' \in Seq(ListNodes)
    OBVIOUS
  <2> QED  BY <2>1, <1>3, <1>4, <1>5, <1>6, <1>7, <1>8, <1>9 DEF IsList

\* What the ends of a sequence become.
LEMMA EndsAre ==
  ASSUME NEW S, NEW s \in Seq(S)
  PROVE  /\ \A t \in S : /\ <<t>> \o s \in Seq(S) /\ IsInserted(<<t>> \o s, s, 1, t)
                         /\ Append(s, t) \in Seq(S) /\ IsInserted(Append(s, t), s, Len(s) + 1, t)
         /\ Len(s) > 0 => /\ Tail(s) \in Seq(S) /\ IsRemoved(Tail(s), s, 1)
                          /\ Front(s) \in Seq(S) /\ IsRemoved(Front(s), s, Len(s))
<1>1. Len(s) \in Nat
  OBVIOUS
<1>2. ASSUME NEW t \in S
      PROVE  /\ <<t>> \o s \in Seq(S) /\ IsInserted(<<t>> \o s, s, 1, t)
             /\ Append(s, t) \in Seq(S) /\ IsInserted(Append(s, t), s, Len(s) + 1, t)
  <2> DEFINE e == <<t>>
             r == e \o s
             q == Append(s, t)
  <2>1. e \in Seq(S) /\ Len(e) = 1 /\ e[1] = t
    <3>1. e = [i \in 1 .. 1 |-> t]
      OBVIOUS
    <3> QED  BY <3>1
  <2> HIDE DEF e
  <2>2. /\ r \in Seq(S) /\ Len(r) = Len(e) + Len(s)
        /\ \A i \in 1 .. Len(e) : r[i] = e[i]
        /\ \A i \in 1 .. Len(s) : r[Len(e) + i] = s[i]
    BY <2>1, JoinedIs
  <2>3. q \in Seq(S) /\ Len(q) = Len(s) + 1 /\ q[Len(s) + 1] = t /\ \A i \in 1 .. Len(s) : q[i] = s[i]
    OBVIOUS
  <2> HIDE DEF r, q
  <2>4. IsInserted(r, s, 1, t)
    <3>1. Len(r) = Len(s) + 1
      BY <1>1, <2>1, <2>2
    <3>2. r[1] = t
      BY <2>1, <2>2
    <3>3. \A i \in 1 .. Len(s) : r[i + 1] = s[i]
      BY <2>1, <2>2
    <3> QED  BY <3>1, <3>2, <3>3 DEF IsInserted
  <2>5. IsInserted(q, s, Len(s) + 1, t)
    BY <1>1, <2>3 DEF IsInserted
  <2> QED  BY <2>2, <2>3, <2>4, <2>5 DEF r, q, e
<1>3. ASSUME Len(s) > 0
      PROVE  /\ Tail(s) \in Seq(S) /\ IsRemoved(Tail(s), s, 1)
             /\ Front(s) \in Seq(S) /\ IsRemoved(Front(s), s, Len(s))
  <2> DEFINE r == Tail(s)
             q == Front(s)
  <2>1. r \in Seq(S) /\ Len(r) = Len(s) - 1 /\ \A i \in 1 .. (Len(s) - 1) : r[i] = s[i + 1]
    BY <1>1, <1>3
  <2>2. q \in Seq(S) /\ Len(q) = Len(s) - 1 /\ \A i \in 1 .. (Len(s) - 1) : q[i] = s[i]
    <3>1. q = SubSeq(s, 1, Len(s) - 1)
      BY DEF Front
    <3>2. PICK j : j = Len(s) - 1
      OBVIOUS
    <3>3. /\ SubSeq(s, 1, j) \in Seq(S) /\ Len(SubSeq(s, 1, j)) = j
          /\ \A i \in 1 .. j : SubSeq(s, 1, j)[i] = s[i]
      <4>1. j \in Nat /\ j =< Len(s)
        BY <1>1, <1>3, <3>2
      <4> QED  BY <1>1, <4>1
    <3> QED  BY <3>1, <3>2, <3>3, Zenon
  <2> HIDE DEF r, q
  <2>3. IsRemoved(r, s, 1)
    BY <2>1 DEF IsRemoved
  <2>4. IsRemoved(q, s, Len(s))
    BY <1>1, <2>2 DEF IsRemoved
  <2> QED  BY <2>1, <2>2, <2>3, <2>4 DEF r, q
<1> QED  BY <1>2, <1>3

\* A new node at place k, and the node at place k taken out.
LEMMA InsertKeeps ==
  ASSUME ListInv, NEW t \in ListNodes, t \notin DOMAIN lNext,
         NEW k \in Nat, k > 0, k =< Len(lOrder) + 1,
         NEW p, p = IF k > 1 THEN lOrder[k - 1] ELSE 0,
         NEW n, n = IF k =< Len(lOrder) THEN lOrder[k] ELSE 0,
         List!Link(t, p, n),
         lHead' = IF k = 1 THEN t ELSE lHead,
         lTail' = IF k = Len(lOrder) + 1 THEN t ELSE lTail,
         lOrder' \in Seq(ListNodes), IsInserted(lOrder', lOrder, k, t)
  PROVE  ListInv'
<1>1. IsList(lNext, lPrev, lHead, lTail, lOrder)
  BY DEF ListInv
<1>2. /\ lNext' = [m \in DOMAIN lNext \cup {t} |-> IF m = t THEN n ELSE IF m = p THEN t ELSE lNext[m]]
      /\ lPrev' = [m \in DOMAIN lPrev \cup {t} |-> IF m = t THEN p ELSE IF m = n THEN t ELSE lPrev[m]]
      /\ lSize' = lSize + 1
  BY DEF List!Link
<1>3. IsList(lNext', lPrev', lHead', lTail', lOrder')
  BY <1>1, <1>2, LinkedIs
<1>4. lSize' = Len(lOrder')
  BY <1>2 DEF ListInv, IsInserted
<1> QED  BY <1>3, <1>4 DEF ListInv, IsList

LEMMA RemoveKeeps ==
  ASSUME ListInv, NEW k \in Nat, k > 0, k =< Len(lOrder), NEW t, t = lOrder[k],
         List!Unlink(t),
         lHead' = IF k = 1 THEN lNext[t] ELSE lHead,
         lTail' = IF k = Len(lOrder) THEN lPrev[t] ELSE lTail,
         lOrder' \in Seq(ListNodes), IsRemoved(lOrder', lOrder, k)
  PROVE  ListInv'
<1>1. IsList(lNext, lPrev, lHead, lTail, lOrder)
  BY DEF ListInv
<1>2. /\ lNext' = [m \in DOMAIN lNext \ {t} |-> IF m = lPrev[t] THEN lNext[t] ELSE lNext[m]]
      /\ lPrev' = [m \in DOMAIN lPrev \ {t} |-> IF m = lNext[t] THEN lPrev[t] ELSE lPrev[m]]
      /\ lSize' = lSize - 1
  BY DEF List!Unlink
<1>3. IsList(lNext', lPrev', lHead', lTail', lOrder')
  BY <1>1, <1>2, UnlinkedIs
<1>4. lSize' = Len(lOrder')
  BY <1>2 DEF ListInv, IsRemoved
<1> QED  BY <1>3, <1>4 DEF ListInv, IsList

\* The place of a node.
LEMMA PlaceIs ==
  ASSUME ListInv, NEW m \in DOMAIN lNext
  PROVE  /\ List!Place(m) \in 1 .. Len(lOrder) /\ lOrder[List!Place(m)] = m
         /\ lNext[m] = IF List!Place(m) < Len(lOrder) THEN lOrder[List!Place(m) + 1] ELSE 0
         /\ lPrev[m] = IF List!Place(m) > 1 THEN lOrder[List!Place(m) - 1] ELSE 0
<1>1. DOMAIN lOrder = 1 .. Len(lOrder)
  BY DEF ListInv, IsList
<1>2. \E i \in DOMAIN lOrder : lOrder[i] = m
  BY <1>1 DEF ListInv, IsList
<1>3. List!Place(m) \in 1 .. Len(lOrder) /\ lOrder[List!Place(m)] = m
  BY <1>1, <1>2 DEF List!Place
<1> QED  BY <1>3 DEF ListInv, IsList

LEMMA ListInitially == List!Init => ListInv
<1> SUFFICES ASSUME List!Init PROVE ListInv
  OBVIOUS
<1>1. lOrder \in Seq(ListNodes) /\ Len(lOrder) = 0
  BY EmptySeq DEF List!Init
<1>2. DOMAIN lNext = {} /\ DOMAIN lPrev = {} /\ lHead = 0 /\ lTail = 0 /\ lSize = 0
  BY DEF List!Init, List!NULL
<1> QED  BY <1>1, <1>2 DEF ListInv, IsList

LEMMA ListPushes ==
  ASSUME ListInv, NEW t \in ListNodes \ DOMAIN lNext, List!push_front(t) \/ List!push_back(t)
  PROVE  ListInv'
<1>1. Len(lOrder) \in Nat /\ lOrder \in Seq(ListNodes) /\ t \in ListNodes /\ t \notin DOMAIN lNext
  BY DEF ListInv, IsList
<1>2. \A i \in 1 .. Len(lOrder) : lOrder[i] \in ListNodes /\ lOrder[i] # 0
  BY <1>1, ElementOfSeq, CollectionsAssumption
<1>3. /\ lHead = IF Len(lOrder) = 0 THEN 0 ELSE lOrder[1]
      /\ lTail = IF Len(lOrder) = 0 THEN 0 ELSE lOrder[Len(lOrder)]
  BY DEF ListInv, IsList
<1>4. CASE List!push_front(t)
  <2>1. PICK k \in Nat : k = 1
    OBVIOUS
  <2>2. List!Link(t, 0, lHead) /\ lOrder' = <<t>> \o lOrder
    BY <1>4 DEF List!push_front, List!NULL
  <2>3. lOrder' \in Seq(ListNodes) /\ IsInserted(lOrder', lOrder, k, t)
    BY <1>1, <2>1, <2>2, EndsAre
  <2>4. k > 0 /\ k =< Len(lOrder) + 1
    BY <1>1, <2>1
  <2>5. /\ 0 = (IF k > 1 THEN lOrder[k - 1] ELSE 0)
        /\ lHead = (IF k =< Len(lOrder) THEN lOrder[k] ELSE 0)
    BY <1>1, <1>3, <2>1
  <2>6. lHead' = IF k = 1 THEN t ELSE lHead
    BY <1>4, <2>1 DEF List!push_front
  <2>7. lTail' = IF k = Len(lOrder) + 1 THEN t ELSE lTail
    <3>1. lHead = 0 <=> Len(lOrder) = 0
      BY <1>1, <1>2, <1>3
    <3>2. lTail' = IF lHead = 0 THEN t ELSE lTail
      BY <1>4 DEF List!push_front, List!NULL
    <3> QED  BY <1>1, <2>1, <3>1, <3>2
  <2> QED  BY <1>1, <2>2, <2>3, <2>4, <2>5, <2>6, <2>7, InsertKeeps
<1>5. CASE List!push_back(t)
  <2>1. PICK k \in Nat : k = Len(lOrder) + 1
    BY <1>1
  <2>2. List!Link(t, lTail, 0) /\ lOrder' = Append(lOrder, t)
    BY <1>5 DEF List!push_back, List!NULL
  <2>3. lOrder' \in Seq(ListNodes) /\ IsInserted(lOrder', lOrder, k, t)
    BY <1>1, <2>1, <2>2, EndsAre
  <2>4. k > 0 /\ k =< Len(lOrder) + 1
    BY <1>1, <2>1
  <2>5. /\ lTail = (IF k > 1 THEN lOrder[k - 1] ELSE 0)
        /\ 0 = (IF k =< Len(lOrder) THEN lOrder[k] ELSE 0)
    BY <1>1, <1>3, <2>1
  <2>6. lTail' = IF k = Len(lOrder) + 1 THEN t ELSE lTail
    BY <1>5, <2>1 DEF List!push_back
  <2>7. lHead' = IF k = 1 THEN t ELSE lHead
    <3>1. lTail = 0 <=> Len(lOrder) = 0
      BY <1>1, <1>2, <1>3
    <3>2. lHead' = IF lTail = 0 THEN t ELSE lHead
      BY <1>5 DEF List!push_back, List!NULL
    <3> QED  BY <1>1, <2>1, <3>1, <3>2
  <2> QED  BY <1>1, <2>2, <2>3, <2>4, <2>5, <2>6, <2>7, InsertKeeps
<1> QED  BY <1>4, <1>5

LEMMA ListInserts ==
  ASSUME ListInv, NEW t \in ListNodes \ DOMAIN lNext, NEW m \in DOMAIN lNext,
         List!insertAfter(m, t) \/ List!insertBefore(m, t)
  PROVE  ListInv'
<1>1. Len(lOrder) \in Nat /\ lOrder \in Seq(ListNodes) /\ t \in ListNodes /\ t \notin DOMAIN lNext
  BY DEF ListInv, IsList
<1>2. \A i \in 1 .. Len(lOrder) : lOrder[i] \in ListNodes /\ lOrder[i] # 0
  BY <1>1, ElementOfSeq, CollectionsAssumption
<1>3. PICK l : l = List!Place(m)
  OBVIOUS
<1>4. /\ l \in 1 .. Len(lOrder) /\ lOrder[l] = m
      /\ lNext[m] = IF l < Len(lOrder) THEN lOrder[l + 1] ELSE 0
      /\ lPrev[m] = IF l > 1 THEN lOrder[l - 1] ELSE 0
  BY <1>3, PlaceIs
<1>5. CASE List!insertAfter(m, t)
  <2>1. PICK k \in Nat : k = l + 1
    BY <1>1, <1>4
  <2>2. List!Link(t, m, lNext[m]) /\ lOrder' = InsertAt(lOrder, k, t)
    BY <1>3, <1>5, <2>1 DEF List!insertAfter, List!InsertAt, InsertAt
  <2>3. k > 1 /\ k =< Len(lOrder) + 1 /\ k > 0
    BY <1>1, <1>4, <2>1
  <2>4. lOrder' \in Seq(ListNodes) /\ IsInserted(lOrder', lOrder, k, t)
    BY <1>1, <2>2, <2>3, InsertedIs
  <2>5. /\ m = (IF k > 1 THEN lOrder[k - 1] ELSE 0)
        /\ lNext[m] = (IF k =< Len(lOrder) THEN lOrder[k] ELSE 0)
    BY <1>1, <1>4, <2>1
  <2>6. lHead' = IF k = 1 THEN t ELSE lHead
    BY <1>5, <2>3 DEF List!insertAfter
  <2>7. lTail' = IF k = Len(lOrder) + 1 THEN t ELSE lTail
    <3>1. lNext[m] = 0 <=> l = Len(lOrder)
      BY <1>1, <1>2, <1>4
    <3>2. lTail' = IF lNext[m] = 0 THEN t ELSE lTail
      BY <1>5 DEF List!insertAfter, List!NULL
    <3> QED  BY <1>1, <1>4, <2>1, <3>1, <3>2
  <2> QED  BY <1>1, <2>2, <2>3, <2>4, <2>5, <2>6, <2>7, InsertKeeps
<1>6. CASE List!insertBefore(m, t)
  <2>1. PICK k \in Nat : k = l
    BY <1>1, <1>4
  <2>2. List!Link(t, lPrev[m], m) /\ lOrder' = InsertAt(lOrder, k, t)
    BY <1>3, <1>6, <2>1 DEF List!insertBefore, List!InsertAt, InsertAt
  <2>3. k =< Len(lOrder) /\ k =< Len(lOrder) + 1 /\ k > 0
    BY <1>1, <1>4, <2>1
  <2>4. lOrder' \in Seq(ListNodes) /\ IsInserted(lOrder', lOrder, k, t)
    BY <1>1, <2>2, <2>3, InsertedIs
  <2>5. /\ lPrev[m] = (IF k > 1 THEN lOrder[k - 1] ELSE 0)
        /\ m = (IF k =< Len(lOrder) THEN lOrder[k] ELSE 0)
    BY <1>1, <1>4, <2>1, <2>3
  <2>6. lTail' = IF k = Len(lOrder) + 1 THEN t ELSE lTail
    BY <1>1, <1>6, <2>3 DEF List!insertBefore
  <2>7. lHead' = IF k = 1 THEN t ELSE lHead
    <3>1. lPrev[m] = 0 <=> l = 1
      <4>1. l > 1 => l - 1 \in 1 .. Len(lOrder)
        BY <1>1, <1>4
      <4> QED  BY <1>2, <1>4, <4>1
    <3>2. lHead' = IF lPrev[m] = 0 THEN t ELSE lHead
      BY <1>6 DEF List!insertBefore, List!NULL
    <3> QED  BY <2>1, <3>1, <3>2
  <2> QED  BY <1>1, <2>2, <2>3, <2>4, <2>5, <2>6, <2>7, InsertKeeps
<1> QED  BY <1>5, <1>6

LEMMA ListRemoves ==
  ASSUME ListInv,
         \/ List!pop_front \/ List!pop_back
         \/ \E m \in DOMAIN lNext : List!erase(m)
  PROVE  ListInv'
<1>1. Len(lOrder) \in Nat /\ lOrder \in Seq(ListNodes)
  BY DEF ListInv, IsList
<1>2. \A i \in 1 .. Len(lOrder) : lOrder[i] \in ListNodes /\ lOrder[i] # 0
  BY <1>1, ElementOfSeq, CollectionsAssumption
<1>3. /\ lHead = IF Len(lOrder) = 0 THEN 0 ELSE lOrder[1]
      /\ lTail = IF Len(lOrder) = 0 THEN 0 ELSE lOrder[Len(lOrder)]
  BY DEF ListInv, IsList
<1>4. \A i \in 1 .. Len(lOrder) :
        /\ lNext[lOrder[i]] = IF i < Len(lOrder) THEN lOrder[i + 1] ELSE 0
        /\ lPrev[lOrder[i]] = IF i > 1 THEN lOrder[i - 1] ELSE 0
  BY DEF ListInv, IsList
<1>5. CASE List!pop_front
  <2>1. PICK k \in Nat : k = 1
    OBVIOUS
  <2>2. /\ List!Unlink(lHead) /\ lOrder' = Tail(lOrder) /\ lHead # 0
        /\ lHead' = lNext[lHead] /\ lTail' = IF lNext[lHead] = 0 THEN 0 ELSE lTail
    BY <1>5 DEF List!pop_front, List!NULL
  <2>3. Len(lOrder) > 0 /\ k > 0 /\ k =< Len(lOrder) /\ k \in 1 .. Len(lOrder) /\ lHead = lOrder[k]
    BY <1>1, <1>3, <2>1, <2>2
  <2>4. lOrder' \in Seq(ListNodes) /\ IsRemoved(lOrder', lOrder, k)
    BY <1>1, <2>1, <2>2, <2>3, EndsAre
  <2>5. lHead' = IF k = 1 THEN lNext[lHead] ELSE lHead
    BY <2>1, <2>2
  <2>6. lTail' = IF k = Len(lOrder) THEN lPrev[lHead] ELSE lTail
    <3>1. lNext[lHead] = (IF 1 < Len(lOrder) THEN lOrder[2] ELSE 0) /\ lPrev[lHead] = 0
      BY <1>4, <2>1, <2>3
    <3>2. 1 < Len(lOrder) => lOrder[2] # 0
      BY <1>1, <1>2
    <3>3. CASE Len(lOrder) = 1
      BY <2>1, <2>2, <3>1, <3>3
    <3>4. CASE Len(lOrder) > 1
      <4>1. lNext[lHead] # 0 /\ k # Len(lOrder)
        BY <2>1, <3>1, <3>2, <3>4
      <4> QED  BY <2>2, <4>1
    <3>5. Len(lOrder) = 1 \/ Len(lOrder) > 1
      <4>1. \A n \in Nat : n > 0 => n = 1 \/ n > 1
        OBVIOUS
      <4> QED  BY <1>1, <2>3, <4>1, Zenon
    <3> QED  BY <3>3, <3>4, <3>5, Zenon
  <2> QED  BY <2>2, <2>3, <2>4, <2>5, <2>6, RemoveKeeps
<1>6. CASE List!pop_back
  <2>1. PICK k \in Nat : k = Len(lOrder)
    BY <1>1
  <2>2. /\ List!Unlink(lTail) /\ lOrder' = Front(lOrder) /\ lTail # 0
        /\ lTail' = lPrev[lTail] /\ lHead' = IF lPrev[lTail] = 0 THEN 0 ELSE lHead
    BY <1>6 DEF List!pop_back, List!NULL, List!Front, Front
  <2>3. Len(lOrder) > 0 /\ k > 0 /\ k =< Len(lOrder) /\ k \in 1 .. Len(lOrder) /\ lTail = lOrder[k]
    BY <1>1, <1>3, <2>1, <2>2
  <2>4. lOrder' \in Seq(ListNodes) /\ IsRemoved(lOrder', lOrder, k)
    BY <1>1, <2>1, <2>2, <2>3, EndsAre
  <2>5. lTail' = IF k = Len(lOrder) THEN lPrev[lTail] ELSE lTail
    BY <2>1, <2>2
  <2>6. lHead' = IF k = 1 THEN lNext[lTail] ELSE lHead
    <3>1. /\ lPrev[lTail] = IF k > 1 THEN lOrder[k - 1] ELSE 0
          /\ lNext[lTail] = 0
      BY <1>4, <2>1, <2>3
    <3>2. k > 1 => lOrder[k - 1] # 0
      <4>1. k > 1 => k - 1 \in 1 .. Len(lOrder)
        BY <2>3
      <4> QED  BY <1>2, <4>1
    <3> QED  BY <2>2, <2>3, <3>1, <3>2
  <2> QED  BY <2>2, <2>3, <2>4, <2>5, <2>6, RemoveKeeps
<1>7. ASSUME NEW m \in DOMAIN lNext, List!erase(m)
      PROVE  ListInv'
  <2>1. PICK k : k = List!Place(m)
    OBVIOUS
  <2>2. k \in 1 .. Len(lOrder) /\ lOrder[k] = m
    BY <2>1, PlaceIs
  <2>3. k \in Nat /\ k > 0 /\ k =< Len(lOrder)
    BY <1>1, <2>2
  <2>4. /\ List!Unlink(m) /\ lOrder' = RemoveAt(lOrder, k)
        /\ lHead' = IF lHead = m THEN lNext[m] ELSE lHead
        /\ lTail' = IF lTail = m THEN lPrev[m] ELSE lTail
    BY <1>7, <2>1 DEF List!erase, List!RemoveAt, RemoveAt
  <2>5. lOrder' \in Seq(ListNodes) /\ IsRemoved(lOrder', lOrder, k)
    BY <1>1, <2>3, <2>4, RemovedIs
  <2>6. (lHead = m <=> k = 1) /\ (lTail = m <=> k = Len(lOrder))
    <3>1. 1 \in 1 .. Len(lOrder) /\ Len(lOrder) \in 1 .. Len(lOrder) /\ Len(lOrder) # 0
      BY <1>1, <2>3
    <3>2. /\ lOrder[1] = lOrder[k] => 1 = k
          /\ lOrder[Len(lOrder)] = lOrder[k] => Len(lOrder) = k
      BY <2>2, <3>1 DEF ListInv, IsList
    <3> QED  BY <1>3, <2>2, <3>1, <3>2
  <2>7. /\ lHead' = IF k = 1 THEN lNext[m] ELSE lHead
        /\ lTail' = IF k = Len(lOrder) THEN lPrev[m] ELSE lTail
    BY <2>4, <2>6
  <2> QED  BY <2>2, <2>3, <2>4, <2>5, <2>7, RemoveKeeps
<1> QED  BY <1>5, <1>6, <1>7

LEMMA ListStepKeeps == ListInv /\ [List!Next]_listVars => ListInv'
<1> SUFFICES ASSUME ListInv, [List!Next]_listVars PROVE ListInv'
  OBVIOUS
<1>1. CASE UNCHANGED listVars
  BY <1>1 DEF ListInv, IsList, listVars
<1>2. CASE List!clear
  <2>1. lOrder' \in Seq(ListNodes) /\ Len(lOrder') = 0
    BY <1>2, EmptySeq DEF List!clear
  <2>2. DOMAIN lNext' = {} /\ DOMAIN lPrev' = {} /\ lHead' = 0 /\ lTail' = 0 /\ lSize' = 0
    BY <1>2 DEF List!clear, List!NULL
  <2> QED  BY <2>1, <2>2 DEF ListInv, IsList
<1> QED  BY <1>1, <1>2, ListPushes, ListInserts, ListRemoves DEF List!Next

LEMMA ListMeant == ListInv => List!ListIsSequence
<1> SUFFICES ASSUME ListInv PROVE List!ListIsSequence
  OBVIOUS
<1>1. Len(lOrder) \in Nat /\ lOrder \in Seq(ListNodes) /\ DOMAIN lOrder = 1 .. Len(lOrder)
  BY DEF ListInv, IsList
<1>2. Len(lOrder) = 0 <=> lOrder = <<>>
  BY <1>1
<1>3. List!Spells(lHead, lNext, lOrder)
  BY <1>1, <1>2 DEF List!Spells, List!NULL, ListInv, IsList
<1>4. List!Spells(lTail, lPrev, List!Reverse(lOrder))
  <2> DEFINE r == [i \in 1 .. Len(lOrder) |-> lOrder[Len(lOrder) - i + 1]]
  <2>1. r = List!Reverse(lOrder)
    BY DEF List!Reverse
  <2>2. \A i \in 1 .. Len(lOrder) : Len(lOrder) - i + 1 \in 1 .. Len(lOrder) /\ r[i] = lOrder[Len(lOrder) - i + 1]
    BY <1>1
  <2>3. r \in Seq(ListNodes) /\ Len(r) = Len(lOrder) /\ DOMAIN r = 1 .. Len(lOrder)
    <3>1. \A i \in 1 .. Len(lOrder) : r[i] \in ListNodes
      BY <1>1, <2>2, ElementOfSeq
    <3> QED  BY <1>1, <3>1
  <2>4. r = <<>> <=> Len(lOrder) = 0
    BY <2>3
  <2> HIDE DEF r
  <2>5. lTail = IF r = <<>> THEN 0 ELSE r[1]
    <3>1. Len(lOrder) > 0 => 1 \in 1 .. Len(lOrder) /\ Len(lOrder) - 1 + 1 = Len(lOrder)
      BY <1>1
    <3> QED  BY <1>1, <2>2, <2>4, <3>1 DEF ListInv, IsList
  <2>6. ASSUME NEW i \in 1 .. Len(lOrder)
        PROVE  lPrev[r[i]] = IF i < Len(r) THEN r[i + 1] ELSE 0
    <3>1. PICK j \in 1 .. Len(lOrder) : j = Len(lOrder) - i + 1 /\ r[i] = lOrder[j]
      BY <2>2
    <3>2. lPrev[r[i]] = IF j > 1 THEN lOrder[j - 1] ELSE 0
      BY <3>1 DEF ListInv, IsList
    <3>3. j > 1 <=> i < Len(r)
      BY <1>1, <2>3, <3>1
    <3>4. j > 1 => r[i + 1] = lOrder[j - 1]
      <4>1. j > 1 => i + 1 \in 1 .. Len(lOrder) /\ Len(lOrder) - (i + 1) + 1 = j - 1
        BY <1>1, <3>1
      <4> QED  BY <2>2, <4>1
    <3> QED  BY <3>2, <3>3, <3>4
  <2> QED  BY <2>1, <2>3, <2>5, <2>6 DEF List!Spells, List!NULL
<1>5. lSize = Len(lOrder) /\ DOMAIN lNext = List!Range(lOrder)
  <2>1. List!Range(lOrder) = {lOrder[i] : i \in 1 .. Len(lOrder)}
    BY <1>1 DEF List!Range
  <2>2. /\ \A i \in 1 .. Len(lOrder) : lOrder[i] \in DOMAIN lNext
        /\ \A m \in DOMAIN lNext : \E i \in 1 .. Len(lOrder) : lOrder[i] = m
    BY DEF ListInv, IsList
  <2>3. DOMAIN lNext = {lOrder[i] : i \in 1 .. Len(lOrder)}
    BY <2>2
  <2> QED  BY <2>1, <2>3 DEF ListInv
<1> QED  BY <1>3, <1>4, <1>5 DEF List!ListIsSequence

-------------------------------------------------------------------------------
(* Vectors.                                                                *)

Cells == VectorItems \cup {0, VectorGarbage}

\* The cells up to size are those of the sequence.
VectorInv ==
  /\ array \in Seq(Cells) /\ vOrder \in Seq(Cells)
  /\ vSize = Len(vOrder) /\ vSize =< Len(array) /\ Len(array) > 0
  /\ \A i \in 1 .. vSize : array[i] = vOrder[i]

\* The least of a set of numbers.
LEMMA MinIs ==
  ASSUME NEW T \in SUBSET Nat, T # {}
  PROVE  Min(T) \in T /\ \A i \in T : Min(T) =< i
<1>1. PICK m \in T : \A i \in T : <<i, m>> \notin OpToRel(<, Nat)
  BY NatLessThanWellFounded, WFMin
<1>2. \A i \in T : m =< i
  <2> SUFFICES ASSUME NEW i \in T, i < m PROVE FALSE
    OBVIOUS
  <2>1. <<i, m>> \in OpToRel(<, Nat)
    BY DEF OpToRel
  <2> QED  BY <1>1, <2>1
<1> QED  BY <1>2 DEF Min

LEMMA SettleKeeps ==
  ASSUME NEW a \in Seq(Cells), NEW n \in Nat, n =< Len(a), Len(a) > 0, Vector!Settle(a, n),
         vOrder' \in Seq(Cells), Len(vOrder') = n, \A i \in 1 .. n : a[i] = vOrder'[i]
  PROVE  VectorInv'
<1>1. Len(a) \in Nat /\ DOMAIN a = 1 .. Len(a) /\ \A i \in 1 .. Len(a) : a[i] \in Cells
  BY ElementOfSeq
<1>2. array' = [i \in 1 .. Len(a) |-> IF i > n THEN VectorGarbage ELSE a[i]] /\ vSize' = n
  BY <1>1 DEF Vector!Settle, Vector!Forget
<1>3. \A i \in 1 .. Len(a) : array'[i] \in Cells
  BY <1>1, <1>2 DEF Cells
<1>4. array' \in Seq(Cells) /\ Len(array') = Len(a)
  BY <1>1, <1>2, <1>3
<1>5. \A i \in 1 .. n : array'[i] = a[i]
  BY <1>1, <1>2
<1> QED  BY <1>2, <1>4, <1>5 DEF VectorInv

\* An array of more room, with the same cells.
LEMMA ReallocIs ==
  ASSUME NEW a \in Seq(Cells), NEW n \in Nat, n >= Len(a)
  PROVE  /\ Vector!realloc(a, n) \in Seq(Cells) /\ Len(Vector!realloc(a, n)) = n
         /\ \A i \in 1 .. Len(a) : Vector!realloc(a, n)[i] = a[i]
<1>1. Len(a) \in Nat /\ \A i \in 1 .. Len(a) : a[i] \in Cells
  BY ElementOfSeq
<1> DEFINE b == [i \in 1 .. n |-> IF i <= Len(a) THEN a[i] ELSE VectorGarbage]
<1>2. b = Vector!realloc(a, n)
  BY DEF Vector!realloc
<1>3. \A i \in 1 .. n : b[i] \in Cells
  BY <1>1 DEF Cells
<1>4. b \in Seq(Cells) /\ Len(b) = n
  BY <1>3
<1>5. \A i \in 1 .. Len(a) : b[i] = a[i]
  BY <1>1
<1> QED  BY <1>2, <1>4, <1>5

LEMMA ResizedIs ==
  ASSUME VectorInv, NEW m \in Nat
  PROVE  \E a \in Seq(Cells) :
           /\ a = Vector!resized(array, vSize, m) /\ Len(a) > 0 /\ m =< Len(a) /\ vSize =< Len(a)
           /\ \A i \in 1 .. Len(a) : /\ i =< vSize => a[i] = vOrder[i]
                                     /\ i > vSize /\ i =< m => a[i] = 0
<1>0. PICK a : a = Vector!resized(array, vSize, m)
  OBVIOUS
<1>1. /\ array \in Seq(Cells) /\ Len(array) \in Nat /\ Len(array) > 0
      /\ vSize \in Nat /\ vSize =< Len(array) /\ DOMAIN array = 1 .. Len(array)
      /\ \A i \in 1 .. Len(array) : array[i] \in Cells
      /\ \A i \in 1 .. vSize : array[i] = vOrder[i]
  BY ElementOfSeq DEF VectorInv
<1>2. CASE m =< vSize
  <2>1. a = array
    BY <1>0, <1>2 DEF Vector!resized
  <2>2. \A i \in 1 .. Len(a) : ~(i > vSize /\ i =< m)
    BY <1>1, <1>2, <2>1
  <2>3. \A i \in 1 .. Len(a) : i =< vSize => a[i] = vOrder[i]
    BY <1>1, <2>1
  <2> QED  BY <1>0, <1>1, <1>2, <2>1, <2>2, <2>3
<1>3. CASE m > vSize
  <2>1. PICK b : b = IF m > Len(array) THEN Vector!realloc(array, 2 * m) ELSE array
    OBVIOUS
  <2>2. /\ b \in Seq(Cells) /\ Len(b) >= m /\ Len(b) >= Len(array)
        /\ \A i \in 1 .. Len(array) : b[i] = array[i]
    <3>1. CASE m > Len(array)
      <4>1. 2 * m \in Nat /\ 2 * m >= Len(array) /\ 2 * m >= m
        BY <1>1, <3>1
      <4>2. b = Vector!realloc(array, 2 * m)
        BY <2>1, <3>1
      <4>3. b \in Seq(Cells) /\ Len(b) = 2 * m /\ \A i \in 1 .. Len(array) : b[i] = array[i]
        BY <1>1, <4>1, <4>2, ReallocIs
      <4> QED  BY <4>1, <4>3
    <3>2. CASE m =< Len(array)
      BY <1>1, <2>1, <3>2
    <3> QED  BY <1>1, <3>1, <3>2
  <2>3. Len(b) \in Nat /\ DOMAIN b = 1 .. Len(b) /\ \A i \in 1 .. Len(b) : b[i] \in Cells
    BY <2>2, ElementOfSeq
  <2>4. a = [i \in 1 .. Len(b) |-> IF i > vSize /\ i <= m THEN 0 ELSE b[i]]
    BY <1>0, <1>1, <1>3, <2>1, <2>3 DEF Vector!resized
  <2>5. \A i \in 1 .. Len(b) : a[i] \in Cells
    BY <2>3, <2>4 DEF Cells
  <2>6. a \in Seq(Cells) /\ Len(a) = Len(b)
    BY <2>3, <2>4, <2>5
  <2>7. \A i \in 1 .. Len(b) : i =< vSize => b[i] = vOrder[i]
    <3>1. \A i \in 1 .. Len(b) : i =< vSize => i \in 1 .. vSize /\ i \in 1 .. Len(array)
      BY <1>1, <2>3
    <3> QED  BY <1>1, <2>2, <3>1
  <2>8. \A i \in 1 .. Len(a) : /\ i =< vSize => a[i] = vOrder[i]
                               /\ i > vSize /\ i =< m => a[i] = 0
    BY <1>1, <2>4, <2>6, <2>7
  <2> QED  BY <1>0, <1>1, <2>2, <2>3, <2>6, <2>8
<1> QED  BY <1>1, <1>2, <1>3

LEMMA VectorFacts ==
  ASSUME VectorInv
  PROVE  /\ array \in Seq(Cells) /\ Len(array) \in Nat /\ Len(array) > 0
         /\ vSize \in Nat /\ vSize =< Len(array) /\ DOMAIN array = 1 .. Len(array)
         /\ vOrder \in Seq(Cells) /\ Len(vOrder) = vSize /\ DOMAIN vOrder = 1 .. vSize
         /\ \A i \in 1 .. Len(array) : array[i] \in Cells
         /\ \A i \in 1 .. vSize : array[i] = vOrder[i] /\ vOrder[i] \in Cells
BY ElementOfSeq DEF VectorInv

LEMMA VectorInitially == Vector!Init => VectorInv
<1> SUFFICES ASSUME Vector!Init PROVE VectorInv
  OBVIOUS
<1>1. array = [i \in 1 .. VectorCapacity |-> VectorGarbage] /\ vSize = 0 /\ vOrder = <<>>
  BY DEF Vector!Init
<1>2. array \in Seq(Cells) /\ Len(array) = VectorCapacity
  BY <1>1, CollectionsAssumption DEF Cells
<1>3. vOrder \in Seq(Cells) /\ Len(vOrder) = 0
  BY <1>1, EmptySeq
<1> QED  BY <1>1, <1>2, <1>3, CollectionsAssumption DEF VectorInv

LEMMA VectorPushes ==
  ASSUME VectorInv, NEW v \in VectorItems, Vector!push_back(v)
  PROVE  VectorInv'
<1> USE VectorFacts
<1>1. PICK a : a = IF vSize >= Len(array) THEN Vector!realloc(array, 2 * Len(array)) ELSE array
  OBVIOUS
<1>2. /\ Vector!Settle([a EXCEPT ![vSize + 1] = v], vSize + 1)
      /\ vOrder' = Append(vOrder, v)
  BY <1>1 DEF Vector!push_back, Vector!capacity
<1>3. /\ a \in Seq(Cells) /\ Len(a) > vSize
      /\ \A i \in 1 .. Len(array) : a[i] = array[i]
  <2>1. CASE vSize >= Len(array)
    <3>1. 2 * Len(array) \in Nat /\ 2 * Len(array) >= Len(array) /\ 2 * Len(array) > vSize
      BY <2>1
    <3>2. a = Vector!realloc(array, 2 * Len(array))
      BY <1>1, <2>1
    <3>3. a \in Seq(Cells) /\ Len(a) = 2 * Len(array) /\ \A i \in 1 .. Len(array) : a[i] = array[i]
      BY <3>1, <3>2, ReallocIs
    <3> QED  BY <3>1, <3>3
  <2>2. CASE ~(vSize >= Len(array))
    BY <1>1, <2>2
  <2> QED  BY <2>1, <2>2
<1>4. Len(a) \in Nat /\ DOMAIN a = 1 .. Len(a) /\ \A i \in 1 .. Len(a) : a[i] \in Cells
  BY <1>3, ElementOfSeq
<1>5. PICK b : b = [a EXCEPT ![vSize + 1] = v]
  OBVIOUS
<1>6. b = [i \in 1 .. Len(a) |-> IF i = vSize + 1 THEN v ELSE a[i]] /\ v \in Cells
  BY <1>4, <1>5 DEF Cells
<1>7. \A i \in 1 .. Len(a) : b[i] \in Cells
  BY <1>4, <1>6
<1>8. b \in Seq(Cells) /\ Len(b) = Len(a) /\ Len(b) > 0 /\ vSize + 1 =< Len(b) /\ vSize + 1 \in Nat
  BY <1>3, <1>4, <1>6, <1>7
<1>9. vOrder' \in Seq(Cells) /\ IsInserted(vOrder', vOrder, vSize + 1, v)
  BY <1>2, <1>6, EndsAre
<1>10. Len(vOrder') = vSize + 1 /\ vOrder'[vSize + 1] = v /\ \A i \in 1 .. vSize : vOrder'[i] = vOrder[i]
  BY <1>9 DEF IsInserted
<1>11. \A i \in 1 .. (vSize + 1) : b[i] = vOrder'[i]
  <2> SUFFICES ASSUME NEW i \in 1 .. (vSize + 1) PROVE b[i] = vOrder'[i]
    OBVIOUS
  <2>1. CASE i = vSize + 1
    BY <1>3, <1>4, <1>6, <1>10, <2>1
  <2>2. CASE i # vSize + 1
    <3>1. i \in 1 .. vSize /\ i \in 1 .. Len(array) /\ i \in 1 .. Len(a)
      BY <1>3, <1>4, <2>2
    <3> QED  BY <1>3, <1>6, <1>10, <2>2, <3>1
  <2> QED  BY <2>1, <2>2
<1>12. Vector!Settle(b, vSize + 1)
  BY <1>2, <1>5
<1>13. PICK n \in Nat : n = vSize + 1
  BY <1>8
<1>14. /\ n =< Len(b) /\ Vector!Settle(b, n) /\ Len(vOrder') = n
       /\ \A i \in 1 .. n : b[i] = vOrder'[i]
  BY <1>8, <1>10, <1>11, <1>12, <1>13
<1> QED  BY <1>8, <1>9, <1>13, <1>14, SettleKeeps

LEMMA VectorPops ==
  ASSUME VectorInv, Vector!pop_back \/ Vector!clear
  PROVE  VectorInv'
<1> USE VectorFacts
<1>1. CASE Vector!pop_back
  <2>1. vSize > 0 /\ Vector!Settle(array, vSize - 1) /\ vOrder' = Front(vOrder)
    BY <1>1 DEF Vector!pop_back, Vector!Front, Front
  <2>2. vOrder' \in Seq(Cells) /\ IsRemoved(vOrder', vOrder, vSize)
    BY <2>1, EndsAre
  <2>3. Len(vOrder') = vSize - 1 /\ vSize - 1 \in Nat /\ \A i \in 1 .. (vSize - 1) : vOrder'[i] = vOrder[i]
    BY <2>1, <2>2 DEF IsRemoved
  <2> QED  BY <2>1, <2>2, <2>3, SettleKeeps
<1>2. CASE Vector!clear
  <2>1. Vector!Settle(array, 0) /\ vOrder' = <<>>
    BY <1>2 DEF Vector!clear
  <2>2. vOrder' \in Seq(Cells) /\ Len(vOrder') = 0 /\ 0 \in Nat
    BY <2>1, EmptySeq
  <2> QED  BY <2>1, <2>2, SettleKeeps
<1> QED  BY <1>1, <1>2

LEMMA VectorGrows ==
  ASSUME VectorInv,
         \/ \E n \in Nat : Vector!resize(n)
         \/ \E j \in Nat, v \in VectorItems : Vector!setExpand(j, v)
  PROVE  VectorInv'
<1> USE VectorFacts
<1>1. ASSUME NEW n \in Nat, Vector!resize(n)
      PROVE  VectorInv'
  <2>1. PICK a \in Seq(Cells) :
          /\ a = Vector!resized(array, vSize, n) /\ Len(a) > 0 /\ n =< Len(a) /\ vSize =< Len(a)
          /\ \A i \in 1 .. Len(a) : /\ i =< vSize => a[i] = vOrder[i]
                                    /\ i > vSize /\ i =< n => a[i] = 0
    BY ResizedIs
  <2>2. /\ Vector!Settle(a, n)
        /\ vOrder' = [i \in 1 .. n |-> IF i <= Len(vOrder) THEN vOrder[i] ELSE 0]
    BY <1>1, <2>1 DEF Vector!resize
  <2>3. /\ a \in Seq(Cells) /\ Len(a) > 0 /\ n =< Len(a)
        /\ \A i \in 1 .. Len(a) : /\ i =< vSize => a[i] = vOrder[i]
                                  /\ i > vSize /\ i =< n => a[i] = 0
    BY <2>1
  <2>4. \A i \in 1 .. n : vOrder'[i] \in Cells
    BY <2>2 DEF Cells
  <2>5. vOrder' \in Seq(Cells) /\ Len(vOrder') = n
    BY <2>2, <2>4
  <2>6. \A i \in 1 .. n : a[i] = vOrder'[i]
    BY <2>2, <2>3
  <2> QED  BY <2>2, <2>3, <2>5, <2>6, SettleKeeps
<1>2. ASSUME NEW j \in Nat, NEW v \in VectorItems, Vector!setExpand(j, v)
      PROVE  VectorInv'
  <2>1. PICK n : n = IF j >= vSize THEN j + 1 ELSE vSize
    OBVIOUS
  <2>2. n \in Nat /\ j + 1 \in 1 .. n /\ vSize =< n
    <3>1. vSize \in Nat
      BY VectorFacts
    <3>2. CASE j >= vSize
      BY <2>1, <3>1, <3>2
    <3>3. CASE ~(j >= vSize)
      <4>1. j < vSize /\ n = vSize
        BY <2>1, <3>1, <3>3
      <4> QED  BY <3>1, <4>1
    <3> QED  BY <3>2, <3>3
  <2>3. PICK a \in Seq(Cells) :
          /\ a = Vector!resized(array, vSize, n) /\ Len(a) > 0 /\ n =< Len(a) /\ vSize =< Len(a)
          /\ \A i \in 1 .. Len(a) : /\ i =< vSize => a[i] = vOrder[i]
                                    /\ i > vSize /\ i =< n => a[i] = 0
    BY <2>2, ResizedIs
  <2>4. /\ Vector!Settle([a EXCEPT ![j + 1] = v], n)
        /\ vOrder' = [i \in 1 .. n |-> IF i = j + 1 THEN v
                                      ELSE IF i <= Len(vOrder) THEN vOrder[i] ELSE 0]
    BY <1>2, <2>1, <2>3 DEF Vector!setExpand
  <2>5. /\ a \in Seq(Cells) /\ Len(a) > 0 /\ n =< Len(a)
        /\ \A i \in 1 .. Len(a) : /\ i =< vSize => a[i] = vOrder[i]
                                  /\ i > vSize /\ i =< n => a[i] = 0
    BY <2>2, <2>3
  <2>6. Len(a) \in Nat /\ DOMAIN a = 1 .. Len(a) /\ \A i \in 1 .. Len(a) : a[i] \in Cells
    BY <2>5, ElementOfSeq
  <2>7. PICK b : b = [a EXCEPT ![j + 1] = v]
    OBVIOUS
  <2>8. b = [i \in 1 .. Len(a) |-> IF i = j + 1 THEN v ELSE a[i]] /\ v \in Cells
    BY <2>6, <2>7 DEF Cells
  <2>9. \A i \in 1 .. Len(a) : b[i] \in Cells
    BY <2>6, <2>8
  <2>10. b \in Seq(Cells) /\ Len(b) = Len(a) /\ Len(b) > 0 /\ n =< Len(b)
    BY <2>5, <2>6, <2>8, <2>9
  <2>11. \A i \in 1 .. n : vOrder'[i] \in Cells
    BY <2>2, <2>4, <2>8 DEF Cells
  <2>12. vOrder' \in Seq(Cells) /\ Len(vOrder') = n
    BY <2>2, <2>4, <2>11
  <2>13. \A i \in 1 .. n : b[i] = vOrder'[i]
    BY <2>2, <2>4, <2>5, <2>6, <2>8
  <2>14. Vector!Settle(b, n)
    BY <2>4, <2>7
  <2> QED  BY <2>2, <2>10, <2>12, <2>13, <2>14, SettleKeeps
<1> QED  BY <1>1, <1>2

LEMMA VectorInserts ==
  ASSUME VectorInv, NEW j \in Nat, NEW v \in VectorItems, Vector!insertAt(j, v)
  PROVE  VectorInv'
<1> USE VectorFacts
<1>1. PICK n \in Nat : n = vSize + 1
  OBVIOUS
<1>2. PICK a \in Seq(Cells) :
        /\ a = Vector!resized(array, vSize, n) /\ Len(a) > 0 /\ n =< Len(a) /\ vSize =< Len(a)
        /\ \A i \in 1 .. Len(a) : /\ i =< vSize => a[i] = vOrder[i]
                                  /\ i > vSize /\ i =< n => a[i] = 0
  BY ResizedIs
<1>3. PICK b : b = [i \in DOMAIN a |-> IF i = j + 1 THEN v
                                      ELSE IF i > j + 1 /\ i <= n THEN a[i - 1] ELSE a[i]]
  OBVIOUS
<1>4. j =< vSize /\ Vector!Settle(b, n) /\ vOrder' = InsertAt(vOrder, j + 1, v)
  BY <1>1, <1>2, <1>3 DEF Vector!insertAt, Vector!InsertAt, InsertAt
<1>5. /\ a \in Seq(Cells) /\ Len(a) > 0 /\ n =< Len(a)
      /\ \A i \in 1 .. Len(a) : i =< vSize => a[i] = vOrder[i]
  BY <1>1, <1>2
<1>6. /\ Len(a) \in Nat /\ DOMAIN a = 1 .. Len(a) /\ \A i \in 1 .. Len(a) : a[i] \in Cells
      /\ v \in Cells
  BY <1>5, ElementOfSeq DEF Cells
<1>7. \A i \in 1 .. Len(a) : b[i] \in Cells
  <2> SUFFICES ASSUME NEW i \in 1 .. Len(a) PROVE b[i] \in Cells
    OBVIOUS
  <2>1. i > j + 1 => i - 1 \in 1 .. Len(a)
    BY <1>6
  <2> QED  BY <1>3, <1>6, <2>1
<1>8. b \in Seq(Cells) /\ Len(b) = Len(a) /\ Len(b) > 0 /\ n =< Len(b)
  BY <1>3, <1>5, <1>6, <1>7
<1>9. vOrder' \in Seq(Cells) /\ IsInserted(vOrder', vOrder, j + 1, v)
  BY <1>4, <1>6, InsertedIs
<1>10. /\ Len(vOrder') = n /\ vOrder'[j + 1] = v
       /\ \A i \in 1 .. j : vOrder'[i] = vOrder[i]
       /\ \A i \in (j + 1) .. vSize : vOrder'[i + 1] = vOrder[i]
  BY <1>1, <1>9 DEF IsInserted
<1>11. \A i \in 1 .. n : b[i] = vOrder'[i]
  <2> SUFFICES ASSUME NEW i \in 1 .. n PROVE b[i] = vOrder'[i]
    OBVIOUS
  <2>1. i \in 1 .. Len(a)
    BY <1>5, <1>6
  <2>2. CASE i < j + 1
    <3>1. i \in 1 .. j /\ i =< vSize
      BY <1>4, <2>2
    <3> QED  BY <1>3, <1>5, <1>6, <1>10, <2>1, <2>2, <3>1
  <2>3. CASE i = j + 1
    BY <1>3, <1>6, <1>10, <2>1, <2>3
  <2>4. CASE i > j + 1
    <3>1. i - 1 \in (j + 1) .. vSize /\ i - 1 \in 1 .. Len(a) /\ (i - 1) + 1 = i /\ i <= n
      BY <1>1, <1>6, <2>1, <2>4
    <3>2. b[i] = a[i - 1]
      BY <1>3, <1>6, <2>1, <2>4, <3>1
    <3>3. a[i - 1] = vOrder[i - 1]
      BY <1>5, <3>1
    <3>4. vOrder'[(i - 1) + 1] = vOrder[i - 1]
      BY <1>10, <3>1
    <3> QED  BY <3>1, <3>2, <3>3, <3>4
  <2> QED  BY <2>2, <2>3, <2>4
<1> QED  BY <1>4, <1>8, <1>9, <1>10, <1>11, SettleKeeps

LEMMA CellRemoved ==
  ASSUME VectorInv, NEW j \in Nat, j < vSize, Vector!Settle(Vector!removedAt(j), vSize - 1),
         vOrder' = RemoveAt(vOrder, j + 1)
  PROVE  VectorInv'
<1> USE VectorFacts
<1>1. PICK b : b = Vector!removedAt(j)
  OBVIOUS
<1>2. b = [i \in 1 .. Len(array) |-> IF i > j /\ i < vSize THEN array[i + 1] ELSE array[i]]
  BY <1>1 DEF Vector!removedAt
<1>3. \A i \in 1 .. Len(array) : b[i] \in Cells
  <2> SUFFICES ASSUME NEW i \in 1 .. Len(array) PROVE b[i] \in Cells
    OBVIOUS
  <2>1. i < vSize => i + 1 \in 1 .. Len(array)
    OBVIOUS
  <2> QED  BY <1>2, <2>1
<1>4. b \in Seq(Cells) /\ Len(b) = Len(array)
  BY <1>2, <1>3
<1>5. vOrder' \in Seq(Cells) /\ IsRemoved(vOrder', vOrder, j + 1)
  BY RemovedIs
<1>6. /\ Len(vOrder') = vSize - 1
      /\ \A i \in 1 .. j : vOrder'[i] = vOrder[i]
      /\ \A i \in (j + 1) .. (vSize - 1) : vOrder'[i] = vOrder[i + 1]
  BY <1>5 DEF IsRemoved
<1>7. \A i \in 1 .. (vSize - 1) : b[i] = vOrder'[i]
  <2> SUFFICES ASSUME NEW i \in 1 .. (vSize - 1) PROVE b[i] = vOrder'[i]
    OBVIOUS
  <2>1. i \in 1 .. Len(array) /\ i < vSize /\ i \in 1 .. vSize /\ i + 1 \in 1 .. vSize
    OBVIOUS
  <2>2. CASE i =< j
    BY <1>2, <1>6, <2>1, <2>2
  <2>3. CASE i > j
    <3>1. i \in (j + 1) .. (vSize - 1)
      BY <2>1, <2>3
    <3> QED  BY <1>2, <1>6, <2>1, <2>3, <3>1
  <2> QED  BY <2>2, <2>3
<1>8. vSize - 1 \in Nat /\ vSize - 1 =< Len(b) /\ Len(b) > 0
  BY <1>4
<1> QED  BY <1>1, <1>4, <1>5, <1>6, <1>7, <1>8, SettleKeeps

LEMMA VectorRemoves ==
  ASSUME VectorInv,
         \/ \E j \in Nat : Vector!removeAt(j)
         \/ \E v \in VectorItems : Vector!remove(v)
  PROVE  VectorInv'
<1> USE VectorFacts
<1>1. ASSUME NEW j \in Nat, Vector!removeAt(j)
      PROVE  VectorInv'
  <2>1. j < vSize /\ Vector!Settle(Vector!removedAt(j), vSize - 1) /\ vOrder' = RemoveAt(vOrder, j + 1)
    BY <1>1 DEF Vector!removeAt, Vector!RemoveAt, RemoveAt
  <2> QED  BY <2>1, CellRemoved
<1>2. ASSUME NEW v \in VectorItems, Vector!remove(v)
      PROVE  VectorInv'
  <2>1. PICK found : found = {i \in 1 .. vSize : array[i] = v}
    OBVIOUS
  <2>2. found = {i \in DOMAIN vOrder : vOrder[i] = v} /\ found \in SUBSET Nat
    BY <2>1
  <2>3. CASE found = {}
    <3>1. UNCHANGED vectorVars
      BY <1>2, <2>1, <2>3 DEF Vector!remove, Vector!vars, vectorVars
    <3> QED  BY <3>1 DEF VectorInv, vectorVars
  <2>4. CASE found # {}
    <3>1. /\ Vector!Settle(Vector!removedAt(Min(found) - 1), vSize - 1)
          /\ vOrder' = RemoveAt(vOrder, Min({i \in DOMAIN vOrder : vOrder[i] = v}))
      BY <1>2, <2>1, <2>4 DEF Vector!remove, Vector!RemoveAt, RemoveAt, Vector!Min, Min
    <3>2. Min(found) \in found
      BY <2>2, <2>4, MinIs
    <3>3. PICK j : j = Min(found) - 1
      OBVIOUS
    <3>4. j \in Nat /\ j < vSize /\ j + 1 = Min(found)
      BY <2>1, <3>2, <3>3
    <3>5. Vector!Settle(Vector!removedAt(j), vSize - 1) /\ vOrder' = RemoveAt(vOrder, j + 1)
      BY <2>2, <3>1, <3>3, <3>4
    <3> QED  BY <3>4, <3>5, CellRemoved
  <2> QED  BY <2>3, <2>4
<1> QED  BY <1>1, <1>2

LEMMA VectorStepKeeps == VectorInv /\ [Vector!Next]_vectorVars => VectorInv'
<1> SUFFICES ASSUME VectorInv, [Vector!Next]_vectorVars PROVE VectorInv'
  OBVIOUS
<1>1. CASE UNCHANGED vectorVars
  BY <1>1 DEF VectorInv, vectorVars
<1>2. CASE Vector!Next
  <2>1. \A i \in 0 .. VectorLimit - 1 : i \in Nat
    OBVIOUS
  <2>2. \A i \in 0 .. VectorLimit : i \in Nat
    OBVIOUS
  <2> QED  BY <1>2, <2>1, <2>2, VectorPushes, VectorPops, VectorGrows, VectorInserts, VectorRemoves
           DEF Vector!Next
<1> QED  BY <1>1, <1>2

LEMMA VectorMeant == VectorInv => Vector!VectorIsSequence
<1> SUFFICES ASSUME VectorInv PROVE Vector!VectorIsSequence
  OBVIOUS
<1> USE VectorFacts
<1> DEFINE p == SubSeq(array, 1, vSize)
<1>1. p \in Seq(Cells) /\ Len(p) = vSize /\ \A i \in 1 .. vSize : p[i] = array[i]
  BY PartIs
<1> HIDE DEF p
<1>2. p = vOrder
  <2>1. \A i \in 1 .. Len(p) : p[i] = vOrder[i]
    BY <1>1
  <2> QED  BY <1>1, <2>1, SeqEqual
<1> QED  BY <1>2 DEF p, Vector!VectorIsSequence, Vector!capacity

-------------------------------------------------------------------------------
\* Lists and vectors spell the sequences that the calls on them describe, after
\* insertions and removals anywhere and any growth (SnapList and SnapVector of
\* stl-model.h).
THEOREM SequencesAreKept == CollectionsSpec => []ListsAreSequences
<1>1. CollectionsInit => ListInv /\ VectorInv
  BY ListInitially, VectorInitially DEF CollectionsInit
<1>2. ListInv /\ VectorInv /\ [CollectionsNext]_collectionsVars => (ListInv /\ VectorInv)'
  <2> SUFFICES ASSUME ListInv, VectorInv, [CollectionsNext]_collectionsVars
               PROVE  ListInv' /\ VectorInv'
    OBVIOUS
  <2>1. [List!Next]_listVars /\ [Vector!Next]_vectorVars
    BY DEF CollectionsNext, TableStep, ListStep, VectorStep, collectionsVars, listVars, vectorVars
  <2> QED  BY <2>1, ListStepKeeps, VectorStepKeeps
<1>3. ListInv /\ VectorInv => ListsAreSequences
  BY ListMeant, VectorMeant DEF ListsAreSequences
<1> QED  BY <1>1, <1>2, <1>3, PTL DEF CollectionsSpec


-------------------------------------------------------------------------------
(* Copies and fills.                                                       *)

Functions == {"none", "memmove", "memcpy", "strcpy", "memset", "bzero", "flush", "persist",
              "drain", "msync"}

Operation ==
  [stage : {"copy", "fill", "flush", "drain", "done"}, f : Functions, src : Nat, dst : Nat, n : Nat,
   flags : Flags, i : Nat]

Copies == {"memmove", "memcpy", "strcpy"}
Fills == {"memset", "bzero"}

CopyTyped ==
  /\ op \in Operation /\ Fits(op.dst, op.n)
  /\ mem \in [Address -> Int] /\ before \in [Address -> Int]
  /\ op.f \in Copies => Fits(op.src, op.n)
  /\ op.f = "bzero" => op.src = 0
  /\ op.stage = "copy" => op.f \in Copies
  /\ op.stage = "fill" => op.f \in Fills
  /\ op.stage \in {"copy", "fill"} => op.i =< op.n
  /\ op.stage = "copy" => pmem_is_pmem(op.dst)

\* How far the bytes of the destination have got.
Reached == IF op.stage \in {"copy", "fill"} THEN op.i ELSE op.n

\* The bytes up to there are the wanted ones, the rest is as it was.
Progress ==
  /\ \A a \in Address : a \notin Extent(op.dst, Reached) => mem[a] = before[a]
  /\ Faithful => \A a \in Extent(op.dst, Reached) : mem[a] = Wanted(a)

CopyInv == CopyTyped /\ Progress

-------------------------------------------------------------------------------
(* Lemmas about the operators.                                             *)

\* A piece does not reach past the end.
LEMMA PieceFits ==
  ASSUME op \in Operation, op.i < op.n, NEW A
  PROVE  Piece(A) \in Nat \ {0} /\ op.i + Piece(A) =< op.n
<1> DEFINE Ok(w) == op.i + w =< op.n /\ \A a \in A : (a + op.i) % w = 0
           Is(w) == (w = 1 \/ Ok(w)) /\ \A v \in {2, 4, 8} : v > w => ~Ok(v)
<1>1. \E w \in {1, 2, 4, 8} : Is(w)
  <2> HIDE DEF Ok
  <2>1. CASE Ok(8)
    BY <2>1
  <2>2. CASE ~Ok(8) /\ Ok(4)
    BY <2>2
  <2>3. CASE ~Ok(8) /\ ~Ok(4) /\ Ok(2)
    BY <2>3
  <2>4. CASE ~Ok(8) /\ ~Ok(4) /\ ~Ok(2)
    BY <2>4
  <2> QED  BY <2>1, <2>2, <2>3, <2>4
<1>2. Piece(A) = CHOOSE w \in {1, 2, 4, 8} : Is(w)
  BY DEF Piece
<1>3. PICK w : w = Piece(A)
  OBVIOUS
<1>4. w \in {1, 2, 4, 8} /\ Is(w)
  <2> HIDE DEF Is
  <2> QED  BY <1>1, <1>2, <1>3
<1>5. op.i \in Nat /\ op.n \in Nat
  BY DEF Operation
<1>6. w \in Nat \ {0} /\ op.i + w =< op.n
  BY <1>4, <1>5
<1> QED  BY <1>3, <1>6

\* Filling with a byte without sign is that byte.
LEMMA FilledIs ==
  ASSUME NEW c \in Int, c < 128, NEW w \in Nat, NEW k \in 0 .. w - 1
  PROVE  Filled(c, w)[k] = c
BY DEF Filled

\* What Faithful and Wanted are, case by case.
LEMMA CopyWanted ==
  ASSUME op.f \in Copies, NEW a
  PROVE  /\ Faithful <=> ~(pmem_is_pmem(op.dst) /\ op.src < op.dst /\ op.dst < op.src + op.n)
         /\ Wanted(a) = before[op.src + a - op.dst]
BY DEF Copies, Faithful, Wanted

LEMMA FillWanted ==
  ASSUME op.f \in Fills, NEW a
  PROVE  /\ Faithful /\ op.f = "memset" => op.src < 128
         /\ Wanted(a) = op.src
BY DEF Fills, Faithful, Wanted

LEMMA NothingWanted ==
  ASSUME op.f \notin Copies \cup Fills, NEW a
  PROVE  Wanted(a) = before[a]
BY DEF Copies, Fills, Wanted

\* What the remainder leaves is a multiple.
LEMMA DivMod ==
  ASSUME NEW a \in Nat, NEW m \in Nat \ {0}
  PROVE  a % m \in 0 .. (m - 1) /\ \E q \in Nat : a - (a % m) = m * q
<1>1. a % m \in 0 .. (m - 1)
  OBVIOUS
<1>2. a = (a \div m) * m + (a % m)
  <2>1. a \in Int /\ m \in Int /\ m > 0
    OBVIOUS
  <2>2. ASSUME NEW x \in Int, NEW y \in Int, y > 0 PROVE x = (x \div y) * y + (x % y)
    BY <2>2, Z3
  <2> QED  BY <2>1, <2>2
<1>3. a \div m \in Nat
  OBVIOUS
<1>4. m * (a \div m) = (a \div m) * m /\ m * (a \div m) \in Nat
  BY <1>3
<1>5. PICK q \in Nat, r \in Nat : q = a \div m /\ r = a % m
  BY <1>1, <1>3
<1>6. a = q * m + r /\ m * q = q * m /\ m * q \in Nat
  BY <1>2, <1>4, <1>5
<1>7. a - r = m * q
  BY <1>6
<1> QED  BY <1>1, <1>5, <1>7


\* The line of an address begins at a multiple of its size ...
LEMMA LineBegins ==
  ASSUME NEW a \in Nat
  PROVE  \E q \in Nat : /\ LineOf(a) = q * CACHE_LINE_SIZE
                        /\ LineOf(a) =< a /\ a < LineOf(a) + CACHE_LINE_SIZE
<1>1. CACHE_LINE_SIZE \in Nat \ {0}
  BY CopyAssumption
<1>2. PICK r \in 0 .. (CACHE_LINE_SIZE - 1) : r = a % CACHE_LINE_SIZE
  BY <1>1, DivMod
<1>3. PICK q \in Nat : a - (a % CACHE_LINE_SIZE) = CACHE_LINE_SIZE * q
  BY <1>1, DivMod
<1>4. CACHE_LINE_SIZE * q = q * CACHE_LINE_SIZE
  BY <1>1
<1>5. LineOf(a) = q * CACHE_LINE_SIZE /\ LineOf(a) = a - r
  BY <1>2, <1>3, <1>4 DEF LineOf
<1>6. a - r =< a /\ a < a - r + CACHE_LINE_SIZE
  BY <1>1, <1>2
<1> QED  BY <1>5, <1>6

LEMMA Multiples ==
  ASSUME NEW L \in Nat, NEW p \in Nat, NEW q \in Nat, p < q
  PROVE  p * L + L =< q * L
<1>1. q = (p + 1) + (q - (p + 1)) /\ q - (p + 1) \in Nat
  OBVIOUS
<1>2. PICK d \in Nat : d = q - (p + 1)
  BY <1>1
<1>3. q * L = (p + 1 + d) * L
  BY <1>1, <1>2
<1>4. (p + 1 + d) * L = p * L + L + d * L
  BY SMT
<1>5. d * L \in Nat /\ p * L \in Nat /\ q * L \in Nat
  BY SMT
<1> QED  BY <1>3, <1>4, <1>5

\* ... and is found at every address in it.
LEMMA LineFound ==
  ASSUME NEW q \in Nat, NEW a \in Nat, q * CACHE_LINE_SIZE =< a,
         a < q * CACHE_LINE_SIZE + CACHE_LINE_SIZE
  PROVE  LineOf(a) = q * CACHE_LINE_SIZE
<1>1. CACHE_LINE_SIZE \in Nat \ {0}
  BY CopyAssumption
<1>2. PICK p \in Nat : /\ LineOf(a) = p * CACHE_LINE_SIZE
                       /\ LineOf(a) =< a /\ a < LineOf(a) + CACHE_LINE_SIZE
  BY LineBegins
<1>3. p * CACHE_LINE_SIZE \in Nat /\ q * CACHE_LINE_SIZE \in Nat
  BY <1>1
<1>4. CASE p < q
  <2>1. p * CACHE_LINE_SIZE + CACHE_LINE_SIZE =< q * CACHE_LINE_SIZE
    BY <1>1, <1>4, Multiples
  <2> QED  BY <1>1, <1>2, <1>3, <2>1
<1>5. CASE q < p
  <2>1. q * CACHE_LINE_SIZE + CACHE_LINE_SIZE =< p * CACHE_LINE_SIZE
    BY <1>1, <1>5, Multiples
  <2> QED  BY <1>1, <1>2, <1>3, <2>1
<1>6. CASE p = q
  BY <1>2, <1>6
<1> QED  BY <1>4, <1>5, <1>6

-------------------------------------------------------------------------------
(* The steps.                                                              *)

\* What the next state's Reached and Wanted are made of.
LEMMA CallKeeps ==
  ASSUME CopyInv, NEW f \in Functions, NEW src \in Nat, NEW dst \in Nat, NEW n \in Nat,
         NEW flags \in Flags, NEW stage \in {"copy", "fill", "flush", "drain", "done"},
         Call(f, src, dst, n, flags, stage), Fits(dst, n),
         f \in Copies => stage = "copy" /\ Fits(src, n) /\ pmem_is_pmem(dst),
         f \in Fills => stage = "fill" /\ (f = "bzero" => src = 0),
         f \notin Copies \cup Fills => stage \notin {"copy", "fill"}
  PROVE  CopyInv'
<1>1. /\ op' = [stage |-> stage, f |-> f, src |-> src, dst |-> dst, n |-> n, flags |-> flags, i |-> 0]
      /\ before' = mem /\ mem' = mem
  BY DEF Call
<1>2. op' \in Operation
  BY <1>1 DEF Operation
<1>3. CopyTyped'
  BY <1>1, <1>2 DEF CopyInv, CopyTyped, Copies, Fills, Fits, pmem_is_pmem
<1>4. Progress'
  <2>1. CASE f \in Copies \cup Fills
    <3>1. Reached' = 0 /\ Extent(op.dst, Reached)' = {}
      BY <1>1, <2>1 DEF Reached, Extent
    <3> QED  BY <1>1, <3>1 DEF Progress
  <2>2. CASE f \notin Copies \cup Fills
    <3>1. ASSUME NEW a PROVE Wanted(a)' = mem[a]
      BY <1>1, <2>2 DEF Wanted, Copies, Fills
    <3> QED  BY <1>1, <3>1 DEF Progress
  <2> QED  BY <2>1, <2>2
<1> QED  BY <1>3, <1>4 DEF CopyInv

\* The C library's function, for a destination that is not persistent.
LEMMA RealKeeps ==
  ASSUME CopyInv, NEW f \in Copies \cup {"memset"}, NEW src \in Nat, NEW dst \in Nat, NEW n \in Nat,
         NEW new, Real(f, src, dst, n, new), Fits(dst, n),
         f \in Copies => Fits(src, n) /\ \A a \in Extent(dst, n) : new[a] = mem[src + a - dst],
         f = "memset" => \A a \in Extent(dst, n) : new[a] = src
  PROVE  CopyInv'
<1>1. /\ op' = [stage |-> "done", f |-> f, src |-> src, dst |-> dst, n |-> n,
                flags |-> {NOFLUSH}, i |-> n]
      /\ before' = mem
      /\ mem' = [a \in Address |-> IF a \in Extent(dst, n) THEN new[a] ELSE mem[a]]
  BY DEF Real
<1>2. op' \in Operation
  BY <1>1 DEF Operation, Functions, Copies, Flags
<1>3. mem \in [Address -> Int] /\ Size \in Nat
  BY CopyAssumption DEF CopyInv, CopyTyped
<1>4. ASSUME NEW a \in Extent(dst, n) PROVE new[a] \in Int
  <2>1. CASE f \in Copies
    <3>1. src + a - dst \in Address
      BY <1>3, <2>1 DEF Extent, Fits, Address
    <3> QED  BY <1>3, <2>1, <3>1
  <2>2. CASE f = "memset"
    BY <2>2
  <2> QED  BY <2>1, <2>2
<1>5. CopyTyped'
  <2>1. mem' \in [Address -> Int]
    BY <1>1, <1>3, <1>4
  <2> QED  BY <1>1, <1>2, <1>3, <2>1 DEF CopyTyped, Copies, Fills, Fits, pmem_is_pmem
<1>6. Progress'
  <2>1. Reached' = n
    BY <1>1 DEF Reached
  <2>2. ASSUME NEW a \in Extent(dst, n), a \in Address PROVE mem'[a] = Wanted(a)'
    <3>1. mem'[a] = new[a]
      BY <1>1, <2>2
    <3>2. CASE f \in Copies
      <4>1. Wanted(a)' = mem[src + a - dst]
        BY <1>1, <3>2 DEF Wanted, Copies
      <4> QED  BY <3>1, <3>2, <4>1
    <3>3. CASE f = "memset"
      <4>1. Wanted(a)' = src
        BY <1>1, <3>3 DEF Wanted
      <4> QED  BY <3>1, <3>3, <4>1
    <3> QED  BY <3>2, <3>3
  <2>3. Extent(dst, n) \subseteq Address
    BY <1>3 DEF Extent, Fits, Address
  <2> QED  BY <1>1, <2>1, <2>2, <2>3 DEF Progress, Extent
<1> QED  BY <1>5, <1>6 DEF CopyInv

\* Of the call's description, a piece changes only how far it has got.
LEMMA PieceStores ==
  ASSUME CopyInv, op.stage \in {"copy", "fill"}, op.i < op.n, NEW w \in Nat \ {0}, op.i + w =< op.n,
         NEW values, Store(op.dst + op.i, w, values), op' = [op EXCEPT !.i = @ + w],
         before' = before, \A k \in 0 .. w - 1 : values[k] \in Int,
         Faithful => \A k \in 0 .. w - 1 : values[k] = Wanted(op.dst + op.i + k)
  PROVE  CopyInv'
<1>1. /\ op \in Operation /\ Fits(op.dst, op.n) /\ mem \in [Address -> Int] /\ Size \in Nat
      /\ before \in [Address -> Int]
  BY CopyAssumption DEF CopyInv, CopyTyped
<1>2. /\ op' \in Operation /\ op'.i = op.i + w /\ op'.stage = op.stage /\ op'.f = op.f
      /\ op'.src = op.src /\ op'.dst = op.dst /\ op'.n = op.n
  BY <1>1 DEF Operation
<1>3. mem' = [b \in Address |-> IF b \in Extent(op.dst + op.i, w) THEN values[b - (op.dst + op.i)]
                                ELSE mem[b]]
  BY DEF Store
<1>4. op.dst \in Nat /\ op.i \in Nat /\ op.n \in Nat
  BY <1>1 DEF Operation
<1>5. ASSUME NEW b \in Extent(op.dst + op.i, w)
      PROVE  b - (op.dst + op.i) \in 0 .. w - 1 /\ op.dst + op.i + (b - (op.dst + op.i)) = b
  BY <1>4 DEF Extent
<1>6. CopyTyped'
  <2>1. mem' \in [Address -> Int]
    BY <1>1, <1>3, <1>5
  <2> QED  BY <1>1, <1>2, <1>4, <2>1 DEF CopyInv, CopyTyped, Fits, pmem_is_pmem
<1>7. Reached = op.i /\ Reached' = op.i + w
  BY <1>2 DEF Reached
<1>8. (Faithful <=> Faithful') /\ \A a : Wanted(a)' = Wanted(a)
  BY <1>2 DEF Faithful, Wanted, pmem_is_pmem
<1>9. Extent(op.dst, op.i + w) = Extent(op.dst, op.i) \cup Extent(op.dst + op.i, w)
  BY <1>4 DEF Extent
<1>10. Extent(op.dst, op.i + w) \subseteq Address
  BY <1>1, <1>4 DEF Extent, Fits, Address
<1>11. ASSUME NEW a \in Address, a \notin Extent(op.dst, op.i + w) PROVE mem'[a] = before[a]
  BY <1>3, <1>7, <1>9, <1>11 DEF CopyInv, Progress
<1>12. ASSUME Faithful, NEW a \in Extent(op.dst, op.i + w) PROVE mem'[a] = Wanted(a)
  <2>1. CASE a \in Extent(op.dst + op.i, w)
    <3>1. PICK k \in 0 .. w - 1 : k = a - (op.dst + op.i) /\ op.dst + op.i + k = a
      BY <1>5, <2>1
    <3> QED  BY <1>3, <1>10, <1>12, <2>1, <3>1
  <2>2. CASE a \notin Extent(op.dst + op.i, w)
    BY <1>3, <1>7, <1>9, <1>10, <1>12, <2>2 DEF CopyInv, Progress
  <2> QED  BY <2>1, <2>2
<1>13. Progress'
  <2>1. Extent(op.dst, Reached)' = Extent(op.dst, op.i + w)
    BY <1>2, <1>7 DEF Extent
  <2> QED  BY <1>2, <1>8, <1>11, <1>12, <2>1 DEF Progress
<1> QED  BY <1>6, <1>13 DEF CopyInv

LEMMA CopyPieceKeeps ==
  ASSUME CopyInv, CopyPiece
  PROVE  CopyInv'
<1>1. op \in Operation /\ op.stage = "copy" /\ op.f \in Copies /\ op.i < op.n /\ pmem_is_pmem(op.dst)
  BY DEF CopyPiece, CopyInv, CopyTyped
<1>2. PICK w : w = Piece({op.src, op.dst})
  OBVIOUS
<1>3. w \in Nat \ {0} /\ op.i + w =< op.n
  BY <1>1, <1>2, PieceFits
<1>4. PICK values : values = [k \in 0 .. w - 1 |-> mem[op.src + op.i + k]]
  OBVIOUS
<1>5. Store(op.dst + op.i, w, values) /\ op' = [op EXCEPT !.i = @ + w] /\ before' = before
  BY <1>2, <1>4 DEF CopyPiece
<1>6. /\ op.src \in Nat /\ op.dst \in Nat /\ op.i \in Nat /\ op.n \in Nat
      /\ mem \in [Address -> Int] /\ Fits(op.src, op.n) /\ Size \in Nat
  BY <1>1, CopyAssumption DEF CopyInv, CopyTyped, Operation
<1>7. ASSUME NEW k \in 0 .. w - 1 PROVE op.src + op.i + k \in Address /\ values[k] \in Int
  <2>1. k \in Nat /\ k < w
    BY <1>3
  <2>2. op.src + op.i + k \in Nat /\ op.src + op.i + k < op.src + op.n
    BY <1>3, <1>6, <2>1
  <2>3. op.src + op.i + k \in Address
    BY <1>6, <2>2 DEF Fits, Address
  <2> QED  BY <1>4, <1>6, <2>3
<1>8. ASSUME Faithful, NEW k \in 0 .. w - 1 PROVE values[k] = Wanted(op.dst + op.i + k)
  <2>1. PICK a : a = op.src + op.i + k
    OBVIOUS
  <2>2. a \in Address
    BY <1>7, <2>1
  <2>3. ~(op.src < op.dst /\ op.dst < op.src + op.n)
    BY <1>1, <1>8, CopyWanted
  <2>4. a \notin Extent(op.dst, op.i)
    BY <1>3, <1>6, <2>1, <2>3 DEF Extent
  <2>5. mem[a] = before[a]
    BY <1>1, <2>2, <2>4 DEF CopyInv, Progress, Reached
  <2>6. Wanted(op.dst + op.i + k) = before[op.src + (op.dst + op.i + k) - op.dst]
    BY <1>1, CopyWanted
  <2>7. op.src + (op.dst + op.i + k) - op.dst = a
    BY <1>3, <1>6, <2>1
  <2> QED  BY <1>4, <2>1, <2>5, <2>6, <2>7
<1> QED  BY <1>1, <1>3, <1>5, <1>7, <1>8, PieceStores

LEMMA FillPieceKeeps ==
  ASSUME CopyInv, FillPiece
  PROVE  CopyInv'
<1>1. op \in Operation /\ op.stage = "fill" /\ op.f \in Fills /\ op.i < op.n
  BY DEF FillPiece, CopyInv, CopyTyped
<1>2. PICK w : w = Piece({op.dst})
  OBVIOUS
<1>3. w \in Nat \ {0} /\ op.i + w =< op.n
  BY <1>1, <1>2, PieceFits
<1>4. PICK values : values = Filled(op.src, w)
  OBVIOUS
<1>5. Store(op.dst + op.i, w, values) /\ op' = [op EXCEPT !.i = @ + w] /\ before' = before
  BY <1>2, <1>4 DEF FillPiece
<1>6. op.src \in Nat
  BY <1>1 DEF Operation
<1>7. \A k \in 0 .. w - 1 : values[k] \in Int
  BY <1>4, <1>6 DEF Filled
<1>8. ASSUME Faithful, NEW k \in 0 .. w - 1 PROVE values[k] = Wanted(op.dst + op.i + k)
  <2>1. op.src < 128
    <3>1. CASE op.f = "memset"
      BY <1>1, <1>8, <3>1, FillWanted
    <3>2. CASE op.f = "bzero"
      BY <3>2 DEF CopyInv, CopyTyped
    <3> QED  BY <1>1, <3>1, <3>2 DEF Fills
  <2>2. values[k] = op.src
    BY <1>3, <1>4, <1>6, <2>1, FilledIs
  <2>3. Wanted(op.dst + op.i + k) = op.src
    BY <1>1, FillWanted
  <2> QED  BY <2>2, <2>3
<1> QED  BY <1>1, <1>3, <1>5, <1>7, <1>8, PieceStores

\* Nothing but the stage of the call changes, and the number of lines flushed.
LEMMA StageKeeps ==
  ASSUME CopyInv, NEW stage \in {"flush", "drain", "done"}, NEW i \in Nat,
         op.i >= op.n \/ op.stage \notin {"copy", "fill"},
         op' = [op EXCEPT !.stage = stage, !.i = i], mem' = mem, before' = before
  PROVE  CopyInv'
<1>1. op \in Operation
  BY DEF CopyInv, CopyTyped
<1>2. /\ op' \in Operation /\ op'.stage = stage /\ op'.f = op.f
      /\ op'.src = op.src /\ op'.dst = op.dst /\ op'.n = op.n
  BY <1>1 DEF Operation
<1>3. CopyTyped'
  BY <1>2 DEF CopyInv, CopyTyped, Fits
<1>4. Reached' = op.n /\ Reached = op.n
  <2>1. op.i \in Nat /\ op.n \in Nat
    BY <1>1 DEF Operation
  <2> QED  BY <1>2, <2>1 DEF Reached, CopyInv, CopyTyped
<1>5. (Faithful <=> Faithful') /\ \A a : Wanted(a)' = Wanted(a)
  BY <1>2 DEF Faithful, Wanted, pmem_is_pmem
<1>6. Extent(op.dst, Reached)' = Extent(op.dst, Reached)
  BY <1>2, <1>4 DEF Extent
<1>7. Progress'
  BY <1>2, <1>5, <1>6 DEF CopyInv, Progress
<1> QED  BY <1>3, <1>7 DEF CopyInv

LEMMA CallsKeep ==
  ASSUME CopyInv, NEW r \in Ranges, NEW s \in Sources, NEW flags \in Flags,
         \/ pmem_memmove(s, r[1], r[2], flags) \/ pmem_memcpy(s, r[1], r[2], flags)
         \/ strcpy(s, r[1], r[2]) \/ memcpy(s, r[1], r[2]) \/ memmove(s, r[1], r[2])
  PROVE  CopyInv'
<1>1. /\ r[1] \in Nat /\ r[2] \in Nat /\ Fits(r[1], r[2]) /\ s \in Nat
      /\ {NOFLUSH} \in Flags
  BY CopyAssumption DEF Flags
<1>2. PICK dst \in Nat, n \in Nat : dst = r[1] /\ n = r[2]
  BY <1>1
<1>3. ASSUME NEW f \in Copies, NEW g \in Flags, Fits(s, n), pmem_is_pmem(dst),
             Call(f, s, dst, n, g, "copy")
      PROVE  CopyInv'
  <2>1. f \in Functions /\ f \notin Fills
    BY DEF Copies, Functions, Fills
  <2> QED  BY <1>1, <1>2, <1>3, <2>1, CallKeeps
<1>4. ASSUME NEW f \in Copies, Fits(s, n), ~pmem_is_pmem(dst),
             Real(f, s, dst, n, [a \in Extent(dst, n) |-> mem[s + a - dst]])
      PROVE  CopyInv'
  <2>1. f # "memset"
    BY DEF Copies
  <2>2. PICK new : new = [a \in Extent(dst, n) |-> mem[s + a - dst]]
    OBVIOUS
  <2>3. Real(f, s, dst, n, new) /\ \A a \in Extent(dst, n) : new[a] = mem[s + a - dst]
    BY <1>4, <2>2
  <2> HIDE <2>2
  <2> QED  BY <1>1, <1>2, <1>4, <2>1, <2>3, RealKeeps
<1>5. CASE pmem_memmove(s, dst, n, flags)
  BY <1>3, <1>5 DEF pmem_memmove, Copies
<1>6. CASE pmem_memcpy(s, dst, n, flags)
  BY <1>3, <1>6 DEF pmem_memcpy, Copies
<1>7. CASE strcpy(s, dst, n)
  <2>1. Fits(s, n)
    BY <1>1, <1>7, CopyAssumption DEF strcpy, Fits
  <2> QED  BY <1>1, <1>3, <1>7, <2>1 DEF strcpy, Copies
<1>8. CASE memcpy(s, dst, n)
  <2>1. CASE pmem_is_pmem(dst)
    BY <1>1, <1>3, <1>8, <2>1 DEF memcpy, pmem_memcpy, Copies
  <2>2. CASE ~pmem_is_pmem(dst)
    BY <1>4, <1>8, <2>2 DEF memcpy, Copies
  <2> QED  BY <2>1, <2>2
<1>9. CASE memmove(s, dst, n)
  <2>1. CASE pmem_is_pmem(dst)
    BY <1>1, <1>3, <1>9, <2>1 DEF memmove, pmem_memmove, Copies
  <2>2. CASE ~pmem_is_pmem(dst)
    BY <1>4, <1>9, <2>2 DEF memmove, Copies
  <2> QED  BY <2>1, <2>2
<1> QED  BY <1>2, <1>5, <1>6, <1>7, <1>8, <1>9

LEMMA FillsKeep ==
  ASSUME CopyInv, NEW r \in Ranges, NEW c \in Fillers \cup {0}, NEW flags \in Flags,
         pmem_memset(c, r[1], r[2], flags) \/ memset(c, r[1], r[2]) \/ bzero(r[1], r[2])
  PROVE  CopyInv'
<1>1. /\ r[1] \in Nat /\ r[2] \in Nat /\ Fits(r[1], r[2]) /\ c \in Nat
      /\ {NOFLUSH} \in Flags
  BY CopyAssumption DEF Flags
<1>2. PICK dst \in Nat, n \in Nat : dst = r[1] /\ n = r[2]
  BY <1>1
<1>3. ASSUME NEW f \in Fills, NEW src \in Nat, f = "bzero" => src = 0, NEW g \in Flags,
             Call(f, src, dst, n, g, "fill")
      PROVE  CopyInv'
  <2>1. f \in Functions /\ f \notin Copies
    BY DEF Copies, Functions, Fills
  <2> QED  BY <1>1, <1>2, <1>3, <2>1, CallKeeps
<1>4. CASE pmem_memset(c, dst, n, flags)
  BY <1>1, <1>3, <1>4 DEF pmem_memset, Fills
<1>5. CASE memset(c, dst, n)
  <2>1. CASE pmem_is_pmem(dst)
    BY <1>1, <1>3, <1>5, <2>1 DEF memset, pmem_memset, Fills
  <2>2. CASE ~pmem_is_pmem(dst)
    <3>1. "memset" \notin Copies
      BY DEF Copies
    <3>2. PICK new : new = [a \in Extent(dst, n) |-> c]
      OBVIOUS
    <3>3. Real("memset", c, dst, n, new) /\ \A a \in Extent(dst, n) : new[a] = c
      BY <1>5, <2>2, <3>2 DEF memset
    <3> HIDE <3>2
    <3> QED  BY <1>1, <1>2, <3>1, <3>3, RealKeeps
  <2> QED  BY <2>1, <2>2
<1>6. CASE bzero(dst, n)
  BY <1>1, <1>3, <1>6 DEF bzero, Fills
<1> QED  BY <1>2, <1>4, <1>5, <1>6

\* Calls that neither copy nor fill.
LEMMA OthersKeep ==
  ASSUME CopyInv, NEW dst \in Nat, NEW n \in Nat, Fits(dst, n),
         pmem_flush(dst, n) \/ pmem_persist(dst, n) \/ pmem_msync(dst, n) \/ pmem_drain
  PROVE  CopyInv'
<1>1. Fits(0, 0) /\ {NODRAIN} \in Flags /\ {} \in Flags
  BY CopyAssumption DEF Flags, Fits
<1>3. ASSUME NEW f \in Functions, f \notin Copies \cup Fills, NEW a \in Nat, NEW m \in Nat, Fits(a, m),
             NEW g \in Flags, NEW stage \in {"flush", "drain", "done"}, Call(f, 0, a, m, g, stage)
      PROVE  CopyInv'
  BY <1>3, CallKeeps
<1>4. \A f \in {"flush", "persist", "drain", "msync"} : f \in Functions /\ f \notin Copies \cup Fills
  BY DEF Functions, Copies, Fills
<1>5. CASE pmem_flush(dst, n)
  BY <1>1, <1>3, <1>4, <1>5 DEF pmem_flush
<1>6. CASE pmem_persist(dst, n)
  BY <1>1, <1>3, <1>4, <1>6 DEF pmem_persist
<1>7. CASE pmem_msync(dst, n)
  <2>1. PICK stage \in {"flush", "done"} : Call("msync", 0, dst, n, {}, stage)
    BY <1>7 DEF pmem_msync
  <2> QED  BY <1>1, <1>3, <1>4, <2>1
<1>8. CASE pmem_drain
  BY <1>1, <1>3, <1>4, <1>8 DEF pmem_drain
<1> QED  BY <1>5, <1>6, <1>7, <1>8

LEMMA CopyInitially == CopyInit => CopyInv
<1> SUFFICES ASSUME CopyInit PROVE CopyInv
  OBVIOUS
<1>1. op \in Operation /\ Fits(op.dst, op.n)
  BY CopyAssumption DEF CopyInit, Operation, Functions, Flags, Fits
<1>2. CopyTyped
  BY <1>1, CopyAssumption DEF CopyInit, CopyTyped, Copies, Fills, Address
<1>3. Progress
  BY DEF CopyInit, Progress, Reached, Extent
<1> QED  BY <1>2, <1>3 DEF CopyInv

LEMMA CopyStepKeeps == CopyInv /\ [CopyNext]_copyVars => CopyInv'
<1> SUFFICES ASSUME CopyInv, [CopyNext]_copyVars PROVE CopyInv'
  OBVIOUS
<1>1. CASE UNCHANGED copyVars
  BY <1>1 DEF CopyInv, CopyTyped, Progress, copyVars, Reached, Faithful, Wanted, Fits, Extent,
              pmem_is_pmem
<1>2. op \in Operation /\ op.i \in Nat /\ op.n \in Nat
  BY DEF CopyInv, CopyTyped, Operation
<1>3. ASSUME NEW r \in Ranges, NEW s \in Sources, NEW flags \in Flags,
             \/ pmem_memmove(s, r[1], r[2], flags) \/ pmem_memcpy(s, r[1], r[2], flags)
             \/ strcpy(s, r[1], r[2]) \/ memcpy(s, r[1], r[2]) \/ memmove(s, r[1], r[2])
      PROVE  CopyInv'
  BY <1>3, CallsKeep
<1>4. ASSUME NEW r \in Ranges, NEW c \in Fillers \cup {0}, NEW flags \in Flags,
             pmem_memset(c, r[1], r[2], flags) \/ memset(c, r[1], r[2]) \/ bzero(r[1], r[2])
      PROVE  CopyInv'
  BY <1>4, FillsKeep
<1>5. CASE CopyPiece
  BY <1>5, CopyPieceKeeps
<1>6. CASE FillPiece
  BY <1>6, FillPieceKeeps
<1>7. CASE Copied
  <2>1. PICK stage \in {"flush", "done"} : op' = [op EXCEPT !.stage = stage, !.i = 0]
    BY <1>7 DEF Copied, AfterCopy
  <2> QED  BY <1>7, <2>1, StageKeeps DEF Copied
<1>8. CASE pmc_clflushopt
  <2>1. op' = [op EXCEPT !.stage = "flush", !.i = op.i + 1]
    BY <1>2, <1>8 DEF pmc_clflushopt, Operation
  <2>2. op.stage \notin {"copy", "fill"} /\ op.i + 1 \in Nat /\ mem' = mem /\ before' = before
    BY <1>2, <1>8 DEF pmc_clflushopt
  <2> QED  BY <2>1, <2>2, StageKeeps
<1>9. CASE Flushed
  <2>1. PICK stage \in {"drain", "done"} : op' = [op EXCEPT !.stage = stage]
    BY <1>9 DEF Flushed, AfterFlush
  <2>2. op' = [op EXCEPT !.stage = stage, !.i = op.i]
    BY <1>2, <2>1 DEF Operation
  <2> QED  BY <1>2, <1>9, <2>2, StageKeeps DEF Flushed
<1>10. CASE pmc_sfence
  <2>1. op' = [op EXCEPT !.stage = "done", !.i = op.i]
    BY <1>2, <1>10 DEF pmc_sfence, Operation
  <2> QED  BY <1>2, <1>10, <2>1, StageKeeps DEF pmc_sfence
<1>11. ASSUME NEW r \in Ranges,
              \/ pmem_flush(r[1], r[2]) \/ pmem_persist(r[1], r[2]) \/ pmem_msync(r[1], r[2])
       PROVE  CopyInv'
  <2>1. r[1] \in Nat /\ r[2] \in Nat /\ Fits(r[1], r[2])
    BY CopyAssumption
  <2> QED  BY <1>11, <2>1, OthersKeep
<1>12. CASE pmem_drain
  <2>1. 0 \in Nat /\ Fits(0, 0)
    BY CopyAssumption DEF Fits
  <2> QED  BY <1>12, <2>1, OthersKeep
<1>13. {NOFLUSH} \in Flags /\ 0 \in Fillers \cup {0}
  BY DEF Flags
<1> QED  BY <1>13, <1>1, <1>3, <1>4, <1>5, <1>6, <1>7, <1>8, <1>9, <1>10, <1>11, <1>12 DEF CopyNext

\* The pieces of a copy or fill add up to what was asked for, whatever the length and the
\* alignment of its ends, and stay within its range.
THEOREM CopiesAreRight == CopySpec => []CopiesAsAsked
<1>1. CopyInv => CopiesAsAsked
  <2> SUFFICES ASSUME CopyInv PROVE CopiesAsAsked
    OBVIOUS
  <2>1. op \in Operation /\ op.n \in Nat /\ op.i \in Nat /\ op.dst \in Nat /\ Reached \in Nat /\ Reached =< op.n
    BY DEF CopyInv, CopyTyped, Operation, Reached
  <2>2. Extent(op.dst, Reached) \subseteq Extent(op.dst, op.n)
    BY <2>1 DEF Extent
  <2>3. op.stage = "done" => Reached = op.n
    BY DEF Reached
  <2> QED  BY <2>2, <2>3 DEF CopyInv, Progress, CopiesAsAsked
<1>2. CopySpec => []CopyInv
  BY CopyInitially, CopyStepKeeps, PTL DEF CopySpec
<1> QED  BY <1>1, <1>2, PTL

-------------------------------------------------------------------------------
(* Flushes.                                                                *)

Flushing == NOFLUSH \notin op.flags /\ (op.n > 0 => pmem_is_pmem(op.dst))

\* What is not flushed yet lies in the lines to come; afterwards nothing is left.
FlushInv ==
  /\ op.stage = "flush" => \A a \in Extent(op.dst, op.n) \cap unflushed : a >= LineAt
  /\ op.stage \in {"drain", "done"} /\ Flushing => Extent(op.dst, op.n) \cap unflushed = {}
  /\ op.stage = "done" /\ Flushing /\ NODRAIN \notin op.flags =>
       \A a \in Extent(op.dst, op.n) : LineOf(a) \notin undrained

\* The first line begins before the range does.
LEMMA FirstLine ==
  ASSUME NEW dst \in Nat, NEW n \in Nat, NEW a \in Extent(dst, n)
  PROVE  a >= LineOf(dst) + 0 * CACHE_LINE_SIZE
<1>1. CACHE_LINE_SIZE \in Nat
  BY CopyAssumption
<1>2. PICK q \in Nat : LineOf(dst) = q * CACHE_LINE_SIZE /\ LineOf(dst) =< dst
  BY LineBegins
<1>3. q * CACHE_LINE_SIZE \in Nat /\ 0 * CACHE_LINE_SIZE = 0
  BY <1>1
<1>4. a \in Int /\ a >= dst
  BY DEF Extent
<1> QED  BY <1>2, <1>3, <1>4

\* A call begins with the first line.
LEMMA FlushBegins ==
  ASSUME op'.dst \in Nat, op'.n \in Nat, op'.i = 0,
         \/ op'.stage \in {"copy", "fill", "flush"}
         \/ op'.n = 0
         \/ op'.stage = "done" /\ (NOFLUSH \in op'.flags \/ ~pmem_is_pmem(op'.dst))
  PROVE  FlushInv'
<1>1. CASE op'.stage \in {"copy", "fill"}
  BY <1>1 DEF FlushInv
<1>2. CASE op'.stage = "flush"
  <2>1. \A a \in Extent(op'.dst, op'.n) : a >= LineOf(op'.dst) + op'.i * CACHE_LINE_SIZE
    BY FirstLine
  <2> QED  BY <1>2, <2>1 DEF FlushInv, LineAt
<1>3. CASE op'.n = 0 /\ op'.stage # "flush"
  <2>1. Extent(op'.dst, op'.n) = {}
    BY <1>3 DEF Extent
  <2> QED  BY <1>3, <2>1 DEF FlushInv
<1>4. CASE op'.stage = "done" /\ (NOFLUSH \in op'.flags \/ ~pmem_is_pmem(op'.dst)) /\ op'.n # 0
  <2>1. op'.n > 0
    BY <1>4
  <2> QED  BY <1>4, <2>1 DEF FlushInv, Flushing
<1> QED  BY <1>1, <1>2, <1>3, <1>4

LEMMA FlushCalled ==
  ASSUME NEW f, NEW src, NEW dst \in Nat, NEW n \in Nat, NEW flags, NEW stage,
         Call(f, src, dst, n, flags, stage),
         \/ stage \in {"copy", "fill", "flush"}
         \/ n = 0
         \/ stage = "done" /\ ~pmem_is_pmem(dst)
  PROVE  FlushInv'
<1>1. /\ op'.dst = dst /\ op'.n = n /\ op'.i = 0 /\ op'.stage = stage
  BY DEF Call
<1> QED  BY <1>1, FlushBegins

LEMMA FlushUnseen ==
  ASSUME NEW f, NEW src, NEW dst, NEW n, NEW new, Real(f, src, dst, n, new)
  PROVE  FlushInv'
<1>1. op'.stage = "done" /\ NOFLUSH \in op'.flags
  BY DEF Real
<1> QED  BY <1>1 DEF FlushInv, Flushing

\* The line flushed is that of every address in it.
LEMMA LineFlushed ==
  ASSUME op \in Operation, pmc_clflushopt, FlushInv
  PROVE  FlushInv'
<1>1. /\ op.i \in Nat /\ op.n \in Nat /\ op.dst \in Nat /\ CACHE_LINE_SIZE \in Nat
  BY CopyAssumption DEF Operation
<1>2. PICK q \in Nat : LineOf(op.dst) = q * CACHE_LINE_SIZE
  BY <1>1, LineBegins
<1>3. LineAt = (q + op.i) * CACHE_LINE_SIZE /\ (q + op.i) \in Nat
  <2>1. q * CACHE_LINE_SIZE + op.i * CACHE_LINE_SIZE = (q + op.i) * CACHE_LINE_SIZE
    BY <1>1, SMT
  <2> QED  BY <1>1, <1>2, <2>1 DEF LineAt
<1>4. PICK p \in Nat : p = q + op.i
  BY <1>3
<1>5. /\ op'.stage = "flush" /\ op'.i = op.i + 1 /\ op'.dst = op.dst /\ op'.n = op.n
  BY DEF pmc_clflushopt, Operation
<1>6. LineAt' = p * CACHE_LINE_SIZE + CACHE_LINE_SIZE
  <2>1. q * CACHE_LINE_SIZE + (op.i + 1) * CACHE_LINE_SIZE = (q + op.i) * CACHE_LINE_SIZE + CACHE_LINE_SIZE
    BY <1>1, SMT
  <2> QED  BY <1>2, <1>4, <1>5, <2>1 DEF LineAt
<1>7. ASSUME NEW a \in Extent(op.dst, op.n), a \in unflushed'
      PROVE  a >= p * CACHE_LINE_SIZE + CACHE_LINE_SIZE
  <2>1. a \in Nat /\ p * CACHE_LINE_SIZE \in Nat
    BY <1>1 DEF Extent
  <2>2. a \in unflushed /\ LineOf(a) # LineOf(LineAt) /\ op.stage = "flush"
    BY <1>7 DEF pmc_clflushopt
  <2>3. a >= p * CACHE_LINE_SIZE
    BY <1>3, <1>4, <1>7, <2>2 DEF FlushInv
  <2>4. CASE a < p * CACHE_LINE_SIZE + CACHE_LINE_SIZE
    <3>1. LineOf(a) = p * CACHE_LINE_SIZE
      BY <2>1, <2>3, <2>4, LineFound
    <3>2. CACHE_LINE_SIZE > 0 /\ p * CACHE_LINE_SIZE < p * CACHE_LINE_SIZE + CACHE_LINE_SIZE
      BY <2>1, CopyAssumption
    <3>3. LineOf(p * CACHE_LINE_SIZE) = p * CACHE_LINE_SIZE
      <4>1. \A x \in Nat : x = p * CACHE_LINE_SIZE => LineOf(x) = p * CACHE_LINE_SIZE
        BY <2>1, <3>2, LineFound
      <4> QED  BY <2>1, <4>1
    <3> QED  BY <1>3, <1>4, <2>2, <3>1, <3>3
  <2> QED  BY <1>1, <2>1, <2>4
<1> QED  BY <1>5, <1>6, <1>7 DEF FlushInv

LEMMA FlushStepKeeps == CopyInv /\ FlushInv /\ [CopyNext]_copyVars => FlushInv'
<1> SUFFICES ASSUME CopyInv, FlushInv, [CopyNext]_copyVars PROVE FlushInv'
  OBVIOUS
<1>1. CASE UNCHANGED copyVars
  BY <1>1 DEF FlushInv, copyVars, LineAt, LineOf, Extent, Flushing, pmem_is_pmem
<1>2. op \in Operation /\ op.i \in Nat /\ op.n \in Nat /\ op.dst \in Nat
  BY DEF CopyInv, CopyTyped, Operation
<1>3. ASSUME NEW r \in Ranges, NEW s \in Sources, NEW flags \in Flags,
             \/ pmem_memmove(s, r[1], r[2], flags) \/ pmem_memcpy(s, r[1], r[2], flags)
             \/ strcpy(s, r[1], r[2]) \/ memcpy(s, r[1], r[2]) \/ memmove(s, r[1], r[2])
      PROVE  FlushInv'
  <2>1. r[1] \in Nat /\ r[2] \in Nat
    BY CopyAssumption
  <2>2. ASSUME NEW f, NEW g, Call(f, s, r[1], r[2], g, "copy")
        PROVE  FlushInv'
    BY <2>1, <2>2, FlushCalled
  <2>3. ASSUME NEW f, NEW new, Real(f, s, r[1], r[2], new)
        PROVE  FlushInv'
    BY <2>3, FlushUnseen
  <2> QED  BY <1>3, <2>2, <2>3 DEF pmem_memmove, pmem_memcpy, strcpy, memcpy, memmove
<1>4. ASSUME NEW r \in Ranges, NEW c \in Fillers \cup {0}, NEW flags \in Flags,
             pmem_memset(c, r[1], r[2], flags) \/ memset(c, r[1], r[2]) \/ bzero(r[1], r[2])
      PROVE  FlushInv'
  <2>1. r[1] \in Nat /\ r[2] \in Nat
    BY CopyAssumption
  <2>2. ASSUME NEW f, NEW s, NEW g, Call(f, s, r[1], r[2], g, "fill")
        PROVE  FlushInv'
    BY <2>1, <2>2, FlushCalled
  <2>3. ASSUME NEW f, NEW s, NEW new, Real(f, s, r[1], r[2], new)
        PROVE  FlushInv'
    BY <2>3, FlushUnseen
  <2> QED  BY <1>4, <2>2, <2>3 DEF pmem_memset, memset, bzero
<1>5. CASE CopyPiece
  <2>1. op'.stage = "copy"
    BY <1>2, <1>5 DEF CopyPiece, Operation
  <2> QED  BY <2>1 DEF FlushInv
<1>6. CASE FillPiece
  <2>1. op'.stage = "fill"
    BY <1>2, <1>6 DEF FillPiece, Operation
  <2> QED  BY <2>1 DEF FlushInv
<1>7. CASE Copied
  <2>1. /\ op'.dst = op.dst /\ op'.n = op.n /\ op'.i = 0 /\ op'.flags = op.flags
        /\ op'.stage = AfterCopy
    BY <1>2, <1>7 DEF Copied, Operation
  <2>2. op'.stage = "flush" \/ (op'.stage = "done" /\ NOFLUSH \in op'.flags)
    BY <2>1 DEF AfterCopy
  <2> QED  BY <1>2, <2>1, <2>2, FlushBegins
<1>8. CASE pmc_clflushopt
  BY <1>2, <1>8, LineFlushed
<1>9. CASE Flushed
  <2>1. /\ op'.dst = op.dst /\ op'.n = op.n /\ op'.flags = op.flags
        /\ op'.stage = AfterFlush
        /\ op.stage = "flush" /\ unflushed' = unflushed
    BY <1>2, <1>9 DEF Flushed, Operation
  <2>2. op'.stage = "drain" \/ (op'.stage = "done" /\ op.flags # {})
    BY <2>1 DEF AfterFlush
  <2>3. Extent(op.dst, op.n) \cap unflushed = {}
    <3>1. LineAt \in Int
      <4>1. PICK q \in Nat : LineOf(op.dst) = q * CACHE_LINE_SIZE
        BY <1>2, LineBegins
      <4>2. CACHE_LINE_SIZE \in Nat
        BY CopyAssumption
      <4>3. q * CACHE_LINE_SIZE \in Nat /\ op.i * CACHE_LINE_SIZE \in Nat
        BY <1>2, <4>2
      <4> QED  BY <4>1, <4>3 DEF LineAt
    <3>2. LineAt >= op.dst + op.n
      BY <1>9 DEF Flushed
    <3>3. \A a \in Extent(op.dst, op.n) : a \in Int /\ a < op.dst + op.n
      BY <1>2 DEF Extent
    <3>4. \A a \in Extent(op.dst, op.n) \cap unflushed : a >= LineAt
      BY <2>1 DEF FlushInv
    <3> QED  BY <1>2, <3>1, <3>2, <3>3, <3>4
  <2>4. op'.flags = {} \/ op'.flags = {NODRAIN} \/ op'.flags = {NOFLUSH}
    BY <1>2, <2>1 DEF Operation, Flags
  <2> QED  BY <2>1, <2>3, <2>4, <2>2 DEF FlushInv, Flushing
<1>10. CASE pmc_sfence
  <2>1. /\ op'.dst = op.dst /\ op'.n = op.n /\ op'.flags = op.flags /\ op'.stage = "done"
        /\ op.stage = "drain" /\ unflushed' = unflushed /\ undrained' = {}
    BY <1>2, <1>10 DEF pmc_sfence, Operation
  <2>2. Flushing' = Flushing
    BY <2>1 DEF Flushing
  <2> QED  BY <2>1, <2>2 DEF FlushInv
<1>11. ASSUME NEW r \in Ranges,
              \/ pmem_flush(r[1], r[2]) \/ pmem_persist(r[1], r[2]) \/ pmem_msync(r[1], r[2])
       PROVE  FlushInv'
  <2>1. r[1] \in Nat /\ r[2] \in Nat
    BY CopyAssumption
  <2>2. ASSUME NEW f, NEW g, Call(f, 0, r[1], r[2], g, "flush")
        PROVE  FlushInv'
    BY <2>1, <2>2, FlushCalled
  <2>3. ASSUME Call("msync", 0, r[1], r[2], {}, "done"), ~pmem_is_pmem(r[1])
        PROVE  FlushInv'
    BY <2>1, <2>3, FlushCalled
  <2> QED  BY <1>11, <2>2, <2>3 DEF pmem_flush, pmem_persist, pmem_msync
<1>12. CASE pmem_drain
  BY <1>12, FlushCalled DEF pmem_drain
<1>13. {NOFLUSH} \in Flags /\ 0 \in Fillers \cup {0}
  BY DEF Flags
<1> QED  BY <1>13, <1>1, <1>3, <1>4, <1>5, <1>6, <1>7, <1>8, <1>9, <1>10, <1>11, <1>12 DEF CopyNext

\* A call that returns has flushed its range, and fenced it where it is asked to.
THEOREM FlushesAreRight == CopySpec => []FlushesAsAsked
<1>1. CopyInit => FlushInv
  <2> SUFFICES ASSUME CopyInit PROVE FlushInv
    OBVIOUS
  <2>1. Extent(op.dst, op.n) = {} /\ op.stage = "done"
    BY DEF CopyInit, Extent
  <2> QED  BY <2>1 DEF FlushInv
<1>2. FlushInv => FlushesAsAsked
  BY DEF FlushInv, FlushesAsAsked, Flushing
<1>3. CopySpec => [](CopyInv /\ FlushInv)
  BY <1>1, CopyInitially, CopyStepKeeps, FlushStepKeeps, PTL DEF CopySpec
<1> QED  BY <1>2, <1>3, PTL

-------------------------------------------------------------------------------
(* Files.                                                                  *)

\* What a path is given stays recorded, in blocks nobody else has.
Safe(p) ==
  /\ p \in DOMAIN fileIDMap
  /\ fileIDMap[p].id \in Nat \ {0} /\ fileIDMap[p].id < Len(regionID)
  /\ regionID[fileIDMap[p].id + 1] = mapped[p]
  /\ BlockOf(mapped[p]) \in used /\ fileIDMap[p].key \in used \ blocks
  /\ BlockOf(mapped[p]) # fileIDMap[p].key

Apart(p, q) ==
  /\ fileIDMap[p].key \notin {fileIDMap[q].key, BlockOf(mapped[q])}
  /\ BlockOf(mapped[p]) # BlockOf(mapped[q])

FilesSafe == \A p \in DOMAIN mapped : Safe(p) /\ \A q \in DOMAIN mapped \ {p} : Apart(p, q)

\* A call that has not overlapped with another one is about to enter a new path.
AloneSafe(t) ==
  /\ \A u \in Threads \ {t} : call[u] = Idle
  /\ call[t].path \notin DOMAIN fileIDMap
  /\ call[t].key \in used \ blocks
  /\ call[t].addr # Null => BlockOf(call[t].addr) \in used \ {call[t].key}
  /\ \A p \in DOMAIN mapped : /\ call[t].key \notin {fileIDMap[p].key, BlockOf(mapped[p])}
                              /\ call[t].addr # Null =>
                                   BlockOf(call[t].addr) \notin {fileIDMap[p].key, BlockOf(mapped[p])}

Calls == [path : Paths, id : Nat \ {0}, key : Region, addr : Int, alone : BOOLEAN]

\* The number of a call is above those of the paths that are kept.
CallSafe(t) ==
  call[t] # Idle =>
    /\ call[t] \in Calls
    /\ call[t].path \notin DOMAIN mapped
    /\ \A p \in DOMAIN mapped : fileIDMap[p].id < call[t].id
    /\ call[t].alone => AloneSafe(t)

FilesTyped ==
  /\ used \subseteq Region /\ blocks \subseteq used
  /\ regionID \in Seq(Int)
  /\ \A p \in DOMAIN fileIDMap : fileIDMap[p].id \in Nat \ {0}
  /\ call = [t \in Threads |-> call[t]]

FilesInv == FilesTyped /\ FilesSafe /\ \A t \in Threads : CallSafe(t)

LEMMA FilesMeant == FilesInv => FilesKeepTheirMemory
<1> SUFFICES ASSUME FilesInv, NEW p \in DOMAIN mapped
             PROVE  /\ idOf(p) # 0
                    /\ getRegionFromID(idOf(p)) = mapped[p]
                    /\ {BlockOf(mapped[p]), fileIDMap[p].key} \subseteq used
                    /\ BlockOf(mapped[p]) # fileIDMap[p].key
                    /\ fileIDMap[p].key \notin blocks
                    /\ \A q \in DOMAIN mapped \ {p} : Apart(p, q)
  BY DEF FilesKeepTheirMemory, Apart
<1>1. Safe(p) /\ \A q \in DOMAIN mapped \ {p} : Apart(p, q)
  BY DEF FilesInv, FilesSafe
<1>2. idOf(p) = fileIDMap[p].id
  BY <1>1 DEF Safe, idOf
<1>3. Len(regionID) \in Nat
  BY LenProperties DEF FilesInv, FilesTyped
<1>4. getRegionFromID(idOf(p)) = mapped[p]
  BY <1>1, <1>2, <1>3 DEF Safe, getRegionFromID
<1> QED  BY <1>1, <1>2, <1>4 DEF Safe

\* Blocks are handed out, which were free.
LEMMA AllocationKeeps ==
  ASSUME FilesInv, NEW B \in SUBSET (Region \ used), used' = used \cup B,
         blocks' = blocks \/ blocks' = blocks \cup B,
         fileIDMap' = fileIDMap, regionID' = regionID, call' = call, mapped' = mapped
  PROVE  FilesInv'
<1>1. used \subseteq used' /\ used' \subseteq Region /\ blocks' \subseteq used'
  BY DEF FilesInv, FilesTyped
<1>2. \A x \in used \ blocks : x \in used' \ blocks'
  OBVIOUS
<1>3. FilesTyped'
  BY <1>1 DEF FilesInv, FilesTyped
<1>4. FilesSafe'
  BY <1>1, <1>2 DEF FilesInv, FilesSafe, Safe, Apart
<1>5. ASSUME NEW t \in Threads PROVE CallSafe(t)'
  <2>1. CallSafe(t)
    BY DEF FilesInv
  <2>2. call[t].alone /\ AloneSafe(t) => AloneSafe(t)'
    BY <1>1, <1>2 DEF AloneSafe
  <2> QED  BY <2>1, <2>2 DEF CallSafe
<1> QED  BY <1>3, <1>4, <1>5 DEF FilesInv

\* Block b is released, and with it what is known of the paths that were in it.
LEMMA ReleaseKeeps ==
  ASSUME FilesInv, NEW b \in used, NEW B \in SUBSET (Region \ used), used' = (used \ {b}) \cup B,
         blocks' = (blocks \ {b}) \cup B, Forget(b),
         fileIDMap' = fileIDMap, regionID' = regionID
  PROVE  FilesInv'
<1>1. used \ {b} \subseteq used' /\ used' \subseteq Region /\ blocks' \subseteq used'
  BY DEF FilesInv, FilesTyped
<1>2. \A x \in used \ blocks : x # b => x \in used' \ blocks'
  OBVIOUS
<1>3. \A p \in DOMAIN mapped' : /\ p \in DOMAIN mapped /\ mapped'[p] = mapped[p]
                                /\ BlockOf(mapped[p]) # b /\ fileIDMap[p].key # b
  BY DEF Forget
<1>4. call' = [u \in Threads |->
                 IF call[u] # Idle
                 THEN [call[u] EXCEPT !.alone = @ /\ b \notin {call[u].key, BlockOf(call[u].addr)}]
                 ELSE Idle]
  BY DEF Forget
<1>5. FilesTyped'
  <2>1. call' = [u \in Threads |-> call'[u]]
    BY <1>4
  <2> QED  BY <1>1, <2>1 DEF FilesInv, FilesTyped
<1>6. FilesSafe'
  <2> SUFFICES ASSUME NEW p \in DOMAIN mapped'
               PROVE  Safe(p)' /\ \A q \in DOMAIN mapped' \ {p} : Apart(p, q)'
    BY DEF FilesSafe
  <2>1. Safe(p) /\ \A q \in DOMAIN mapped \ {p} : Apart(p, q)
    BY <1>3 DEF FilesInv, FilesSafe
  <2>2. Safe(p)'
    BY <1>1, <1>2, <1>3, <2>1 DEF Safe
  <2>3. \A q \in DOMAIN mapped' \ {p} : Apart(p, q)'
    BY <1>3, <2>1 DEF Apart
  <2> QED  BY <2>2, <2>3
<1>7. ASSUME NEW t \in Threads PROVE CallSafe(t)'
  <2>1. CASE call[t] = Idle
    BY <1>4, <2>1 DEF CallSafe
  <2>2. CASE call[t] # Idle
    <3>1. call[t] \in Calls /\ CallSafe(t)
      BY <2>2 DEF FilesInv, CallSafe
    <3>2. call'[t] = [call[t] EXCEPT !.alone = @ /\ b \notin {call[t].key, BlockOf(call[t].addr)}]
      BY <1>4, <2>2
    <3>3. /\ call'[t] \in Calls /\ call'[t].path = call[t].path /\ call'[t].id = call[t].id
          /\ call'[t].key = call[t].key /\ call'[t].addr = call[t].addr
          /\ call'[t].alone = (call[t].alone /\ b \notin {call[t].key, BlockOf(call[t].addr)})
      BY <3>1, <3>2 DEF Calls
    <3>4. ASSUME call'[t].alone PROVE AloneSafe(t)'
      <4>1. AloneSafe(t) /\ b \notin {call[t].key, BlockOf(call[t].addr)}
        BY <2>2, <3>1, <3>3, <3>4 DEF CallSafe
      <4>2. \A u \in Threads \ {t} : call'[u] = Idle
        BY <1>4, <4>1 DEF AloneSafe
      <4> QED  BY <1>1, <1>2, <1>3, <3>3, <4>1, <4>2 DEF AloneSafe
    <3> QED  BY <1>3, <2>2, <3>1, <3>3, <3>4 DEF CallSafe
  <2> QED  BY <2>1, <2>2
<1> QED  BY <1>5, <1>6, <1>7 DEF FilesInv

\* A path without a number gets one above all others.
LEMMA EnterKeeps ==
  ASSUME FilesInv, NEW t \in Threads, NEW p \in Paths, NEW a \in Int, idOf(p) = 0,
         a # Null => /\ BlockOf(a) \in blocks
                     /\ \A q \in DOMAIN mapped : BlockOf(mapped[q]) # BlockOf(a),
         Enter(t, p, a),
         fileIDMap' = fileIDMap, regionID' = regionID, blocks' = blocks, mapped' = mapped
  PROVE  FilesInv'
<1>1. PICK b \in Region \ used :
        /\ used' = used \cup {b}
        /\ call' = [u \in Threads |->
             IF u = t THEN [path |-> p, id |-> getNextRegionID, key |-> b, addr |-> a,
                            alone |-> \A v \in Threads : call[v] = Idle]
             ELSE IF call[u] = Idle THEN Idle ELSE [call[u] EXCEPT !.alone = FALSE]]
  BY DEF Enter, Allocatable
<1>2. Len(regionID) \in Nat /\ getNextRegionID \in Nat \ {0} /\ getNextRegionID > Len(regionID)
  BY LenProperties DEF FilesInv, FilesTyped, getNextRegionID
<1>3. p \notin DOMAIN fileIDMap /\ p \notin DOMAIN mapped
  BY DEF FilesInv, FilesTyped, FilesSafe, Safe, idOf
<1>4. FilesTyped'
  <2>1. call' = [u \in Threads |-> call'[u]]
    BY <1>1
  <2>2. used' \subseteq Region /\ blocks' \subseteq used'
    BY <1>1 DEF FilesInv, FilesTyped
  <2> QED  BY <2>1, <2>2 DEF FilesInv, FilesTyped
<1>5. FilesSafe'
  BY <1>1 DEF FilesInv, FilesSafe, Safe, Apart
<1>6. CallSafe(t)'
  <2>1. call'[t] = [path |-> p, id |-> getNextRegionID, key |-> b, addr |-> a,
                    alone |-> \A v \in Threads : call[v] = Idle]
    BY <1>1
  <2>2. PICK al \in BOOLEAN : al = \A v \in Threads : call[v] = Idle
    OBVIOUS
  <2>3. /\ call'[t] \in Calls /\ call'[t].path = p /\ call'[t].id = getNextRegionID
        /\ call'[t].key = b /\ call'[t].addr = a /\ call'[t].alone = al
    BY <1>2, <2>1, <2>2 DEF Calls
  <2>4. \A q \in DOMAIN mapped' : fileIDMap'[q].id < call'[t].id
    BY <1>2, <2>3 DEF FilesInv, FilesSafe, Safe
  <2>5. ASSUME al PROVE AloneSafe(t)'
    <3>1. \A u \in Threads \ {t} : call'[u] = Idle
      BY <1>1, <2>2, <2>5
    <3>2. call'[t].key \in used' \ blocks'
      BY <1>1, <2>3 DEF FilesInv, FilesTyped
    <3>3. a # Null => BlockOf(a) \in used /\ b # BlockOf(a)
      BY DEF FilesInv, FilesTyped
    <3>4. ASSUME NEW q \in DOMAIN mapped
          PROVE  /\ b \notin {fileIDMap[q].key, BlockOf(mapped[q])}
                 /\ a # Null => BlockOf(a) \notin {fileIDMap[q].key, BlockOf(mapped[q])}
      BY <3>3, <3>4 DEF FilesInv, FilesSafe, Safe
    <3> QED  BY <1>1, <1>3, <2>3, <3>1, <3>2, <3>3, <3>4 DEF AloneSafe
  <2> QED  BY <1>3, <2>3, <2>4, <2>5 DEF CallSafe
<1>7. ASSUME NEW u \in Threads \ {t} PROVE CallSafe(u)'
  <2>1. CASE call[u] = Idle
    BY <1>1, <2>1 DEF CallSafe
  <2>2. CASE call[u] # Idle
    <3>1. call[u] \in Calls /\ CallSafe(u)
      BY <2>2 DEF FilesInv, CallSafe
    <3>2. call'[u] = [call[u] EXCEPT !.alone = FALSE]
      BY <1>1, <2>2
    <3>3. /\ call'[u] \in Calls /\ call'[u].path = call[u].path /\ call'[u].id = call[u].id
          /\ call'[u].alone = FALSE
      BY <3>1, <3>2 DEF Calls
    <3> QED  BY <2>2, <3>1, <3>3 DEF CallSafe
  <2> QED  BY <2>1, <2>2
<1> QED  BY <1>4, <1>5, <1>6, <1>7 DEF FilesInv

\* The table of regions grows, or changes at the number recorded only.
LEMMA Recorded ==
  ASSUME regionID \in Seq(Int), NEW id \in Nat, NEW a \in Int
  PROVE  /\ setExpand(id, a) \in Seq(Int)
         /\ Len(regionID) \in Nat /\ Len(setExpand(id, a)) \in Nat
         /\ Len(setExpand(id, a)) >= Len(regionID) /\ Len(setExpand(id, a)) > id
         /\ setExpand(id, a)[id + 1] = a
         /\ \A i \in Nat : i < Len(regionID) /\ i # id => setExpand(id, a)[i + 1] = regionID[i + 1]
<1>1. Len(regionID) \in Nat /\ \A i \in 1 .. Len(regionID) : regionID[i] \in Int
  BY LenProperties
<1>2. PICK n \in Nat : n = IF id >= Len(regionID) THEN id + 1 ELSE Len(regionID)
  BY <1>1
<1>3. setExpand(id, a) =
        [i \in 1 .. n |->
          CASE i = id + 1 -> a [] i =< Len(regionID) /\ i # id + 1 -> regionID[i] [] OTHER -> Null]
  BY <1>2 DEF setExpand
<1>4. \A i \in 1 .. n : setExpand(id, a)[i] =
        CASE i = id + 1 -> a [] i =< Len(regionID) /\ i # id + 1 -> regionID[i] [] OTHER -> Null
  BY <1>3
<1>5. \A i \in 1 .. n : setExpand(id, a)[i] \in Int
  BY <1>1, <1>4 DEF Null
<1>6. setExpand(id, a) \in [1 .. n -> Int]
  BY <1>3, <1>5
<1>7. setExpand(id, a) \in Seq(Int) /\ Len(setExpand(id, a)) = n
  BY <1>6, SeqDef, LenProperties
<1>8. n >= Len(regionID) /\ n > id
  BY <1>1, <1>2
<1>9. setExpand(id, a)[id + 1] = a
  <2>1. id + 1 \in 1 .. n
    BY <1>8
  <2> QED  BY <1>4, <2>1
<1>10. ASSUME NEW i \in Nat, i < Len(regionID), i # id
       PROVE  setExpand(id, a)[i + 1] = regionID[i + 1]
  <2>1. i + 1 \in 1 .. n /\ i + 1 =< Len(regionID) /\ i + 1 # id + 1
    BY <1>1, <1>8, <1>10
  <2> QED  BY <1>4, <2>1
<1> QED  BY <1>1, <1>7, <1>8, <1>9, <1>10

\* A path that is entered disturbs none of those kept, and is kept if its call was alone.
LEMMA EnteredKeeps ==
  ASSUME FilesInv, NEW t \in Threads, call[t] # Idle, NEW a \in Int, Entered(t, a),
         NEW B \in SUBSET (Region \ used), used' = used \cup B, blocks' = blocks \cup B,
         \/ BlockOf(a) \in B
         \/ a = call[t].addr /\ a # Null
  PROVE  FilesInv'
<1>1. call[t] \in Calls /\ CallSafe(t)
  BY DEF FilesInv, CallSafe
<1>2. PICK p \in Paths, id \in Nat \ {0}, key \in Region, al \in BOOLEAN :
        p = call[t].path /\ id = call[t].id /\ key = call[t].key /\ al = call[t].alone
  BY <1>1 DEF Calls
<1>3. p \notin DOMAIN mapped /\ (\A q \in DOMAIN mapped : fileIDMap[q].id < id) /\ (al => AloneSafe(t))
  BY <1>1, <1>2 DEF CallSafe
<1>4. /\ fileIDMap' = Put(p, id, key)
      /\ regionID' = setExpand(id, a)
      /\ call' = [call EXCEPT ![t] = Idle]
      /\ mapped' = [q \in DOMAIN mapped \cup (IF al THEN {p} ELSE {}) |-> IF q = p THEN a ELSE mapped[q]]
  BY <1>2 DEF Entered
<1>5. /\ DOMAIN fileIDMap' = DOMAIN fileIDMap \cup {p}
      /\ fileIDMap'[p].id = id
      /\ p \notin DOMAIN fileIDMap => fileIDMap'[p].key = key
      /\ \A q \in DOMAIN fileIDMap : q # p => fileIDMap'[q] = fileIDMap[q]
  BY <1>4 DEF Put, idOf
<1>6. /\ DOMAIN mapped \subseteq DOMAIN mapped'
      /\ \A q \in DOMAIN mapped' : q \in DOMAIN mapped \/ (q = p /\ al)
      /\ \A q \in DOMAIN mapped : mapped'[q] = mapped[q]
      /\ al => mapped'[p] = a
  BY <1>3, <1>4
<1>7. \A q \in DOMAIN mapped : Safe(q) /\ \A r \in DOMAIN mapped \ {q} : Apart(q, r)
  BY DEF FilesInv, FilesSafe
<1>8. /\ regionID' \in Seq(Int) /\ Len(regionID) \in Nat /\ Len(regionID') \in Nat
      /\ Len(regionID') >= Len(regionID) /\ Len(regionID') > id /\ regionID'[id + 1] = a
      /\ \A i \in Nat : i < Len(regionID) /\ i # id => regionID'[i + 1] = regionID[i + 1]
  <2>1. regionID \in Seq(Int) /\ id \in Nat /\ regionID' = setExpand(id, a)
    BY <1>4 DEF FilesInv, FilesTyped
  <2>2. /\ setExpand(id, a) \in Seq(Int)
        /\ Len(regionID) \in Nat /\ Len(setExpand(id, a)) \in Nat
        /\ Len(setExpand(id, a)) >= Len(regionID) /\ Len(setExpand(id, a)) > id
        /\ setExpand(id, a)[id + 1] = a
        /\ \A i \in Nat : i < Len(regionID) /\ i # id => setExpand(id, a)[i + 1] = regionID[i + 1]
    BY <2>1, Recorded, Zenon
  <2> QED  BY <2>1, <2>2, Zenon
<1>9. used \subseteq used' /\ used' \subseteq Region /\ blocks' \subseteq used'
  BY DEF FilesInv, FilesTyped
<1>10. \A x \in used \ blocks : x \in used' \ blocks'
  OBVIOUS
<1>11. FilesTyped'
  <2>1. call' = [u \in Threads |-> call'[u]]
    BY <1>4 DEF FilesInv, FilesTyped
  <2>2. \A q \in DOMAIN fileIDMap' : fileIDMap'[q].id \in Nat \ {0}
    BY <1>5 DEF FilesInv, FilesTyped
  <2> QED  BY <1>8, <1>9, <2>1, <2>2 DEF FilesTyped
<1>12. ASSUME NEW q \in DOMAIN mapped
       PROVE  /\ fileIDMap'[q] = fileIDMap[q] /\ mapped'[q] = mapped[q] /\ Safe(q)'
  <2>1. Safe(q) /\ q # p
    BY <1>3, <1>7
  <2>2. fileIDMap'[q] = fileIDMap[q] /\ mapped'[q] = mapped[q] /\ q \in DOMAIN fileIDMap'
    BY <1>5, <1>6, <2>1 DEF Safe
  <2>3. PICK i \in Nat \ {0} : i = fileIDMap[q].id
    BY <2>1 DEF Safe
  <2>4. i < Len(regionID) /\ i < id
    BY <1>3, <2>1, <2>3 DEF Safe
  <2>5. regionID'[i + 1] = regionID[i + 1] /\ i < Len(regionID')
    BY <1>8, <2>4
  <2> QED  BY <1>9, <1>10, <2>1, <2>2, <2>3, <2>5 DEF Safe
<1>13. ASSUME al
       PROVE  /\ p \notin DOMAIN fileIDMap /\ key \in used \ blocks
              /\ BlockOf(a) \in used' /\ BlockOf(a) # key
              /\ \A q \in DOMAIN mapped : /\ key \notin {fileIDMap[q].key, BlockOf(mapped[q])}
                                          /\ BlockOf(a) \notin {fileIDMap[q].key, BlockOf(mapped[q])}
  <2>1. AloneSafe(t)
    BY <1>3, <1>13
  <2>2. p \notin DOMAIN fileIDMap /\ key \in used \ blocks
    BY <1>2, <2>1 DEF AloneSafe
  <2>3. \A q \in DOMAIN mapped : key \notin {fileIDMap[q].key, BlockOf(mapped[q])}
    BY <1>2, <2>1 DEF AloneSafe
  <2>4. CASE BlockOf(a) \in B
    <3>1. BlockOf(a) \notin used /\ BlockOf(a) \in used'
      BY <2>4
    <3>2. \A q \in DOMAIN mapped : {fileIDMap[q].key, BlockOf(mapped[q])} \subseteq used
      BY <1>7 DEF Safe
    <3> QED  BY <2>2, <2>3, <3>1, <3>2
  <2>5. CASE a = call[t].addr /\ a # Null
    BY <1>2, <1>9, <2>1, <2>2, <2>3, <2>5 DEF AloneSafe
  <2> QED  BY <2>4, <2>5
<1>14. FilesSafe'
  <2>1. ASSUME al PROVE Safe(p)'
    <3>1. fileIDMap'[p].id = id /\ fileIDMap'[p].key = key /\ mapped'[p] = a /\ p \in DOMAIN fileIDMap'
      BY <1>5, <1>6, <1>13, <2>1
    <3>2. key \in used' \ blocks' /\ BlockOf(a) \in used' /\ BlockOf(a) # key
      BY <1>10, <1>13, <2>1
    <3> QED  BY <1>8, <3>1, <3>2 DEF Safe
  <2>2. ASSUME al, NEW q \in DOMAIN mapped PROVE Apart(p, q)' /\ Apart(q, p)'
    <3>1. /\ fileIDMap'[p].key = key /\ mapped'[p] = a
          /\ fileIDMap'[q] = fileIDMap[q] /\ mapped'[q] = mapped[q]
      BY <1>5, <1>6, <1>12, <1>13, <2>2
    <3> QED  BY <1>13, <2>2, <3>1 DEF Apart
  <2>3. ASSUME NEW q \in DOMAIN mapped, NEW r \in DOMAIN mapped \ {q} PROVE Apart(q, r)'
    BY <1>7, <1>12 DEF Apart
  <2> QED  BY <1>6, <1>12, <2>1, <2>2, <2>3 DEF FilesSafe
<1>15. ASSUME NEW u \in Threads PROVE CallSafe(u)'
  <2>1. CASE u = t \/ call[u] = Idle
    <3>1. call'[u] = Idle
      BY <1>4, <2>1 DEF FilesInv, FilesTyped
    <3> QED  BY <3>1 DEF CallSafe
  <2>2. CASE u # t /\ call[u] # Idle
    <3>1. call'[u] = call[u] /\ CallSafe(u)
      BY <1>4, <2>2 DEF FilesInv, FilesTyped
    <3>2. ~al /\ ~AloneSafe(u)
      BY <1>3, <2>2 DEF AloneSafe
    <3>3. \A q \in DOMAIN mapped' : q \in DOMAIN mapped /\ fileIDMap'[q] = fileIDMap[q]
      BY <1>6, <1>12, <3>2
    <3> QED  BY <2>2, <3>1, <3>2, <3>3 DEF CallSafe
  <2> QED  BY <2>1, <2>2
<1> QED  BY <1>11, <1>14, <1>15 DEF FilesInv

\* The calls are over: of the program that crashed, and of the tables that are new.
LEMMA CallsEnd ==
  ASSUME FilesInv, call' = [t \in Threads |-> Idle],
         \/ UNCHANGED <<used, fileIDMap, regionID, blocks, mapped>>
         \/ pmem_init
  PROVE  FilesInv'
<1>1. \A t \in Threads : CallSafe(t)'
  BY DEF CallSafe
<1>2. call' = [t \in Threads |-> call'[t]]
  OBVIOUS
<1>3. CASE UNCHANGED <<used, fileIDMap, regionID, blocks, mapped>>
  <2>1. FilesTyped'
    BY <1>2, <1>3 DEF FilesInv, FilesTyped
  <2>2. FilesSafe'
    BY <1>3 DEF FilesInv, FilesSafe, Safe, Apart
  <2> QED  BY <1>1, <2>1, <2>2 DEF FilesInv
<1>4. CASE pmem_init
  <2>1. regionID' \in Seq(Int)
    BY <1>4, EmptySeq DEF pmem_init
  <2>2. DOMAIN fileIDMap' = {} /\ DOMAIN mapped' = {}
    BY <1>4 DEF pmem_init
  <2>3. FilesTyped'
    BY <1>2, <1>4, <2>1, <2>2 DEF FilesTyped, pmem_init
  <2>4. FilesSafe'
    BY <2>2 DEF FilesSafe
  <2> QED  BY <1>1, <2>3, <2>4 DEF FilesInv
<1> QED  BY <1>3, <1>4

LEMMA FilesInitially == FilesInit => FilesInv
<1> SUFFICES ASSUME FilesInit PROVE FilesInv
  OBVIOUS
<1>1. regionID \in Seq(Int)
  BY EmptySeq DEF FilesInit
<1>2. DOMAIN fileIDMap = {} /\ DOMAIN mapped = {}
  BY DEF FilesInit
<1>3. call = [t \in Threads |-> call[t]] /\ \A t \in Threads : CallSafe(t)
  BY DEF FilesInit, CallSafe
<1> QED  BY <1>1, <1>2, <1>3 DEF FilesInit, FilesInv, FilesTyped, FilesSafe

LEMMA FilesStepKeeps == FilesInv /\ [FilesNext]_fileVars => FilesInv'
<1> SUFFICES ASSUME FilesInv, [FilesNext]_fileVars PROVE FilesInv'
  OBVIOUS
<1>0. blocks \subseteq used /\ used \subseteq Region /\ \A b \in Region : b \in Nat \ {0}
  BY FilesAssumption DEF FilesInv, FilesTyped
<1>1. ASSUME UNCHANGED <<used, fileIDMap, regionID, blocks, call, mapped>> PROVE FilesInv'
  <2>1. {} \in SUBSET (Region \ used) /\ used' = used \cup {}
    BY <1>1
  <2> QED  BY <1>1, <2>1, AllocationKeeps
<1>2. CASE UNCHANGED fileVars
  BY <1>1, <1>2 DEF fileVars
<1>3. ASSUME NEW t \in Threads, NEW p \in Paths, pmem_map_file(t, p) PROVE FilesInv'
  <2>1. Null \in Int /\ idOf(p) = 0 /\ Enter(t, p, Null)
    BY <1>3 DEF pmem_map_file, Null
  <2> QED  BY <1>3, <2>1, EnterKeeps DEF pmem_map_file
<1>4. ASSUME NEW t \in Threads, NEW p \in Paths, NEW b \in blocks, NEW a \in {b, PageIn(b)},
             pmem_register_file(t, p, a)
      PROVE  FilesInv'
  <2>1. a \in Int
    BY <1>0 DEF PageIn
  <2> QED  BY <1>4, <2>1, EnterKeeps DEF pmem_register_file
<1>5. ASSUME NEW t \in Threads, MapFileEnds(t) PROVE FilesInv'
  <2>1. PICK b \in Region \ used : used' = used \cup {b} /\ blocks' = blocks \cup {b} /\ Entered(t, b)
    BY <1>5 DEF MapFileEnds, Allocatable
  <2>2. b \in Int /\ BlockOf(b) = b /\ {b} \in SUBSET (Region \ used)
    BY <1>0 DEF BlockOf
  <2>3. call[t] # Idle
    BY <1>5 DEF MapFileEnds
  <2> QED  BY <2>1, <2>2, <2>3, EnteredKeeps
<1>6. ASSUME NEW t \in Threads, RegisterFileEnds(t) PROVE FilesInv'
  <2>1. /\ call[t] # Idle /\ call[t].addr # Null /\ Entered(t, call[t].addr)
        /\ used' = used \cup {} /\ blocks' = blocks \cup {} /\ {} \in SUBSET (Region \ used)
    BY <1>6 DEF RegisterFileEnds
  <2>2. call[t].addr \in Int
    BY <2>1 DEF FilesInv, CallSafe, Calls
  <2> QED  BY <2>1, <2>2, EnteredKeeps
<1>7. ASSUME NEW t \in Threads, pmdk_malloc(t) PROVE FilesInv'
  <2>1. PICK b \in Region \ used : used' = used \cup {b} /\ blocks' = blocks \cup {b}
    BY <1>7 DEF pmdk_malloc, Allocatable
  <2>2. {b} \in SUBSET (Region \ used)
    OBVIOUS
  <2> QED  BY <1>7, <2>1, <2>2, AllocationKeeps DEF pmdk_malloc
<1>8. ASSUME NEW b \in used, Release(b), UNCHANGED <<fileIDMap, regionID>> PROVE FilesInv'
  <2>1. used' = (used \ {b}) \cup {} /\ blocks' = (blocks \ {b}) \cup {} /\ Forget(b)
    BY <1>8 DEF Release
  <2>2. {} \in SUBSET (Region \ used)
    OBVIOUS
  <2> QED  BY <1>8, <2>1, <2>2, ReleaseKeeps
<1>9. ASSUME NEW t \in Threads, NEW a, pmem_unmap(t, a) PROVE FilesInv'
  <2>1. CASE a \in used
    BY <1>8, <1>9, <2>1 DEF pmem_unmap
  <2>2. CASE a \notin used
    BY <1>1, <1>9, <2>2 DEF pmem_unmap, Abort
  <2> QED  BY <2>1, <2>2
<1>10. ASSUME NEW t \in Threads, NEW b \in blocks, free(t, b) PROVE FilesInv'
  BY <1>0, <1>8, <1>10 DEF free
<1>11. ASSUME NEW t \in Threads, NEW b \in blocks, realloc(t, b) PROVE FilesInv'
  <2>1. PICK c \in Region \ used :
          used' = (used \ {b}) \cup {c} /\ blocks' = (blocks \ {b}) \cup {c}
    BY <1>11 DEF realloc, Allocatable
  <2>2. {c} \in SUBSET (Region \ used) /\ b \in used
    BY <1>0
  <2>3. Forget(b) /\ fileIDMap' = fileIDMap /\ regionID' = regionID
    BY <1>11 DEF realloc
  <2> QED  BY <2>1, <2>2, <2>3, ReleaseKeeps
<1>12. CASE doCrash \/ startExecution
  BY <1>12, CallsEnd DEF doCrash, startExecution, RollBack
<1>13. CASE SearchOver \/ fork_loop
  BY <1>1, <1>13 DEF SearchOver, fork_loop
<1>14. CASE LoopEnds
  BY <1>14, CallsEnd DEF LoopEnds
<1>15. CASE FilesNext
  BY <1>3, <1>4, <1>5, <1>6, <1>7, <1>9, <1>10, <1>11, <1>12, <1>13, <1>14, <1>15
     DEF FilesNext, malloc, memalign
<1> QED  BY <1>2, <1>15

\* A file whose call did not overlap with another one, and whose memory nobody releases,
\* keeps its number, its memory and its name, across crashes too.
THEOREM FilesAreKept == FilesSpec => []FilesKeepTheirMemory
<1>1. FilesSpec => []FilesInv
  BY FilesInitially, FilesStepKeeps, PTL DEF FilesSpec
<1> QED  BY <1>1, FilesMeant, PTL

-------------------------------------------------------------------------------
(* Tables.                                                                 *)

\* What holds of 0, and of a number's successor, holds up to n.
LEMMA Climb ==
  ASSUME NEW n \in Nat, NEW P, 0 \in P, \A k \in 0 .. (n - 1) : k \in P => k + 1 \in P
  PROVE  \A k \in 0 .. n : k \in P
<1> DEFINE Out == {k \in 0 .. n : k \notin P}
<1> SUFFICES ASSUME Out # {} PROVE FALSE
  OBVIOUS
<1>1. Out \in SUBSET Nat
  OBVIOUS
<1>2. PICK k \in Out : \A m \in Out : k =< m
  <2> HIDE DEF Out
  <2> QED  BY <1>1, MinIs
<1>3. k \in 0 .. n /\ k \notin P /\ k # 0
  OBVIOUS
<1>4. k - 1 \in 0 .. (n - 1) /\ k - 1 \in 0 .. n /\ (k - 1) + 1 = k
  BY <1>3
<1>5. k - 1 \in P
  BY <1>2, <1>3, <1>4
<1> QED  BY <1>3, <1>4, <1>5

-------------------------------------------------------------------------------
(* Places in a ring of c bins.                                             *)

\* The bins from x up to the one before y, and how far y is behind x.
OnPath(x, p, y) == IF x =< y THEN x =< p /\ p < y ELSE x =< p \/ p < y
Off(c, x, y) == IF x =< y THEN y - x ELSE y - x + c

LEMMA ModIs ==
  ASSUME NEW c \in Nat \ {0}, NEW x \in 0 .. (c - 1), NEW i \in 0 .. (c - 1)
  PROVE  (x + i) % c = IF x + i < c THEN x + i ELSE x + i - c
<1>1. ASSUME NEW y \in Int, NEW d \in Int, d > 0, y >= 0, y < d PROVE y % d = y
  BY <1>1, Z3
<1>2. ASSUME NEW y \in Int, NEW d \in Int, d > 0, y >= d, y < d + d PROVE y % d = y - d
  BY <1>2, Z3
<1> QED  BY <1>1, <1>2

LEMMA OffIs ==
  ASSUME NEW c \in Nat \ {0}, NEW x \in 0 .. (c - 1), NEW y \in 0 .. (c - 1)
  PROVE  Off(c, x, y) \in 0 .. (c - 1) /\ (x + Off(c, x, y)) % c = y
<1>1. Off(c, x, y) \in 0 .. (c - 1)
  BY DEF Off
<1>2. (x + Off(c, x, y)) % c = IF x + Off(c, x, y) < c THEN x + Off(c, x, y) ELSE x + Off(c, x, y) - c
  BY <1>1, ModIs
<1> QED  BY <1>1, <1>2 DEF Off

LEMMA BehindIs ==
  ASSUME NEW c \in Nat \ {0}, NEW x \in 0 .. (c - 1), NEW i \in 0 .. (c - 1)
  PROVE  (x + i) % c \in 0 .. (c - 1) /\ Off(c, x, (x + i) % c) = i
<1>1. (x + i) % c = IF x + i < c THEN x + i ELSE x + i - c
  BY ModIs
<1> QED  BY <1>1 DEF Off

\* An entry stays if the hole is not between its home and its bin; else what is
\* between its home and the hole is also between its home and its bin.
LEMMA StaysIs ==
  ASSUME NEW c \in Nat \ {0}, NEW h \in 0 .. (c - 1), NEW j \in 0 .. (c - 1), h # j,
         NEW home \in 0 .. (c - 1)
  PROVE  Table!Stays(h, j, home) => ~OnPath(home, h, j)
BY DEF Table!Stays, OnPath

LEMMA MovesIs ==
  ASSUME NEW c \in Nat \ {0}, NEW h \in 0 .. (c - 1), NEW j \in 0 .. (c - 1), h # j,
         NEW home \in 0 .. (c - 1), ~Table!Stays(h, j, home),
         NEW p \in 0 .. (c - 1), OnPath(home, p, h)
  PROVE  OnPath(home, p, j) /\ p # h /\ p # j
BY DEF Table!Stays, OnPath

\* A path from before q to behind it, seen from b, goes through q.
LEMMA PathOver ==
  ASSUME NEW c \in Nat \ {0}, NEW b \in 0 .. (c - 1), NEW x \in 0 .. (c - 1), NEW p \in 0 .. (c - 1),
         NEW q \in 0 .. (c - 1), NEW y \in 0 .. (c - 1), OnPath(x, p, y)
  PROVE  /\ Off(c, b, p) < Off(c, b, q) /\ Off(c, b, q) < Off(c, b, y) => OnPath(x, q, y)
         /\ Off(c, b, y) < Off(c, b, p) /\ Off(c, b, p) < Off(c, b, q) => OnPath(x, q, y)
BY DEF OnPath, Off

LEMMA PathEither ==
  ASSUME NEW c \in Nat \ {0}, NEW x \in 0 .. (c - 1), NEW p \in 0 .. (c - 1), NEW q \in 0 .. (c - 1),
         p # q
  PROVE  OnPath(x, p, q) \/ OnPath(x, q, p)
BY DEF OnPath

LEMMA PathIs ==
  ASSUME NEW c \in Nat \ {0}, NEW x \in 0 .. (c - 1), NEW p \in 0 .. (c - 1), NEW y \in 0 .. (c - 1)
  PROVE  OnPath(x, p, y) <=> Off(c, x, p) < Off(c, x, y)
BY DEF OnPath, Off

-------------------------------------------------------------------------------
(* The records a table consists of.                                        *)

Places(t) == 0 .. (t.capacity - 1)
HomeOf(c, k) == TableHash[k] % c

\* A record with all the fields of a table, and bins that may be bins.
Shape(t) ==
  /\ t = [bins |-> t.bins, capacity |-> t.capacity, threshold |-> t.threshold,
          zero |-> t.zero, size |-> t.size]
  /\ t.capacity \in Nat /\ t.capacity >= 4
  /\ t.bins = [i \in Places(t) |-> t.bins[i]]
  /\ \A i \in Places(t) : /\ t.bins[i] = [key |-> t.bins[i].key, val |-> t.bins[i].val]
                          /\ t.bins[i].key \in TableKeys \cup {0}
                          /\ t.bins[i].key = 0 => t.bins[i].val = 0
  /\ \A i, j \in Places(t) : t.bins[i].key = t.bins[j].key /\ t.bins[i].key # 0 => i = j

\* Every entry is found by probing: no bin between its home and its own is empty.
Findable(t) ==
  \A i \in Places(t) : t.bins[i].key # 0 =>
    \A p \in Places(t) : OnPath(HomeOf(t.capacity, t.bins[i].key), p, i) => t.bins[p].key # 0

\* The keys of t are those of S, with the values of m.
Holds(t, S, m) ==
  /\ \A k \in TableKeys : k \in S <=> \E i \in Places(t) : t.bins[i].key = k
  /\ \A i \in Places(t) : t.bins[i].key # 0 => t.bins[i].val = m[t.bins[i].key]

HasRoom(t) == \E i \in Places(t) : t.bins[i].key = 0

LEMMA HomeIs ==
  ASSUME NEW c \in Nat \ {0}, NEW k \in TableKeys
  PROVE  HomeOf(c, k) \in 0 .. (c - 1)
<1>1. TableHash[k] \in Nat
  BY CollectionsAssumption
<1>2. ASSUME NEW y \in Nat, NEW d \in Nat \ {0} PROVE y % d \in 0 .. (d - 1)
  OBVIOUS
<1> QED  BY <1>1, <1>2 DEF HomeOf

LEMMA Homes == \A t, k : Table!Home(t, k) = HomeOf(t.capacity, k)
BY DEF Table!Home, HomeOf

LEMMA KeysApart == \A k \in TableKeys : k # 0
BY CollectionsAssumption

LEMMA EmptyIs ==
  ASSUME NEW t, Shape(t), NEW i \in Places(t)
  PROVE  t.bins[i] = Table!EmptyBin <=> t.bins[i].key = 0
<1>1. t.bins[i] = Table!EmptyBin => t.bins[i].key = 0
  BY DEF Table!EmptyBin
<1>2. t.bins[i].key = 0 => t.bins[i] = Table!EmptyBin
  <2> SUFFICES ASSUME t.bins[i].key = 0 PROVE t.bins[i] = Table!EmptyBin
    OBVIOUS
  <2>1. t.bins[i].val = 0 /\ t.bins[i] = [key |-> t.bins[i].key, val |-> t.bins[i].val]
    BY DEF Shape
  <2> QED  BY <2>1 DEF Table!EmptyBin
<1> QED  BY <1>1, <1>2

LEMMA ProbeIs ==
  ASSUME NEW t, Shape(t), NEW k \in TableKeys,
         \E e \in Places(t) : t.bins[e].key = 0 \/ t.bins[e].key = k
  PROVE  /\ Table!Probe(t, k) \in Places(t)
         /\ t.bins[Table!Probe(t, k)].key = 0 \/ t.bins[Table!Probe(t, k)].key = k
         /\ \A p \in Places(t) : OnPath(HomeOf(t.capacity, k), p, Table!Probe(t, k)) =>
                                  t.bins[p].key # 0 /\ t.bins[p].key # k
<1>1. PICK c \in Nat \ {0} : c = t.capacity /\ Places(t) = 0 .. (c - 1)
  BY DEF Shape, Places
<1>2. PICK h \in 0 .. (c - 1) : h = HomeOf(c, k) /\ h = Table!Home(t, k)
  BY <1>1, HomeIs, Homes
<1> DEFINE Stop(p) == t.bins[p].key = 0 \/ t.bins[p].key = k
           stops == {i \in 0 .. (t.capacity - 1) :
                       LET b == t.bins[(Table!Home(t, k) + i) % t.capacity]
                       IN  b = Table!EmptyBin \/ b.key = k}
<1>3. Table!Probe(t, k) = IF stops = {} THEN Table!NoBin ELSE (Table!Home(t, k) + Min(stops)) % t.capacity
  BY DEF Table!Probe, Table!Min, Min
<1>4. ASSUME NEW i \in 0 .. (c - 1)
      PROVE  /\ (h + i) % c \in 0 .. (c - 1) /\ Off(c, h, (h + i) % c) = i
             /\ i \in stops <=> Stop((h + i) % c)
  <2>1. (h + i) % c \in 0 .. (c - 1) /\ Off(c, h, (h + i) % c) = i
    BY BehindIs
  <2>2. PICK p \in Places(t) : p = (h + i) % c
    BY <1>1, <2>1
  <2>3. t.bins[p] = Table!EmptyBin <=> t.bins[p].key = 0
    BY EmptyIs
  <2>4. i \in stops <=> t.bins[p] = Table!EmptyBin \/ t.bins[p].key = k
    BY <1>1, <1>2, <2>2
  <2> QED  BY <2>1, <2>2, <2>3, <2>4
<1>5. stops \in SUBSET Nat /\ \A i \in stops : i \in 0 .. (c - 1)
  BY <1>1
<1> HIDE DEF stops
<1>6. stops # {}
  <2>1. PICK e \in 0 .. (c - 1) : Stop(e)
    BY <1>1
  <2>2. Off(c, h, e) \in 0 .. (c - 1) /\ (h + Off(c, h, e)) % c = e
    BY OffIs
  <2> QED  BY <1>4, <2>1, <2>2
<1>7. PICK n \in 0 .. (c - 1) : n = Min(stops) /\ n \in stops /\ \A i \in stops : n =< i
  BY <1>5, <1>6, MinIs
<1>8. PICK b \in 0 .. (c - 1) : b = (h + n) % c /\ Off(c, h, b) = n /\ Stop(b) /\ b = Table!Probe(t, k)
  BY <1>1, <1>2, <1>3, <1>4, <1>6, <1>7
<1>9. ASSUME NEW p \in 0 .. (c - 1), OnPath(h, p, b), Stop(p) PROVE FALSE
  <2>1. PICK i \in 0 .. (c - 1) : i = Off(c, h, p) /\ (h + i) % c = p
    BY OffIs
  <2>2. i < n
    BY <1>8, <1>9, <2>1, PathIs
  <2>3. i \in stops
    BY <1>4, <1>9, <2>1
  <2>4. n =< i
    BY <1>7, <2>3
  <2> QED  BY <2>2, <2>4
<1> QED  BY <1>1, <1>2, <1>8, <1>9

\* Probing finds an entry where it is.
LEMMA ProbeFinds ==
  ASSUME NEW t, Shape(t), Findable(t), NEW k \in TableKeys, NEW i \in Places(t), t.bins[i].key = k
  PROVE  Table!Probe(t, k) = i
<1>1. PICK b : b = Table!Probe(t, k)
  OBVIOUS
<1>2. /\ b \in Places(t) /\ (t.bins[b].key = 0 \/ t.bins[b].key = k)
      /\ \A p \in Places(t) : OnPath(HomeOf(t.capacity, k), p, b) => t.bins[p].key # 0 /\ t.bins[p].key # k
  BY <1>1, ProbeIs
<1>3. PICK c \in Nat \ {0} : c = t.capacity /\ Places(t) = 0 .. (c - 1)
  BY DEF Shape, Places
<1>4. HomeOf(c, k) \in 0 .. (c - 1) /\ k # 0
  BY HomeIs, KeysApart
<1>5. CASE b # i
  <2>1. ~OnPath(HomeOf(c, k), i, b)
    BY <1>2, <1>3
  <2>2. OnPath(HomeOf(c, k), b, i)
    BY <1>2, <1>3, <1>4, <1>5, <2>1, PathEither
  <2>3. t.bins[b].key # 0
    BY <1>2, <1>3, <1>4, <2>2 DEF Findable
  <2>4. t.bins[b].key = t.bins[i].key /\ t.bins[b].key # 0
    BY <1>2, <2>3
  <2> QED  BY <1>2, <1>5, <2>4 DEF Shape
<1> QED  BY <1>1, <1>5

\* A table has an empty bin if there are fewer keys than bins.
LEMMA RoomIs ==
  ASSUME NEW t, Shape(t), NEW S, IsFiniteSet(S), Cardinality(S) < t.capacity,
         \A i \in Places(t) : t.bins[i].key # 0 => t.bins[i].key \in S
  PROVE  HasRoom(t)
<1> SUFFICES ASSUME \A i \in Places(t) : t.bins[i].key # 0 PROVE FALSE
  BY DEF HasRoom
<1>1. t.capacity \in Nat /\ t.capacity >= 4
  BY DEF Shape
<1> DEFINE f == [i \in Places(t) |-> t.bins[i].key]
<1>2. f \in Injection(Places(t), S)
  <2>1. f \in [Places(t) -> S]
    OBVIOUS
  <2>2. \A i, j \in Places(t) : f[i] = f[j] => i = j
    BY DEF Shape
  <2> QED  BY <2>1, <2>2 DEF Injection, IsInjective
<1> HIDE DEF f
<1>3. IsFiniteSet(Places(t)) /\ Cardinality(Places(t)) = t.capacity
  <2>1. Places(t) = 0 .. (t.capacity - 1) /\ 0 \in Int /\ t.capacity - 1 \in Int
    BY <1>1 DEF Places
  <2>2. PICK a \in Int, e \in Int : a = 0 /\ e = t.capacity - 1
    BY <2>1
  <2>3. IsFiniteSet(a .. e) /\ Cardinality(a .. e) = IF a > e THEN 0 ELSE e - a + 1
    BY FS_Interval
  <2>4. ~(a > e) /\ e - a + 1 = t.capacity
    BY <1>1, <2>2
  <2> QED  BY <2>1, <2>2, <2>3, <2>4
<1>4. Cardinality(Places(t)) =< Cardinality(S)
  BY <1>2, <1>3, FS_Injection
<1>5. Cardinality(S) \in Nat
  BY FS_CardinalityType
<1> QED  BY <1>1, <1>3, <1>4, <1>5

\* u is t with the entry e in bin b.
IsSet(u, t, b, e) ==
  /\ u.bins = [i \in Places(t) |-> IF i = b THEN e ELSE t.bins[i]]
  /\ u.capacity = t.capacity
  /\ u = [bins |-> u.bins, capacity |-> u.capacity, threshold |-> u.threshold,
          zero |-> u.zero, size |-> u.size]

LEMMA SetIs ==
  ASSUME NEW u, NEW t, NEW b, NEW e, IsSet(u, t, b, e)
  PROVE  /\ Places(u) = Places(t) /\ u.capacity = t.capacity
         /\ u.bins = [i \in Places(u) |-> u.bins[i]]
         /\ \A i \in Places(t) : u.bins[i] = IF i = b THEN e ELSE t.bins[i]
BY DEF IsSet, Places

Entry(k, v) == [key |-> k, val |-> v]

\* Where an entry is put: in its own bin, or in an empty one if it has none.
LEMMA PlaceOf ==
  ASSUME NEW t, Shape(t), Findable(t), HasRoom(t), NEW k \in TableKeys
  PROVE  /\ Table!Probe(t, k) \in Places(t)
         /\ t.bins[Table!Probe(t, k)].key = 0 \/ t.bins[Table!Probe(t, k)].key = k
         /\ \A p \in Places(t) : OnPath(HomeOf(t.capacity, k), p, Table!Probe(t, k)) => t.bins[p].key # 0
         /\ \A i \in Places(t) : t.bins[i].key = k => i = Table!Probe(t, k)
<1>1. \E e \in Places(t) : t.bins[e].key = 0 \/ t.bins[e].key = k
  BY DEF HasRoom
<1> QED  BY <1>1, ProbeIs, ProbeFinds

LEMMA PlacedShape ==
  ASSUME NEW t, Shape(t), Findable(t), HasRoom(t), NEW k \in TableKeys, NEW v, NEW u,
         IsSet(u, t, Table!Probe(t, k), Entry(k, v))
  PROVE  Shape(u) /\ Findable(u)
<1>1. PICK b : b = Table!Probe(t, k)
  OBVIOUS
<1>2. /\ b \in Places(t) /\ (t.bins[b].key = 0 \/ t.bins[b].key = k)
      /\ \A p \in Places(t) : OnPath(HomeOf(t.capacity, k), p, b) => t.bins[p].key # 0
      /\ \A i \in Places(t) : t.bins[i].key = k => i = b
  BY <1>1, PlaceOf
<1>3. /\ Places(u) = Places(t) /\ u.capacity = t.capacity
      /\ u.bins = [i \in Places(u) |-> u.bins[i]]
      /\ \A i \in Places(t) : u.bins[i] = IF i = b THEN Entry(k, v) ELSE t.bins[i]
  BY <1>1, SetIs
<1>4. Entry(k, v) = [key |-> k, val |-> v] /\ Entry(k, v).key = k /\ Entry(k, v).val = v /\ k # 0
  BY KeysApart DEF Entry
<1>5. /\ t.capacity \in Nat /\ t.capacity >= 4
      /\ \A i \in Places(t) : /\ t.bins[i] = [key |-> t.bins[i].key, val |-> t.bins[i].val]
                              /\ t.bins[i].key \in TableKeys \cup {0}
                              /\ t.bins[i].key = 0 => t.bins[i].val = 0
      /\ \A i, j \in Places(t) : t.bins[i].key = t.bins[j].key /\ t.bins[i].key # 0 => i = j
  BY DEF Shape
<1> HIDE DEF Entry
<1>6. \A i \in Places(u) : /\ u.bins[i] = [key |-> u.bins[i].key, val |-> u.bins[i].val]
                           /\ u.bins[i].key \in TableKeys \cup {0}
                           /\ u.bins[i].key = 0 => u.bins[i].val = 0
  <2> SUFFICES ASSUME NEW i \in Places(t)
               PROVE  /\ u.bins[i] = [key |-> u.bins[i].key, val |-> u.bins[i].val]
                      /\ u.bins[i].key \in TableKeys \cup {0}
                      /\ u.bins[i].key = 0 => u.bins[i].val = 0
    BY <1>3
  <2>1. CASE i = b
    <3>1. u.bins[i] = Entry(k, v)
      BY <1>3, <2>1
    <3> QED  BY <1>4, <3>1
  <2>2. CASE i # b
    <3>1. u.bins[i] = t.bins[i]
      BY <1>3, <2>2
    <3> QED  BY <1>5, <3>1
  <2> QED  BY <2>1, <2>2
<1>7. \A i, j \in Places(u) : u.bins[i].key = u.bins[j].key /\ u.bins[i].key # 0 => i = j
  <2> SUFFICES ASSUME NEW i \in Places(t), NEW j \in Places(t),
                      u.bins[i].key = u.bins[j].key, u.bins[i].key # 0
               PROVE  i = j
    BY <1>3
  <2> QED  BY <1>2, <1>3, <1>4, <1>5
<1>8. u = [bins |-> u.bins, capacity |-> u.capacity, threshold |-> u.threshold,
           zero |-> u.zero, size |-> u.size]
  BY DEF IsSet
<1>9. Shape(u)
  BY <1>3, <1>5, <1>6, <1>7, <1>8 DEF Shape
<1>10. \A p \in Places(t) : t.bins[p].key # 0 => u.bins[p].key # 0
  BY <1>3, <1>4
<1>11. ASSUME NEW i \in Places(t), u.bins[i].key # 0,
              NEW p \in Places(t), OnPath(HomeOf(t.capacity, u.bins[i].key), p, i)
       PROVE  u.bins[p].key # 0
  <2>1. CASE i = b
    <3>1. u.bins[i].key = k
      BY <1>3, <1>4, <2>1
    <3>2. t.bins[p].key # 0
      BY <1>2, <1>11, <2>1, <3>1
    <3> QED  BY <1>10, <3>2
  <2>2. CASE i # b
    <3>1. u.bins[i] = t.bins[i]
      BY <1>3, <2>2
    <3>2. t.bins[p].key # 0
      BY <1>11, <3>1 DEF Findable
    <3> QED  BY <1>10, <3>2
  <2> QED  BY <2>1, <2>2
<1>12. Findable(u)
  BY <1>3, <1>11 DEF Findable
<1> QED  BY <1>9, <1>12

LEMMA PlacedHolds ==
  ASSUME NEW t, Shape(t), Findable(t), HasRoom(t), NEW k \in TableKeys, NEW v, NEW u,
         IsSet(u, t, Table!Probe(t, k), Entry(k, v)), NEW S, NEW m, Holds(t, S, m),
         NEW m2, m2[k] = v, \A j \in S \ {k} : m2[j] = m[j]
  PROVE  Holds(u, S \cup {k}, m2)
<1>1. PICK b : b = Table!Probe(t, k)
  OBVIOUS
<1>2. /\ b \in Places(t) /\ (t.bins[b].key = 0 \/ t.bins[b].key = k)
      /\ \A i \in Places(t) : t.bins[i].key = k => i = b
  BY <1>1, PlaceOf
<1>3. /\ Places(u) = Places(t) /\ u.capacity = t.capacity
      /\ u.bins = [i \in Places(u) |-> u.bins[i]]
      /\ \A i \in Places(t) : u.bins[i] = IF i = b THEN Entry(k, v) ELSE t.bins[i]
  BY <1>1, SetIs
<1>4. Entry(k, v).key = k /\ Entry(k, v).val = v /\ k # 0
  BY KeysApart DEF Entry
<1> HIDE DEF Entry
<1>5. /\ \A j \in TableKeys : j \in S <=> \E i \in Places(t) : t.bins[i].key = j
      /\ \A i \in Places(t) : t.bins[i].key # 0 => t.bins[i].val = m[t.bins[i].key]
      /\ \A i \in Places(t) : t.bins[i].key \in TableKeys \cup {0}
  BY DEF Holds, Shape
<1>6. ASSUME NEW j \in TableKeys
      PROVE  j \in S \cup {k} <=> \E i \in Places(u) : u.bins[i].key = j
  <2>1. CASE j = k
    <3>1. b \in Places(u) /\ u.bins[b].key = k
      BY <1>2, <1>3, <1>4
    <3> QED  BY <2>1, <3>1
  <2>2. CASE j # k
    <3>1. j # 0
      BY KeysApart
    <3>2. \A i \in Places(t) : t.bins[i].key = j <=> u.bins[i].key = j
      BY <1>2, <1>3, <1>4, <2>2, <3>1
    <3> QED  BY <1>3, <1>5, <2>2, <3>2
  <2> QED  BY <2>1, <2>2
<1>7. ASSUME NEW i \in Places(u), u.bins[i].key # 0
      PROVE  u.bins[i].val = m2[u.bins[i].key]
  <2>1. CASE i = b
    BY <1>3, <1>4, <2>1
  <2>2. CASE i # b
    <3>1. u.bins[i] = t.bins[i] /\ t.bins[i].key # k /\ t.bins[i].key \in TableKeys
      BY <1>2, <1>3, <1>5, <1>7, <2>2
    <3>2. t.bins[i].key \in S \ {k}
      BY <1>3, <1>5, <3>1
    <3> QED  BY <1>3, <1>5, <1>7, <3>1, <3>2
  <2> QED  BY <2>1, <2>2
<1> QED  BY <1>6, <1>7 DEF Holds

LEMMA ContainsIs ==
  ASSUME NEW t, Shape(t), Findable(t), HasRoom(t), NEW S, NEW m, Holds(t, S, m), NEW k \in TableKeys
  PROVE  /\ Table!contains(t, k) <=> k \in S
         /\ Table!get(t, k) = IF k \in S THEN m[k] ELSE 0
<1>1. PICK b : b = Table!Probe(t, k)
  OBVIOUS
<1>2. /\ b \in Places(t)
      /\ \A i \in Places(t) : t.bins[i].key = k => i = b
  BY <1>1, PlaceOf
<1>3. k # 0 /\ b # Table!NoBin
  BY <1>2, KeysApart DEF Places, Table!NoBin
<1>4. k \in S <=> t.bins[b].key = k
  BY <1>2 DEF Holds
<1>5. Table!contains(t, k) <=> t.bins[b].key = k
  BY <1>1, <1>3 DEF Table!contains
<1>6. k \in S => Table!get(t, k) = t.bins[b].val
  BY <1>1, <1>3, <1>4, <1>5 DEF Table!get
<1>7. k \notin S => Table!get(t, k) = 0
  BY <1>4, <1>5 DEF Table!get
<1>8. k \in S => t.bins[b].val = m[k]
  BY <1>2, <1>3, <1>4 DEF Holds
<1> QED  BY <1>4, <1>5, <1>6, <1>7, <1>8

LEMMA NewIs ==
  ASSUME NEW c \in Nat, c >= 4, NEW m
  PROVE  LET u == Table!NewTable(c)
         IN  /\ Shape(u) /\ Findable(u) /\ Holds(u, {}, m)
             /\ u.capacity = c /\ u.threshold = c \div 2 /\ u.zero = <<>> /\ u.size = 0
<1> DEFINE u == Table!NewTable(c)
<1>1. u = [bins |-> [i \in 0 .. (c - 1) |-> Table!EmptyBin], capacity |-> c,
           threshold |-> c \div 2, zero |-> <<>>, size |-> 0]
  BY DEF Table!NewTable
<1> HIDE DEF u
<1>2. /\ u.bins = [i \in 0 .. (c - 1) |-> Table!EmptyBin] /\ u.capacity = c
      /\ u.threshold = c \div 2 /\ u.zero = <<>> /\ u.size = 0
  BY <1>1
<1>3. Places(u) = 0 .. (c - 1) /\ \A i \in Places(u) : u.bins[i] = Table!EmptyBin
  BY <1>2 DEF Places
<1>4. Table!EmptyBin.key = 0 /\ Table!EmptyBin.val = 0 /\ Table!EmptyBin = [key |-> 0, val |-> 0]
  BY DEF Table!EmptyBin
<1>5. u = [bins |-> u.bins, capacity |-> u.capacity, threshold |-> u.threshold,
           zero |-> u.zero, size |-> u.size]
  BY <1>1, <1>2
<1>6. u.bins = [i \in Places(u) |-> u.bins[i]]
  BY <1>2, <1>3
<1>7. Shape(u)
  BY <1>2, <1>3, <1>4, <1>5, <1>6 DEF Shape
<1>8. Findable(u) /\ Holds(u, {}, m)
  BY <1>3, <1>4, KeysApart DEF Findable, Holds
<1> QED  BY <1>2, <1>7, <1>8 DEF u

\* The tables that resize goes through.
IsRehashed(f, t, c, n) ==
  f = [k \in 0 .. n |-> IF k = 0 THEN Table!NewTable(c) ELSE Table!Rehash(f[k - 1], t.bins[k - 1])]

LEMMA RehashedExists ==
  ASSUME NEW t, NEW c, NEW n \in Nat
  PROVE  \E f : IsRehashed(f, t, c, n)
<1> DEFINE P == {m \in 0 .. n : \E f : IsRehashed(f, t, c, m)}
<1>1. 0 \in P
  <2> DEFINE f == [k \in 0 .. 0 |-> Table!NewTable(c)]
  <2>1. f = [k \in 0 .. 0 |-> IF k = 0 THEN Table!NewTable(c) ELSE Table!Rehash(f[k - 1], t.bins[k - 1])]
    OBVIOUS
  <2> HIDE DEF f
  <2>2. IsRehashed(f, t, c, 0)
    BY <2>1 DEF IsRehashed
  <2> QED  BY <2>2
<1>2. ASSUME NEW m \in 0 .. (n - 1), m \in P PROVE m + 1 \in P
  <2>1. PICK f : IsRehashed(f, t, c, m)
    BY <1>2
  <2>2. \A k \in 0 .. m : f[k] = IF k = 0 THEN Table!NewTable(c) ELSE Table!Rehash(f[k - 1], t.bins[k - 1])
    BY <2>1, Zenon DEF IsRehashed
  <2> DEFINE g == [k \in 0 .. (m + 1) |->
                     IF k = m + 1 THEN Table!Rehash(f[m], t.bins[m]) ELSE f[k]]
  <2>3. ASSUME NEW k \in 0 .. (m + 1)
        PROVE  g[k] = IF k = 0 THEN Table!NewTable(c) ELSE Table!Rehash(g[k - 1], t.bins[k - 1])
    <3>1. CASE k = m + 1
      <4>1. k # 0 /\ k - 1 = m /\ m \in 0 .. (m + 1) /\ m # m + 1
        BY <3>1
      <4>2. g[k - 1] = f[m]
        BY <4>1
      <4> QED  BY <3>1, <4>1, <4>2
    <3>2. CASE k # m + 1
      <4>1. k \in 0 .. m
        BY <3>2
      <4>2. g[k] = f[k]
        BY <3>2
      <4>3. k # 0 => k - 1 \in 0 .. (m + 1) /\ k - 1 # m + 1
        BY <4>1
      <4>4. k # 0 => g[k - 1] = f[k - 1]
        BY <4>3
      <4> HIDE DEF g
      <4> QED  BY <2>2, <4>1, <4>2, <4>4
    <3> QED  BY <3>1, <3>2
  <2>4. g = [k \in 0 .. (m + 1) |-> g[k]]
    OBVIOUS
  <2> HIDE DEF g
  <2>5. IsRehashed(g, t, c, m + 1)
    BY <2>3, <2>4 DEF IsRehashed
  <2> QED  BY <2>5
<1> HIDE DEF P
<1>3. \A m \in 0 .. n : m \in P
  BY <1>1, <1>2, Climb
<1>4. n \in P
  BY <1>3
<1> QED  BY <1>4 DEF P

Rehashing(f, t, c) ==
  /\ f[0] = Table!NewTable(c)
  /\ Table!resize(t, c) = [f[t.capacity] EXCEPT !.zero = t.zero, !.size = t.size]
  /\ \A k \in 0 .. (t.capacity - 1) : f[k + 1] = Table!Rehash(f[k], t.bins[k])

LEMMA ResizeIs ==
  ASSUME NEW t, NEW c, t.capacity \in Nat
  PROVE  \E f : Rehashing(f, t, c)
<1> DEFINE f == CHOOSE f : IsRehashed(f, t, c, t.capacity)
<1>1. IsRehashed(f, t, c, t.capacity)
  <2> HIDE DEF f
  <2>1. f = CHOOSE g : IsRehashed(g, t, c, t.capacity)
    BY DEF f
  <2> QED  BY <2>1, RehashedExists
<1>2. Table!resize(t, c) = [f[t.capacity] EXCEPT !.zero = t.zero, !.size = t.size]
  BY Zenon DEF Table!resize, IsRehashed
<1> HIDE DEF f
<1>3. \A k \in 0 .. t.capacity :
        f[k] = IF k = 0 THEN Table!NewTable(c) ELSE Table!Rehash(f[k - 1], t.bins[k - 1])
  BY <1>1, Zenon DEF IsRehashed
<1>4. f[0] = Table!NewTable(c)
  BY <1>3
<1>5. ASSUME NEW k \in 0 .. (t.capacity - 1) PROVE f[k + 1] = Table!Rehash(f[k], t.bins[k])
  <2>1. k + 1 \in 0 .. t.capacity /\ k + 1 # 0 /\ (k + 1) - 1 = k
    OBVIOUS
  <2> QED  BY <1>3, <2>1
<1> QED  BY <1>2, <1>4, <1>5 DEF Rehashing

\* The ways a table is changed.
BinFilled(t, b, e) == [t EXCEPT !.bins[b] = e]
Counted(t, b, e, n) == [t EXCEPT !.bins[b] = e, !.size = n]
Kept(t, z, n) == [t EXCEPT !.zero = z, !.size = n]

\* What a table keeps while other bins are filled.
Fresh(u, c) == u.capacity = c /\ u.threshold = c \div 2

LEMMA BinPlaced ==
  ASSUME NEW t, Shape(t), NEW b \in Places(t), NEW e
  PROVE  /\ IsSet(BinFilled(t, b, e), t, b, e) /\ BinFilled(t, b, e).threshold = t.threshold
         /\ BinFilled(t, b, e).zero = t.zero /\ BinFilled(t, b, e).size = t.size
<1> DEFINE u == BinFilled(t, b, e)
<1>1. PICK B, c, h, z0, s : t = [bins |-> B, capacity |-> c, threshold |-> h, zero |-> z0, size |-> s]
  <2>1. t = [bins |-> t.bins, capacity |-> t.capacity, threshold |-> t.threshold,
             zero |-> t.zero, size |-> t.size]
    BY DEF Shape
  <2> QED  BY <2>1, Zenon
<1>2. t.bins = B /\ t.capacity = c /\ t.threshold = h /\ t.zero = z0 /\ t.size = s
  BY <1>1
<1>3. u = [bins |-> [B EXCEPT ![b] = e], capacity |-> c, threshold |-> h, zero |-> z0, size |-> s]
  BY <1>1 DEF BinFilled
<1>4. B = [i \in Places(t) |-> B[i]]
  BY <1>2 DEF Shape
<1>5. [B EXCEPT ![b] = e] = [i \in Places(t) |-> IF i = b THEN e ELSE B[i]]
  BY <1>4
<1>6. /\ u.bins = [B EXCEPT ![b] = e] /\ u.capacity = c /\ u.threshold = h /\ u.zero = z0 /\ u.size = s
  BY <1>3
<1> HIDE DEF u
<1>7. /\ u.bins = [i \in Places(t) |-> IF i = b THEN e ELSE t.bins[i]]
      /\ u.capacity = t.capacity /\ u.threshold = t.threshold
      /\ u.zero = t.zero /\ u.size = t.size
      /\ u = [bins |-> u.bins, capacity |-> u.capacity, threshold |-> u.threshold,
              zero |-> u.zero, size |-> u.size]
  BY <1>2, <1>3, <1>5, <1>6
<1>8. IsSet(u, t, b, e)
  BY <1>7 DEF IsSet
<1> QED  BY <1>7, <1>8 DEF u

LEMMA BinCounted ==
  ASSUME NEW t, Shape(t), NEW b \in Places(t), NEW e, NEW n
  PROVE  /\ IsSet(Counted(t, b, e, n), t, b, e) /\ Counted(t, b, e, n).threshold = t.threshold
         /\ Counted(t, b, e, n).zero = t.zero /\ Counted(t, b, e, n).size = n
<1> DEFINE u == Counted(t, b, e, n)
<1>1. PICK B, c, h, z0, s : t = [bins |-> B, capacity |-> c, threshold |-> h, zero |-> z0, size |-> s]
  <2>1. t = [bins |-> t.bins, capacity |-> t.capacity, threshold |-> t.threshold,
             zero |-> t.zero, size |-> t.size]
    BY DEF Shape
  <2> QED  BY <2>1, Zenon
<1>2. t.bins = B /\ t.capacity = c /\ t.threshold = h /\ t.zero = z0 /\ t.size = s
  BY <1>1
<1>3. u = [bins |-> [B EXCEPT ![b] = e], capacity |-> c, threshold |-> h, zero |-> z0, size |-> n]
  <2> DEFINE v == [t EXCEPT !.bins[b] = e]
  <2>1. v = [bins |-> [B EXCEPT ![b] = e], capacity |-> c, threshold |-> h, zero |-> z0, size |-> s]
    BY <1>1
  <2>2. u = [v EXCEPT !.size = n]
    BY <1>1 DEF Counted
  <2> HIDE DEF u, v
  <2> QED  BY <2>1, <2>2
<1>4. B = [i \in Places(t) |-> B[i]]
  BY <1>2 DEF Shape
<1>5. [B EXCEPT ![b] = e] = [i \in Places(t) |-> IF i = b THEN e ELSE B[i]]
  BY <1>4
<1>6. /\ u.bins = [B EXCEPT ![b] = e] /\ u.capacity = c /\ u.threshold = h /\ u.zero = z0 /\ u.size = n
  BY <1>3
<1> HIDE DEF u
<1>7. /\ u.bins = [i \in Places(t) |-> IF i = b THEN e ELSE t.bins[i]]
      /\ u.capacity = t.capacity /\ u.threshold = t.threshold
      /\ u.zero = t.zero /\ u.size = n
      /\ u = [bins |-> u.bins, capacity |-> u.capacity, threshold |-> u.threshold,
              zero |-> u.zero, size |-> u.size]
  BY <1>2, <1>3, <1>5, <1>6
<1>8. IsSet(u, t, b, e)
  BY <1>7 DEF IsSet
<1> QED  BY <1>7, <1>8 DEF u

\* A table with the keys of S and the values of m, as large as a new one of c bins.
Right(u, S, m, c) == Shape(u) /\ Findable(u) /\ Holds(u, S, m) /\ Fresh(u, c)

LEMMA RehashKeeps ==
  ASSUME NEW u, NEW c, NEW S, NEW m, Right(u, S, m, c), HasRoom(u), NEW k \in TableKeys
  PROVE  Right(Table!Rehash(u, Entry(k, m[k])), S \cup {k}, m, c)
<1> DEFINE e == Entry(k, m[k])
           w == Table!Rehash(u, e)
<1>0. Shape(u) /\ Findable(u) /\ Holds(u, S, m) /\ Fresh(u, c)
  BY DEF Right
<1>1. e.key = k /\ e # Table!EmptyBin
  <2>1. e.key = k
    BY DEF Entry
  <2>2. Table!EmptyBin.key = 0
    BY DEF Table!EmptyBin
  <2> QED  BY <2>1, <2>2, KeysApart
<1> HIDE DEF e
<1>2. w = BinFilled(u, Table!Probe(u, k), e)
  BY <1>1 DEF Table!Rehash, BinFilled
<1> HIDE DEF w
<1>3. IsSet(w, u, Table!Probe(u, k), e) /\ w.threshold = u.threshold
  BY <1>0, <1>2, PlaceOf, BinPlaced
<1>4. IsSet(w, u, Table!Probe(u, k), Entry(k, m[k]))
  BY <1>3 DEF e
<1>5. Shape(w) /\ Findable(w)
  BY <1>0, <1>4, PlacedShape
<1>6. Holds(w, S \cup {k}, m)
  BY <1>0, <1>4, PlacedHolds
<1>7. Fresh(w, c)
  BY <1>0, <1>3 DEF IsSet, Fresh
<1> QED  BY <1>5, <1>6, <1>7 DEF w, e, Right

LEMMA RecordKept ==
  ASSUME NEW t, Shape(t), NEW z, NEW n
  PROVE  LET u == Kept(t, z, n) IN
         /\ Shape(u) /\ u.bins = t.bins /\ u.capacity = t.capacity /\ u.threshold = t.threshold
         /\ u.zero = z /\ u.size = n
<1> DEFINE u == Kept(t, z, n)
<1>1. PICK B, c, h, z0, s : t = [bins |-> B, capacity |-> c, threshold |-> h, zero |-> z0, size |-> s]
  <2>1. t = [bins |-> t.bins, capacity |-> t.capacity, threshold |-> t.threshold,
             zero |-> t.zero, size |-> t.size]
    BY DEF Shape
  <2> QED  BY <2>1, Zenon
<1>2. t.bins = B /\ t.capacity = c /\ t.threshold = h /\ t.zero = z0 /\ t.size = s
  BY <1>1
<1>3. u = [bins |-> B, capacity |-> c, threshold |-> h, zero |-> z, size |-> n]
  <2> DEFINE v == [t EXCEPT !.zero = z]
  <2>1. v = [bins |-> B, capacity |-> c, threshold |-> h, zero |-> z, size |-> s]
    BY <1>1
  <2>2. u = [v EXCEPT !.size = n]
    BY <1>1 DEF Kept
  <2> HIDE DEF v
  <2> QED  BY <2>1, <2>2
<1> HIDE DEF u
<1>4. u.bins = B /\ u.capacity = c /\ u.threshold = h /\ u.zero = z /\ u.size = n
  BY <1>3
<1>5. u = [bins |-> u.bins, capacity |-> u.capacity, threshold |-> u.threshold,
           zero |-> u.zero, size |-> u.size]
  BY <1>3, <1>4
<1>6. Places(u) = Places(t) /\ u.bins = t.bins
  BY <1>2, <1>4 DEF Places
<1>7. Shape(u)
  BY <1>2, <1>4, <1>5, <1>6 DEF Shape
<1> QED  BY <1>2, <1>4, <1>7 DEF u

LEMMA SameBins ==
  ASSUME NEW t, NEW u, u.bins = t.bins, u.capacity = t.capacity
  PROVE  /\ Findable(t) => Findable(u)
         /\ HasRoom(t) => HasRoom(u)
         /\ \A S, m : Holds(t, S, m) => Holds(u, S, m)
<1>1. Places(u) = Places(t)
  BY DEF Places
<1>2. Findable(t) => Findable(u)
  BY <1>1 DEF Findable
<1>3. HasRoom(t) => HasRoom(u)
  BY <1>1 DEF HasRoom
<1>4. ASSUME NEW S, NEW m, Holds(t, S, m) PROVE Holds(u, S, m)
  BY <1>1, <1>4 DEF Holds
<1> QED  BY <1>2, <1>3, <1>4

\* The keys in the first k bins.
PartOf(t, k) == {j \in TableKeys : \E i \in 0 .. (k - 1) : t.bins[i].key = j}

LEMMA ResizeKeeps ==
  ASSUME NEW t, Shape(t), NEW S, NEW m, Holds(t, S, m), S \subseteq TableKeys, IsFiniteSet(S),
         NEW c \in Nat, c >= 4, Cardinality(S) < c
  PROVE  LET u == Table!resize(t, c)
         IN  Right(u, S, m, c) /\ HasRoom(u) /\ u.zero = t.zero /\ u.size = t.size
<1>1. PICK n \in Nat : n = t.capacity /\ Places(t) = 0 .. (n - 1)
  BY DEF Shape, Places
<1>2. PICK f : /\ f[0] = Table!NewTable(c)
               /\ Table!resize(t, c) = [f[n] EXCEPT !.zero = t.zero, !.size = t.size]
               /\ \A k \in 0 .. (n - 1) : f[k + 1] = Table!Rehash(f[k], t.bins[k])
  <2>1. t.capacity \in Nat
    BY <1>1
  <2>2. PICK f : Rehashing(f, t, c)
    BY <2>1, ResizeIs
  <2> QED  BY <1>1, <2>2 DEF Rehashing
<1>3. ASSUME NEW k \in 0 .. n PROVE PartOf(t, k) \subseteq S
  <2>1. \A i \in 0 .. (k - 1) : i \in Places(t)
    BY <1>1
  <2> QED  BY <2>1 DEF Holds, PartOf
<1>4. ASSUME NEW u, NEW k \in 0 .. n, Right(u, PartOf(t, k), m, c) PROVE HasRoom(u)
  <2>1. Shape(u) /\ Holds(u, PartOf(t, k), m) /\ Fresh(u, c)
    BY <1>4 DEF Right
  <2>2. ASSUME NEW i \in Places(u), u.bins[i].key # 0 PROVE u.bins[i].key \in S
    <3>1. u.bins[i].key \in TableKeys
      BY <2>1, <2>2 DEF Shape
    <3>2. u.bins[i].key \in PartOf(t, k)
      BY <2>1, <2>2, <3>1 DEF Holds
    <3> QED  BY <1>3, <3>2
  <2>3. u.capacity = c /\ Shape(u)
    BY <2>1 DEF Fresh
  <2> QED  BY <2>2, <2>3, RoomIs
<1> DEFINE P == {k \in 0 .. n : Right(f[k], PartOf(t, k), m, c)}
<1>5. 0 \in P
  <2>1. PartOf(t, 0) = {}
    BY DEF PartOf
  <2>2. Right(f[0], {}, m, c)
    BY <1>2, NewIs DEF Fresh, Right
  <2> QED  BY <2>1, <2>2
<1>6. ASSUME NEW k \in 0 .. (n - 1), k \in P PROVE k + 1 \in P
  <2>1. PICK u, e : u = f[k] /\ e = t.bins[k]
    OBVIOUS
  <2>2. Right(u, PartOf(t, k), m, c) /\ k \in 0 .. n /\ k + 1 \in 0 .. n /\ k \in Places(t)
    BY <1>1, <1>6, <2>1
  <2>3. /\ e = [key |-> e.key, val |-> e.val] /\ e.key \in TableKeys \cup {0}
        /\ e = Table!EmptyBin <=> e.key = 0
    BY <2>1, <2>2, EmptyIs DEF Shape
  <2>4. HasRoom(u)
    BY <1>4, <2>2
  <2>5. \A i : i \in 0 .. ((k + 1) - 1) <=> i \in 0 .. (k - 1) \/ i = k
    OBVIOUS
  <2>6. f[k + 1] = Table!Rehash(u, e)
    BY <1>2, <2>1
  <2>7. CASE e.key = 0
    <3>1. f[k + 1] = u
      BY <2>3, <2>6, <2>7 DEF Table!Rehash
    <3>2. PartOf(t, k + 1) = PartOf(t, k)
      BY <2>1, <2>5, <2>7, KeysApart DEF PartOf
    <3> QED  BY <2>2, <3>1, <3>2
  <2>8. CASE e.key # 0
    <3>1. PICK j \in TableKeys : j = e.key
      BY <2>3, <2>8
    <3>2. m[j] = e.val
      BY <2>1, <2>2, <2>8, <3>1 DEF Holds
    <3>3. e = Entry(j, m[j])
      BY <2>3, <3>1, <3>2 DEF Entry
    <3>4. PartOf(t, k + 1) = PartOf(t, k) \cup {j}
      <4>1. \A i \in TableKeys : i \in PartOf(t, k + 1) <=> i \in PartOf(t, k) \/ i = j
        BY <2>1, <2>5, <3>1 DEF PartOf
      <4>2. j \in PartOf(t, k + 1)
        BY <4>1
      <4>3. PartOf(t, k + 1) \subseteq TableKeys /\ PartOf(t, k) \subseteq TableKeys
        BY DEF PartOf
      <4> QED  BY <4>1, <4>3
    <3>5. Right(Table!Rehash(u, Entry(j, m[j])), PartOf(t, k) \cup {j}, m, c)
      BY <2>2, <2>4, RehashKeeps
    <3> QED  BY <2>2, <2>6, <3>3, <3>4, <3>5
  <2> QED  BY <2>7, <2>8
<1>7. n \in P
  <2> HIDE DEF P
  <2>1. \A k \in 0 .. n : k \in P
    BY <1>5, <1>6, Climb
  <2> QED  BY <2>1
<1>8. PartOf(t, n) = S
  BY <1>1, <1>3 DEF Holds, PartOf
<1>9. PICK w : w = f[n]
  OBVIOUS
<1>10. Right(w, S, m, c) /\ HasRoom(w)
  <2>1. Right(w, PartOf(t, n), m, c) /\ n \in 0 .. n
    BY <1>7, <1>9
  <2>2. HasRoom(w)
    BY <1>4, <2>1
  <2> QED  BY <1>8, <2>1, <2>2
<1> HIDE DEF P
<1>11. PICK u : u = Table!resize(t, c)
  OBVIOUS
<1>12. u = Kept(w, t.zero, t.size)
  BY <1>2, <1>9, <1>11 DEF Kept
<1>13. Shape(w) /\ Findable(w) /\ Holds(w, S, m) /\ Fresh(w, c)
  BY <1>10 DEF Right
<1>14. /\ Shape(u) /\ u.bins = w.bins /\ u.capacity = w.capacity /\ u.threshold = w.threshold
       /\ u.zero = t.zero /\ u.size = t.size
  BY <1>12, <1>13, RecordKept
<1>15. Findable(u) /\ HasRoom(u) /\ Holds(u, S, m)
  BY <1>10, <1>13, <1>14, SameBins
<1>16. Fresh(u, c)
  BY <1>13, <1>14 DEF Fresh
<1> QED  BY <1>11, <1>14, <1>15, <1>16 DEF Right

\* The table t has the entries of m, and a size and a threshold that fit.
Bookkept(t, m) ==
  /\ Shape(t) /\ Findable(t) /\ t.threshold = t.capacity \div 2
  /\ DOMAIN m \subseteq TableKeys \cup {0} /\ IsFiniteSet(DOMAIN m)
  /\ Holds(t, DOMAIN m \ {0}, m)
  /\ t.zero = IF 0 \in DOMAIN m THEN <<m[0]>> ELSE <<>>
  /\ t.size = Cardinality(DOMAIN m)
  /\ Cardinality(DOMAIN m \ {0}) =< t.threshold + 1

LEMMA Halved ==
  ASSUME NEW c \in Nat, c >= 4
  PROVE  c \div 2 \in Nat /\ c \div 2 + 1 < c /\ (2 * c) \div 2 = c /\ 2 * c \in Nat /\ 2 * c >= 4
OBVIOUS

LEMMA KeysAre ==
  ASSUME NEW t, NEW m, Bookkept(t, m)
  PROVE  /\ DOMAIN m \ {0} \subseteq TableKeys /\ IsFiniteSet(DOMAIN m \ {0})
         /\ Cardinality(DOMAIN m \ {0}) \in Nat /\ Cardinality(DOMAIN m) \in Nat
         /\ Cardinality(DOMAIN m \ {0}) =< Cardinality(DOMAIN m)
         /\ HasRoom(t)
<1>1. DOMAIN m \ {0} \subseteq TableKeys /\ DOMAIN m \ {0} \subseteq DOMAIN m /\ IsFiniteSet(DOMAIN m)
  BY DEF Bookkept
<1>2. PICK S, D : S = DOMAIN m \ {0} /\ D = DOMAIN m
  OBVIOUS
<1>3. S \in SUBSET D /\ IsFiniteSet(D)
  BY <1>1, <1>2
<1>4. IsFiniteSet(S) /\ Cardinality(S) =< Cardinality(D)
  BY <1>3, FS_Subset
<1>5. Cardinality(S) \in Nat /\ Cardinality(D) \in Nat
  BY <1>3, <1>4, FS_CardinalityType
<1>6. HasRoom(t)
  <2>1. Shape(t) /\ t.capacity \in Nat /\ t.capacity >= 4 /\ Holds(t, S, m)
        /\ t.threshold = t.capacity \div 2 /\ Cardinality(S) =< t.threshold + 1
    BY <1>2 DEF Bookkept, Shape
  <2>2. Cardinality(S) < t.capacity
    BY <1>5, <2>1, Halved
  <2>3. \A i \in Places(t) : t.bins[i].key # 0 => t.bins[i].key \in S
    BY <2>1 DEF Holds, Shape
  <2> QED  BY <1>4, <2>1, <2>2, <2>3, RoomIs
<1> QED  BY <1>1, <1>2, <1>4, <1>5, <1>6

LEMMA GrownIs ==
  ASSUME NEW t, NEW m, Bookkept(t, m)
  PROVE  LET u == Table!Grown(t)
         IN  /\ Right(u, DOMAIN m \ {0}, m, u.capacity) /\ HasRoom(u)
             /\ u.zero = t.zero /\ u.size = t.size
             /\ Cardinality(DOMAIN m \ {0}) =< u.threshold
<1>0. PICK S : S = DOMAIN m \ {0}
  OBVIOUS
<1>1. PICK n \in Nat : n = Cardinality(S) /\ S = DOMAIN m \ {0}
  BY <1>0, KeysAre
<1>2. /\ S \subseteq TableKeys /\ IsFiniteSet(S) /\ Cardinality(DOMAIN m) \in Nat /\ HasRoom(t)
      /\ n =< Cardinality(DOMAIN m)
  BY <1>1, KeysAre
<1>3. /\ Shape(t) /\ Findable(t) /\ Holds(t, S, m) /\ t.threshold = t.capacity \div 2
      /\ t.size = Cardinality(DOMAIN m) /\ n =< t.threshold + 1
  BY <1>1 DEF Bookkept
<1>4. PICK c \in Nat : c = t.capacity /\ c >= 4
  BY <1>3 DEF Shape
<1>5. PICK u : u = Table!Grown(t)
  OBVIOUS
<1>6. CASE t.size > t.threshold
  <2>1. u = Table!resize(t, 2 * c)
    BY <1>4, <1>5, <1>6 DEF Table!Grown
  <2>2. PICK d \in Nat : d = 2 * c /\ d >= 4 /\ d \div 2 = c /\ n =< c /\ n < d
    BY <1>3, <1>4, Halved
  <2>3. Right(u, S, m, d) /\ HasRoom(u) /\ u.zero = t.zero /\ u.size = t.size
    BY <1>1, <1>2, <1>3, <2>1, <2>2, ResizeKeeps
  <2>4. u.capacity = d /\ u.threshold = c
    BY <2>2, <2>3 DEF Right, Fresh
  <2> QED  BY <1>1, <1>5, <2>2, <2>3, <2>4
<1>7. CASE ~(t.size > t.threshold)
  <2>1. u = t
    BY <1>5, <1>7 DEF Table!Grown
  <2>2. Right(u, S, m, u.capacity)
    BY <1>3, <2>1 DEF Right, Fresh
  <2>3. t.threshold \in Nat
    BY <1>3, <1>4, Halved
  <2>4. n =< t.threshold
    BY <1>2, <1>3, <1>7, <2>3
  <2> QED  BY <1>1, <1>2, <1>5, <2>1, <2>2, <2>4
<1> QED  BY <1>6, <1>7

\* The dictionary after a put.
With(m, k, v) == [j \in DOMAIN m \cup {k} |-> IF j = k THEN v ELSE m[j]]

LEMMA PutKeeps ==
  ASSUME NEW t, NEW m, Bookkept(t, m), NEW k \in TableKeys, NEW v
  PROVE  Bookkept(Table!put(t, k, v), With(m, k, v))
<1>0. PICK S : S = DOMAIN m \ {0}
  OBVIOUS
<1>1. PICK n \in Nat : n = Cardinality(S) /\ S = DOMAIN m \ {0}
  BY <1>0, KeysAre
<1>2. PICK m2 : m2 = With(m, k, v)
  OBVIOUS
<1>3. /\ DOMAIN m2 = DOMAIN m \cup {k} /\ m2[k] = v /\ k # 0
      /\ \A j \in DOMAIN m : j # k => m2[j] = m[j]
  BY <1>2, KeysApart DEF With
<1>4. PICK u : u = Table!Grown(t)
  OBVIOUS
<1>5. /\ Shape(u) /\ Findable(u) /\ Holds(u, S, m) /\ HasRoom(u) /\ u.threshold = u.capacity \div 2
      /\ u.zero = t.zero /\ u.size = t.size /\ n =< u.threshold
  BY <1>1, <1>4, GrownIs DEF Right, Fresh
<1>6. PICK b : b = Table!Probe(u, k)
  OBVIOUS
<1>7. PICK w : w = Table!put(t, k, v)
  OBVIOUS
<1>8. PICK d : d = IF u.bins[b].key = k THEN u.size ELSE u.size + 1
  OBVIOUS
<1>9. w = Counted(u, b, Entry(k, v), d)
  BY <1>3, <1>4, <1>6, <1>7, <1>8 DEF Table!put, Counted, Entry
<1>10. b \in Places(u) /\ \A i \in Places(u) : u.bins[i].key = k => i = b
  BY <1>5, <1>6, PlaceOf
<1>11. /\ IsSet(w, u, b, Entry(k, v)) /\ w.threshold = u.threshold
       /\ w.zero = u.zero /\ w.size = d
  BY <1>5, <1>9, <1>10, BinCounted
<1>12. IsSet(w, u, Table!Probe(u, k), Entry(k, v))
  BY <1>6, <1>11
<1>13. Shape(w) /\ Findable(w)
  BY <1>5, <1>12, PlacedShape
<1>14. Holds(w, S \cup {k}, m2)
  BY <1>1, <1>3, <1>5, <1>12, PlacedHolds
<1>15. DOMAIN m2 \ {0} = S \cup {k}
  BY <1>1, <1>3
<1>16. k \in S <=> u.bins[b].key = k
  BY <1>5, <1>10 DEF Holds
<1>17. /\ IsFiniteSet(DOMAIN m) /\ IsFiniteSet(S) /\ Cardinality(DOMAIN m) \in Nat
       /\ DOMAIN m \subseteq TableKeys \cup {0} /\ t.size = Cardinality(DOMAIN m)
       /\ t.zero = IF 0 \in DOMAIN m THEN <<m[0]>> ELSE <<>>
  BY <1>1, KeysAre DEF Bookkept
<1>18. /\ IsFiniteSet(DOMAIN m2)
       /\ Cardinality(DOMAIN m2) = IF k \in DOMAIN m THEN Cardinality(DOMAIN m) ELSE Cardinality(DOMAIN m) + 1
       /\ Cardinality(S \cup {k}) = IF k \in S THEN n ELSE n + 1
  <2>1. PICK D : D = DOMAIN m
    OBVIOUS
  <2>2. /\ IsFiniteSet(D \cup {k})
        /\ Cardinality(D \cup {k}) = IF k \in D THEN Cardinality(D) ELSE Cardinality(D) + 1
    BY <1>17, <2>1, FS_AddElement
  <2>3. Cardinality(S \cup {k}) = IF k \in S THEN Cardinality(S) ELSE Cardinality(S) + 1
    BY <1>17, FS_AddElement
  <2> QED  BY <1>1, <1>3, <2>1, <2>2, <2>3
<1>19. w.size = Cardinality(DOMAIN m2)
  <2>1. k \in S <=> k \in DOMAIN m
    BY <1>1, <1>3
  <2> QED  BY <1>5, <1>8, <1>11, <1>16, <1>17, <1>18, <2>1
<1>20. w.threshold = w.capacity \div 2 /\ Cardinality(S \cup {k}) =< w.threshold + 1
  <2>1. w.capacity = u.capacity
    BY <1>11 DEF IsSet
  <2>2. u.threshold \in Nat
    <3>1. u.capacity \in Nat /\ u.capacity >= 4
      BY <1>5 DEF Shape
    <3> QED  BY <1>5, <3>1, Halved
  <2> QED  BY <1>5, <1>11, <1>18, <2>1, <2>2
<1>21. w.zero = IF 0 \in DOMAIN m2 THEN <<m2[0]>> ELSE <<>>
  BY <1>3, <1>5, <1>11, <1>17
<1>22. DOMAIN m2 \subseteq TableKeys \cup {0}
  BY <1>3, <1>17
<1>23. Bookkept(w, m2)
  BY <1>13, <1>14, <1>15, <1>18, <1>19, <1>20, <1>21, <1>22 DEF Bookkept
<1> QED  BY <1>2, <1>7, <1>23

\* The node of key 0 is beside the bins.
LEMMA PutZero ==
  ASSUME NEW t, NEW m, Bookkept(t, m), NEW v
  PROVE  Bookkept(Table!put(t, 0, v), With(m, 0, v))
<1>1. PICK m2 : m2 = With(m, 0, v)
  OBVIOUS
<1>2. /\ DOMAIN m2 = DOMAIN m \cup {0} /\ m2[0] = v /\ DOMAIN m2 \ {0} = DOMAIN m \ {0}
      /\ \A j \in DOMAIN m \ {0} : m2[j] = m[j]
  BY <1>1 DEF With
<1>3. PICK w : w = Table!put(t, 0, v)
  OBVIOUS
<1>4. PICK d : d = IF t.zero = <<>> THEN t.size + 1 ELSE t.size
  OBVIOUS
<1>5. w = Kept(t, <<v>>, d)
  BY <1>3, <1>4 DEF Table!put, Kept
<1>6. /\ Shape(t) /\ Findable(t) /\ t.threshold = t.capacity \div 2
      /\ DOMAIN m \subseteq TableKeys \cup {0} /\ IsFiniteSet(DOMAIN m)
      /\ Holds(t, DOMAIN m \ {0}, m)
      /\ t.zero = IF 0 \in DOMAIN m THEN <<m[0]>> ELSE <<>>
      /\ t.size = Cardinality(DOMAIN m)
      /\ Cardinality(DOMAIN m \ {0}) =< t.threshold + 1
  BY DEF Bookkept
<1>7. /\ Shape(w) /\ w.bins = t.bins /\ w.capacity = t.capacity /\ w.threshold = t.threshold
      /\ w.zero = <<v>> /\ w.size = d
  BY <1>5, <1>6, RecordKept
<1>8. Findable(w)
  BY <1>6, <1>7, SameBins
<1>9. Holds(w, DOMAIN m2 \ {0}, m2)
  <2>1. Holds(w, DOMAIN m \ {0}, m)
    BY <1>6, <1>7, SameBins
  <2>2. \A i \in Places(w) : w.bins[i].key # 0 => w.bins[i].key \in DOMAIN m \ {0}
    BY <1>7, <2>1 DEF Holds, Shape
  <2> QED  BY <1>2, <2>1, <2>2 DEF Holds
<1>10. t.zero = <<>> <=> 0 \notin DOMAIN m
  BY <1>6
<1>11. /\ IsFiniteSet(DOMAIN m2)
       /\ Cardinality(DOMAIN m2) = IF 0 \in DOMAIN m THEN Cardinality(DOMAIN m) ELSE Cardinality(DOMAIN m) + 1
  BY <1>2, <1>6, FS_AddElement
<1>12. w.size = Cardinality(DOMAIN m2)
  BY <1>4, <1>6, <1>7, <1>10, <1>11
<1>13. Bookkept(w, m2)
  BY <1>2, <1>6, <1>7, <1>8, <1>9, <1>11, <1>12 DEF Bookkept
<1> QED  BY <1>1, <1>3, <1>13

LEMMA OffSame ==
  ASSUME NEW c \in Nat \ {0}, NEW b \in 0 .. (c - 1), NEW x \in 0 .. (c - 1), NEW y \in 0 .. (c - 1)
  PROVE  /\ Off(c, b, x) \in 0 .. (c - 1) /\ Off(c, b, b) = 0
         /\ Off(c, b, x) = Off(c, b, y) => x = y
BY DEF Off

\* The bin of j is moved to h.
Moved(t, h, j) == [t EXCEPT !.bins[h] = t.bins[j], !.bins[j] = Table!EmptyBin]

LEMMA MovedIs ==
  ASSUME NEW t, Shape(t), NEW h \in Places(t), NEW j \in Places(t), h # j
  PROVE  LET u == Moved(t, h, j)
         IN  /\ u.bins = [i \in Places(t) |-> IF i = j THEN Table!EmptyBin
                                             ELSE IF i = h THEN t.bins[j] ELSE t.bins[i]]
             /\ u.capacity = t.capacity /\ u.threshold = t.threshold
             /\ u.zero = t.zero /\ u.size = t.size
             /\ u = [bins |-> u.bins, capacity |-> u.capacity, threshold |-> u.threshold,
                     zero |-> u.zero, size |-> u.size]
<1> DEFINE u == Moved(t, h, j)
           e == Table!EmptyBin
<1>1. PICK B, c, d, z0, s : t = [bins |-> B, capacity |-> c, threshold |-> d, zero |-> z0, size |-> s]
  <2>1. t = [bins |-> t.bins, capacity |-> t.capacity, threshold |-> t.threshold,
             zero |-> t.zero, size |-> t.size]
    BY DEF Shape
  <2> QED  BY <2>1, Zenon
<1>2. t.bins = B /\ t.capacity = c /\ t.threshold = d /\ t.zero = z0 /\ t.size = s
  BY <1>1
<1> HIDE DEF e
<1>3. u = [bins |-> [[B EXCEPT ![h] = B[j]] EXCEPT ![j] = e], capacity |-> c, threshold |-> d,
           zero |-> z0, size |-> s]
  <2> DEFINE v == [t EXCEPT !.bins[h] = B[j]]
  <2>1. v = [bins |-> [B EXCEPT ![h] = B[j]], capacity |-> c, threshold |-> d, zero |-> z0, size |-> s]
    BY <1>1
  <2>2. u = [v EXCEPT !.bins[j] = e]
    BY <1>1, <1>2 DEF Moved, e
  <2> HIDE DEF u, v
  <2> QED  BY <2>1, <2>2
<1>4. B = [i \in Places(t) |-> B[i]]
  BY <1>2 DEF Shape
<1>5. [[B EXCEPT ![h] = B[j]] EXCEPT ![j] = e]
      = [i \in Places(t) |-> IF i = j THEN e ELSE IF i = h THEN B[j] ELSE B[i]]
  BY <1>4
<1>6. /\ u.bins = [i \in Places(t) |-> IF i = j THEN e ELSE IF i = h THEN B[j] ELSE B[i]]
      /\ u.capacity = c /\ u.threshold = d /\ u.zero = z0 /\ u.size = s
  BY <1>3, <1>5
<1> HIDE DEF u
<1>7. /\ u.bins = [i \in Places(t) |-> IF i = j THEN e ELSE IF i = h THEN t.bins[j] ELSE t.bins[i]]
      /\ u.capacity = t.capacity /\ u.threshold = t.threshold
      /\ u.zero = t.zero /\ u.size = t.size
      /\ u = [bins |-> u.bins, capacity |-> u.capacity, threshold |-> u.threshold,
              zero |-> u.zero, size |-> u.size]
  BY <1>2, <1>3, <1>5, <1>6
<1> QED  BY <1>7 DEF u, e

LEMMA EmptyBinIs == /\ Table!EmptyBin.key = 0 /\ Table!EmptyBin.val = 0
                    /\ Table!EmptyBin = [key |-> Table!EmptyBin.key, val |-> Table!EmptyBin.val]
BY DEF Table!EmptyBin

\* Moving an entry into an empty bin changes no entry.
LEMMA MovedKeeps ==
  ASSUME NEW t, Shape(t), NEW h \in Places(t), NEW j \in Places(t), h # j,
         t.bins[h].key = 0, NEW S, NEW m, Holds(t, S, m)
  PROVE  /\ Shape(Moved(t, h, j)) /\ Holds(Moved(t, h, j), S, m)
         /\ Places(Moved(t, h, j)) = Places(t)
         /\ Moved(t, h, j).bins[j].key = 0 /\ Moved(t, h, j).bins[h] = t.bins[j]
         /\ \A i \in Places(t) \ {h, j} : Moved(t, h, j).bins[i] = t.bins[i]
<1>1. PICK u : u = Moved(t, h, j)
  OBVIOUS
<1>2. /\ u.bins = [i \in Places(t) |-> IF i = j THEN Table!EmptyBin
                                      ELSE IF i = h THEN t.bins[j] ELSE t.bins[i]]
      /\ u.capacity = t.capacity
      /\ u = [bins |-> u.bins, capacity |-> u.capacity, threshold |-> u.threshold,
              zero |-> u.zero, size |-> u.size]
  BY <1>1, MovedIs
<1>3. PICK e : e = Table!EmptyBin /\ e.key = 0 /\ e.val = 0 /\ e = [key |-> e.key, val |-> e.val]
  BY EmptyBinIs
<1>4. /\ Places(u) = Places(t) /\ u.bins[j] = e /\ u.bins[h] = t.bins[j]
      /\ \A i \in Places(t) \ {h, j} : u.bins[i] = t.bins[i]
  BY <1>2, <1>3 DEF Places
<1>5. u.bins = [i \in Places(u) |-> u.bins[i]]
  BY <1>2, <1>4
<1>6. /\ t.capacity \in Nat /\ t.capacity >= 4
      /\ \A i \in Places(t) : /\ t.bins[i] = [key |-> t.bins[i].key, val |-> t.bins[i].val]
                              /\ t.bins[i].key \in TableKeys \cup {0}
                              /\ t.bins[i].key = 0 => t.bins[i].val = 0
      /\ \A i, l \in Places(t) : t.bins[i].key = t.bins[l].key /\ t.bins[i].key # 0 => i = l
  BY DEF Shape
\* Where the entry of bin i came from.
<1> DEFINE From(i) == IF i = h THEN j ELSE i
<1>7. ASSUME NEW i \in Places(t), i # j
      PROVE  From(i) \in Places(t) /\ From(i) # h /\ u.bins[i] = t.bins[From(i)]
  BY <1>4, <1>7
<1>8. ASSUME NEW i \in Places(t), t.bins[i].key # 0
      PROVE  \E l \in Places(t) : u.bins[l] = t.bins[i]
  <2>1. i # h
    BY <1>8
  <2>2. CASE i = j
    BY <1>4, <2>2
  <2>3. CASE i # j
    BY <1>4, <2>1, <2>3
  <2> QED  BY <2>2, <2>3
<1>9. ASSUME NEW i \in Places(t), NEW l \in Places(t), i # j, l # j, From(i) = From(l) PROVE i = l
  BY <1>9
<1> HIDE DEF From
<1>10. \A i \in Places(u) : /\ u.bins[i] = [key |-> u.bins[i].key, val |-> u.bins[i].val]
                            /\ u.bins[i].key \in TableKeys \cup {0}
                            /\ u.bins[i].key = 0 => u.bins[i].val = 0
  <2> SUFFICES ASSUME NEW i \in Places(t)
               PROVE  /\ u.bins[i] = [key |-> u.bins[i].key, val |-> u.bins[i].val]
                      /\ u.bins[i].key \in TableKeys \cup {0}
                      /\ u.bins[i].key = 0 => u.bins[i].val = 0
    BY <1>4
  <2>1. CASE i = j
    <3>1. u.bins[i] = e
      BY <1>4, <2>1
    <3> QED  BY <1>3, <3>1
  <2>2. CASE i # j
    <3>1. PICK l \in Places(t) : u.bins[i] = t.bins[l]
      BY <1>7, <2>2
    <3> QED  BY <1>6, <3>1
  <2> QED  BY <2>1, <2>2
<1>11. \A i, l \in Places(u) : u.bins[i].key = u.bins[l].key /\ u.bins[i].key # 0 => i = l
  <2> SUFFICES ASSUME NEW i \in Places(t), NEW l \in Places(t),
                      u.bins[i].key = u.bins[l].key, u.bins[i].key # 0
               PROVE  i = l
    BY <1>4
  <2>1. i # j /\ l # j
    BY <1>3, <1>4
  <2>2. From(i) = From(l)
    BY <1>6, <1>7, <2>1
  <2> QED  BY <1>9, <2>1, <2>2
<1>12. Shape(u)
  BY <1>2, <1>5, <1>6, <1>10, <1>11 DEF Shape
<1>13. Holds(u, S, m)
  <2>1. ASSUME NEW k \in TableKeys
        PROVE  k \in S <=> \E i \in Places(u) : u.bins[i].key = k
    <3>1. k # 0
      BY KeysApart
    <3>2. ASSUME NEW i \in Places(t), t.bins[i].key = k PROVE \E l \in Places(t) : u.bins[l].key = k
      <4>1. PICK l \in Places(t) : u.bins[l] = t.bins[i]
        BY <1>8, <3>1, <3>2
      <4> QED  BY <3>2, <4>1
    <3>3. ASSUME NEW i \in Places(t), u.bins[i].key = k PROVE \E l \in Places(t) : t.bins[l].key = k
      <4>1. i # j
        BY <1>3, <1>4, <3>1, <3>3
      <4>2. From(i) \in Places(t) /\ t.bins[From(i)].key = k
        BY <1>7, <3>3, <4>1
      <4> QED  BY <4>2
    <3> QED  BY <1>4, <3>2, <3>3 DEF Holds
  <2>2. ASSUME NEW i \in Places(u), u.bins[i].key # 0
        PROVE  u.bins[i].val = m[u.bins[i].key]
    <3>1. i \in Places(t) /\ i # j
      BY <1>3, <1>4, <2>2
    <3>2. From(i) \in Places(t) /\ u.bins[i] = t.bins[From(i)]
      BY <1>7, <3>1
    <3> QED  BY <2>2, <3>2 DEF Holds
  <2> QED  BY <2>1, <2>2 DEF Holds
<1>14. u.bins[j].key = 0
  BY <1>3, <1>4
<1> QED  BY <1>1, <1>4, <1>12, <1>13, <1>14

-------------------------------------------------------------------------------
(* Closing a hole.                                                         *)

\* When the n bins behind b have been looked at, u has the entries of S with a
\* hole at h, the bins further on are those of t, and only there may an entry
\* have the hole between its home and its bin.
Closing(u, h, t, b, n, S, m) ==
  /\ Shape(u) /\ Holds(u, S, m)
  /\ u.capacity = t.capacity /\ u.threshold = t.threshold /\ u.zero = t.zero /\ u.size = t.size
  /\ h \in Places(t) /\ u.bins[h].key = 0 /\ Off(t.capacity, b, h) =< n
  /\ \A p \in Places(t) : Off(t.capacity, b, p) > n => u.bins[p] = t.bins[p]
  /\ \A i \in Places(t) : u.bins[i].key # 0 =>
       \A p \in Places(t) : OnPath(HomeOf(t.capacity, u.bins[i].key), p, i) =>
         u.bins[p].key # 0 \/ (p = h /\ Off(t.capacity, b, i) > n)

\* The end of the entries looked at: an empty bin.
LEMMA ClosedFindable ==
  ASSUME NEW u, NEW h, NEW t, NEW b \in Places(t), NEW n \in Nat, NEW S, NEW m,
         Closing(u, h, t, b, n, S, m),
         NEW q \in Places(t), Off(t.capacity, b, q) = n + 1, t.bins[q].key = 0
  PROVE  Findable(u)
<1>1. PICK c \in Nat \ {0} : c = t.capacity /\ c = u.capacity
  BY DEF Closing, Shape
<1>2. Places(t) = 0 .. (c - 1) /\ Places(u) = 0 .. (c - 1)
  BY <1>1 DEF Places
<1>3. /\ h \in Places(t) /\ Off(c, b, h) =< n /\ u.bins[q] = t.bins[q] /\ Off(c, b, q) > n
      /\ \A i \in Places(t) : u.bins[i].key \in TableKeys \cup {0}
  BY <1>1, <1>2 DEF Closing, Shape
<1>4. ASSUME NEW i \in Places(t), NEW p \in Places(t), u.bins[i].key # 0,
             OnPath(HomeOf(c, u.bins[i].key), p, i), u.bins[p].key = 0
      PROVE  FALSE
  <2>1. p = h /\ Off(c, b, i) > n
    BY <1>1, <1>4 DEF Closing
  <2>2. PICK x \in 0 .. (c - 1) : x = HomeOf(c, u.bins[i].key)
    BY <1>3, <1>4, HomeIs
  <2>3. Off(c, b, i) # n + 1
    <3>1. i # q
      BY <1>3, <1>4
    <3>2. Off(c, b, i) = Off(c, b, q) => i = q
      BY <1>2, OffSame
    <3> QED  BY <1>1, <3>1, <3>2
  <2>4. Off(c, b, i) \in 0 .. (c - 1) /\ Off(c, b, h) \in 0 .. (c - 1)
    BY <1>2, <1>3, OffSame
  <2>5. Off(c, b, p) < Off(c, b, q) /\ Off(c, b, q) < Off(c, b, i)
    BY <1>1, <1>3, <2>1, <2>3, <2>4
  <2>6. OnPath(x, q, i)
    BY <1>2, <1>4, <2>2, <2>5, PathOver
  <2>7. u.bins[q].key # 0 \/ (q = h /\ Off(c, b, i) > n)
    BY <1>1, <1>4, <2>2, <2>6 DEF Closing
  <2>8. q # h
    BY <1>1, <1>3, <2>4
  <2> QED  BY <1>3, <2>7, <2>8
<1> QED  BY <1>1, <1>2, <1>4 DEF Findable

\* A look at the next bin, which has an entry; further on, at q, a bin is empty.
LEMMA LookKeeps ==
  ASSUME NEW u, NEW h, NEW t, NEW b \in Places(t), NEW n \in Nat, NEW S, NEW m,
         Closing(u, h, t, b, n, S, m),
         NEW j \in Places(t), Off(t.capacity, b, j) = n + 1, t.bins[j].key # 0,
         NEW q \in Places(t), Off(t.capacity, b, q) > n + 1, t.bins[q].key = 0
  PROVE  /\ Table!Stays(h, j, HomeOf(t.capacity, u.bins[j].key)) => Closing(u, h, t, b, n + 1, S, m)
         /\ ~Table!Stays(h, j, HomeOf(t.capacity, u.bins[j].key)) =>
              Closing(Moved(u, h, j), j, t, b, n + 1, S, m)
<1>1. PICK c \in Nat \ {0} : c = t.capacity /\ c = u.capacity
  BY DEF Closing, Shape
<1>2. Places(t) = 0 .. (c - 1) /\ Places(u) = 0 .. (c - 1)
  BY <1>1 DEF Places
<1>3. /\ Shape(u) /\ Holds(u, S, m)
      /\ u.capacity = t.capacity /\ u.threshold = t.threshold /\ u.zero = t.zero /\ u.size = t.size
      /\ h \in Places(t) /\ u.bins[h].key = 0 /\ Off(c, b, h) =< n
      /\ \A p \in Places(t) : Off(c, b, p) > n => u.bins[p] = t.bins[p]
      /\ \A i \in Places(t) : u.bins[i].key # 0 =>
           \A p \in Places(t) : OnPath(HomeOf(c, u.bins[i].key), p, i) =>
             u.bins[p].key # 0 \/ (p = h /\ Off(c, b, i) > n)
  BY <1>1 DEF Closing
<1>4. \A i \in Places(t) : /\ Off(c, b, i) \in 0 .. (c - 1)
                           /\ i # j => Off(c, b, i) # n + 1
                           /\ u.bins[i].key \in TableKeys \cup {0}
  <2>1. \A i \in Places(t) : /\ Off(c, b, i) \in 0 .. (c - 1)
                             /\ Off(c, b, i) = Off(c, b, j) => i = j
    BY <1>2, OffSame
  <2> QED  BY <1>1, <1>2, <1>3, <2>1 DEF Shape
<1>5. h # j /\ u.bins[j] = t.bins[j] /\ u.bins[q] = t.bins[q] /\ q # h /\ q # j
  BY <1>1, <1>3, <1>4
<1>6. PICK y \in 0 .. (c - 1) : y = HomeOf(c, u.bins[j].key)
  BY <1>4, <1>5, HomeIs
<1>7. CASE Table!Stays(h, j, y)
  <2>1. ~OnPath(y, h, j)
    <3>1. h \in 0 .. (c - 1) /\ j \in 0 .. (c - 1) /\ h # j
      BY <1>2, <1>3, <1>5
    <3> QED  BY <1>7, <3>1, StaysIs
  <2>2. ASSUME NEW i \in Places(t), u.bins[i].key # 0,
               NEW p \in Places(t), OnPath(HomeOf(c, u.bins[i].key), p, i)
        PROVE  u.bins[p].key # 0 \/ (p = h /\ Off(c, b, i) > n + 1)
    <3>1. u.bins[p].key # 0 \/ (p = h /\ Off(c, b, i) > n)
      BY <1>3, <2>2
    <3>2. CASE i = j
      <4>1. p # h
        BY <1>6, <2>1, <2>2, <3>2
      <4> QED  BY <3>1, <4>1
    <3>3. CASE i # j
      <4>1. Off(c, b, i) # n + 1 /\ Off(c, b, i) \in Nat
        BY <1>4, <3>3
      <4> QED  BY <3>1, <4>1
    <3> QED  BY <3>2, <3>3
  <2>3. Off(c, b, h) =< n + 1 /\ \A p \in Places(t) : Off(c, b, p) > n + 1 => u.bins[p] = t.bins[p]
    BY <1>3, <1>4
  <2>4. Closing(u, h, t, b, n + 1, S, m)
    BY <1>1, <1>3, <2>2, <2>3 DEF Closing
  <2> QED  BY <1>1, <1>6, <1>7, <2>4
<1>8. CASE ~Table!Stays(h, j, y)
  <2>1. PICK w : w = Moved(u, h, j)
    OBVIOUS
  <2>2. /\ Shape(w) /\ Holds(w, S, m) /\ w.bins[j].key = 0 /\ w.bins[h] = u.bins[j]
        /\ \A i \in Places(t) \ {h, j} : w.bins[i] = u.bins[i]
    BY <1>2, <1>3, <1>5, <2>1, MovedKeeps
  <2>3. w.capacity = t.capacity /\ w.threshold = t.threshold /\ w.zero = t.zero /\ w.size = t.size
    <3>1. h \in Places(u) /\ j \in Places(u) /\ h # j
      BY <1>2, <1>3, <1>5
    <3>2. /\ w.capacity = u.capacity /\ w.threshold = u.threshold
          /\ w.zero = u.zero /\ w.size = u.size
      BY <1>3, <2>1, <3>1, MovedIs
    <3> QED  BY <1>3, <3>2
  <2>4. \A p \in 0 .. (c - 1) : OnPath(y, p, h) => OnPath(y, p, j) /\ p # h /\ p # j
    <3>1. h \in 0 .. (c - 1) /\ j \in 0 .. (c - 1) /\ h # j
      BY <1>2, <1>3, <1>5
    <3> QED  BY <1>8, <3>1, MovesIs
  <2>5. ASSUME NEW i \in Places(t), w.bins[i].key # 0,
               NEW p \in Places(t), OnPath(HomeOf(c, w.bins[i].key), p, i)
        PROVE  w.bins[p].key # 0 \/ (p = j /\ Off(c, b, i) > n + 1)
    <3>1. i # j
      BY <2>2, <2>5
    <3>2. CASE i = h
      <4>1. OnPath(y, p, h)
        BY <1>6, <2>2, <2>5, <3>2
      <4>2. OnPath(y, p, j) /\ p # h /\ p # j
        BY <1>2, <2>4, <4>1
      <4>3. u.bins[p].key # 0
        BY <1>3, <1>5, <1>6, <4>2
      <4> QED  BY <2>2, <4>2, <4>3
    <3>3. CASE i # h
      <4>1. w.bins[i] = u.bins[i]
        BY <2>2, <3>1, <3>3
      <4>2. PICK x \in 0 .. (c - 1) : x = HomeOf(c, u.bins[i].key)
        BY <1>4, <2>5, <4>1, HomeIs
      <4>3. OnPath(x, p, i) /\ u.bins[i].key # 0
        BY <2>5, <4>1, <4>2
      <4>4. CASE p # j
        <5>1. CASE p = h
          BY <1>5, <2>2, <5>1
        <5>2. CASE p # h
          <6>1. u.bins[p].key # 0
            BY <1>3, <4>2, <4>3, <5>2
          <6> QED  BY <2>2, <4>4, <5>2, <6>1
        <5> QED  BY <5>1, <5>2
      <4>5. CASE p = j
        <5>1. Off(c, b, i) # n + 1 /\ Off(c, b, i) \in Nat /\ Off(c, b, j) = n + 1
          BY <1>1, <1>4, <3>1
        <5>2. CASE Off(c, b, i) < n + 1
          <6>1. Off(c, b, i) < Off(c, b, p) /\ Off(c, b, p) < Off(c, b, q)
            BY <1>1, <4>5, <5>1, <5>2
          <6>2. OnPath(x, q, i)
            BY <1>2, <4>2, <4>3, <6>1, PathOver
          <6>3. u.bins[q].key # 0
            BY <1>3, <1>5, <4>2, <4>3, <6>2
          <6> QED  BY <1>5, <6>3
        <5> QED  BY <4>5, <5>1, <5>2
      <4> QED  BY <4>4, <4>5
    <3> QED  BY <3>2, <3>3
  <2>6. \A p \in Places(t) : Off(c, b, p) > n + 1 => w.bins[p] = t.bins[p]
    <3> SUFFICES ASSUME NEW p \in Places(t), Off(c, b, p) > n + 1 PROVE w.bins[p] = t.bins[p]
      OBVIOUS
    <3>1. Off(c, b, p) \in Nat /\ Off(c, b, p) > n /\ p # h /\ p # j
      BY <1>1, <1>3, <1>4
    <3> QED  BY <1>3, <2>2, <3>1
  <2>7. Closing(w, j, t, b, n + 1, S, m)
    <3>1. Off(c, b, j) =< n + 1
      BY <1>1
    <3> QED  BY <1>1, <2>2, <2>3, <2>5, <2>6, <3>1 DEF Closing
  <2> QED  BY <1>1, <1>6, <1>8, <2>1, <2>7
<1> QED  BY <1>7, <1>8

\* The looks that Close takes.
IsClosed(f, t, b, n) ==
  f = [k \in 0 .. n |-> IF k = 0 THEN [table |-> t, hole |-> b]
                        ELSE Table!Look(f[k - 1], (b + k) % t.capacity)]

LEMMA ClosedExists ==
  ASSUME NEW t, NEW b, NEW n \in Nat
  PROVE  \E f : IsClosed(f, t, b, n)
<1> DEFINE P == {m \in 0 .. n : \E f : IsClosed(f, t, b, m)}
           start == [table |-> t, hole |-> b]
<1>1. 0 \in P
  <2> DEFINE f == [k \in 0 .. 0 |-> start]
  <2>1. f = [k \in 0 .. 0 |-> IF k = 0 THEN start ELSE Table!Look(f[k - 1], (b + k) % t.capacity)]
    <3> HIDE DEF start
    <3> QED  OBVIOUS
  <2> HIDE DEF f
  <2>2. IsClosed(f, t, b, 0)
    BY <2>1 DEF IsClosed
  <2> QED  BY <2>2
<1>2. ASSUME NEW m \in 0 .. (n - 1), m \in P PROVE m + 1 \in P
  <2>1. PICK f : IsClosed(f, t, b, m)
    BY <1>2
  <2>2. \A k \in 0 .. m : f[k] = IF k = 0 THEN start ELSE Table!Look(f[k - 1], (b + k) % t.capacity)
    BY <2>1, Zenon DEF IsClosed
  <2> HIDE DEF start
  <2> DEFINE g == [k \in 0 .. (m + 1) |->
                     IF k = m + 1 THEN Table!Look(f[m], (b + (m + 1)) % t.capacity) ELSE f[k]]
  <2>3. ASSUME NEW k \in 0 .. (m + 1)
        PROVE  g[k] = IF k = 0 THEN start ELSE Table!Look(g[k - 1], (b + k) % t.capacity)
    <3>1. CASE k = m + 1
      <4>1. k # 0 /\ k - 1 = m /\ m \in 0 .. (m + 1) /\ m # m + 1
        BY <3>1
      <4>2. g[k - 1] = f[m]
        BY <4>1
      <4> QED  BY <3>1, <4>1, <4>2
    <3>2. CASE k # m + 1
      <4>1. k \in 0 .. m
        BY <3>2
      <4>2. g[k] = f[k]
        BY <3>2
      <4>3. k # 0 => k - 1 \in 0 .. (m + 1) /\ k - 1 # m + 1
        BY <4>1
      <4>4. k # 0 => g[k - 1] = f[k - 1]
        BY <4>3
      <4> HIDE DEF g
      <4> QED  BY <2>2, <4>1, <4>2, <4>4
    <3> QED  BY <3>1, <3>2
  <2>4. g = [k \in 0 .. (m + 1) |-> g[k]]
    OBVIOUS
  <2> HIDE DEF g
  <2>5. IsClosed(g, t, b, m + 1)
    BY <2>3, <2>4 DEF IsClosed, start
  <2> QED  BY <2>5
<1> HIDE DEF P
<1>3. \A m \in 0 .. n : m \in P
  BY <1>1, <1>2, Climb
<1>4. n \in P
  BY <1>3
<1> QED  BY <1>4 DEF P

\* The bins behind b that are empty, as offsets.
Behind(t, b) == {i \in 1 .. (t.capacity - 1) : t.bins[(b + i) % t.capacity] = Table!EmptyBin}

Closes(f, t, b) ==
  /\ f[0] = [table |-> t, hole |-> b]
  /\ \A k \in 0 .. (t.capacity - 1) : f[k + 1] = Table!Look(f[k], (b + (k + 1)) % t.capacity)
  /\ Table!Close(t, b) = f[Min(Behind(t, b)) - 1].table

LEMMA CloseIs ==
  ASSUME NEW t, NEW b, t.capacity \in Nat
  PROVE  \E f : Closes(f, t, b)
<1> DEFINE f == CHOOSE f : IsClosed(f, t, b, t.capacity)
<1>1. IsClosed(f, t, b, t.capacity)
  <2> HIDE DEF f
  <2>1. f = CHOOSE g : IsClosed(g, t, b, t.capacity)
    BY DEF f
  <2> QED  BY <2>1, ClosedExists
<1>2. Table!Close(t, b) = f[Min(Behind(t, b)) - 1].table
  BY Zenon DEF Table!Close, IsClosed, Behind, Table!Min, Min
<1> HIDE DEF f
<1>3. \A k \in 0 .. t.capacity :
        f[k] = IF k = 0 THEN [table |-> t, hole |-> b]
               ELSE Table!Look(f[k - 1], (b + k) % t.capacity)
  BY <1>1, Zenon DEF IsClosed
<1>4. f[0] = [table |-> t, hole |-> b]
  <2>1. 0 \in 0 .. t.capacity
    OBVIOUS
  <2> QED  BY <1>3, <2>1, Zenon
<1>5. ASSUME NEW k \in 0 .. (t.capacity - 1)
      PROVE  f[k + 1] = Table!Look(f[k], (b + (k + 1)) % t.capacity)
  <2>1. k + 1 \in 0 .. t.capacity /\ k + 1 # 0 /\ (k + 1) - 1 = k
    OBVIOUS
  <2>2. PICK l \in 0 .. t.capacity : l = k + 1 /\ l # 0 /\ l - 1 = k
    BY <2>1
  <2>3. f[l] = Table!Look(f[l - 1], (b + l) % t.capacity)
    BY <1>3, <2>2, Zenon
  <2> QED  BY <2>2, <2>3
<1> QED  BY <1>2, <1>4, <1>5 DEF Closes

LEMMA LookIs ==
  ASSUME NEW s, NEW j, NEW c, s.table.capacity = c
  PROVE  LET w == Table!Look(s, j) IN
         /\ Table!Stays(s.hole, j, HomeOf(c, s.table.bins[j].key)) => w = s
         /\ ~Table!Stays(s.hole, j, HomeOf(c, s.table.bins[j].key)) =>
              w.table = Moved(s.table, s.hole, j) /\ w.hole = j
<1>1. Table!Home(s.table, s.table.bins[j].key) = HomeOf(c, s.table.bins[j].key)
  BY Homes
<1>2. CASE Table!Stays(s.hole, j, HomeOf(c, s.table.bins[j].key))
  BY <1>1, <1>2 DEF Table!Look
<1>3. CASE ~Table!Stays(s.hole, j, HomeOf(c, s.table.bins[j].key))
  <2>1. Table!Look(s, j) = [table |-> Moved(s.table, s.hole, j), hole |-> j]
    BY <1>1, <1>3, Zenon DEF Table!Look, Moved
  <2> QED  BY <1>3, <2>1
<1> QED  BY <1>2, <1>3

LEMMA CloseKeeps ==
  ASSUME NEW t, Shape(t), NEW b \in Places(t), NEW S, NEW m, Closing(t, b, t, b, 0, S, m),
         NEW e \in Places(t), e # b, t.bins[e].key = 0
  PROVE  LET u == Table!Close(t, b)
         IN  /\ Shape(u) /\ Findable(u) /\ Holds(u, S, m)
             /\ u.capacity = t.capacity /\ u.threshold = t.threshold
             /\ u.zero = t.zero /\ u.size = t.size
<1>1. PICK c \in Nat \ {0} : c = t.capacity /\ Places(t) = 0 .. (c - 1)
  BY DEF Shape, Places
<1>2. PICK f : /\ f[0] = [table |-> t, hole |-> b]
               /\ \A k \in 0 .. (c - 1) : f[k + 1] = Table!Look(f[k], (b + (k + 1)) % c)
               /\ Table!Close(t, b) = f[Min(Behind(t, b)) - 1].table
  <2>1. t.capacity \in Nat
    BY <1>1
  <2>2. PICK f : Closes(f, t, b)
    BY <2>1, CloseIs
  <2> QED  BY <1>1, <2>2 DEF Closes
<1>3. ASSUME NEW i \in 1 .. (c - 1)
      PROVE  /\ (b + i) % c \in Places(t) /\ Off(c, b, (b + i) % c) = i
             /\ i \in Behind(t, b) <=> t.bins[(b + i) % c].key = 0
  <2>1. i \in 0 .. (c - 1) /\ b \in 0 .. (c - 1)
    BY <1>1
  <2>2. (b + i) % c \in 0 .. (c - 1) /\ Off(c, b, (b + i) % c) = i
    BY <2>1, BehindIs
  <2>3. PICK p \in Places(t) : p = (b + i) % c
    BY <1>1, <2>2
  <2>4. t.bins[p] = Table!EmptyBin <=> t.bins[p].key = 0
    BY EmptyIs
  <2>5. i \in Behind(t, b) <=> t.bins[p] = Table!EmptyBin
    BY <1>1, <2>3 DEF Behind
  <2> QED  BY <2>2, <2>3, <2>4, <2>5
<1>4. Behind(t, b) \in SUBSET Nat /\ \A i \in Behind(t, b) : i \in 1 .. (c - 1)
  BY <1>1 DEF Behind
<1>5. Behind(t, b) # {}
  <2>1. PICK i \in 0 .. (c - 1) : i = Off(c, b, e) /\ (b + i) % c = e
    <3>1. b \in 0 .. (c - 1) /\ e \in 0 .. (c - 1)
      BY <1>1
    <3>2. Off(c, b, e) \in 0 .. (c - 1) /\ (b + Off(c, b, e)) % c = e
      BY <3>1, OffIs
    <3> QED  BY <3>2
  <2>2. i # 0
    BY <1>1, <2>1 DEF Off
  <2>3. i \in 1 .. (c - 1)
    BY <2>2
  <2> QED  BY <1>3, <2>1, <2>3
<1>6. PICK r \in 1 .. (c - 1) : /\ r = Min(Behind(t, b)) /\ r \in Behind(t, b)
                                /\ \A i \in Behind(t, b) : r =< i
  BY <1>4, <1>5, MinIs
<1>7. PICK q \in Places(t) : Off(c, b, q) = r /\ t.bins[q].key = 0
  BY <1>3, <1>6
<1> DEFINE P == {n \in 0 .. (r - 1) : Closing(f[n].table, f[n].hole, t, b, n, S, m)}
<1>8. 0 \in P
  <2>1. f[0].table = t /\ f[0].hole = b
    BY <1>2
  <2>2. 0 \in 0 .. (r - 1)
    OBVIOUS
  <2> QED  BY <2>1, <2>2
<1>9. ASSUME NEW n \in 0 .. (r - 1 - 1), n \in P PROVE n + 1 \in P
  <2>1. PICK s, u, h : s = f[n] /\ u = s.table /\ h = s.hole
    OBVIOUS
  <2>2. Closing(u, h, t, b, n, S, m) /\ n \in Nat /\ n + 1 \in 0 .. (r - 1)
    BY <1>9, <2>1
  <2>3. PICK i \in 1 .. (c - 1) : i = n + 1 /\ i < r
    OBVIOUS
  <2>4. PICK j : j = (b + i) % c
    OBVIOUS
  <2>5. i \notin Behind(t, b)
    BY <1>6, <2>3
  <2>6. j \in Places(t) /\ Off(c, b, j) = n + 1 /\ t.bins[j].key # 0
    BY <1>3, <2>3, <2>4, <2>5
  <2>7. f[n + 1] = Table!Look(s, j)
    <3>1. n \in 0 .. (c - 1)
      OBVIOUS
    <3>2. f[n + 1] = Table!Look(f[n], (b + (n + 1)) % c)
      BY <1>2, <3>1
    <3> QED  BY <2>1, <2>3, <2>4, <3>2
  <2>8. u.capacity = c
    BY <1>1, <2>2 DEF Closing
  <2>9. PICK w : w = Table!Look(s, j)
    OBVIOUS
  <2>10. /\ Table!Stays(h, j, HomeOf(c, u.bins[j].key)) => w = s
         /\ ~Table!Stays(h, j, HomeOf(c, u.bins[j].key)) => w.table = Moved(u, h, j) /\ w.hole = j
    BY <2>1, <2>8, <2>9, LookIs
  <2>11. Off(c, b, q) > n + 1
    BY <1>7, <2>3
  <2>12. /\ Table!Stays(h, j, HomeOf(c, u.bins[j].key)) => Closing(u, h, t, b, n + 1, S, m)
         /\ ~Table!Stays(h, j, HomeOf(c, u.bins[j].key)) =>
              Closing(Moved(u, h, j), j, t, b, n + 1, S, m)
    BY <1>1, <1>7, <2>2, <2>6, <2>11, LookKeeps
  <2>13. Closing(w.table, w.hole, t, b, n + 1, S, m)
    BY <2>1, <2>10, <2>12
  <2> QED  BY <2>2, <2>7, <2>9, <2>13
<1>10. r - 1 \in P
  <2> HIDE DEF P
  <2>1. r - 1 \in Nat
    OBVIOUS
  <2>2. \A n \in 0 .. (r - 1) : n \in P
    BY <1>8, <1>9, <2>1, Climb
  <2> QED  BY <2>1, <2>2
<1>11. PICK n, u, h : n = r - 1 /\ u = f[n].table /\ h = f[n].hole
  OBVIOUS
<1>12. Closing(u, h, t, b, n, S, m) /\ n \in Nat /\ Off(c, b, q) = n + 1
  BY <1>7, <1>10, <1>11
<1>13. Findable(u)
  BY <1>1, <1>7, <1>12, ClosedFindable
<1>14. u = Table!Close(t, b)
  BY <1>2, <1>6, <1>11
<1>15. /\ Shape(u) /\ Holds(u, S, m) /\ u.capacity = t.capacity /\ u.threshold = t.threshold
       /\ u.zero = t.zero /\ u.size = t.size
  BY <1>12 DEF Closing
<1> QED  BY <1>13, <1>14, <1>15

\* Clearing a bin leaves a hole in it.
LEMMA ClearedIs ==
  ASSUME NEW t, Shape(t), Findable(t), NEW b \in Places(t), NEW k \in TableKeys, t.bins[b].key = k,
         NEW S, NEW m, Holds(t, S, m), NEW m2, \A j \in S \ {k} : m2[j] = m[j],
         NEW u, IsSet(u, t, b, Table!EmptyBin)
  PROVE  Shape(u) /\ Closing(u, b, u, b, 0, S \ {k}, m2)
<1>1. PICK e : e = Table!EmptyBin /\ e.key = 0 /\ e.val = 0 /\ e = [key |-> e.key, val |-> e.val]
  BY EmptyBinIs
<1>2. /\ Places(u) = Places(t) /\ u.capacity = t.capacity
      /\ u.bins = [i \in Places(u) |-> u.bins[i]]
      /\ \A i \in Places(t) : u.bins[i] = IF i = b THEN e ELSE t.bins[i]
  BY <1>1, SetIs
<1>3. /\ t.capacity \in Nat /\ t.capacity >= 4
      /\ \A i \in Places(t) : /\ t.bins[i] = [key |-> t.bins[i].key, val |-> t.bins[i].val]
                              /\ t.bins[i].key \in TableKeys \cup {0}
                              /\ t.bins[i].key = 0 => t.bins[i].val = 0
      /\ \A i, j \in Places(t) : t.bins[i].key = t.bins[j].key /\ t.bins[i].key # 0 => i = j
  BY DEF Shape
<1>4. k # 0
  BY KeysApart
<1>5. ASSUME NEW i \in Places(t)
      PROVE  /\ u.bins[i] = [key |-> u.bins[i].key, val |-> u.bins[i].val]
             /\ u.bins[i].key \in TableKeys \cup {0}
             /\ u.bins[i].key = 0 => u.bins[i].val = 0
             /\ u.bins[i].key # 0 => i # b /\ u.bins[i] = t.bins[i]
             /\ u.bins[i].key # k
  <2>1. CASE i = b
    <3>1. u.bins[i] = e
      BY <1>2, <2>1
    <3> QED  BY <1>1, <1>4, <3>1
  <2>2. CASE i # b
    <3>1. u.bins[i] = t.bins[i]
      BY <1>2, <2>2
    <3>2. t.bins[i].key # k
      BY <1>3, <1>4, <2>2
    <3> QED  BY <1>3, <2>2, <3>1, <3>2
  <2> QED  BY <2>1, <2>2
<1>6. \A i, j \in Places(u) : u.bins[i].key = u.bins[j].key /\ u.bins[i].key # 0 => i = j
  <2> SUFFICES ASSUME NEW i \in Places(t), NEW j \in Places(t),
                      u.bins[i].key = u.bins[j].key, u.bins[i].key # 0
               PROVE  i = j
    BY <1>2
  <2>1. u.bins[i] = t.bins[i] /\ u.bins[j] = t.bins[j]
    BY <1>5
  <2> QED  BY <1>3, <2>1
<1>7. Shape(u)
  <2>1. u = [bins |-> u.bins, capacity |-> u.capacity, threshold |-> u.threshold,
             zero |-> u.zero, size |-> u.size]
    BY DEF IsSet
  <2> QED  BY <1>2, <1>3, <1>5, <1>6, <2>1 DEF Shape
<1>8. Holds(u, S \ {k}, m2)
  <2>1. ASSUME NEW j \in TableKeys
        PROVE  j \in S \ {k} <=> \E i \in Places(u) : u.bins[i].key = j
    <3>1. CASE j = k
      BY <1>2, <1>5, <3>1
    <3>2. CASE j # k
      <4>1. \A i \in Places(t) : u.bins[i].key = j <=> t.bins[i].key = j
        <5> SUFFICES ASSUME NEW i \in Places(t) PROVE u.bins[i].key = j <=> t.bins[i].key = j
          OBVIOUS
        <5>1. CASE i = b
          <6>1. u.bins[i].key = 0 /\ j # 0
            BY <1>1, <1>2, <5>1, KeysApart
          <6> QED  BY <3>2, <5>1, <6>1
        <5>2. CASE i # b
          BY <1>2, <5>2
        <5> QED  BY <5>1, <5>2
      <4> QED  BY <1>2, <3>2, <4>1 DEF Holds
    <3> QED  BY <3>1, <3>2
  <2>2. ASSUME NEW i \in Places(u), u.bins[i].key # 0
        PROVE  u.bins[i].val = m2[u.bins[i].key]
    <3>1. PICK x : x = u.bins[i].key
      OBVIOUS
    <3>2. i \in Places(t) /\ u.bins[i] = t.bins[i] /\ x # k /\ x \in TableKeys
      BY <1>2, <1>5, <2>2, <3>1
    <3>3. x \in S /\ t.bins[i].val = m[x]
      BY <2>2, <3>1, <3>2 DEF Holds
    <3> QED  BY <3>1, <3>2, <3>3
  <2> QED  BY <2>1, <2>2 DEF Holds
<1>9. PICK c \in Nat \ {0} : c = u.capacity /\ Places(t) = 0 .. (c - 1)
  BY <1>2, <1>3 DEF Places
<1>10. Off(c, b, b) = 0 /\ \A i \in Places(t) : i # b => Off(c, b, i) > 0
  BY <1>9 DEF Off
<1>11. ASSUME NEW i \in Places(t), u.bins[i].key # 0,
              NEW p \in Places(t), OnPath(HomeOf(c, u.bins[i].key), p, i)
       PROVE  u.bins[p].key # 0 \/ (p = b /\ Off(c, b, i) > 0)
  <2>1. u.bins[i] = t.bins[i] /\ i # b
    BY <1>5, <1>11
  <2>2. t.bins[p].key # 0
    BY <1>2, <1>9, <1>11, <2>1 DEF Findable
  <2>3. p # b => u.bins[p] = t.bins[p]
    BY <1>2
  <2> QED  BY <1>10, <2>1, <2>2, <2>3
<1>12. u.bins[b].key = 0
  BY <1>1, <1>2
<1>13. Closing(u, b, u, b, 0, S \ {k}, m2)
  <2>1. b \in Places(u) /\ Off(u.capacity, b, b) =< 0
    BY <1>2, <1>9, <1>10
  <2>2. \A i \in Places(u) : u.bins[i].key # 0 =>
          \A p \in Places(u) : OnPath(HomeOf(u.capacity, u.bins[i].key), p, i) =>
            u.bins[p].key # 0 \/ (p = b /\ Off(u.capacity, b, i) > 0)
    BY <1>2, <1>9, <1>11
  <2> QED  BY <1>7, <1>8, <1>12, <2>1, <2>2, Zenon DEF Closing
<1> QED  BY <1>7, <1>13

\* The dictionary after a remove.
Without(m, k) == [j \in DOMAIN m \ {k} |-> m[j]]

LEMMA TakenKeeps ==
  ASSUME NEW t, NEW m, Bookkept(t, m), NEW k \in TableKeys
  PROVE  Bookkept(Table!remove(t, k), Without(m, k))
<1>0. PICK S, D : S = DOMAIN m \ {0} /\ D = DOMAIN m
  OBVIOUS
<1>1. /\ S \subseteq TableKeys /\ IsFiniteSet(S) /\ Cardinality(S) \in Nat
      /\ Cardinality(D) \in Nat /\ HasRoom(t)
  BY <1>0, KeysAre
<1>2. PICK m2 : m2 = Without(m, k)
  OBVIOUS
<1>3. /\ DOMAIN m2 = D \ {k} /\ k # 0 /\ DOMAIN m2 \ {0} = S \ {k}
      /\ \A j \in D \ {k} : m2[j] = m[j]
  BY <1>0, <1>2, KeysApart DEF Without
<1>4. /\ Shape(t) /\ Findable(t) /\ t.threshold = t.capacity \div 2
      /\ D \subseteq TableKeys \cup {0} /\ IsFiniteSet(D)
      /\ Holds(t, S, m)
      /\ t.zero = IF 0 \in D THEN <<m[0]>> ELSE <<>>
      /\ t.size = Cardinality(D)
      /\ Cardinality(S) =< t.threshold + 1
  BY <1>0 DEF Bookkept
<1>5. PICK w : w = Table!remove(t, k)
  OBVIOUS
<1>6. Table!contains(t, k) <=> k \in S
  BY <1>1, <1>4, ContainsIs
<1>7. CASE k \notin S
  <2>1. w = t
    BY <1>5, <1>6, <1>7 DEF Table!remove
  <2>2. k \notin D /\ D \ {k} = D /\ S \ {k} = S
    BY <1>0, <1>3, <1>7
  <2>3. Holds(t, S, m2)
    <3>1. \A i \in Places(t) : t.bins[i].key # 0 => t.bins[i].key \in S
      BY <1>4 DEF Holds, Shape
    <3>2. \A j \in S : m2[j] = m[j]
      BY <1>0, <1>3, <2>2
    <3> QED  BY <1>4, <3>1, <3>2 DEF Holds
  <2>4. 0 \in D => m2[0] = m[0]
    BY <1>3
  <2>5. Bookkept(w, m2)
    BY <1>3, <1>4, <2>1, <2>2, <2>3, <2>4 DEF Bookkept
  <2> QED  BY <1>2, <1>5, <2>5
<1>8. CASE k \in S
  <2>1. PICK b \in Places(t) : t.bins[b].key = k
    BY <1>4, <1>8 DEF Holds
  <2>2. b = Table!Probe(t, k)
    BY <1>4, <2>1, ProbeFinds
  <2>3. PICK u : u = Counted(t, b, Table!EmptyBin, t.size - 1)
    OBVIOUS
  <2>4. w = Table!Close(u, b)
    BY <1>3, <1>5, <1>6, <1>8, <2>2, <2>3 DEF Table!remove, Counted
  <2>5. /\ IsSet(u, t, b, Table!EmptyBin) /\ u.threshold = t.threshold
        /\ u.zero = t.zero /\ u.size = t.size - 1
    BY <1>4, <2>3, BinCounted
  <2>6. /\ Places(u) = Places(t) /\ u.capacity = t.capacity
        /\ \A i \in Places(t) : u.bins[i] = IF i = b THEN Table!EmptyBin ELSE t.bins[i]
    BY <2>5 DEF IsSet, Places
  <2>7. \A j \in S \ {k} : m2[j] = m[j]
    BY <1>0, <1>3
  <2>8. Shape(u) /\ Closing(u, b, u, b, 0, S \ {k}, m2)
    BY <1>4, <2>1, <2>5, <2>7, ClearedIs
  <2>9. PICK e \in Places(u) : e # b /\ u.bins[e].key = 0
    <3>1. PICK e \in Places(t) : t.bins[e].key = 0
      BY <1>1 DEF HasRoom
    <3>2. e # b
      BY <1>3, <2>1, <3>1
    <3> QED  BY <2>6, <3>1, <3>2
  <2>10. /\ Shape(w) /\ Findable(w) /\ Holds(w, S \ {k}, m2)
         /\ w.capacity = t.capacity /\ w.threshold = t.threshold
         /\ w.zero = t.zero /\ w.size = t.size - 1
    <3>1. b \in Places(u)
      BY <2>1, <2>6
    <3>2. /\ Shape(w) /\ Findable(w) /\ Holds(w, S \ {k}, m2)
          /\ w.capacity = u.capacity /\ w.threshold = u.threshold
          /\ w.zero = u.zero /\ w.size = u.size
      BY <2>4, <2>8, <2>9, <3>1, CloseKeeps
    <3> QED  BY <2>5, <2>6, <3>2
  <2>11. /\ IsFiniteSet(D \ {k}) /\ Cardinality(D \ {k}) = Cardinality(D) - 1
         /\ IsFiniteSet(S \ {k}) /\ Cardinality(S \ {k}) = Cardinality(S) - 1
    <3>1. k \in D /\ k \in S
      BY <1>0, <1>8
    <3>2. IsFiniteSet(D \ {k}) /\ Cardinality(D \ {k}) = Cardinality(D) - 1
      BY <1>4, <3>1, FS_RemoveElement
    <3>3. IsFiniteSet(S \ {k}) /\ Cardinality(S \ {k}) = Cardinality(S) - 1
      BY <1>1, <3>1, FS_RemoveElement
    <3> QED  BY <3>2, <3>3
  <2>12. Cardinality(S \ {k}) =< w.threshold + 1
    <3>1. t.threshold \in Nat
      <4>1. t.capacity \in Nat /\ t.capacity >= 4
        BY <1>4 DEF Shape
      <4> QED  BY <1>4, <4>1, Halved
    <3> QED  BY <1>1, <1>4, <2>10, <2>11, <3>1
  <2>13. w.zero = IF 0 \in DOMAIN m2 THEN <<m2[0]>> ELSE <<>>
    BY <1>3, <1>4, <2>10
  <2>14. DOMAIN m2 \subseteq TableKeys \cup {0} /\ w.size = Cardinality(DOMAIN m2)
    BY <1>3, <1>4, <2>10, <2>11
  <2>15. Bookkept(w, m2)
    BY <1>3, <1>4, <2>10, <2>11, <2>12, <2>13, <2>14 DEF Bookkept
  <2> QED  BY <1>2, <1>5, <2>15
<1> QED  BY <1>7, <1>8

LEMMA TakenZero ==
  ASSUME NEW t, NEW m, Bookkept(t, m)
  PROVE  Bookkept(Table!remove(t, 0), Without(m, 0))
<1>0. PICK S, D : S = DOMAIN m \ {0} /\ D = DOMAIN m
  OBVIOUS
<1>1. Cardinality(S) \in Nat /\ Cardinality(D) \in Nat
  BY <1>0, KeysAre
<1>2. PICK m2 : m2 = Without(m, 0)
  OBVIOUS
<1>3. DOMAIN m2 = S /\ DOMAIN m2 \ {0} = S /\ \A j \in S : m2[j] = m[j]
  BY <1>0, <1>2 DEF Without
<1>4. /\ Shape(t) /\ Findable(t) /\ t.threshold = t.capacity \div 2
      /\ D \subseteq TableKeys \cup {0} /\ IsFiniteSet(D)
      /\ Holds(t, S, m)
      /\ t.zero = IF 0 \in D THEN <<m[0]>> ELSE <<>>
      /\ t.size = Cardinality(D)
      /\ Cardinality(S) =< t.threshold + 1
  BY <1>0 DEF Bookkept
<1>5. PICK w : w = Table!remove(t, 0)
  OBVIOUS
<1>6. Table!contains(t, 0) <=> 0 \in D
  BY <1>4 DEF Table!contains
<1>7. Holds(t, S, m2)
  <2>1. \A i \in Places(t) : t.bins[i].key # 0 => t.bins[i].key \in S
    BY <1>4 DEF Holds, Shape
  <2> QED  BY <1>3, <1>4, <2>1 DEF Holds
<1>8. CASE 0 \notin D
  <2>1. w = t /\ S = D
    BY <1>0, <1>5, <1>6, <1>8 DEF Table!remove
  <2>2. Bookkept(w, m2)
    BY <1>3, <1>4, <1>7, <1>8, <2>1 DEF Bookkept
  <2> QED  BY <1>2, <1>5, <2>2
<1>9. CASE 0 \in D
  <2>1. w = Kept(t, <<>>, t.size - 1)
    BY <1>5, <1>6, <1>9 DEF Table!remove, Kept
  <2>2. /\ Shape(w) /\ w.bins = t.bins /\ w.capacity = t.capacity /\ w.threshold = t.threshold
        /\ w.zero = <<>> /\ w.size = t.size - 1
    BY <1>4, <2>1, RecordKept
  <2>3. Findable(w) /\ Holds(w, S, m2)
    BY <1>4, <1>7, <2>2, SameBins
  <2>4. IsFiniteSet(S) /\ Cardinality(S) = Cardinality(D) - 1
    BY <1>0, <1>4, <1>9, FS_RemoveElement
  <2>5. 0 \notin S /\ S \subseteq TableKeys \cup {0}
    BY <1>0, <1>4
  <2>6. Bookkept(w, m2)
    BY <1>3, <1>4, <2>2, <2>3, <2>4, <2>5 DEF Bookkept
  <2> QED  BY <1>2, <1>5, <2>6
<1> QED  BY <1>8, <1>9

LEMMA EmptiedIs ==
  ASSUME NEW c \in Nat, c >= 4
  PROVE  Bookkept(Table!NewTable(c), <<>>)
<1>1. PICK u, m : u = Table!NewTable(c) /\ m = <<>>
  OBVIOUS
<1>2. /\ Shape(u) /\ Findable(u) /\ Holds(u, {}, m)
      /\ u.capacity = c /\ u.threshold = c \div 2 /\ u.zero = <<>> /\ u.size = 0
  BY <1>1, NewIs
<1>3. DOMAIN m = {} /\ DOMAIN m \ {0} = {} /\ 0 \notin DOMAIN m
  BY <1>1
<1>4. IsFiniteSet({}) /\ Cardinality({}) = 0
  BY FS_EmptySet
<1>5. Cardinality({}) =< u.threshold + 1
  BY <1>2, <1>4, Halved
<1>6. Bookkept(u, m)
  BY <1>2, <1>3, <1>4, <1>5 DEF Bookkept
<1> QED  BY <1>1, <1>6

LEMMA ResetKeeps ==
  ASSUME NEW t, NEW m, Bookkept(t, m)
  PROVE  Bookkept(Table!reset(t), <<>>)
<1>1. PICK c \in Nat : c = t.capacity /\ c >= 4 /\ t.threshold = c \div 2
  BY DEF Bookkept, Shape
<1>2. Table!reset(t) = Table!NewTable(c)
  <2>1. PICK B, d : B = [i \in 0 .. (c - 1) |-> Table!EmptyBin] /\ d = c \div 2
    OBVIOUS
  <2>2. Table!NewTable(c) = [bins |-> B, capacity |-> c, threshold |-> d, zero |-> <<>>, size |-> 0]
    BY <2>1 DEF Table!NewTable
  <2>3. Table!reset(t) = [Table!NewTable(c) EXCEPT !.threshold = d]
    BY <1>1, <2>1 DEF Table!reset
  <2> QED  BY <2>2, <2>3
<1> QED  BY <1>1, <1>2, EmptiedIs

LEMMA TableStepKeeps == Bookkept(table, map) /\ [Table!Next]_tableVars => Bookkept(table, map)'
<1> SUFFICES ASSUME Bookkept(table, map), [Table!Next]_tableVars PROVE Bookkept(table', map')
  OBVIOUS
<1>1. CASE UNCHANGED tableVars
  BY <1>1 DEF tableVars
<1>2. ASSUME NEW k \in TableKeys \cup {0}, NEW v \in TableValues, Table!Put(k, v)
      PROVE  Bookkept(table', map')
  <2>1. table' = Table!put(table, k, v) /\ map' = With(map, k, v)
    BY <1>2 DEF Table!Put, With
  <2>2. Bookkept(Table!put(table, k, v), With(map, k, v))
    BY PutKeeps, PutZero
  <2> QED  BY <2>1, <2>2
<1>3. ASSUME NEW k \in TableKeys \cup {0}, Table!RemoveKey(k) PROVE Bookkept(table', map')
  <2>1. table' = Table!remove(table, k) /\ map' = Without(map, k)
    BY <1>3 DEF Table!RemoveKey, Without
  <2>2. Bookkept(Table!remove(table, k), Without(map, k))
    BY TakenKeeps, TakenZero
  <2> QED  BY <2>1, <2>2
<1>4. CASE Table!Reset
  BY <1>4, ResetKeeps DEF Table!Reset
<1> QED  BY <1>1, <1>2, <1>3, <1>4 DEF Table!Next

LEMMA TableInitially == Table!Init => Bookkept(table, map)
<1>1. TableCapacity \in Nat /\ TableCapacity >= 4
  BY CollectionsAssumption
<1> QED  BY <1>1, EmptiedIs DEF Table!Init

LEMMA TableMeant == Bookkept(table, map) => Table!TableIsMap
<1> SUFFICES ASSUME Bookkept(table, map) PROVE Table!TableIsMap
  OBVIOUS
<1>0. PICK t, m, S : t = table /\ m = map /\ S = DOMAIN m \ {0}
  OBVIOUS
<1>1. Bookkept(t, m)
  BY <1>0
<1>2. HasRoom(t)
  BY <1>1, KeysAre
<1>3. /\ Shape(t) /\ Findable(t) /\ Holds(t, S, m)
      /\ t.zero = IF 0 \in DOMAIN m THEN <<m[0]>> ELSE <<>>
      /\ t.size = Cardinality(DOMAIN m)
  BY <1>0, <1>1 DEF Bookkept
<1>4. ASSUME NEW k \in TableKeys
      PROVE  /\ Table!contains(t, k) <=> k \in DOMAIN m
             /\ Table!get(t, k) = IF k \in DOMAIN m THEN m[k] ELSE 0
  <2>1. k \in S <=> k \in DOMAIN m
    BY <1>0, KeysApart
  <2> QED  BY <1>2, <1>3, <2>1, ContainsIs
<1>5. /\ Table!contains(t, 0) <=> 0 \in DOMAIN m
      /\ Table!get(t, 0) = IF 0 \in DOMAIN m THEN m[0] ELSE 0
  <2>1. Table!contains(t, 0) <=> 0 \in DOMAIN m
    BY <1>3 DEF Table!contains
  <2>2. CASE 0 \in DOMAIN m
    <3>1. t.zero[1] = m[0]
      BY <1>3, <2>2
    <3> QED  BY <2>1, <2>2, <3>1 DEF Table!get
  <2>3. CASE 0 \notin DOMAIN m
    BY <2>1, <2>3 DEF Table!get
  <2> QED  BY <2>1, <2>2, <2>3
<1>6. \E i \in DOMAIN t.bins : t.bins[i] = Table!EmptyBin
  <2>1. PICK i \in Places(t) : t.bins[i].key = 0
    BY <1>2 DEF HasRoom
  <2>2. t.bins[i] = Table!EmptyBin
    BY <1>3, <2>1, EmptyIs
  <2>3. DOMAIN t.bins = Places(t)
    <3>1. t.bins = [l \in Places(t) |-> t.bins[l]]
      BY <1>3 DEF Shape
    <3>2. DOMAIN [l \in Places(t) |-> t.bins[l]] = Places(t)
      OBVIOUS
    <3> QED  BY <3>1, <3>2
  <2> QED  BY <2>1, <2>2, <2>3
<1>7. ASSUME NEW k \in TableKeys \cup {0}
      PROVE  /\ Table!contains(table, k) <=> k \in DOMAIN map
             /\ Table!get(table, k) = IF k \in DOMAIN map THEN map[k] ELSE 0
  <2>1. CASE k = 0
    BY <1>0, <1>5, <2>1
  <2>2. CASE k \in TableKeys
    BY <1>0, <1>4, <2>2
  <2> QED  BY <2>1, <2>2
<1>8. table.size = Cardinality(DOMAIN map)
  BY <1>0, <1>3
<1>9. \E i \in DOMAIN table.bins : table.bins[i] = Table!EmptyBin
  BY <1>0, <1>6
<1>10. Table!Cardinality(DOMAIN map) = Cardinality(DOMAIN map)
  BY Zenon DEF Table!Cardinality, Cardinality
<1> QED  BY <1>7, <1>8, <1>9, <1>10 DEF Table!TableIsMap

\* A table answers as the dictionary does that the calls describe: contains,
\* get, put, remove, reset and resize of hashtable.h, for any keys and hashes.
THEOREM TableIsRight == CollectionsSpec => []TableIsMap
<1>1. CollectionsInit => Bookkept(table, map)
  BY TableInitially DEF CollectionsInit
<1>2. Bookkept(table, map) /\ [CollectionsNext]_collectionsVars => Bookkept(table, map)'
  <2>1. [CollectionsNext]_collectionsVars => [Table!Next]_tableVars
    BY DEF CollectionsNext, TableStep, ListStep, VectorStep, collectionsVars, tableVars
  <2> QED  BY <2>1, TableStepKeeps
<1>3. Bookkept(table, map) => TableIsMap
  BY TableMeant DEF TableIsMap
<1> QED  BY <1>1, <1>2, <1>3, PTL DEF CollectionsSpec
===============================================================================
