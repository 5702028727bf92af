-------------------------- MODULE Exploration_proofs --------------------------
(***************************************************************************)
(* Every combination of choices is run exactly once, for any trees and any *)
(* number of crashes; at random, as many runs are made as asked for.       *)
(*                                                                         *)
(* The stacks of a run describe a path: at first the one at which the last *)
(* run ended, up to the position that is to change, then the path itself.  *)
(* The nodes of a stack match the positions of the path at which there was *)
(* a choice in its execution (Matches).  The paths at which runs have      *)
(* ended are the leaves before that path in lexicographic order.           *)
(***************************************************************************)
EXTENDS Exploration, FiniteSetTheorems, WellFoundedInduction, SequenceTheorems, TLAPS

LEMMA Constants ==
  /\ MaxDepth \in Nat /\ MaxChoices \in Nat /\ MaxChoices >= 2
  /\ \A pr \in Programs :
       /\ pr.numcrashes \in Nat /\ pr.random \in BOOLEAN /\ pr.runs \in Nat
       /\ \A p \in DOMAIN pr.tree : pr.tree[p] \in Event /\ Len(p) < MaxDepth
BY ExplorationAssumption, ProgramsAssumption

-------------------------------------------------------------------------------
(* Sets of naturals.                                                       *)

LEMMA LeastExists ==
  ASSUME NEW S \in SUBSET Nat, S # {}
  PROVE  \E n \in S : \A m \in S : n =< m
<1>1. PICK n \in S : \A m \in S : <<m, n>> \notin OpToRel(<, Nat)
  BY NatLessThanWellFounded, WFMin
<1>2. \A m \in S : n =< m
  <2> SUFFICES ASSUME NEW m \in S, m < n PROVE FALSE
    OBVIOUS
  <2>1. <<m, n>> \in OpToRel(<, Nat)
    BY DEF OpToRel
  <2> QED  BY <1>1, <2>1
<1> QED  BY <1>2

\* One that is bounded has a greatest.
LEMMA GreatestExists ==
  ASSUME NEW S \in SUBSET Nat, S # {}, NEW n \in Nat, \A m \in S : m =< n
  PROVE  \E g \in S : \A m \in S : m =< g
<1> DEFINE D == {k \in 0 .. n : n - k \in S}
<1>1. \A m \in S : m \in Nat /\ n - m \in D /\ n - (n - m) = m
  OBVIOUS
<1>2. D \in SUBSET Nat /\ D # {}
  <2>1. PICK m \in S : TRUE
    OBVIOUS
  <2>2. n - m \in D
    BY <1>1, <2>1
  <2>3. D \in SUBSET Nat
    OBVIOUS
  <2> QED  BY <2>2, <2>3
<1> HIDE DEF D
<1>3. PICK k \in D : \A j \in D : k =< j
  BY <1>2, LeastExists
<1>4. n - k \in S /\ k \in Nat
  BY <1>3 DEF D
<1>5. ASSUME NEW m \in S PROVE m =< n - k
  <2>1. m \in Nat /\ k =< n - m
    BY <1>1, <1>3
  <2> QED  BY <1>4, <2>1
<1> QED  BY <1>4, <1>5

LEMMA MaxIs ==
  ASSUME NEW S \in SUBSET Nat, S # {}, NEW n \in Nat, \A m \in S : m =< n
  PROVE  Max(S) \in S /\ \A m \in S : m =< Max(S)
<1>1. PICK g \in S : \A m \in S : m =< g
  BY GreatestExists
<1>2. \A m \in S : m \in Nat /\ g >= m
  BY <1>1
<1>3. Max(S) \in S /\ \A m \in S : Max(S) >= m
  BY <1>2 DEF Max
<1> QED  BY <1>3

\* Induction over a prefix of the naturals, with a set for the hypothesis.
LEMMA Climb ==
  ASSUME NEW n \in Nat, NEW P, 0 \in P, \A k \in 0 .. (n - 1) : k \in P => k + 1 \in P
  PROVE  \A k \in 0 .. n : k \in P
<1> DEFINE Out == {k \in 0 .. n : k \notin P}
<1> SUFFICES ASSUME Out # {} PROVE FALSE
  OBVIOUS
<1>1. Out \in SUBSET Nat
  OBVIOUS
<1>2. PICK k \in Out : \A m \in Out : k =< m
  <2> HIDE DEF Out
  <2> QED  BY <1>1, LeastExists
<1>3. k \in 0 .. n /\ k \notin P /\ k # 0
  OBVIOUS
<1>4. k - 1 \in 0 .. (n - 1) /\ k - 1 \in 0 .. n /\ (k - 1) + 1 = k
  BY <1>3
<1>5. k - 1 \in P
  BY <1>2, <1>3, <1>4
<1> QED  BY <1>3, <1>4, <1>5

-------------------------------------------------------------------------------
(* Paths.                                                                  *)

Path == Seq(Nat)

Upto(p, i) == SubSeq(p, 1, i)

LEMMA UptoIs ==
  ASSUME NEW p \in Path, NEW i \in 0 .. Len(p)
  PROVE  Upto(p, i) \in Path /\ Len(Upto(p, i)) = i /\ \A j \in 1 .. i : Upto(p, i)[j] = p[j]
<1>1. \A j \in 1 .. i : p[j] \in Nat
  BY DEF Path
<1>2. i \in Int /\ 1 \in Int /\ i - 1 + 1 = i /\ i >= 0
  OBVIOUS
<1>3. /\ SubSeq(p, 1, i) \in Seq(Nat) /\ Len(SubSeq(p, 1, i)) = IF 1 =< i THEN i - 1 + 1 ELSE 0
      /\ \A j \in 1 .. i - 1 + 1 : SubSeq(p, 1, i)[j] = p[1 + j - 1]
  BY <1>1, <1>2, SubSeqProperties
<1> QED  BY <1>2, <1>3 DEF Upto, Path

LEMMA PathEqual ==
  ASSUME NEW p \in Path, NEW q \in Path, Len(p) = Len(q), \A j \in 1 .. Len(p) : p[j] = q[j]
  PROVE  p = q
BY SeqEqual DEF Path

\* Paths with the same choices up to i are the same up to i.
LEMMA UptoSame ==
  ASSUME NEW p \in Path, NEW q \in Path, NEW i \in Nat, i =< Len(p), i =< Len(q),
         \A j \in 1 .. i : p[j] = q[j]
  PROVE  Upto(p, i) = Upto(q, i)
<1>1. i \in 0 .. Len(p) /\ i \in 0 .. Len(q)
  BY DEF Path
<1> QED  BY <1>1, UptoIs, PathEqual

LEMMA UptoAll == ASSUME NEW p \in Path PROVE Upto(p, Len(p)) = p
<1>1. Len(p) \in 0 .. Len(p)
  BY DEF Path
<1> QED  BY <1>1, UptoIs, PathEqual

LEMMA UptoUpto ==
  ASSUME NEW p \in Path, NEW j \in 0 .. Len(p), NEW i \in 0 .. j
  PROVE  Upto(Upto(p, j), i) = Upto(p, i)
<1>1. Len(p) \in Nat /\ i \in 0 .. Len(p) /\ i \in Nat
  BY DEF Path
<1>2. Upto(p, j) \in Path /\ Len(Upto(p, j)) = j /\ \A k \in 1 .. i : Upto(p, j)[k] = p[k]
  BY UptoIs
<1> QED  BY <1>1, <1>2, UptoSame

LEMMA AppendIs ==
  ASSUME NEW p \in Path, NEW c \in Nat
  PROVE  /\ Len(p) \in Nat /\ Append(p, c) \in Path /\ Len(Append(p, c)) = Len(p) + 1
         /\ DOMAIN p = 1 .. Len(p) /\ DOMAIN Append(p, c) = 1 .. (Len(p) + 1)
         /\ Append(p, c)[Len(p) + 1] = c
         /\ \A i \in 1 .. Len(p) : Append(p, c)[i] = p[i] /\ p[i] \in Nat
BY DEF Path

LEMMA UptoAppend ==
  ASSUME NEW p \in Path, NEW c \in Nat
  PROVE  \A i \in 0 .. Len(p) : Upto(Append(p, c), i) = Upto(p, i)
<1> SUFFICES ASSUME NEW i \in 0 .. Len(p) PROVE Upto(Append(p, c), i) = Upto(p, i)
  OBVIOUS
<1> DEFINE q == Append(p, c)
<1>1. q \in Path /\ Len(q) = Len(p) + 1 /\ Len(p) \in Nat /\ \A j \in 1 .. Len(p) : q[j] = p[j]
  BY AppendIs
<1> HIDE DEF q
<1>2. i \in Nat /\ i =< Len(q) /\ i =< Len(p) /\ \A j \in 1 .. i : q[j] = p[j]
  BY <1>1
<1>3. Upto(q, i) = Upto(p, i)
  BY <1>1, <1>2, UptoSame
<1> QED  BY <1>3 DEF q

\* One more choice.
LEMMA UptoNext ==
  ASSUME NEW p \in Path, NEW i \in 0 .. (Len(p) - 1)
  PROVE  Append(Upto(p, i), p[i + 1]) = Upto(p, i + 1)
<1>1. Len(p) \in Nat /\ i \in 0 .. Len(p) /\ i + 1 \in 0 .. Len(p) /\ p[i + 1] \in Nat
  BY DEF Path
<1> DEFINE q == Upto(p, i)
           r == Upto(p, i + 1)
<1>2. q \in Path /\ Len(q) = i /\ \A j \in 1 .. i : q[j] = p[j]
  BY <1>1, UptoIs
<1>3. r \in Path /\ Len(r) = i + 1 /\ \A j \in 1 .. (i + 1) : r[j] = p[j]
  BY <1>1, UptoIs
<1> HIDE DEF q, r
<1>4. Append(q, p[i + 1]) = r
  <2>1. Append(q, p[i + 1]) \in Path /\ Len(Append(q, p[i + 1])) = i + 1
    BY <1>1, <1>2, AppendIs
  <2>2. ASSUME NEW j \in 1 .. (i + 1) PROVE Append(q, p[i + 1])[j] = r[j]
    <3>1. r[j] = p[j]
      BY <1>3
    <3>2. CASE j = i + 1
      <4>1. Append(q, p[i + 1])[Len(q) + 1] = p[i + 1]
        BY <1>1, <1>2, AppendIs
      <4> QED  BY <1>2, <3>1, <3>2, <4>1
    <3>3. CASE j # i + 1
      <4>1. j \in 1 .. Len(q)
        BY <1>1, <1>2, <3>3
      <4>2. Append(q, p[i + 1])[j] = q[j]
        BY <1>1, <1>2, <4>1, AppendIs
      <4> QED  BY <1>2, <3>1, <4>1, <4>2
    <3> QED  BY <3>2, <3>3
  <2> QED  BY <1>3, <2>1, <2>2, PathEqual
<1> QED  BY <1>4 DEF q, r

-------------------------------------------------------------------------------
(* Crashes and options.                                                    *)

\* The choice c after p is a crash.
IsCrash(pr, p, c) == c = 0 /\ At(pr, p).kind \in {"crashpoint", "endDirty"}

CrashSet(pr, p) == {k \in DOMAIN p : p[k] = 0 /\ At(pr, SubSeq(p, 1, k - 1)).kind \in {"crashpoint", "endDirty"}}

LEMMA CrashSetIs ==
  ASSUME NEW pr, NEW p \in Path
  PROVE  /\ CrashSet(pr, p) = {k \in 1 .. Len(p) : IsCrash(pr, Upto(p, k - 1), p[k])}
         /\ IsFiniteSet(CrashSet(pr, p)) /\ Crashes(pr, p) = Cardinality(CrashSet(pr, p)) /\ Crashes(pr, p) \in Nat
<1>1. DOMAIN p = 1 .. Len(p) /\ Len(p) \in Nat
  BY DEF Path
<1>2. CrashSet(pr, p) = {k \in 1 .. Len(p) : IsCrash(pr, Upto(p, k - 1), p[k])}
  BY <1>1 DEF CrashSet, IsCrash, Upto
<1>3. IsFiniteSet(1 .. Len(p))
  BY <1>1, FS_Interval
<1>4. CrashSet(pr, p) \in SUBSET (1 .. Len(p))
  BY <1>2
<1>5. IsFiniteSet(CrashSet(pr, p))
  BY <1>3, <1>4, FS_Subset
<1>6. Cardinality(CrashSet(pr, p)) \in Nat
  BY <1>5, FS_CardinalityType
<1>7. Crashes(pr, p) = Cardinality(CrashSet(pr, p))
  BY DEF Crashes, CrashSet
<1> QED  BY <1>2, <1>5, <1>6, <1>7

LEMMA CrashesAppend ==
  ASSUME NEW pr, NEW p \in Path, NEW c \in Nat
  PROVE  Crashes(pr, Append(p, c)) = Crashes(pr, p) + (IF IsCrash(pr, p, c) THEN 1 ELSE 0)
<1> DEFINE q == Append(p, c)
           n == Len(p) + 1
           S == CrashSet(pr, p)
<1>1. /\ q \in Path /\ Len(q) = n /\ q[n] = c /\ n - 1 = Len(p) /\ Len(p) \in Nat
      /\ \A i \in 1 .. Len(p) : q[i] = p[i]
  BY AppendIs
<1>2. \A i \in 1 .. n : Upto(q, i - 1) = Upto(p, i - 1)
  <2>1. \A i \in 1 .. n : i - 1 \in 0 .. Len(p)
    BY <1>1
  <2> QED  BY <2>1, UptoAppend
<1>3. Upto(q, n - 1) = p
  BY <1>1, <1>2, UptoAll
<1> HIDE DEF q
<1>4. CrashSet(pr, q) = IF IsCrash(pr, p, c) THEN S \cup {n} ELSE S
  <2>1. CrashSet(pr, q) = {k \in 1 .. n : IsCrash(pr, Upto(q, k - 1), q[k])}
    BY <1>1, CrashSetIs
  <2>2. S = {k \in 1 .. Len(p) : IsCrash(pr, Upto(p, k - 1), p[k])}
    BY CrashSetIs
  <2>3. ASSUME NEW k \in 1 .. Len(p) PROVE IsCrash(pr, Upto(q, k - 1), q[k]) <=> IsCrash(pr, Upto(p, k - 1), p[k])
    BY <1>1, <1>2
  <2>4. IsCrash(pr, Upto(q, n - 1), q[n]) <=> IsCrash(pr, p, c)
    BY <1>1, <1>3
  <2>5. 1 .. n = (1 .. Len(p)) \cup {n}
    BY <1>1
  <2> HIDE DEF n, S
  <2> QED  BY <2>1, <2>2, <2>3, <2>4, <2>5
<1>5. IsFiniteSet(S) /\ n \notin S /\ Crashes(pr, p) = Cardinality(S) /\ Crashes(pr, p) \in Nat
      /\ Crashes(pr, q) = Cardinality(CrashSet(pr, q))
  <2>1. S = {k \in 1 .. Len(p) : IsCrash(pr, Upto(p, k - 1), p[k])}
    BY CrashSetIs
  <2>2. n \notin 1 .. Len(p)
    BY <1>1
  <2>3. n \notin S
    BY <2>1, <2>2
  <2> QED  BY <1>1, <2>3, CrashSetIs
<1> HIDE DEF S, n
<1>6. Cardinality(S \cup {n}) = Cardinality(S) + 1
  BY <1>5, FS_AddElement
<1>7. Crashes(pr, q) = Crashes(pr, p) + (IF IsCrash(pr, p, c) THEN 1 ELSE 0)
  BY <1>4, <1>5, <1>6
<1> QED  BY <1>7 DEF q

\* There are no fewer crashes later.
LEMMA CrashesGrow ==
  ASSUME NEW pr, NEW p \in Path, NEW j \in 0 .. Len(p), NEW i \in 0 .. j
  PROVE  Crashes(pr, Upto(p, i)) =< Crashes(pr, Upto(p, j))
<1>1. Len(p) \in Nat /\ i \in 0 .. Len(p)
  BY DEF Path
<1> DEFINE q == Upto(p, i)
           r == Upto(p, j)
<1>2. q \in Path /\ Len(q) = i /\ r \in Path /\ Len(r) = j /\ \A k \in 1 .. i : q[k] = p[k] /\ r[k] = p[k]
  BY <1>1, UptoIs
<1>3. \A k \in 1 .. i : Upto(q, k - 1) = Upto(p, k - 1) /\ Upto(r, k - 1) = Upto(p, k - 1)
  <2> SUFFICES ASSUME NEW k \in 1 .. i
               PROVE  Upto(q, k - 1) = Upto(p, k - 1) /\ Upto(r, k - 1) = Upto(p, k - 1)
    OBVIOUS
  <2>1. k - 1 \in 0 .. i /\ k - 1 \in 0 .. j
    OBVIOUS
  <2> QED  BY <1>1, <2>1, UptoUpto
<1> HIDE DEF q, r
<1>4. CrashSet(pr, q) \in SUBSET CrashSet(pr, r)
  <2>1. CrashSet(pr, q) = {k \in 1 .. i : IsCrash(pr, Upto(q, k - 1), q[k])}
    BY <1>2, CrashSetIs
  <2>2. CrashSet(pr, r) = {k \in 1 .. j : IsCrash(pr, Upto(r, k - 1), r[k])}
    BY <1>2, CrashSetIs
  <2>3. \A k \in 1 .. i : k \in 1 .. j
    OBVIOUS
  <2> QED  BY <1>2, <1>3, <2>1, <2>2, <2>3
<1>5. Cardinality(CrashSet(pr, q)) =< Cardinality(CrashSet(pr, r))
  BY <1>2, <1>4, CrashSetIs, FS_Subset
<1>6. Crashes(pr, q) =< Crashes(pr, r)
  BY <1>2, <1>5, CrashSetIs
<1> QED  BY <1>6 DEF q, r

LEMMA AtIs ==
  ASSUME NEW pr \in Programs, NEW p \in Path
  PROVE  /\ At(pr, p) \in Event
         /\ At(pr, p).kind # "end" => Len(p) < MaxDepth
<1>1. \A q \in DOMAIN pr.tree : pr.tree[q] \in Event /\ Len(q) < MaxDepth
  BY Constants
<1>2. End \in Event /\ End.kind = "end"
  BY DEF End, Event
<1> QED  BY <1>1, <1>2 DEF At

LEMMA EventIs ==
  ASSUME NEW e \in Event
  PROVE  /\ e.kind \in {"load", "crashpoint", "end", "endDirty"}
         /\ e.kind = "load" => e.size \in Nat /\ 2 =< e.size /\ e.size =< MaxChoices
         /\ e.kind = "crashpoint" => e.size = 2
<1>1. CASE e \in [kind : {"load"}, size : 2 .. MaxChoices]
  <2>1. e.kind = "load" /\ e.size \in 2 .. MaxChoices
    BY <1>1
  <2> QED  BY <2>1, Constants
<1>2. CASE e \in [kind : {"crashpoint"}, size : {2}]
  BY <1>2
<1>3. CASE e \in [kind : {"end", "endDirty"}, size : {1}]
  BY <1>3
<1> QED  BY <1>1, <1>2, <1>3 DEF Event

\* How many choices the checker sees after p, and whether it keeps a node.
Size(pr, p) ==
  IF At(pr, p).kind = "load" /\ Crashes(pr, p) # 0 THEN At(pr, p).size
  ELSE IF At(pr, p).kind = "crashpoint" /\ Crashes(pr, p) < pr.numcrashes THEN 2
  ELSE 1

Branches(pr, p) == Size(pr, p) > 1

LEMMA OptionsIs ==
  ASSUME NEW pr \in Programs, NEW p \in Path
  PROVE  /\ Size(pr, p) \in 1 .. MaxChoices /\ Size(pr, p) \in Nat
         /\ Branches(pr, p) => Options(pr, p) = 0 .. (Size(pr, p) - 1)
         /\ ~Branches(pr, p) => \A a, b \in Options(pr, p) : a = b
         /\ Options(pr, p) \in SUBSET Choice /\ Options(pr, p) \in SUBSET Nat
         /\ Options(pr, p) # {} => Len(p) < MaxDepth
         /\ \A c \in Options(pr, p) : IsCrash(pr, p, c) => Crashes(pr, p) < pr.numcrashes
<1> DEFINE e == At(pr, p)
           c == Crashes(pr, p)
           Opt == Options(pr, p)
<1>1. e \in Event /\ (e.kind # "end" => Len(p) < MaxDepth)
  BY AtIs
<1>2. /\ e.kind \in {"load", "crashpoint", "end", "endDirty"}
      /\ e.kind = "load" => e.size \in Nat /\ 2 =< e.size /\ e.size =< MaxChoices
      /\ e.kind = "crashpoint" => e.size = 2
  BY <1>1, EventIs
<1>3. c \in Nat /\ pr.numcrashes \in Nat /\ MaxChoices \in Nat /\ MaxChoices >= 2
  BY CrashSetIs, Constants
<1>4. /\ e.kind = "load" => Opt = IF c = 0 THEN {0} ELSE 0 .. (e.size - 1)
      /\ e.kind = "crashpoint" => Opt = IF c < pr.numcrashes THEN {0, 1} ELSE {1}
      /\ e.kind = "endDirty" => Opt = IF c < pr.numcrashes THEN {0} ELSE {}
      /\ e.kind = "end" => Opt = {}
  BY DEF Options
<1>5. Size(pr, p) = IF e.kind = "load" /\ c # 0 THEN e.size
                    ELSE IF e.kind = "crashpoint" /\ c < pr.numcrashes THEN 2 ELSE 1
  BY DEF Size
<1>6. \A a : IsCrash(pr, p, a) <=> (a = 0 /\ e.kind \in {"crashpoint", "endDirty"})
  BY DEF IsCrash
<1> HIDE DEF e, c, Opt
<1>7. Size(pr, p) \in 1 .. MaxChoices /\ Size(pr, p) \in Nat
  BY <1>2, <1>3, <1>5
<1>8. Branches(pr, p) => Opt = 0 .. (Size(pr, p) - 1)
  <2>1. 0 .. (2 - 1) = {0, 1}
    OBVIOUS
  <2>2. CASE e.kind = "load" /\ c # 0
    BY <1>2, <1>4, <1>5, <2>2
  <2>3. CASE e.kind = "crashpoint" /\ c < pr.numcrashes
    BY <1>2, <1>4, <1>5, <2>1, <2>3
  <2> QED  BY <1>5, <2>2, <2>3 DEF Branches
<1>9. ~Branches(pr, p) => \A a, b \in Opt : a = b
  BY <1>2, <1>3, <1>4, <1>5 DEF Branches
<1>10. Opt \in SUBSET Choice /\ Opt \in SUBSET Nat
  <2>1. 0 \in Choice /\ 1 \in Choice
    BY <1>3 DEF Choice
  <2>2. CASE e.kind = "load" /\ c # 0
    BY <1>2, <1>3, <1>4, <2>2 DEF Choice
  <2> QED  BY <1>2, <1>4, <2>1, <2>2
<1>11. Opt # {} => Len(p) < MaxDepth
  BY <1>1, <1>2, <1>4
<1>12. \A a \in Opt : IsCrash(pr, p, a) => c < pr.numcrashes
  BY <1>2, <1>3, <1>4, <1>6
<1> QED  BY <1>7, <1>8, <1>9, <1>10, <1>11, <1>12 DEF Opt, c

-------------------------------------------------------------------------------
(* Reachable paths and leaves.                                             *)

LEMMA ReachableIs ==
  ASSUME NEW pr, NEW p \in Path
  PROVE  Reachable(pr, p) <=> \A k \in 1 .. Len(p) : p[k] \in Options(pr, Upto(p, k - 1))
<1>1. DOMAIN p = 1 .. Len(p)
  BY DEF Path
<1> QED  BY <1>1 DEF Reachable, Upto

LEMMA ReachableAppend ==
  ASSUME NEW pr, NEW p \in Path, NEW c \in Nat
  PROVE  Reachable(pr, Append(p, c)) <=> Reachable(pr, p) /\ c \in Options(pr, p)
<1> DEFINE q == Append(p, c)
           n == Len(p) + 1
<1>1. /\ q \in Path /\ Len(q) = n /\ q[n] = c /\ n - 1 = Len(p) /\ Len(p) \in Nat
      /\ \A i \in 1 .. Len(p) : q[i] = p[i]
  BY AppendIs
<1>2. \A i \in 1 .. n : Upto(q, i - 1) = Upto(p, i - 1)
  <2>1. \A i \in 1 .. n : i - 1 \in 0 .. Len(p)
    BY <1>1
  <2> QED  BY <2>1, UptoAppend
<1>3. Upto(q, n - 1) = p
  BY <1>1, <1>2, UptoAll
<1>4. \A i : i \in 1 .. n <=> i \in 1 .. Len(p) \/ i = n
  BY <1>1
<1>5. Reachable(pr, q) <=> \A k \in 1 .. n : q[k] \in Options(pr, Upto(q, k - 1))
  BY <1>1, ReachableIs
<1>6. Reachable(pr, p) <=> \A k \in 1 .. Len(p) : p[k] \in Options(pr, Upto(p, k - 1))
  BY ReachableIs
<1>7. \A k \in 1 .. Len(p) : (q[k] \in Options(pr, Upto(q, k - 1))) <=> (p[k] \in Options(pr, Upto(p, k - 1)))
  BY <1>1, <1>2, <1>4
<1>8. (q[n] \in Options(pr, Upto(q, n - 1))) <=> c \in Options(pr, p)
  BY <1>1, <1>3
<1> HIDE DEF q, n
<1>9. Reachable(pr, q) <=> Reachable(pr, p) /\ c \in Options(pr, p)
  BY <1>4, <1>5, <1>6, <1>7, <1>8
<1> QED  BY <1>9 DEF q

LEMMA ReachableUpto ==
  ASSUME NEW pr, NEW p \in Path, Reachable(pr, p), NEW i \in 0 .. Len(p)
  PROVE  Reachable(pr, Upto(p, i))
<1> DEFINE q == Upto(p, i)
<1>1. q \in Path /\ Len(q) = i /\ \A k \in 1 .. i : q[k] = p[k]
  BY UptoIs
<1>2. ASSUME NEW k \in 1 .. i PROVE Upto(q, k - 1) = Upto(p, k - 1)
  <2>1. k - 1 \in 0 .. i
    OBVIOUS
  <2> QED  BY <2>1, UptoUpto
<1>3. \A k \in 1 .. i : k \in 1 .. Len(p)
  OBVIOUS
<1> HIDE DEF q
<1>4. \A k \in 1 .. Len(p) : p[k] \in Options(pr, Upto(p, k - 1))
  BY ReachableIs
<1>5. \A k \in 1 .. Len(q) : q[k] \in Options(pr, Upto(q, k - 1))
  BY <1>1, <1>2, <1>3, <1>4
<1>6. Reachable(pr, q)
  BY <1>1, <1>5, ReachableIs
<1> QED  BY <1>6 DEF q

LEMMA ReachableBound ==
  ASSUME NEW pr \in Programs, NEW p \in Path, Reachable(pr, p)
  PROVE  Len(p) \in 0 .. MaxDepth /\ p \in Paths(MaxDepth)
<1>1. Len(p) \in Nat /\ MaxDepth \in Nat /\ DOMAIN p = 1 .. Len(p) /\ p = [k \in 1 .. Len(p) |-> p[k]]
  BY Constants DEF Path
<1>2. ASSUME NEW k \in 1 .. Len(p) PROVE p[k] \in Choice /\ k =< MaxDepth
  <2>1. k - 1 \in 0 .. Len(p)
    BY <1>1
  <2>2. Upto(p, k - 1) \in Path /\ Len(Upto(p, k - 1)) = k - 1
    BY <2>1, UptoIs
  <2>3. p[k] \in Options(pr, Upto(p, k - 1))
    BY ReachableIs
  <2>4. p[k] \in Choice /\ k - 1 < MaxDepth
    BY <2>2, <2>3, OptionsIs
  <2> QED  BY <1>1, <2>4
<1>3. Len(p) =< MaxDepth
  <2>1. CASE Len(p) = 0
    BY <1>1, <2>1
  <2>2. CASE Len(p) # 0
    <3>1. Len(p) \in 1 .. Len(p)
      BY <1>1, <2>2
    <3> QED  BY <1>2, <3>1
  <2> QED  BY <2>1, <2>2
<1>4. p \in [1 .. Len(p) -> Choice]
  BY <1>1, <1>2
<1> QED  BY <1>1, <1>3, <1>4 DEF Paths

IsLeaf(pr, p) == p \in Path /\ Reachable(pr, p) /\ Options(pr, p) = {}

\* The reachable paths of length k, as a set and by the recursion in Leaves.
Level(pr, k) == {p \in Path : Len(p) = k /\ Reachable(pr, p)}

IsReach(f, pr) ==
  f = [k \in 0 .. MaxDepth |->
         IF k = 0 THEN {<<>>}
         ELSE UNION {{Append(p, c) : c \in Options(pr, p)} : p \in f[k - 1]}]

LEMMA LevelFirst == ASSUME NEW pr PROVE Level(pr, 0) = {<<>>}
<1>1. << >> \in Path /\ Len(<< >>) = 0
  BY DEF Path
<1>2. Reachable(pr, << >>)
  BY <1>1, ReachableIs
<1>3. ASSUME NEW p \in Path, Len(p) = 0 PROVE p = << >>
  BY <1>1, <1>3, PathEqual
<1> QED  BY <1>1, <1>2, <1>3 DEF Level

LEMMA LevelNext ==
  ASSUME NEW pr \in Programs, NEW k \in Nat, k # 0
  PROVE  Level(pr, k) = UNION {{Append(p, c) : c \in Options(pr, p)} : p \in Level(pr, k - 1)}
<1>1. ASSUME NEW q \in Level(pr, k)
      PROVE  \E p \in Level(pr, k - 1) : \E c \in Options(pr, p) : q = Append(p, c)
  <2>1. q \in Path /\ Len(q) = k /\ Reachable(pr, q)
    BY DEF Level
  <2> DEFINE p == Upto(q, k - 1)
  <2>2. k - 1 \in 0 .. Len(q) /\ k - 1 \in 0 .. (Len(q) - 1) /\ (k - 1) + 1 = k /\ k \in 1 .. Len(q)
        /\ k \in 0 .. Len(q)
    BY <2>1
  <2>3. p \in Path /\ Len(p) = k - 1
    BY <2>1, <2>2, UptoIs
  <2>4. Reachable(pr, p)
    BY <2>1, <2>2, ReachableUpto
  <2>5. Append(p, q[k]) = Upto(q, k)
    <3>1. Append(Upto(q, k - 1), q[(k - 1) + 1]) = Upto(q, (k - 1) + 1)
      BY <2>1, <2>2, UptoNext
    <3> QED  BY <2>2, <3>1
  <2>6. Upto(q, k) = q
    BY <2>1, UptoAll
  <2>7. q[k] \in Options(pr, p)
    BY <2>1, <2>2, ReachableIs
  <2> HIDE DEF p
  <2> QED  BY <2>3, <2>4, <2>5, <2>6, <2>7 DEF Level
<1>2. ASSUME NEW p \in Level(pr, k - 1), NEW c \in Options(pr, p) PROVE Append(p, c) \in Level(pr, k)
  <2>1. p \in Path /\ Len(p) = k - 1 /\ Reachable(pr, p)
    BY DEF Level
  <2>2. c \in Nat
    BY <2>1, OptionsIs
  <2>3. Append(p, c) \in Path /\ Len(Append(p, c)) = k /\ Reachable(pr, Append(p, c))
    BY <2>1, <2>2, AppendIs, ReachableAppend
  <2> QED  BY <2>3 DEF Level
<1> DEFINE L == Level(pr, k)
           U == UNION {{Append(p, c) : c \in Options(pr, p)} : p \in Level(pr, k - 1)}
<1>3. ASSUME NEW q \in L PROVE q \in U
  <2>1. PICK p \in Level(pr, k - 1) : \E c \in Options(pr, p) : q = Append(p, c)
    BY <1>1
  <2>2. q \in {Append(p, c) : c \in Options(pr, p)}
    BY <2>1
  <2> QED  BY <2>2
<1>4. ASSUME NEW q \in U PROVE q \in L
  <2>1. PICK p \in Level(pr, k - 1) : q \in {Append(p, c) : c \in Options(pr, p)}
    OBVIOUS
  <2>2. PICK c \in Options(pr, p) : q = Append(p, c)
    BY <2>1
  <2> QED  BY <1>2, <2>2
<1> HIDE DEF L, U
<1>5. L = U
  BY <1>3, <1>4
<1> QED  BY <1>5 DEF L, U

LEMMA ReachExists == ASSUME NEW pr \in Programs PROVE \E f : IsReach(f, pr)
<1> DEFINE f == [k \in 0 .. MaxDepth |-> Level(pr, k)]
<1>1. ASSUME NEW k \in 0 .. MaxDepth
      PROVE  f[k] = IF k = 0 THEN {<< >>}
                    ELSE UNION {{Append(p, c) : c \in Options(pr, p)} : p \in f[k - 1]}
  <2>1. CASE k = 0
    BY <2>1, LevelFirst
  <2>2. CASE k # 0
    <3>1. k \in Nat /\ k - 1 \in 0 .. MaxDepth
      BY <2>2, Constants
    <3>2. f[k] = Level(pr, k) /\ f[k - 1] = Level(pr, k - 1)
      BY <3>1
    <3>3. Level(pr, k) = UNION {{Append(p, c) : c \in Options(pr, p)} : p \in Level(pr, k - 1)}
      BY <2>2, <3>1, LevelNext
    <3> HIDE DEF f
    <3> QED  BY <2>2, <3>2, <3>3
  <2> QED  BY <2>1, <2>2
<1>2. f = [k \in 0 .. MaxDepth |-> f[k]]
  OBVIOUS
<1> HIDE DEF f
<1>3. IsReach(f, pr)
  BY <1>1, <1>2 DEF IsReach
<1> QED  BY <1>3

LEMMA ReachIs ==
  ASSUME NEW pr \in Programs, NEW f, IsReach(f, pr)
  PROVE  \A k \in 0 .. MaxDepth : f[k] = Level(pr, k)
<1> DEFINE P == {k \in 0 .. MaxDepth : f[k] = Level(pr, k)}
<1>0. MaxDepth \in Nat
  BY Constants
<1>1. 0 \in P
  <2>1. 0 \in 0 .. MaxDepth
    BY <1>0
  <2>2. f[0] = {<< >>}
    BY <2>1 DEF IsReach
  <2> QED  BY <2>1, <2>2, LevelFirst
<1>2. ASSUME NEW k \in 0 .. (MaxDepth - 1), k \in P PROVE k + 1 \in P
  <2>1. k + 1 \in Nat /\ k + 1 # 0 /\ k + 1 \in 0 .. MaxDepth /\ (k + 1) - 1 = k
    BY <1>0
  <2>2. f[k + 1] = UNION {{Append(p, c) : c \in Options(pr, p)} : p \in f[(k + 1) - 1]}
    BY <2>1 DEF IsReach
  <2>3. Level(pr, k + 1) = UNION {{Append(p, c) : c \in Options(pr, p)} : p \in Level(pr, (k + 1) - 1)}
    BY <2>1, LevelNext
  <2>4. f[k] = Level(pr, k)
    BY <1>2
  <2>5. f[k + 1] = Level(pr, k + 1)
    BY <2>1, <2>2, <2>3, <2>4
  <2> QED  BY <2>1, <2>5
<1> HIDE DEF P
<1>3. \A k \in 0 .. MaxDepth : k \in P
  BY <1>0, <1>1, <1>2, Climb
<1> QED  BY <1>3 DEF P

LEMMA LeavesIs == ASSUME NEW pr \in Programs, NEW p PROVE p \in Leaves(pr) <=> IsLeaf(pr, p)
<1> DEFINE f == CHOOSE f : IsReach(f, pr)
<1>1. IsReach(f, pr)
  <2> HIDE DEF f
  <2>1. f = CHOOSE g : IsReach(g, pr)
    BY DEF f
  <2> QED  BY <2>1, ReachExists
<1>2. Leaves(pr) = {q \in UNION {f[k] : k \in 0 .. MaxDepth} : Options(pr, q) = {}}
  BY Zenon DEF Leaves, IsReach
<1> HIDE DEF f
<1>3. \A k \in 0 .. MaxDepth : f[k] = Level(pr, k)
  BY <1>1, ReachIs
<1>4. ASSUME IsLeaf(pr, p) PROVE p \in Leaves(pr)
  <2>1. Len(p) \in 0 .. MaxDepth
    BY <1>4, ReachableBound DEF IsLeaf
  <2>2. p \in f[Len(p)]
    BY <1>3, <1>4, <2>1 DEF IsLeaf, Level
  <2> QED  BY <1>2, <1>4, <2>1, <2>2 DEF IsLeaf
<1>5. ASSUME p \in Leaves(pr) PROVE IsLeaf(pr, p)
  <2>1. PICK k \in 0 .. MaxDepth : p \in f[k]
    BY <1>2, <1>5
  <2> QED  BY <1>2, <1>3, <1>5, <2>1 DEF IsLeaf, Level
<1> QED  BY <1>4, <1>5

\* Every reachable path can be gone on with until a leaf.
LEMMA LeafAbove ==
  ASSUME NEW pr \in Programs, NEW p \in Path, Reachable(pr, p)
  PROVE  \E leaf : IsLeaf(pr, leaf) /\ Len(p) \in 0 .. Len(leaf) /\ Upto(leaf, Len(p)) = p
<1> DEFINE Above(q) == q \in Path /\ Reachable(pr, q) /\ Len(p) \in 0 .. Len(q) /\ Upto(q, Len(p)) = p
           S == {n \in 0 .. MaxDepth : \E q : Above(q) /\ Len(q) = n}
<1>1. \A q : Above(q) => Len(q) \in S
  BY ReachableBound
<1>2. Above(p)
  <2>1. Len(p) \in 0 .. Len(p)
    BY DEF Path
  <2> QED  BY <2>1, UptoAll
<1>3. S \in SUBSET Nat /\ S # {} /\ MaxDepth \in Nat /\ \A n \in S : n =< MaxDepth
  BY <1>1, <1>2, Constants
<1>4. \A n \in S : \E q : Above(q) /\ Len(q) = n
  OBVIOUS
<1> HIDE DEF S
<1>5. PICK g \in S : \A n \in S : n =< g
  BY <1>3, GreatestExists
<1>6. PICK q : Above(q) /\ Len(q) = g
  BY <1>4
<1>7. ASSUME NEW c \in Options(pr, q) PROVE FALSE
  <2> DEFINE r == Append(q, c)
  <2>1. c \in Nat /\ q \in Path
    BY <1>6, OptionsIs
  <2>2. r \in Path /\ Len(r) = Len(q) + 1 /\ Len(q) \in Nat
    BY <2>1, AppendIs
  <2>3. Reachable(pr, r)
    BY <1>6, <2>1, ReachableAppend
  <2>4. Upto(r, Len(p)) = Upto(q, Len(p))
    BY <1>6, <2>1, UptoAppend
  <2> HIDE DEF r
  <2>5. Above(r)
    BY <1>6, <2>2, <2>3, <2>4
  <2>6. Len(r) =< g /\ g \in Nat
    BY <1>1, <1>3, <1>5, <2>5
  <2> QED  BY <1>6, <2>2, <2>6
<1>8. IsLeaf(pr, q)
  BY <1>6, <1>7 DEF IsLeaf
<1> QED  BY <1>6, <1>8

-------------------------------------------------------------------------------
(* The order in which the leaves are run.                                  *)

\* The same choices up to i, if both have as many.
Agree(p, q, i) == \A j \in 1 .. i : p[j] = q[j]

\* p takes the smaller choice where p and q part.
LessAt(p, q, i) == i \in 1 .. Len(p) /\ i \in 1 .. Len(q) /\ p[i] < q[i] /\ Agree(p, q, i - 1)

Less(p, q) == \E i \in Nat : LessAt(p, q, i)

LEMMA FirstDifference ==
  ASSUME NEW p \in Path, NEW q \in Path
  PROVE  \/ \E i \in Nat : i \in 1 .. Len(p) /\ i \in 1 .. Len(q) /\ p[i] # q[i] /\ Agree(p, q, i - 1)
         \/ \A i \in Nat : i \in 1 .. Len(p) /\ i \in 1 .. Len(q) => p[i] = q[i]
<1> DEFINE S == {i \in Nat : i \in 1 .. Len(p) /\ i \in 1 .. Len(q) /\ p[i] # q[i]}
<1>0. Len(p) \in Nat /\ Len(q) \in Nat
  BY DEF Path
<1> SUFFICES ASSUME S # {} PROVE \E i \in S : Agree(p, q, i - 1)
  OBVIOUS
<1>1. S \in SUBSET Nat
  OBVIOUS
<1>2. PICK i \in S : \A m \in S : i =< m
  <2> HIDE DEF S
  <2> QED  BY <1>1, LeastExists
<1>3. ASSUME NEW j \in 1 .. (i - 1) PROVE p[j] = q[j]
  <2>1. i \in Nat /\ j \in Nat /\ ~(i =< j) /\ j \in 1 .. Len(p) /\ j \in 1 .. Len(q)
    BY <1>0
  <2> QED  BY <1>2, <2>1
<1> QED  BY <1>3 DEF Agree

LEMMA LessIsNot ==
  ASSUME NEW p \in Path
  PROVE  ~Less(p, p)
<1> SUFFICES ASSUME NEW i \in Nat, LessAt(p, p, i) PROVE FALSE
  BY DEF Less
<1>1. p[i] \in Nat /\ p[i] < p[i]
  BY DEF LessAt, Path
<1> QED  BY <1>1

\* No leaf is the beginning of another.
LEMMA LeavesPart ==
  ASSUME NEW pr, NEW p \in Path, Options(pr, p) = {}, NEW q \in Path, Reachable(pr, q),
         Agree(p, q, Len(p)), Len(p) =< Len(q)
  PROVE  p = q
<1>1. Len(p) \in Nat /\ Len(q) \in Nat /\ Len(p) \in 0 .. Len(q)
  BY DEF Path
<1>2. Upto(q, Len(p)) = p
  <2>1. Upto(q, Len(p)) = Upto(p, Len(p))
    BY <1>1, UptoSame DEF Agree
  <2> QED  BY <2>1, UptoAll
<1>3. Len(p) = Len(q)
  <2> SUFFICES ASSUME Len(p) < Len(q) PROVE FALSE
    BY <1>1
  <2>1. Len(p) + 1 \in 1 .. Len(q) /\ (Len(p) + 1) - 1 = Len(p)
    BY <1>1
  <2>2. q[Len(p) + 1] \in Options(pr, Upto(q, (Len(p) + 1) - 1))
    BY <2>1, ReachableIs
  <2> QED  BY <1>2, <2>1, <2>2
<1> QED  BY <1>2, <1>3, UptoAll

\* No choice is left on q behind t: the leaves that agree with q up to t come before it.
AllTaken(pr, q, t) ==
  \A i \in Nat : i \in 1 .. Len(q) /\ t < i /\ Branches(pr, Upto(q, i - 1)) => q[i] + 1 = Size(pr, Upto(q, i - 1))

LEMMA LeavesBefore ==
  ASSUME NEW pr \in Programs, NEW p, IsLeaf(pr, p), NEW q, IsLeaf(pr, q), NEW t \in Nat,
         t = 0 \/ (t \in 1 .. Len(p) /\ t \in 1 .. Len(q)), Agree(p, q, t), AllTaken(pr, q, t)
  PROVE  p = q \/ Less(p, q)
<1>0. p \in Path /\ q \in Path /\ Len(p) \in Nat /\ Len(q) \in Nat
  BY DEF IsLeaf, Path
<1>1. CASE \A i \in Nat : i \in 1 .. Len(p) /\ i \in 1 .. Len(q) => p[i] = q[i]
  <2>1. CASE Len(p) =< Len(q)
    <3>1. Agree(p, q, Len(p))
      BY <1>0, <1>1, <2>1 DEF Agree
    <3> QED  BY <1>0, <2>1, <3>1, LeavesPart DEF IsLeaf
  <2>2. CASE Len(q) =< Len(p)
    <3>1. Agree(q, p, Len(q))
      BY <1>0, <1>1, <2>2 DEF Agree
    <3>2. q = p
      BY <1>0, <2>2, <3>1, LeavesPart DEF IsLeaf
    <3> QED  BY <3>2
  <2> QED  BY <1>0, <2>1, <2>2
<1>2. ASSUME NEW i \in Nat, i \in 1 .. Len(p), i \in 1 .. Len(q), p[i] # q[i], Agree(p, q, i - 1)
      PROVE  Less(p, q)
  <2>1. t < i
    <3> SUFFICES ASSUME ~(t < i) PROVE FALSE
      OBVIOUS
    <3>1. i \in 1 .. t
      BY <1>2
    <3> QED  BY <1>2, <3>1 DEF Agree
  <2> DEFINE r == Upto(q, i - 1)
  <2>2. i - 1 \in Nat /\ i - 1 =< Len(p) /\ i - 1 =< Len(q) /\ i - 1 \in 0 .. Len(q)
    BY <1>0, <1>2
  <2>3. Upto(p, i - 1) = r
    BY <1>0, <1>2, <2>2, UptoSame DEF Agree
  <2>4. r \in Path
    BY <1>0, <2>2, UptoIs
  <2>5. p[i] \in Options(pr, r)
    <3>1. p[i] \in Options(pr, Upto(p, i - 1))
      BY <1>0, <1>2, ReachableIs DEF IsLeaf
    <3> QED  BY <2>3, <3>1
  <2>6. q[i] \in Options(pr, r)
    BY <1>0, <1>2, ReachableIs DEF IsLeaf
  <2> HIDE DEF r
  <2>7. Branches(pr, r)
    BY <1>2, <2>4, <2>5, <2>6, OptionsIs
  <2>8. p[i] \in 0 .. (Size(pr, r) - 1) /\ q[i] \in 0 .. (Size(pr, r) - 1) /\ Size(pr, r) \in Nat
    <3>1. Options(pr, r) = 0 .. (Size(pr, r) - 1) /\ Size(pr, r) \in Nat
      BY <2>4, <2>7, OptionsIs
    <3> QED  BY <2>5, <2>6, <3>1
  <2>9. q[i] + 1 = Size(pr, r)
    BY <1>2, <2>1, <2>7 DEF AllTaken, r
  <2>10. p[i] < q[i]
    BY <1>2, <2>8, <2>9
  <2> QED  BY <1>2, <2>10 DEF Less, LessAt
<1>3. CASE \E i \in Nat : i \in 1 .. Len(p) /\ i \in 1 .. Len(q) /\ p[i] # q[i] /\ Agree(p, q, i - 1)
  BY <1>2, <1>3
<1> QED  BY <1>0, <1>1, <1>3, FirstDifference

\* The leaves before q, and q too if it is one.
Earlier(pr, q)   == {p \in Leaves(pr) : Less(p, q)}
EarlierOr(pr, q) == {p \in Leaves(pr) : Less(p, q) \/ p = q}

\* A path goes on with the first choice there is.
LEMMA EarlierAppend ==
  ASSUME NEW pr \in Programs, NEW p \in Path, NEW c \in Options(pr, p), Branches(pr, p) => c = 0
  PROVE  Earlier(pr, Append(p, c)) = Earlier(pr, p)
<1> DEFINE q == Append(p, c)
<1>0. c \in Nat
  BY OptionsIs
<1>1. /\ Len(p) \in Nat /\ q \in Path /\ Len(q) = Len(p) + 1 /\ q[Len(p) + 1] = c
      /\ \A i \in 1 .. Len(p) : q[i] = p[i]
  BY <1>0, AppendIs
<1> HIDE DEF q
<1>2. ASSUME NEW leaf \in Leaves(pr) PROVE Less(leaf, q) <=> Less(leaf, p)
  <2>1. IsLeaf(pr, leaf) /\ leaf \in Path /\ Len(leaf) \in Nat
    BY LeavesIs DEF IsLeaf, Path
  <2>2. ASSUME NEW i \in Nat, LessAt(leaf, p, i) PROVE LessAt(leaf, q, i)
    <3>1. i \in 1 .. Len(p) /\ i \in 1 .. Len(q)
      BY <1>1, <2>2 DEF LessAt
    <3>2. \A j \in 1 .. (i - 1) : j \in 1 .. Len(p)
      BY <1>1, <3>1
    <3> QED  BY <1>1, <2>2, <3>1, <3>2 DEF LessAt, Agree
  <2>3. ASSUME NEW i \in Nat, LessAt(leaf, q, i) PROVE LessAt(leaf, p, i)
    <3>1. i \in 1 .. Len(leaf) /\ i \in 1 .. (Len(p) + 1)
      BY <1>1, <2>3 DEF LessAt
    <3>2. \A j \in 1 .. (i - 1) : j \in 1 .. Len(p)
      BY <1>1, <3>1
    <3>3. Agree(leaf, p, i - 1)
      BY <1>1, <2>3, <3>2 DEF LessAt, Agree
    <3>4. CASE i = Len(p) + 1
      <4>1. leaf[i] < c /\ i - 1 = Len(p)
        BY <1>1, <2>3, <3>4 DEF LessAt
      <4>2. Upto(leaf, i - 1) = Upto(p, i - 1)
        <5>1. i - 1 \in Nat /\ i - 1 =< Len(p) /\ i - 1 =< Len(leaf)
          BY <1>1, <2>1, <3>1, <4>1
        <5> QED  BY <2>1, <3>3, <5>1, UptoSame DEF Agree
      <4>3. Upto(leaf, i - 1) = p
        BY <4>1, <4>2, UptoAll
      <4>4. leaf[i] \in Options(pr, p)
        <5>1. leaf[i] \in Options(pr, Upto(leaf, i - 1))
          BY <2>1, <3>1, ReachableIs DEF IsLeaf
        <5> QED  BY <4>3, <5>1
      <4>5. leaf[i] \in Nat
        BY <4>4, OptionsIs
      <4>6. CASE Branches(pr, p)
        BY <1>0, <4>1, <4>5, <4>6
      <4>7. CASE ~Branches(pr, p)
        <5>1. leaf[i] = c
          BY <4>4, <4>7, OptionsIs
        <5> QED  BY <1>0, <4>1, <5>1
      <4> QED  BY <4>6, <4>7
    <3>5. CASE i # Len(p) + 1
      <4>1. i \in 1 .. Len(p)
        BY <1>1, <3>1, <3>5
      <4> QED  BY <1>1, <2>3, <3>1, <3>3, <4>1 DEF LessAt
    <3> QED  BY <3>4, <3>5
  <2> QED  BY <2>2, <2>3 DEF Less
<1>3. Earlier(pr, q) = Earlier(pr, p)
  BY <1>2 DEF Earlier
<1> QED  BY <1>3 DEF q

\* The next choice at t after everything behind it.
Turned(q, t) == Append(Upto(q, t - 1), q[t] + 1)

LEMMA TurnedIs ==
  ASSUME NEW q \in Path, NEW t \in 1 .. Len(q)
  PROVE  /\ t \in Nat /\ t - 1 \in 0 .. Len(q) /\ Upto(q, t - 1) \in Path /\ Len(Upto(q, t - 1)) = t - 1
         /\ Turned(q, t) \in Path /\ Len(Turned(q, t)) = t /\ Turned(q, t)[t] = q[t] + 1 /\ q[t] \in Nat
         /\ Agree(Turned(q, t), q, t - 1)
<1> DEFINE p == Upto(q, t - 1)
           c == q[t] + 1
<1>1. t \in Nat /\ t - 1 \in 0 .. Len(q) /\ q[t] \in Nat /\ c \in Nat /\ (t - 1) + 1 = t
  BY DEF Path
<1>2. p \in Path /\ Len(p) = t - 1 /\ \A i \in 1 .. (t - 1) : p[i] = q[i]
  BY <1>1, UptoIs
<1> HIDE DEF p, c
<1>3. Append(p, c) \in Path /\ Len(Append(p, c)) = t /\ Append(p, c)[t] = c
      /\ \A i \in 1 .. (t - 1) : Append(p, c)[i] = p[i]
  <2>1. /\ Append(p, c) \in Path /\ Len(Append(p, c)) = Len(p) + 1 /\ Append(p, c)[Len(p) + 1] = c
        /\ \A i \in 1 .. Len(p) : Append(p, c)[i] = p[i]
    BY <1>1, <1>2, AppendIs
  <2>2. Len(p) + 1 = t
    BY <1>1, <1>2
  <2> QED  BY <1>2, <2>1, <2>2
<1>4. Turned(q, t) = Append(p, c)
  BY DEF Turned, p, c
<1>5. Agree(Turned(q, t), q, t - 1)
  BY <1>2, <1>3, <1>4 DEF Agree
<1> QED  BY <1>1, <1>2, <1>3, <1>4, <1>5 DEF p, c

LEMMA EarlierTurned ==
  ASSUME NEW pr \in Programs, NEW q, IsLeaf(pr, q), NEW t \in 1 .. Len(q), AllTaken(pr, q, t)
  PROVE  Earlier(pr, Turned(q, t)) = EarlierOr(pr, q)
<1> DEFINE r == Turned(q, t)
<1>1. q \in Path /\ Len(q) \in Nat /\ t \in 1 .. Len(q) /\ t \in Nat
  BY DEF IsLeaf, Path
<1>2. r \in Path /\ Len(r) = t /\ r[t] = q[t] + 1 /\ q[t] \in Nat /\ \A i \in 1 .. (t - 1) : r[i] = q[i]
  BY <1>1, TurnedIs DEF Agree
<1> HIDE DEF r
<1>3. ASSUME NEW leaf \in Leaves(pr) PROVE Less(leaf, r) <=> Less(leaf, q) \/ leaf = q
  <2>1. IsLeaf(pr, leaf) /\ leaf \in Path /\ Len(leaf) \in Nat
    BY LeavesIs DEF IsLeaf, Path
  <2>2. ASSUME leaf = q PROVE Less(leaf, r)
    <3>1. t \in 1 .. Len(r) /\ q[t] < r[t] /\ Agree(q, r, t - 1)
      BY <1>1, <1>2 DEF Agree
    <3> QED  BY <1>1, <2>2, <3>1 DEF Less, LessAt
  <2>3. ASSUME NEW i \in Nat, LessAt(leaf, q, i) PROVE Less(leaf, r)
    <3>0. i \in 1 .. Len(leaf) /\ i \in 1 .. Len(q) /\ leaf[i] < q[i] /\ \A j \in 1 .. (i - 1) : leaf[j] = q[j]
      BY <2>3 DEF LessAt, Agree
    <3>1. leaf[i] \in Nat /\ q[i] \in Nat
      BY <1>1, <2>1, <3>0 DEF Path
    <3>2. CASE i < t
      <4>1. i \in 1 .. Len(r) /\ r[i] = q[i] /\ \A j \in 1 .. (i - 1) : j \in 1 .. (t - 1)
        BY <1>1, <1>2, <3>0, <3>2
      <4>2. LessAt(leaf, r, i)
        BY <1>2, <3>0, <4>1 DEF LessAt, Agree
      <4> QED  BY <4>2 DEF Less
    <3>3. CASE i = t
      <4>1. leaf[t] < r[t]
        BY <1>2, <3>0, <3>1, <3>3
      <4>2. t \in 1 .. Len(leaf) /\ t \in 1 .. Len(r)
        BY <1>1, <1>2, <3>0, <3>3
      <4>3. LessAt(leaf, r, t)
        BY <1>2, <3>0, <3>3, <4>1, <4>2 DEF LessAt, Agree
      <4> QED  BY <1>1, <4>3 DEF Less
    <3>4. CASE t < i
      <4>1. t \in 1 .. (i - 1) /\ t \in 1 .. Len(leaf) /\ t \in 1 .. Len(r) /\ \A j \in 1 .. (t - 1) : j \in 1 .. (i - 1)
        BY <1>1, <1>2, <3>0, <3>4
      <4>2. leaf[t] = q[t] /\ leaf[t] < r[t]
        BY <1>2, <3>0, <4>1
      <4>3. LessAt(leaf, r, t)
        BY <1>2, <3>0, <4>1, <4>2 DEF LessAt, Agree
      <4> QED  BY <1>1, <4>3 DEF Less
    <3> QED  BY <1>1, <3>2, <3>3, <3>4
  <2>4. ASSUME NEW i \in Nat, LessAt(leaf, r, i) PROVE Less(leaf, q) \/ leaf = q
    <3>0. i \in 1 .. Len(leaf) /\ i \in 1 .. t /\ leaf[i] < r[i] /\ \A j \in 1 .. (i - 1) : leaf[j] = r[j]
      BY <1>2, <2>4 DEF LessAt, Agree
    <3>1. leaf[i] \in Nat /\ i \in 1 .. Len(q) /\ \A j \in 1 .. (i - 1) : j \in 1 .. (t - 1)
      BY <1>1, <2>1, <3>0 DEF Path
    <3>2. Agree(leaf, q, i - 1)
      BY <1>2, <3>0, <3>1 DEF Agree
    <3>3. CASE i < t
      <4>1. r[i] = q[i]
        BY <1>2, <3>0, <3>3
      <4>2. LessAt(leaf, q, i)
        BY <3>0, <3>1, <3>2, <4>1 DEF LessAt
      <4> QED  BY <4>2 DEF Less
    <3>4. CASE i = t
      <4>1. leaf[t] < q[t] + 1 /\ leaf[t] \in Nat
        BY <1>2, <3>0, <3>1, <3>4
      <4>2. CASE leaf[t] < q[t]
        <5>1. LessAt(leaf, q, t)
          BY <3>0, <3>1, <3>2, <3>4, <4>2 DEF LessAt
        <5> QED  BY <1>1, <5>1 DEF Less
      <4>3. CASE leaf[t] = q[t]
        <5>1. Agree(leaf, q, t)
          <6>1. \A j \in 1 .. t : j = t \/ j \in 1 .. (t - 1)
            BY <1>1
          <6> QED  BY <3>2, <3>4, <4>3, <6>1 DEF Agree
        <5> QED  BY <1>1, <2>1, <3>0, <3>4, <5>1, LeavesBefore
      <4> QED  BY <1>2, <4>1, <4>2, <4>3
    <3> QED  BY <1>1, <3>0, <3>3, <3>4
  <2> QED  BY <2>2, <2>3, <2>4 DEF Less
<1>4. Earlier(pr, r) = EarlierOr(pr, q)
  BY <1>3 DEF Earlier, EarlierOr
<1> QED  BY <1>4 DEF r

\* When no choice is left, all leaves have been run.
LEMMA EarlierAll ==
  ASSUME NEW pr \in Programs, NEW q, IsLeaf(pr, q), AllTaken(pr, q, 0)
  PROVE  EarlierOr(pr, q) = Leaves(pr)
<1>1. ASSUME NEW leaf \in Leaves(pr) PROVE leaf = q \/ Less(leaf, q)
  <2>1. IsLeaf(pr, leaf) /\ Agree(leaf, q, 0)
    BY LeavesIs DEF Agree
  <2> QED  BY <2>1, LeavesBefore
<1> QED  BY <1>1 DEF EarlierOr

\* While one is left, some leaf has not been run.
LEMMA EarlierNotAll ==
  ASSUME NEW pr \in Programs, NEW q, IsLeaf(pr, q), NEW t \in 1 .. Len(q),
         Branches(pr, Upto(q, t - 1)), q[t] + 1 < Size(pr, Upto(q, t - 1))
  PROVE  /\ q[t] + 1 \in Options(pr, Upto(q, t - 1))
         /\ Reachable(pr, Turned(q, t))
         /\ \E leaf \in Leaves(pr) : leaf \notin EarlierOr(pr, q)
<1> DEFINE r == Turned(q, t)
           p == Upto(q, t - 1)
<1>0. q \in Path /\ Len(q) \in Nat /\ t \in Nat /\ Reachable(pr, q) /\ t \in 1 .. Len(q)
  BY DEF IsLeaf, Path
<1>1. /\ r \in Path /\ Len(r) = t /\ r[t] = q[t] + 1 /\ q[t] \in Nat /\ \A i \in 1 .. (t - 1) : r[i] = q[i]
      /\ p \in Path /\ t - 1 \in 0 .. Len(q)
  BY <1>0, TurnedIs DEF Agree
<1>2. q[t] + 1 \in Options(pr, p) /\ q[t] + 1 \in Nat
  <2>1. Options(pr, p) = 0 .. (Size(pr, p) - 1) /\ Size(pr, p) \in Nat
    BY <1>1, OptionsIs
  <2> QED  BY <1>1, <2>1
<1>3. Reachable(pr, r)
  <2>1. Reachable(pr, p)
    BY <1>0, <1>1, ReachableUpto
  <2> HIDE DEF p
  <2>2. Reachable(pr, Append(p, q[t] + 1))
    BY <1>1, <1>2, <2>1, ReachableAppend
  <2> QED  BY <2>2 DEF p, Turned
<1> HIDE DEF r, p
<1>4. PICK leaf : IsLeaf(pr, leaf) /\ Len(r) \in 0 .. Len(leaf) /\ Upto(leaf, Len(r)) = r
  BY <1>1, <1>3, LeafAbove
<1>5. /\ leaf \in Path /\ Len(leaf) \in Nat
      /\ \A i \in 1 .. t : leaf[i] = r[i]
  <2>1. leaf \in Path /\ Len(leaf) \in Nat
    BY <1>4 DEF IsLeaf, Path
  <2>2. \A i \in 1 .. Len(r) : Upto(leaf, Len(r))[i] = leaf[i]
    BY <1>4, <2>1, UptoIs
  <2> QED  BY <1>1, <1>4, <2>1, <2>2
<1>6. leaf[t] = q[t] + 1 /\ \A i \in 1 .. (t - 1) : leaf[i] = q[i]
  <2>1. t \in 1 .. t /\ \A i \in 1 .. (t - 1) : i \in 1 .. t
    BY <1>0
  <2> QED  BY <1>1, <1>5, <2>1
<1>7. leaf # q
  BY <1>1, <1>6
<1>8. ASSUME NEW i \in Nat, LessAt(leaf, q, i) PROVE FALSE
  <2>1. i \in 1 .. Len(q) /\ leaf[i] < q[i] /\ \A j \in 1 .. (i - 1) : leaf[j] = q[j]
    BY <1>8 DEF LessAt, Agree
  <2>2. q[i] \in Nat
    BY <1>0, <2>1 DEF Path
  <2>3. CASE i < t
    <3>1. i \in 1 .. (t - 1)
      BY <1>0, <2>1, <2>3
    <3> QED  BY <1>6, <2>1, <2>2, <3>1
  <2>4. CASE i = t
    BY <1>1, <1>6, <2>1, <2>4
  <2>5. CASE t < i
    <3>1. t \in 1 .. (i - 1)
      BY <1>0, <2>1, <2>5
    <3> QED  BY <1>1, <1>6, <2>1, <3>1
  <2> QED  BY <1>0, <2>3, <2>4, <2>5
<1>9. leaf \in Leaves(pr) /\ leaf \notin EarlierOr(pr, q)
  BY <1>4, <1>7, <1>8, LeavesIs DEF EarlierOr, Less
<1> QED  BY <1>2, <1>3, <1>9 DEF p, r

-------------------------------------------------------------------------------
(* What a stack says of a path.                                            *)

NodeRecord == [idx : Nat, size : Nat]

Stack == [nodes : Seq(NodeRecord), head : Nat, last : Nat, curr : Nat]

\* Execution k had more than one choice at position i of q.
HasNode(pr, q, k, i) ==
  i \in 1 .. Len(q) /\ Branches(pr, Upto(q, i - 1)) /\ Crashes(pr, Upto(q, i - 1)) = k - 1

More(node) == node.idx + 1 < node.size

\* The nodes are those of execution k, at the positions at of q in turn.
NodesAt(nodes, pr, q, k, at) ==
  /\ nodes \in Seq(NodeRecord) /\ at \in Seq(Nat) /\ Len(at) = Len(nodes)
  /\ \A n \in 1 .. Len(nodes) :
       HasNode(pr, q, k, at[n]) /\ nodes[n].idx = q[at[n]] /\ nodes[n].size = Size(pr, Upto(q, at[n] - 1))
  /\ \A m, n \in 1 .. Len(nodes) : m < n => at[m] < at[n]
  /\ \A i \in Nat : HasNode(pr, q, k, i) => \E n \in 1 .. Len(nodes) : at[n] = i

\* Those before position d have been passed; last is the last of them with a
\* choice left; curr is the one at position t, if that is a position.
StackAt(ns, pr, q, k, d, t, at) ==
  /\ ns \in Stack /\ NodesAt(ns.nodes, pr, q, k, at)
  /\ ns.head =< Len(ns.nodes) /\ \A n \in 1 .. Len(ns.nodes) : n =< ns.head <=> at[n] =< d
  /\ ns.last =< ns.head /\ (ns.last # 0 => More(ns.nodes[ns.last]))
  /\ \A n \in 1 .. ns.head : ns.last < n => ~More(ns.nodes[n])
  /\ t # 0 => ns.curr \in 1 .. Len(ns.nodes) /\ at[ns.curr] = t

StackIs(ns, pr, q, k, d, t) == \E at : StackAt(ns, pr, q, k, d, t, at)

\* Another path that has the same nodes of execution k.
LEMMA StackSwitch ==
  ASSUME NEW pr, NEW q \in Path, NEW r \in Path, NEW l \in Nat, l =< Len(q), l =< Len(r), Agree(q, r, l),
         NEW k, NEW d \in Nat, NEW e \in Nat, l =< d, l =< e,
         \A i \in Nat : HasNode(pr, q, k, i) \/ HasNode(pr, r, k, i) => i =< l,
         NEW ns, StackIs(ns, pr, q, k, d, 0)
  PROVE  StackIs(ns, pr, r, k, e, 0)
<1>1. PICK at : StackAt(ns, pr, q, k, d, 0, at)
  BY DEF StackIs
<1>0. Len(q) \in Nat /\ Len(r) \in Nat
  BY DEF Path
<1>2. ASSUME NEW i \in Nat, i \in 1 .. l
      PROVE  /\ HasNode(pr, q, k, i) <=> HasNode(pr, r, k, i)
             /\ q[i] = r[i] /\ Upto(q, i - 1) = Upto(r, i - 1)
  <2>1. i - 1 \in Nat /\ i - 1 =< Len(q) /\ i - 1 =< Len(r) /\ \A j \in 1 .. (i - 1) : j \in 1 .. l
        /\ i \in 1 .. Len(q) /\ i \in 1 .. Len(r)
    BY <1>0, <1>2
  <2>2. Upto(q, i - 1) = Upto(r, i - 1)
    BY <2>1, UptoSame DEF Agree
  <2> QED  BY <1>2, <2>1, <2>2 DEF HasNode, Agree
<1>3. \A i \in Nat : HasNode(pr, q, k, i) <=> HasNode(pr, r, k, i)
  <2> SUFFICES ASSUME NEW i \in Nat PROVE HasNode(pr, q, k, i) <=> HasNode(pr, r, k, i)
    OBVIOUS
  <2>1. HasNode(pr, q, k, i) \/ HasNode(pr, r, k, i) => i \in 1 .. l
    <3>1. HasNode(pr, q, k, i) \/ HasNode(pr, r, k, i) => 1 =< i
      BY <1>0 DEF HasNode
    <3> QED  BY <3>1
  <2> QED  BY <1>2, <2>1
<1>4. \A n \in 1 .. Len(ns.nodes) : at[n] \in Nat /\ HasNode(pr, q, k, at[n]) /\ at[n] \in 1 .. l
  <2> SUFFICES ASSUME NEW n \in 1 .. Len(ns.nodes) PROVE at[n] \in Nat /\ HasNode(pr, q, k, at[n]) /\ at[n] \in 1 .. l
    OBVIOUS
  <2>1. at[n] \in Nat /\ HasNode(pr, q, k, at[n])
    BY <1>1 DEF StackAt, NodesAt
  <2>2. 1 =< at[n]
    BY <1>0, <2>1 DEF HasNode
  <2> QED  BY <2>1, <2>2
<1>5. NodesAt(ns.nodes, pr, r, k, at)
  <2>1. NodesAt(ns.nodes, pr, q, k, at)
    BY <1>1 DEF StackAt
  <2>2. \A n \in 1 .. Len(ns.nodes) :
          HasNode(pr, r, k, at[n]) /\ ns.nodes[n].idx = r[at[n]] /\ ns.nodes[n].size = Size(pr, Upto(r, at[n] - 1))
    BY <1>2, <1>3, <1>4, <2>1 DEF NodesAt
  <2> QED  BY <1>3, <2>1, <2>2 DEF NodesAt
<1>6. \A n \in 1 .. Len(ns.nodes) : at[n] =< d /\ at[n] =< e
  BY <1>4
<1>7. StackAt(ns, pr, r, k, e, 0, at)
  BY <1>1, <1>5, <1>6 DEF StackAt
<1> QED  BY <1>7 DEF StackIs

\* Passing a position without a node of execution k.
LEMMA StackPass ==
  ASSUME NEW pr, NEW q \in Path, NEW k, NEW d \in Nat, NEW t, ~HasNode(pr, q, k, d + 1),
         NEW ns, StackIs(ns, pr, q, k, d, t)
  PROVE  StackIs(ns, pr, q, k, d + 1, t)
<1>1. PICK at : StackAt(ns, pr, q, k, d, t, at)
  BY DEF StackIs
<1>2. \A n \in 1 .. Len(ns.nodes) : at[n] \in Nat /\ HasNode(pr, q, k, at[n])
  BY <1>1 DEF StackAt, NodesAt
<1>3. \A n \in 1 .. Len(ns.nodes) : at[n] =< d <=> at[n] =< d + 1
  BY <1>2
<1>4. StackAt(ns, pr, q, k, d + 1, t, at)
  BY <1>1, <1>3 DEF StackAt
<1> QED  BY <1>4 DEF StackIs

\* A stack that is to be replayed loses its position to change.
LEMMA StackCurr ==
  ASSUME NEW pr, NEW q, NEW k, NEW d, NEW t, NEW ns, StackIs(ns, pr, q, k, d, t)
  PROVE  ns \in Stack /\ StackIs(ns, pr, q, k, d, 0) /\ StackIs(repeat_prev_execution(ns), pr, q, k, d, 0)
<1>1. PICK at : StackAt(ns, pr, q, k, d, t, at)
  BY DEF StackIs
<1> DEFINE r == repeat_prev_execution(ns)
<1>2. ns \in Stack
  BY <1>1 DEF StackAt
<1>3. r \in Stack /\ r.nodes = ns.nodes /\ r.head = ns.head /\ r.last = ns.last
  BY <1>2 DEF repeat_prev_execution, Stack
<1> HIDE DEF r
<1>4. StackAt(ns, pr, q, k, d, 0, at) /\ StackAt(r, pr, q, k, d, 0, at)
  BY <1>1, <1>3 DEF StackAt
<1> QED  BY <1>2, <1>4 DEF StackIs, r

\* The stack of an execution that has not started.
LEMMA StackNew ==
  ASSUME NEW pr, NEW q, NEW k, NEW d, \A i \in Nat : ~HasNode(pr, q, k, i)
  PROVE  StackIs(NewStack, pr, q, k, d, 0) /\ NewStack \in Stack /\ NewStack.curr = 0
<1> DEFINE none == << >>
<1>1. none \in Seq(NodeRecord) /\ none \in Seq(Nat) /\ Len(none) = 0
  OBVIOUS
<1>2. NewStack = [nodes |-> none, head |-> 0, last |-> 0, curr |-> 0]
  BY DEF NewStack
<1> HIDE DEF none
<1>3. NewStack \in Stack /\ NewStack.nodes = none /\ NewStack.head = 0 /\ NewStack.last = 0 /\ NewStack.curr = 0
  BY <1>1, <1>2 DEF Stack
<1>4. NodesAt(none, pr, q, k, none)
  BY <1>1 DEF NodesAt
<1>5. StackAt(NewStack, pr, q, k, d, 0, none)
  BY <1>1, <1>3, <1>4 DEF StackAt
<1> QED  BY <1>3, <1>5 DEF StackIs

-------------------------------------------------------------------------------
(* explore_next.                                                           *)

LEMMA HasMoreIs == ASSUME ~Random, NEW node PROVE has_more_choices(node) <=> More(node)
BY DEF has_more_choices, More

\* Behind the last node: a new one.
LEMMA ExploreFresh ==
  ASSUME ~Random, NEW ns \in Stack, ns.head = Len(ns.nodes), NEW size \in Nat, size > 1
  PROVE  LET r == explore_next(ns, size)
         IN  /\ r \in Stack /\ r.nodes = Append(ns.nodes, [idx |-> 0, size |-> size])
             /\ r.head = ns.head + 1 /\ r.last = ns.head + 1 /\ r.curr = ns.curr
             /\ get_choices(r) = {0}
<1> DEFINE node == [idx |-> 0, size |-> size]
           nodes == Append(ns.nodes, node)
           r == explore_next(ns, size)
           h == ns.head + 1
<1>1. ns.nodes \in Seq(NodeRecord) /\ ns.head \in Nat /\ ns.last \in Nat /\ ns.curr \in Nat /\ h \in Nat
  BY DEF Stack
<1>2. node \in NodeRecord /\ node.idx = 0 /\ node.size = size
  BY DEF NodeRecord
<1>3. nodes \in Seq(NodeRecord) /\ nodes[h] = node
  <2> HIDE DEF node
  <2> QED  BY <1>1, <1>2
<1>4. More(node)
  BY <1>2 DEF More
<1>5. r = [nodes |-> nodes, head |-> h, last |-> IF has_more_choices(nodes[h]) THEN h ELSE ns.last, curr |-> ns.curr]
  BY DEF explore_next
<1> HIDE DEF r, nodes, node, h
<1>6. has_more_choices(nodes[h])
  BY <1>3, <1>4, HasMoreIs
<1>7. r = [nodes |-> nodes, head |-> h, last |-> h, curr |-> ns.curr]
  BY <1>5, <1>6
<1>8. r \in Stack /\ r.nodes = nodes /\ r.head = h /\ r.last = h /\ r.curr = ns.curr
  BY <1>1, <1>3, <1>7 DEF Stack
<1>9. get_choices(r) = {0}
  BY <1>2, <1>3, <1>8 DEF get_choices
<1> QED  BY <1>8, <1>9 DEF r, nodes, node, h

\* The node to change: the next choice of it, and nothing behind it.
LEMMA ExploreBack ==
  ASSUME ~Random, NEW ns \in Stack, ns.head + 1 \in 1 .. Len(ns.nodes), ns.curr = ns.head + 1, NEW size
  PROVE  LET r == explore_next(ns, size)
             h == ns.head + 1
         IN  /\ r \in Stack /\ Len(r.nodes) = h
             /\ \A n \in 1 .. ns.head : r.nodes[n] = ns.nodes[n]
             /\ r.nodes[h].idx = ns.nodes[h].idx + 1 /\ r.nodes[h].size = ns.nodes[h].size
             /\ r.head = h /\ r.last = (IF More(r.nodes[h]) THEN h ELSE ns.last) /\ r.curr = 0
             /\ get_choices(r) = {ns.nodes[h].idx + 1}
<1> DEFINE h == ns.head + 1
           node == [ns.nodes[h] EXCEPT !.idx = @ + 1]
           all == [ns.nodes EXCEPT ![h] = node]
           nodes == SubSeq(all, 1, h)
           r == explore_next(ns, size)
<1>1. /\ ns.nodes \in Seq(NodeRecord) /\ ns.head \in Nat /\ ns.last \in Nat /\ h \in Nat /\ h >= 1
      /\ h =< Len(ns.nodes) /\ h \in 1 .. Len(ns.nodes) /\ Len(ns.nodes) \in Nat
  BY DEF Stack
<1>2. ns.nodes[h] \in NodeRecord
  BY <1>1
<1>3. node \in NodeRecord /\ node.idx = ns.nodes[h].idx + 1 /\ node.size = ns.nodes[h].size
  BY <1>2 DEF NodeRecord
<1>4. all = [ns.nodes EXCEPT ![h].idx = @ + 1]
  OBVIOUS
<1>5. ns.head # Len(ns.nodes)
  BY <1>1
<1>6. r = [nodes |-> nodes, head |-> h, last |-> IF has_more_choices(nodes[h]) THEN h ELSE ns.last, curr |-> 0]
  <2> HIDE DEF node
  <2> USE DEF explore_next
  <2>1. explore_next(ns, size).nodes = nodes
    BY <1>4, <1>5
  <2> QED  BY <1>4, <1>5
<1> HIDE DEF r, nodes
<1>7. all \in Seq(NodeRecord) /\ Len(all) = Len(ns.nodes) /\ all[h] = node
      /\ \A n \in 1 .. Len(ns.nodes) : n # h => all[n] = ns.nodes[n]
  <2> HIDE DEF node, h
  <2> QED  BY <1>1, <1>3
<1> HIDE DEF all, node
<1>8. nodes \in Seq(NodeRecord) /\ Len(nodes) = h /\ \A n \in 1 .. h : nodes[n] = all[n]
  <2>1. \A i \in 1 .. h : all[i] \in NodeRecord
    BY <1>1, <1>7
  <2>2. h \in Int /\ 1 \in Int /\ h - 1 + 1 = h
    BY <1>1
  <2>3. /\ SubSeq(all, 1, h) \in Seq(NodeRecord) /\ Len(SubSeq(all, 1, h)) = IF 1 =< h THEN h - 1 + 1 ELSE 0
        /\ \A i \in 1 .. h - 1 + 1 : SubSeq(all, 1, h)[i] = all[1 + i - 1]
    BY <2>1, <2>2, SubSeqProperties
  <2> HIDE DEF h
  <2> QED  BY <1>1, <2>2, <2>3 DEF nodes
<1>9. \A n \in 1 .. ns.head : n \in 1 .. h /\ n \in 1 .. Len(ns.nodes) /\ n # h
  BY <1>1
<1>10. h \in 1 .. h
  BY <1>1
<1> HIDE DEF h
<1>11. nodes[h] = node /\ \A n \in 1 .. ns.head : nodes[n] = ns.nodes[n]
  BY <1>7, <1>8, <1>9, <1>10
<1>12. has_more_choices(nodes[h]) <=> More(nodes[h])
  BY HasMoreIs
<1>13. r \in Stack /\ r.nodes = nodes /\ r.head = h /\ r.last = (IF More(nodes[h]) THEN h ELSE ns.last) /\ r.curr = 0
  BY <1>1, <1>6, <1>8, <1>12 DEF Stack
<1>14. get_choices(r) = {node.idx}
  BY <1>11, <1>13 DEF get_choices
<1> QED  BY <1>3, <1>8, <1>11, <1>13, <1>14 DEF r, h

\* A node to repeat.
LEMMA ExploreRepeat ==
  ASSUME ~Random, NEW ns \in Stack, ns.head + 1 \in 1 .. Len(ns.nodes), ns.curr # ns.head + 1, NEW size
  PROVE  LET r == explore_next(ns, size)
             h == ns.head + 1
         IN  /\ r \in Stack /\ r.nodes = ns.nodes /\ r.head = h /\ r.curr = ns.curr
             /\ r.last = IF More(ns.nodes[h]) THEN h ELSE ns.last
             /\ get_choices(r) = {ns.nodes[h].idx}
<1> DEFINE h == ns.head + 1
           r == explore_next(ns, size)
<1>1. ns.nodes \in Seq(NodeRecord) /\ ns.head \in Nat /\ ns.last \in Nat /\ ns.curr \in Nat /\ h \in Nat
  BY DEF Stack
<1>2. ns.head # Len(ns.nodes)
  BY <1>1
<1>3. r = [nodes |-> ns.nodes, head |-> h, last |-> IF has_more_choices(ns.nodes[h]) THEN h ELSE ns.last, curr |-> ns.curr]
  BY <1>2 DEF explore_next
<1> HIDE DEF r, h
<1>4. has_more_choices(ns.nodes[h]) <=> More(ns.nodes[h])
  BY HasMoreIs
<1>5. r \in Stack /\ r.nodes = ns.nodes /\ r.head = h /\ r.curr = ns.curr
      /\ r.last = IF More(ns.nodes[h]) THEN h ELSE ns.last
  BY <1>1, <1>3, <1>4 DEF Stack
<1>6. get_choices(r) = {ns.nodes[h].idx}
  BY <1>5 DEF get_choices
<1> QED  BY <1>5, <1>6 DEF r, h

\* The node after those passed is the one at the next position with a node.
LEMMA NextNode ==
  ASSUME NEW pr, NEW q \in Path, NEW k, NEW d \in Nat, NEW t, NEW ns, NEW at,
         StackAt(ns, pr, q, k, d, t, at), HasNode(pr, q, k, d + 1)
  PROVE  /\ ns.head + 1 \in 1 .. Len(ns.nodes) /\ at[ns.head + 1] = d + 1
         /\ t # 0 => (ns.curr = ns.head + 1 <=> t = d + 1)
<1>1. /\ ns \in Stack /\ ns.head =< Len(ns.nodes) /\ \A n \in 1 .. Len(ns.nodes) : n =< ns.head <=> at[n] =< d
      /\ NodesAt(ns.nodes, pr, q, k, at)
      /\ t # 0 => ns.curr \in 1 .. Len(ns.nodes) /\ at[ns.curr] = t
  BY DEF StackAt
<1>2. ns.head \in Nat /\ Len(ns.nodes) \in Nat /\ d + 1 \in Nat
  BY <1>1 DEF Stack
<1>3. \A n \in 1 .. Len(ns.nodes) : at[n] \in Nat
  BY <1>1 DEF NodesAt
<1>4. PICK n \in 1 .. Len(ns.nodes) : at[n] = d + 1
  BY <1>1, <1>2 DEF NodesAt
<1>5. \A i, j \in 1 .. Len(ns.nodes) : i < j => at[i] < at[j]
  BY <1>1 DEF NodesAt
<1>6. ~(n =< ns.head) /\ n \in Nat
  BY <1>1, <1>4
<1>7. n = ns.head + 1
  <2> SUFFICES ASSUME ns.head + 1 < n PROVE FALSE
    BY <1>2, <1>6
  <2>1. ns.head + 1 \in 1 .. Len(ns.nodes) /\ ~(ns.head + 1 =< ns.head)
    BY <1>2, <1>4
  <2>2. at[ns.head + 1] < d + 1
    BY <1>4, <1>5, <2>1
  <2>3. at[ns.head + 1] =< d
    BY <1>3, <2>1, <2>2
  <2> QED  BY <1>1, <2>1, <2>3
<1>8. ASSUME t # 0 PROVE ns.curr = n <=> t = d + 1
  <2>1. ns.curr \in 1 .. Len(ns.nodes) /\ at[ns.curr] = t
    BY <1>1, <1>8
  <2>2. ASSUME ns.curr # n PROVE t # d + 1
    <3>1. CASE ns.curr < n
      <4>1. at[ns.curr] < at[n]
        BY <1>5, <2>1, <3>1
      <4> QED  BY <1>4, <1>2, <1>3, <2>1, <4>1
    <3>2. CASE n < ns.curr
      <4>1. at[n] < at[ns.curr]
        BY <1>5, <2>1, <3>2
      <4> QED  BY <1>4, <1>2, <1>3, <2>1, <4>1
    <3> QED  BY <1>6, <2>1, <2>2, <3>1, <3>2
  <2> QED  BY <1>4, <2>1, <2>2
<1> QED  BY <1>4, <1>7, <1>8

\* A new choice at the end of the path.
LEMMA StackFresh ==
  ASSUME ~Random, NEW pr \in Programs, NEW p \in Path, Branches(pr, p), NEW k, k = Crashes(pr, p) + 1,
         NEW ns, StackIs(ns, pr, p, k, Len(p), 0)
  PROVE  LET r == explore_next(ns, Size(pr, p))
         IN  r \in Stack /\ r.curr = ns.curr /\ get_choices(r) = {0}
             /\ StackIs(r, pr, Append(p, 0), k, Len(p) + 1, 0)
<1> DEFINE size == Size(pr, p)
           r == explore_next(ns, size)
           q == Append(p, 0)
           d == Len(p)
           s == d + 1
           node == [idx |-> 0, size |-> size]
<1>1. PICK at : StackAt(ns, pr, p, k, d, 0, at)
  BY DEF StackIs
<1>2. /\ ns \in Stack /\ ns.head =< Len(ns.nodes) /\ \A n \in 1 .. Len(ns.nodes) : n =< ns.head <=> at[n] =< d
      /\ NodesAt(ns.nodes, pr, p, k, at)
  BY <1>1 DEF StackAt
<1>3. ns.nodes \in Seq(NodeRecord) /\ ns.head \in Nat /\ Len(ns.nodes) \in Nat /\ d \in Nat /\ size \in Nat /\ size > 1
  BY <1>2, OptionsIs DEF Stack, Branches, Path
<1>4. at \in Seq(Nat) /\ Len(at) = Len(ns.nodes)
      /\ \A n \in 1 .. Len(ns.nodes) : at[n] \in Nat /\ HasNode(pr, p, k, at[n]) /\ at[n] \in 1 .. d
  BY <1>2 DEF NodesAt, HasNode
<1>5. ns.head = Len(ns.nodes)
  <2>1. \A n \in 1 .. Len(ns.nodes) : n =< ns.head
    BY <1>2, <1>3, <1>4
  <2>2. CASE Len(ns.nodes) = 0
    BY <1>2, <1>3, <2>2
  <2>3. CASE Len(ns.nodes) # 0
    <3>1. Len(ns.nodes) \in 1 .. Len(ns.nodes)
      BY <1>3, <2>3
    <3> QED  BY <1>2, <1>3, <2>1, <3>1
  <2> QED  BY <2>2, <2>3
<1> HIDE DEF r, size, node
<1>6. /\ r \in Stack /\ r.nodes = Append(ns.nodes, node) /\ r.head = ns.head + 1 /\ r.last = ns.head + 1
      /\ r.curr = ns.curr /\ get_choices(r) = {0}
  BY <1>2, <1>3, <1>5, ExploreFresh DEF r, node
<1>7. node \in NodeRecord /\ node.idx = 0 /\ node.size = size
  BY <1>3 DEF NodeRecord, node
<1> DEFINE len == Len(ns.nodes) + 1
           bt == Append(at, s)
<1>8. /\ s \in Nat /\ s - 1 = d
      /\ q \in Path /\ Len(q) = s /\ q[s] = 0 /\ \A i \in 1 .. d : q[i] = p[i]
      /\ \A i \in 1 .. s : Upto(q, i - 1) = Upto(p, i - 1)
  <2>1. \A i \in 1 .. s : i - 1 \in 0 .. d
    BY <1>3
  <2>2. \A i \in 0 .. d : Upto(q, i) = Upto(p, i)
    BY UptoAppend
  <2>3. q \in Path /\ Len(q) = s /\ q[s] = 0 /\ \A i \in 1 .. d : q[i] = p[i]
    BY <1>3, AppendIs
  <2> HIDE DEF q
  <2>4. s \in Nat /\ s - 1 = d
    BY <1>3
  <2>5. \A i \in 1 .. s : Upto(q, i - 1) = Upto(p, i - 1)
    BY <2>1, <2>2
  <2> QED  BY <2>3, <2>4, <2>5
<1> HIDE DEF q
<1>9. Upto(q, s - 1) = p
  <2>1. s \in 1 .. s
    BY <1>3
  <2>2. Upto(q, s - 1) = Upto(p, d)
    BY <1>8, <2>1
  <2> QED  BY <2>2, UptoAll
<1>10. HasNode(pr, q, k, s)
  <2>1. s \in 1 .. s /\ k - 1 = Crashes(pr, p)
    BY <1>3, CrashSetIs
  <2> QED  BY <1>8, <1>9, <2>1 DEF HasNode
<1>11. \A i \in Nat : i # s => (HasNode(pr, q, k, i) <=> HasNode(pr, p, k, i))
  <2>1. \A i \in Nat : i # s /\ i \in 1 .. s => i \in 1 .. d
    BY <1>3
  <2>2. \A i \in Nat : i \in 1 .. d => i \in 1 .. s
    BY <1>3
  <2> QED  BY <1>8, <2>1, <2>2 DEF HasNode
<1>12. /\ len \in Nat /\ r.nodes \in Seq(NodeRecord) /\ Len(r.nodes) = len /\ r.nodes[len] = node
       /\ \A n \in 1 .. Len(ns.nodes) : r.nodes[n] = ns.nodes[n]
  <2>1. len \in Nat
    BY <1>3
  <2>2. Append(ns.nodes, node) \in Seq(NodeRecord) /\ Len(Append(ns.nodes, node)) = len
        /\ Append(ns.nodes, node)[len] = node /\ \A n \in 1 .. Len(ns.nodes) : Append(ns.nodes, node)[n] = ns.nodes[n]
    BY <1>3, <1>7
  <2> QED  BY <1>6, <2>1, <2>2
<1>13. /\ bt \in Seq(Nat) /\ Len(bt) = len /\ bt[len] = s /\ \A n \in 1 .. Len(ns.nodes) : bt[n] = at[n]
  BY <1>4, <1>8
<1>14. \A n \in 1 .. len : n = len \/ n \in 1 .. Len(ns.nodes)
  BY <1>3
<1>15. \A n \in 1 .. Len(ns.nodes) : at[n] # s /\ at[n] =< s /\ at[n] < s /\ n < len /\ n \in 1 .. len
  BY <1>3, <1>4
<1>16. len \in 1 .. len /\ len = ns.head + 1
  BY <1>3, <1>5
<1> HIDE DEF bt, s, d, len
<1>17. NodesAt(r.nodes, pr, q, k, bt)
  <2>1. ASSUME NEW n \in 1 .. Len(r.nodes)
        PROVE HasNode(pr, q, k, bt[n]) /\ r.nodes[n].idx = q[bt[n]] /\ r.nodes[n].size = Size(pr, Upto(q, bt[n] - 1))
    <3>1. CASE n = len
      BY <1>7, <1>8, <1>9, <1>10, <1>12, <1>13, <3>1 DEF size
    <3>2. CASE n \in 1 .. Len(ns.nodes)
      <4>1. HasNode(pr, q, k, at[n])
        BY <1>4, <1>11, <1>15, <3>2
      <4>2. q[at[n]] = p[at[n]] /\ Upto(q, at[n] - 1) = Upto(p, at[n] - 1)
        <5>1. at[n] \in 1 .. d /\ at[n] \in 1 .. s
          BY <1>4, <1>15, <1>8, <3>2
        <5> QED  BY <1>8, <5>1
      <4>3. ns.nodes[n].idx = p[at[n]] /\ ns.nodes[n].size = Size(pr, Upto(p, at[n] - 1))
        BY <1>2, <3>2 DEF NodesAt
      <4> QED  BY <1>12, <1>13, <3>2, <4>1, <4>2, <4>3
    <3> QED  BY <1>12, <1>14, <3>1, <3>2
  <2>2. ASSUME NEW m \in 1 .. Len(r.nodes), NEW n \in 1 .. Len(r.nodes), m < n PROVE bt[m] < bt[n]
    <3>1. m \in 1 .. Len(ns.nodes)
      BY <1>12, <1>14, <2>2
    <3>2. CASE n = len
      BY <1>13, <1>15, <3>1, <3>2
    <3>3. CASE n \in 1 .. Len(ns.nodes)
      <4>1. at[m] < at[n]
        BY <1>2, <2>2, <3>1, <3>3 DEF NodesAt
      <4> QED  BY <1>13, <3>1, <3>3, <4>1
    <3> QED  BY <1>12, <1>14, <3>2, <3>3
  <2>3. ASSUME NEW i \in Nat, HasNode(pr, q, k, i) PROVE \E n \in 1 .. Len(r.nodes) : bt[n] = i
    <3>1. CASE i = s
      BY <1>12, <1>13, <1>16, <3>1
    <3>2. CASE i # s
      <4>1. PICK n \in 1 .. Len(ns.nodes) : at[n] = i
        BY <1>2, <1>11, <2>3, <3>2 DEF NodesAt
      <4> QED  BY <1>12, <1>13, <1>15, <4>1
    <3> QED  BY <3>1, <3>2
  <2> QED  BY <1>12, <1>13, <2>1, <2>2, <2>3 DEF NodesAt
<1>18. StackAt(r, pr, q, k, s, 0, bt)
  <2>1. r.head = len /\ r.last = len
    BY <1>6, <1>16
  <2>2. \A n \in 1 .. Len(r.nodes) : n =< r.head /\ bt[n] =< s
    <3>1. \A n \in 1 .. len : n =< len
      BY <1>12
    <3>2. s =< s
      BY <1>8
    <3> QED  BY <1>12, <1>13, <1>14, <1>15, <2>1, <3>1, <3>2
  <2>3. More(r.nodes[len])
    BY <1>3, <1>7, <1>12 DEF More
  <2>4. \A n \in 1 .. len : ~(len < n)
    BY <1>12
  <2>5. len =< len
    BY <1>12
  <2> QED  BY <1>6, <1>12, <1>17, <2>1, <2>2, <2>3, <2>4, <2>5 DEF StackAt
<1>19. StackIs(r, pr, q, k, s, 0)
  BY <1>18 DEF StackIs
<1> QED  BY <1>6, <1>19 DEF r, q, s, d, size

\* A choice made as in the run before.
LEMMA StackRepeat ==
  ASSUME ~Random, NEW pr, NEW q \in Path, NEW k, NEW d \in Nat, NEW t, HasNode(pr, q, k, d + 1),
         NEW ns, StackIs(ns, pr, q, k, d, t), NEW size, ns.curr = 0 \/ (t # 0 /\ t # d + 1)
  PROVE  LET r == explore_next(ns, size)
         IN  r \in Stack /\ r.curr = ns.curr /\ get_choices(r) = {q[d + 1]} /\ StackIs(r, pr, q, k, d + 1, t)
<1> DEFINE r == explore_next(ns, size)
           h == ns.head + 1
<1>1. PICK at : StackAt(ns, pr, q, k, d, t, at)
  BY DEF StackIs
<1>2. /\ ns \in Stack /\ ns.head =< Len(ns.nodes) /\ \A n \in 1 .. Len(ns.nodes) : n =< ns.head <=> at[n] =< d
      /\ ns.last =< ns.head /\ (ns.last # 0 => More(ns.nodes[ns.last]))
      /\ \A n \in 1 .. ns.head : ns.last < n => ~More(ns.nodes[n])
      /\ NodesAt(ns.nodes, pr, q, k, at)
      /\ t # 0 => ns.curr \in 1 .. Len(ns.nodes) /\ at[ns.curr] = t
  BY <1>1 DEF StackAt
<1>3. ns.head \in Nat /\ Len(ns.nodes) \in Nat /\ ns.last \in Nat /\ h \in Nat /\ d + 1 \in Nat
  BY <1>2 DEF Stack
<1>4. h \in 1 .. Len(ns.nodes) /\ at[h] = d + 1 /\ ns.curr # h
  <2>1. h \in 1 .. Len(ns.nodes) /\ at[h] = d + 1
    BY <1>1, NextNode
  <2>2. t # 0 => (ns.curr = h <=> t = d + 1)
    BY <1>1, NextNode
  <2> QED  BY <1>3, <2>1, <2>2
<1>5. /\ r \in Stack /\ r.nodes = ns.nodes /\ r.head = h /\ r.curr = ns.curr
      /\ r.last = IF More(ns.nodes[h]) THEN h ELSE ns.last
      /\ get_choices(r) = {ns.nodes[h].idx}
  BY <1>2, <1>4, ExploreRepeat
<1> HIDE DEF r
<1>6. get_choices(r) = {q[d + 1]}
  <2>1. ns.nodes[h].idx = q[at[h]]
    BY <1>2, <1>4 DEF NodesAt
  <2> QED  BY <1>4, <1>5, <2>1
<1>7. \A n \in 1 .. Len(ns.nodes) : n =< h <=> at[n] =< d + 1
  <2> SUFFICES ASSUME NEW n \in 1 .. Len(ns.nodes) PROVE n =< h <=> at[n] =< d + 1
    OBVIOUS
  <2>1. at[n] \in Nat /\ n \in Nat
    BY <1>2 DEF NodesAt
  <2>2. CASE n = h
    BY <1>3, <1>4, <2>2
  <2>3. CASE n < h
    <3>1. n =< ns.head
      BY <1>3, <2>1, <2>3
    <3>2. at[n] =< d
      BY <1>2, <3>1
    <3> QED  BY <1>3, <2>1, <2>3, <3>2
  <2>4. CASE h < n
    <3>1. at[h] < at[n]
      BY <1>2, <1>4, <2>4 DEF NodesAt
    <3> QED  BY <1>3, <1>4, <2>1, <2>4, <3>1
  <2> QED  BY <1>3, <2>1, <2>2, <2>3, <2>4
<1>8. \A n \in 1 .. h : n = h \/ n \in 1 .. ns.head
  BY <1>3
<1> HIDE DEF h
<1>9. /\ r.last =< h /\ (r.last # 0 => More(ns.nodes[r.last]))
      /\ \A n \in 1 .. h : r.last < n => ~More(ns.nodes[n])
  <2>1. CASE More(ns.nodes[h])
    <3>1. r.last = h
      BY <1>5, <2>1
    <3>2. \A n \in 1 .. h : ~(h < n)
      BY <1>3
    <3> QED  BY <1>3, <2>1, <3>1, <3>2
  <2>2. CASE ~More(ns.nodes[h])
    <3>1. r.last = ns.last /\ ns.last =< h
      BY <1>2, <1>3, <1>5, <2>2 DEF h
    <3> QED  BY <1>2, <1>8, <2>2, <3>1
  <2> QED  BY <2>1, <2>2
<1>10. h =< Len(ns.nodes)
  BY <1>3, <1>4
<1>11. StackAt(r, pr, q, k, d + 1, t, at)
  BY <1>2, <1>5, <1>7, <1>9, <1>10 DEF StackAt
<1>12. StackIs(r, pr, q, k, d + 1, t)
  BY <1>11 DEF StackIs
<1> QED  BY <1>5, <1>6, <1>12 DEF r

\* The choice that changes: nothing is known of what is behind it.
LEMMA StackTurn ==
  ASSUME ~Random, NEW pr \in Programs, NEW q \in Path, NEW k, NEW t \in 1 .. Len(q), HasNode(pr, q, k, t),
         NEW ns, StackIs(ns, pr, q, k, t - 1, t), NEW size
  PROVE  LET r == explore_next(ns, size)
         IN  r \in Stack /\ r.curr = 0 /\ get_choices(r) = {q[t] + 1} /\ StackIs(r, pr, Turned(q, t), k, t, 0)
<1> DEFINE r == explore_next(ns, size)
           h == ns.head + 1
           d == t - 1
           u == Turned(q, t)
<1>0. t \in Nat /\ d \in Nat /\ d + 1 = t /\ t # 0 /\ Len(q) \in Nat /\ t =< Len(q)
  BY DEF Path
<1>1. PICK at : StackAt(ns, pr, q, k, d, t, at)
  BY DEF StackIs
<1>2. /\ ns \in Stack /\ ns.head =< Len(ns.nodes) /\ \A n \in 1 .. Len(ns.nodes) : n =< ns.head <=> at[n] =< d
      /\ ns.last =< ns.head /\ (ns.last # 0 => More(ns.nodes[ns.last]))
      /\ \A n \in 1 .. ns.head : ns.last < n => ~More(ns.nodes[n])
      /\ NodesAt(ns.nodes, pr, q, k, at)
  BY <1>1 DEF StackAt
<1>3. ns.head \in Nat /\ Len(ns.nodes) \in Nat /\ ns.last \in Nat /\ h \in Nat
  BY <1>2 DEF Stack
<1> HIDE DEF d
<1>4. h \in 1 .. Len(ns.nodes) /\ at[h] = t /\ ns.curr = h
  <2>1. h \in 1 .. Len(ns.nodes) /\ at[h] = d + 1 /\ (t # 0 => (ns.curr = h <=> t = d + 1))
    BY <1>0, <1>1, NextNode
  <2> QED  BY <1>0, <2>1
<1>5. /\ r \in Stack /\ Len(r.nodes) = h
      /\ \A n \in 1 .. ns.head : r.nodes[n] = ns.nodes[n]
      /\ r.nodes[h].idx = ns.nodes[h].idx + 1 /\ r.nodes[h].size = ns.nodes[h].size
      /\ r.head = h /\ r.last = (IF More(r.nodes[h]) THEN h ELSE ns.last) /\ r.curr = 0
      /\ get_choices(r) = {ns.nodes[h].idx + 1}
  BY <1>2, <1>4, ExploreBack
<1> HIDE DEF r
<1>6. ns.nodes[h].idx = q[t] /\ ns.nodes[h].size = Size(pr, Upto(q, t - 1))
  BY <1>2, <1>4 DEF NodesAt
<1>7. /\ u \in Path /\ Len(u) = t /\ u[t] = q[t] + 1 /\ \A i \in 1 .. (t - 1) : u[i] = q[i]
  BY TurnedIs DEF Agree
<1> HIDE DEF u
<1>8. \A i \in 1 .. t : Upto(u, i - 1) = Upto(q, i - 1)
  <2> SUFFICES ASSUME NEW i \in 1 .. t PROVE Upto(u, i - 1) = Upto(q, i - 1)
    OBVIOUS
  <2>1. i - 1 \in Nat /\ i - 1 =< Len(u) /\ i - 1 =< Len(q) /\ \A j \in 1 .. (i - 1) : j \in 1 .. (t - 1)
    BY <1>0, <1>7
  <2> QED  BY <1>7, <2>1, UptoSame
<1>9. \A i \in Nat : HasNode(pr, u, k, i) <=> i =< t /\ HasNode(pr, q, k, i)
  <2>1. \A i \in Nat : i \in 1 .. Len(u) <=> i =< t /\ i \in 1 .. Len(q)
    BY <1>0, <1>7
  <2> QED  BY <1>7, <1>8, <2>1 DEF HasNode
<1> DEFINE bt == SubSeq(at, 1, h)
<1>10. bt \in Seq(Nat) /\ Len(bt) = h /\ \A n \in 1 .. h : bt[n] = at[n] /\ at[n] \in Nat
  <2>1. at \in Seq(Nat) /\ Len(at) = Len(ns.nodes)
    BY <1>2 DEF NodesAt
  <2>2. \A i \in 1 .. h : at[i] \in Nat
    BY <1>3, <1>4, <2>1
  <2>3. h \in Int /\ 1 \in Int /\ h - 1 + 1 = h
    BY <1>3
  <2>4. /\ SubSeq(at, 1, h) \in Seq(Nat) /\ Len(SubSeq(at, 1, h)) = IF 1 =< h THEN h - 1 + 1 ELSE 0
        /\ \A i \in 1 .. h - 1 + 1 : SubSeq(at, 1, h)[i] = at[1 + i - 1]
    BY <2>2, <2>3, SubSeqProperties
  <2> HIDE DEF h
  <2> QED  BY <1>3, <1>4, <2>2, <2>3, <2>4
<1>11. \A n \in 1 .. h : n \in 1 .. Len(ns.nodes) /\ (n = h \/ n \in 1 .. ns.head) /\ n =< h
  BY <1>3, <1>4
<1>12. h \in 1 .. h /\ h =< h /\ ns.last =< h
  BY <1>2, <1>3
<1> HIDE DEF bt, h
<1>13. \A n \in 1 .. h : at[n] =< t
  <2> SUFFICES ASSUME NEW n \in 1 .. h PROVE at[n] =< t
    OBVIOUS
  <2>1. CASE n = h
    BY <1>0, <1>4, <2>1
  <2>2. CASE n # h
    <3>1. n < h
      BY <1>3, <1>11, <2>2
    <3>2. at[n] < at[h]
      BY <1>2, <1>4, <1>11, <3>1 DEF NodesAt
    <3> QED  BY <1>0, <1>4, <1>10, <3>2
  <2> QED  BY <2>1, <2>2
<1>14. \A n \in 1 .. Len(ns.nodes) : at[n] =< t => n \in 1 .. h
  <2> SUFFICES ASSUME NEW n \in 1 .. Len(ns.nodes), h < n, at[n] =< t PROVE FALSE
    BY <1>3
  <2>1. at[h] < at[n]
    BY <1>2, <1>4 DEF NodesAt
  <2>2. at[n] \in Nat
    BY <1>2 DEF NodesAt
  <2> QED  BY <1>0, <1>4, <2>1, <2>2
<1>15. NodesAt(r.nodes, pr, u, k, bt)
  <2>0. r.nodes \in Seq(NodeRecord)
    BY <1>5 DEF Stack
  <2>1. ASSUME NEW n \in 1 .. h
        PROVE HasNode(pr, u, k, bt[n]) /\ r.nodes[n].idx = u[bt[n]] /\ r.nodes[n].size = Size(pr, Upto(u, bt[n] - 1))
    <3>1. HasNode(pr, u, k, bt[n]) /\ HasNode(pr, q, k, at[n]) /\ bt[n] = at[n] /\ at[n] \in Nat
      BY <1>2, <1>9, <1>10, <1>11, <1>13 DEF NodesAt
    <3>2. at[n] \in 1 .. t
      <4>1. 1 =< at[n]
        BY <1>0, <3>1 DEF HasNode
      <4> QED  BY <1>0, <1>13, <3>1, <4>1
    <3>3. Upto(u, at[n] - 1) = Upto(q, at[n] - 1)
      BY <1>8, <3>2
    <3>4. CASE n = h
      BY <1>4, <1>5, <1>6, <1>7, <3>1, <3>3, <3>4
    <3>5. CASE n # h
      <4>1. n \in 1 .. ns.head /\ n < h
        BY <1>3, <1>11, <3>5
      <4>2. at[n] < at[h]
        BY <1>2, <1>4, <1>11, <4>1 DEF NodesAt
      <4>3. at[n] \in 1 .. (t - 1)
        BY <1>0, <1>4, <3>2, <4>2
      <4>4. r.nodes[n] = ns.nodes[n] /\ u[at[n]] = q[at[n]]
        BY <1>5, <1>7, <4>1, <4>3
      <4>5. ns.nodes[n].idx = q[at[n]] /\ ns.nodes[n].size = Size(pr, Upto(q, at[n] - 1))
        BY <1>2, <1>11 DEF NodesAt
      <4> QED  BY <3>1, <3>3, <4>4, <4>5
    <3> QED  BY <3>4, <3>5
  <2>2. ASSUME NEW m \in 1 .. h, NEW n \in 1 .. h, m < n PROVE bt[m] < bt[n]
    BY <1>2, <1>10, <1>11, <2>2 DEF NodesAt
  <2>3. ASSUME NEW i \in Nat, HasNode(pr, u, k, i) PROVE \E n \in 1 .. h : bt[n] = i
    <3>1. i =< t /\ HasNode(pr, q, k, i)
      BY <1>9, <2>3
    <3>2. PICK n \in 1 .. Len(ns.nodes) : at[n] = i
      BY <1>2, <3>1 DEF NodesAt
    <3>3. n \in 1 .. h
      BY <1>14, <3>1, <3>2
    <3> QED  BY <1>10, <3>2, <3>3
  <2> QED  BY <1>5, <1>10, <2>0, <2>1, <2>2, <2>3 DEF NodesAt
<1>16. /\ r.last =< h /\ (r.last # 0 => More(r.nodes[r.last]))
       /\ \A n \in 1 .. h : r.last < n => ~More(r.nodes[n])
  <2>1. CASE More(r.nodes[h])
    <3>1. r.last = h
      BY <1>5, <2>1
    <3>2. \A n \in 1 .. h : ~(h < n)
      BY <1>3, <1>11
    <3> QED  BY <1>12, <2>1, <3>1, <3>2
  <2>2. CASE ~More(r.nodes[h])
    <3>1. r.last = ns.last
      BY <1>5, <2>2
    <3>2. ASSUME ns.last # 0 PROVE More(r.nodes[ns.last])
      <4>1. ns.last \in 1 .. ns.head
        BY <1>2, <1>3, <3>2
      <4> QED  BY <1>2, <1>5, <3>2, <4>1
    <3>3. ASSUME NEW n \in 1 .. h, ns.last < n PROVE ~More(r.nodes[n])
      <4>1. CASE n = h
        BY <2>2, <4>1
      <4>2. CASE n \in 1 .. ns.head
        BY <1>2, <1>5, <3>3, <4>2
      <4> QED  BY <1>11, <4>1, <4>2
    <3> QED  BY <1>12, <3>1, <3>2, <3>3
  <2> QED  BY <2>1, <2>2
<1>17. StackAt(r, pr, u, k, t, 0, bt)
  BY <1>5, <1>10, <1>11, <1>12, <1>13, <1>15, <1>16 DEF StackAt
<1>18. StackIs(r, pr, u, k, t, 0)
  BY <1>17 DEF StackIs
<1>19. get_choices(r) = {q[t] + 1}
  BY <1>5, <1>6
<1> QED  BY <1>5, <1>18, <1>19 DEF r, u

\* A choice is left at position i of q.
MoreAt(pr, q, i) == q[i] + 1 < Size(pr, Upto(q, i - 1))

\* The last of the positions of execution k at which a choice is left.
IsTurn(pr, q, k, t) ==
  /\ t \in Nat /\ HasNode(pr, q, k, t) /\ MoreAt(pr, q, t)
  /\ \A i \in Nat : HasNode(pr, q, k, i) /\ t < i => ~MoreAt(pr, q, i)

LEMMA StackReset ==
  ASSUME NEW pr, NEW q \in Path, NEW k, NEW ns, StackIs(ns, pr, q, k, Len(q), 0)
  PROVE  LET r == reset_execution(ns)
         IN  /\ r \in Stack /\ StackIs(r, pr, q, k, 0, 0)
             /\ has_another_execution(ns) => \E t : IsTurn(pr, q, k, t) /\ StackIs(r, pr, q, k, 0, t)
             /\ ~has_another_execution(ns) => \A i \in Nat : HasNode(pr, q, k, i) => ~MoreAt(pr, q, i)
<1> DEFINE r == reset_execution(ns)
           len == Len(ns.nodes)
<1>1. PICK at : StackAt(ns, pr, q, k, Len(q), 0, at)
  BY DEF StackIs
<1>2. /\ ns \in Stack /\ ns.head =< len /\ \A n \in 1 .. len : n =< ns.head <=> at[n] =< Len(q)
      /\ ns.last =< ns.head /\ (ns.last # 0 => More(ns.nodes[ns.last]))
      /\ \A n \in 1 .. ns.head : ns.last < n => ~More(ns.nodes[n])
      /\ NodesAt(ns.nodes, pr, q, k, at)
  BY <1>1 DEF StackAt
<1>3. ns.head \in Nat /\ len \in Nat /\ ns.last \in Nat /\ ns.nodes \in Seq(NodeRecord) /\ Len(q) \in Nat
  BY <1>2 DEF Stack, Path
<1>4. r \in Stack /\ r.nodes = ns.nodes /\ r.head = 0 /\ r.last = 0 /\ r.curr = ns.last
  BY <1>2 DEF reset_execution, Stack
<1> HIDE DEF r
<1>5. \A n \in 1 .. len :
        /\ at[n] \in Nat /\ at[n] \in 1 .. Len(q) /\ HasNode(pr, q, k, at[n])
        /\ More(ns.nodes[n]) <=> MoreAt(pr, q, at[n])
  <2> SUFFICES ASSUME NEW n \in 1 .. len
               PROVE  /\ at[n] \in Nat /\ at[n] \in 1 .. Len(q) /\ HasNode(pr, q, k, at[n])
                      /\ More(ns.nodes[n]) <=> MoreAt(pr, q, at[n])
    OBVIOUS
  <2>1. /\ at[n] \in Nat /\ HasNode(pr, q, k, at[n])
        /\ ns.nodes[n].idx = q[at[n]] /\ ns.nodes[n].size = Size(pr, Upto(q, at[n] - 1))
    BY <1>2 DEF NodesAt
  <2>2. at[n] \in 1 .. Len(q)
    BY <2>1 DEF HasNode
  <2>3. More(ns.nodes[n]) <=> MoreAt(pr, q, at[n])
    BY <2>1 DEF More, MoreAt
  <2> QED  BY <2>1, <2>2, <2>3
<1>6. \A n \in 1 .. len : at[n] =< Len(q) /\ n =< ns.head /\ n \in 1 .. ns.head
  <2>1. \A n \in 1 .. len : at[n] =< Len(q)
    BY <1>5
  <2> QED  BY <1>2, <1>3, <2>1
<1>7. ASSUME NEW t, t # 0 => ns.last \in 1 .. len /\ at[ns.last] = t
      PROVE  StackIs(r, pr, q, k, 0, t)
  <2>1. \A n \in 1 .. len : ~(n =< 0) /\ ~(at[n] =< 0)
    BY <1>5
  <2>2. \A n \in 1 .. 0 : FALSE
    OBVIOUS
  <2>3. StackAt(r, pr, q, k, 0, t, at)
    BY <1>2, <1>3, <1>4, <1>7, <2>1, <2>2 DEF StackAt
  <2> QED  BY <2>3 DEF StackIs
<1>8. StackIs(r, pr, q, k, 0, 0)
  BY <1>7
<1>9. ASSUME ns.last # 0 PROVE \E t : IsTurn(pr, q, k, t) /\ StackIs(r, pr, q, k, 0, t)
  <2>1. ns.last \in 1 .. len
    BY <1>2, <1>3, <1>9
  <2>2. PICK t \in Nat : t = at[ns.last]
    BY <1>5, <2>1
  <2>3. HasNode(pr, q, k, t) /\ MoreAt(pr, q, t)
    BY <1>2, <1>5, <1>9, <2>1, <2>2
  <2>4. ASSUME NEW i \in Nat, HasNode(pr, q, k, i), t < i PROVE ~MoreAt(pr, q, i)
    <3>1. PICK n \in 1 .. len : at[n] = i
      BY <1>2, <2>4 DEF NodesAt
    <3>2. ns.last < n
      <4> SUFFICES ASSUME ~(ns.last < n) PROVE FALSE
        OBVIOUS
      <4>1. CASE n = ns.last
        BY <2>2, <2>4, <3>1, <4>1
      <4>2. CASE n < ns.last
        <5>1. at[n] < at[ns.last]
          BY <1>2, <2>1, <3>1, <4>2 DEF NodesAt
        <5> QED  BY <2>2, <2>4, <3>1, <5>1
      <4> QED  BY <1>3, <3>1, <4>1, <4>2
    <3>3. ~More(ns.nodes[n])
      BY <1>2, <1>6, <3>1, <3>2
    <3> QED  BY <1>5, <3>1, <3>3
  <2>5. StackIs(r, pr, q, k, 0, t)
    BY <1>7, <2>1, <2>2
  <2> QED  BY <2>3, <2>4, <2>5 DEF IsTurn
<1>10. ASSUME ns.last = 0 PROVE \A i \in Nat : HasNode(pr, q, k, i) => ~MoreAt(pr, q, i)
  <2> SUFFICES ASSUME NEW i \in Nat, HasNode(pr, q, k, i) PROVE ~MoreAt(pr, q, i)
    OBVIOUS
  <2>1. PICK n \in 1 .. len : at[n] = i
    BY <1>2 DEF NodesAt
  <2>2. n \in 1 .. ns.head /\ ns.last < n
    BY <1>3, <1>6, <1>10, <2>1
  <2> QED  BY <1>2, <1>5, <2>1, <2>2
<1> QED  BY <1>4, <1>8, <1>9, <1>10 DEF has_another_execution, r

-------------------------------------------------------------------------------
(* The stacks of all executions: those that crashed before, the running    *)
(* one, and those to be replayed.                                          *)

ChainLen(prev, rep) == Len(prev) + 1 + Len(rep)

Chain(prev, ns, rep, k) ==
  IF k =< Len(prev) THEN prev[k]
  ELSE IF k = Len(prev) + 1 THEN ns
  ELSE rep[k - (Len(prev) + 1)]

TurnOf(prev, rep, k, t) == IF k = ChainLen(prev, rep) THEN t ELSE 0

\* They describe q, passed up to d, with the choice at t to change.
Fits(pr, q, d, t, prev, ns, rep) ==
  \A k \in 1 .. ChainLen(prev, rep) : StackIs(Chain(prev, ns, rep, k), pr, q, k, d, TurnOf(prev, rep, k, t))

\* Where no run has been: the stacks describe the path itself.
AtEnd(pr, p, prev, ns, rep, e) ==
  /\ rep = <<>> /\ ns.curr = 0 /\ e = Earlier(pr, p)
  /\ Fits(pr, p, Len(p), 0, prev, ns, rep)

\* On the way to the choice that is to change, at t, of q where the last run ended.
Replaying(pr, p, prev, ns, rep, e, q, t) ==
  /\ IsLeaf(pr, q) /\ t \in 1 .. Len(q) /\ Len(p) < t /\ p = Upto(q, Len(p))
  /\ Branches(pr, Upto(q, t - 1)) /\ MoreAt(pr, q, t) /\ AllTaken(pr, q, t)
  /\ e = EarlierOr(pr, q)
  /\ ChainLen(prev, rep) = Crashes(pr, Upto(q, t - 1)) + 1
  /\ rep # <<>> => ns.curr = 0
  /\ Fits(pr, q, Len(p), t, prev, ns, rep)

Backtracking(pr, p, prev, ns, rep, e) ==
  /\ p \in Path /\ Reachable(pr, p)
  /\ prev \in Seq(Stack) /\ ns \in Stack /\ rep \in Seq(Stack)
  /\ AtEnd(pr, p, prev, ns, rep, e) \/ \E q, t : Replaying(pr, p, prev, ns, rep, e, q, t)

LEMMA ChainIs ==
  ASSUME NEW prev \in Seq(Stack), NEW ns \in Stack, NEW rep \in Seq(Stack)
  PROVE  LET m == Len(prev) + 1
         IN  /\ Len(prev) \in Nat /\ m \in Nat /\ Len(rep) \in Nat /\ ChainLen(prev, rep) = m + Len(rep)
             /\ ChainLen(prev, rep) \in Nat /\ m \in 1 .. ChainLen(prev, rep)
             /\ Chain(prev, ns, rep, m) = ns
             /\ \A k \in 1 .. Len(prev) : Chain(prev, ns, rep, k) = prev[k]
             /\ \A k \in (m + 1) .. ChainLen(prev, rep) : Chain(prev, ns, rep, k) = rep[k - m] /\ k - m \in 1 .. Len(rep)
             /\ rep = <<>> <=> Len(rep) = 0
<1>1. Len(prev) \in Nat /\ Len(rep) \in Nat
  OBVIOUS
<1>2. rep = <<>> <=> Len(rep) = 0
  OBVIOUS
<1> QED  BY <1>1, <1>2 DEF ChainLen, Chain

LEMMA HasNodeNext ==
  ASSUME NEW pr, NEW q \in Path, NEW d \in Nat, d + 1 \in 1 .. Len(q), NEW k \in Nat
  PROVE  HasNode(pr, q, k, d + 1) <=> Branches(pr, Upto(q, d)) /\ k = Crashes(pr, Upto(q, d)) + 1
<1>1. d \in 0 .. Len(q) /\ (d + 1) - 1 = d
  BY DEF Path
<1>2. Crashes(pr, Upto(q, d)) \in Nat
  BY <1>1, UptoIs, CrashSetIs
<1>3. (Crashes(pr, Upto(q, d)) = k - 1) <=> k = Crashes(pr, Upto(q, d)) + 1
  BY <1>2
<1> QED  BY <1>1, <1>3 DEF HasNode

\* A stack stays right for the path with one more choice, if that is not its own.
LEMMA StackEnd ==
  ASSUME NEW pr, NEW p \in Path, NEW c \in Nat, NEW k \in Nat, ~(Branches(pr, p) /\ k = Crashes(pr, p) + 1),
         NEW ns, StackIs(ns, pr, p, k, Len(p), 0)
  PROVE  StackIs(ns, pr, Append(p, c), k, Len(p) + 1, 0)
<1> DEFINE q == Append(p, c)
           d == Len(p)
<1>1. d \in Nat /\ q \in Path /\ Len(q) = d + 1 /\ \A i \in 1 .. d : p[i] = q[i]
  BY AppendIs
<1>2. Upto(q, d) = p
  <2>1. d \in 0 .. d
    BY <1>1
  <2> HIDE DEF d
  <2>2. Upto(Append(p, c), d) = Upto(p, d)
    BY <2>1, UptoAppend DEF d
  <2> QED  BY <2>2, UptoAll DEF d
<1> HIDE DEF q
<1>3. ~HasNode(pr, q, k, d + 1)
  <2>1. d + 1 \in 1 .. Len(q)
    BY <1>1
  <2> QED  BY <1>1, <1>2, <2>1, HasNodeNext
<1>4. \A i \in Nat : HasNode(pr, p, k, i) \/ HasNode(pr, q, k, i) => i =< d
  <2> SUFFICES ASSUME NEW i \in Nat, HasNode(pr, p, k, i) \/ HasNode(pr, q, k, i) PROVE i =< d
    OBVIOUS
  <2>1. CASE HasNode(pr, p, k, i)
    BY <1>1, <2>1 DEF HasNode
  <2>2. CASE HasNode(pr, q, k, i)
    <3>1. i \in 1 .. (d + 1)
      BY <1>1, <2>2 DEF HasNode
    <3>2. i # d + 1
      BY <1>3, <2>2
    <3> QED  BY <1>1, <3>1, <3>2
  <2> QED  BY <2>1, <2>2
<1>5. d =< Len(p) /\ d =< Len(q) /\ Agree(p, q, d) /\ d + 1 \in Nat /\ d =< d /\ d =< d + 1
  BY <1>1 DEF Agree
<1> HIDE DEF d
<1>6. StackIs(ns, pr, p, k, d, 0)
  BY DEF d
<1>7. StackIs(ns, pr, q, k, d + 1, 0)
  BY <1>1, <1>4, <1>5, <1>6, StackSwitch
<1> QED  BY <1>7 DEF q, d

\* A stack of an earlier execution stays right when a later one takes its turn.
LEMMA StackBefore ==
  ASSUME NEW pr, NEW q \in Path, NEW t \in 1 .. Len(q), NEW k \in Nat, k =< Crashes(pr, Upto(q, t - 1)),
         NEW ns, StackIs(ns, pr, q, k, t - 1, 0)
  PROVE  StackIs(ns, pr, Turned(q, t), k, t, 0)
<1> DEFINE r == Turned(q, t)
           l == t - 1
<1>1. /\ t \in Nat /\ l \in Nat /\ l \in 0 .. Len(q) /\ Len(q) \in Nat /\ l + 1 = t
      /\ r \in Path /\ Len(r) = t /\ Agree(r, q, l) /\ Upto(q, l) \in Path
  <2>1. Len(q) \in Nat
    BY DEF Path
  <2> QED  BY <2>1, TurnedIs
<1> HIDE DEF r, l
<1>2. l =< Len(q) /\ l =< Len(r) /\ Agree(q, r, l) /\ l =< l /\ l =< t /\ l \in 0 .. Len(r)
  BY <1>1 DEF Agree
<1>3. Upto(r, l) = Upto(q, l)
  BY <1>1, <1>2, UptoSame DEF Agree
<1>4. Crashes(pr, Upto(q, l)) \in Nat /\ k =< Crashes(pr, Upto(q, l))
  BY <1>1, CrashSetIs DEF l
<1>5. \A i \in Nat : HasNode(pr, q, k, i) \/ HasNode(pr, r, k, i) => i =< l
  <2> SUFFICES ASSUME NEW i \in Nat, l < i, HasNode(pr, q, k, i) \/ HasNode(pr, r, k, i) PROVE FALSE
    BY <1>1
  <2>1. CASE HasNode(pr, q, k, i)
    <3>1. i - 1 \in 0 .. Len(q) /\ l \in 0 .. (i - 1)
      BY <1>1, <2>1 DEF HasNode
    <3>2. Crashes(pr, Upto(q, l)) =< Crashes(pr, Upto(q, i - 1))
      BY <3>1, CrashesGrow
    <3>3. Crashes(pr, Upto(q, i - 1)) = k - 1
      BY <2>1 DEF HasNode
    <3> QED  BY <1>4, <3>2, <3>3
  <2>2. CASE HasNode(pr, r, k, i)
    <3>1. i - 1 \in 0 .. Len(r) /\ l \in 0 .. (i - 1)
      BY <1>1, <2>2 DEF HasNode
    <3>2. Crashes(pr, Upto(r, l)) =< Crashes(pr, Upto(r, i - 1))
      BY <1>1, <3>1, CrashesGrow
    <3>3. Crashes(pr, Upto(r, i - 1)) = k - 1
      BY <2>2 DEF HasNode
    <3> QED  BY <1>3, <1>4, <3>2, <3>3
  <2> QED  BY <2>1, <2>2
<1>6. StackIs(ns, pr, q, k, l, 0)
  BY DEF l
<1>7. StackIs(ns, pr, r, k, t, 0)
  BY <1>1, <1>2, <1>5, <1>6, StackSwitch
<1> QED  BY <1>7 DEF r

\* The path and one more choice of q, before the one at t.
LEMMA UptoMore ==
  ASSUME NEW pr, NEW q \in Path, Reachable(pr, q), NEW t \in 1 .. Len(q), NEW p \in Path,
         Len(p) < t, p = Upto(q, Len(p))
  PROVE  LET d == Len(p)
         IN  /\ d \in Nat /\ d + 1 \in 1 .. Len(q) /\ d \in 0 .. Len(q) /\ q[d + 1] \in Nat
             /\ q[d + 1] \in Options(pr, p) /\ Append(p, q[d + 1]) = Upto(q, d + 1)
             /\ Append(p, q[d + 1]) \in Path /\ Len(Append(p, q[d + 1])) = d + 1
             /\ Reachable(pr, Append(p, q[d + 1]))
<1> DEFINE d == Len(p)
<1>1. d \in Nat /\ Len(q) \in Nat /\ d + 1 \in 1 .. Len(q) /\ d \in 0 .. Len(q) /\ d \in 0 .. (Len(q) - 1) /\ (d + 1) - 1 = d
  BY DEF Path
<1>2. q[d + 1] \in Nat
  BY <1>1 DEF Path
<1>3. q[d + 1] \in Options(pr, Upto(q, (d + 1) - 1))
  BY <1>1, ReachableIs
<1>4. q[d + 1] \in Options(pr, p)
  BY <1>1, <1>3
<1>5. Append(p, q[d + 1]) = Upto(q, d + 1)
  <2>1. Append(Upto(q, d), q[d + 1]) = Upto(q, d + 1)
    BY <1>1, UptoNext
  <2> QED  BY <2>1
<1>6. Append(p, q[d + 1]) \in Path /\ Len(Append(p, q[d + 1])) = d + 1
  BY <1>2, AppendIs
<1>7. Reachable(pr, Upto(q, d + 1))
  <2>1. d + 1 \in 0 .. Len(q)
    BY <1>1
  <2> QED  BY <2>1, ReachableUpto
<1> QED  BY <1>1, <1>2, <1>4, <1>5, <1>6, <1>7

\* A choice without a node: there is only one, and the stacks stay as they are.
LEMMA ChooseAlone ==
  ASSUME NEW pr \in Programs, NEW p, NEW prev, NEW ns, NEW rep, NEW e, Backtracking(pr, p, prev, ns, rep, e),
         ~Branches(pr, p), NEW c \in Options(pr, p)
  PROVE  Backtracking(pr, Append(p, c), prev, ns, rep, e)
<1>1. p \in Path /\ Reachable(pr, p) /\ prev \in Seq(Stack) /\ ns \in Stack /\ rep \in Seq(Stack)
  BY DEF Backtracking
<1> DEFINE d == Len(p)
           r == Append(p, c)
<1>2. c \in Nat /\ d \in Nat /\ r \in Path /\ Len(r) = d + 1 /\ Reachable(pr, r)
  <2>1. c \in Nat
    BY <1>1, OptionsIs
  <2> QED  BY <1>1, <2>1, AppendIs, ReachableAppend
<1>3. \A k \in 1 .. ChainLen(prev, rep) : k \in Nat
  OBVIOUS
<1>4. CASE AtEnd(pr, p, prev, ns, rep, e)
  <2>1. Fits(pr, r, d + 1, 0, prev, ns, rep)
    <3>1. ASSUME NEW k \in 1 .. ChainLen(prev, rep)
          PROVE  StackIs(Chain(prev, ns, rep, k), pr, r, k, d + 1, TurnOf(prev, rep, k, 0))
      <4>1. StackIs(Chain(prev, ns, rep, k), pr, p, k, d, 0) /\ TurnOf(prev, rep, k, 0) = 0
        BY <1>4 DEF AtEnd, Fits, TurnOf
      <4> QED  BY <1>1, <1>2, <1>3, <4>1, StackEnd
    <3> QED  BY <3>1 DEF Fits
  <2>2. Earlier(pr, r) = Earlier(pr, p)
    BY <1>1, EarlierAppend
  <2>3. AtEnd(pr, r, prev, ns, rep, e)
    BY <1>2, <1>4, <2>1, <2>2 DEF AtEnd
  <2> QED  BY <1>1, <1>2, <2>3 DEF Backtracking
<1>5. ASSUME NEW q, NEW t, Replaying(pr, p, prev, ns, rep, e, q, t)
      PROVE  Replaying(pr, r, prev, ns, rep, e, q, t)
  <2>1. IsLeaf(pr, q) /\ t \in 1 .. Len(q) /\ d < t /\ p = Upto(q, d) /\ q \in Path /\ Reachable(pr, q)
        /\ Branches(pr, Upto(q, t - 1)) /\ t \in Nat
    BY <1>5 DEF Replaying, IsLeaf
  <2>2. d + 1 \in 1 .. Len(q) /\ q[d + 1] \in Options(pr, p) /\ Append(p, q[d + 1]) = Upto(q, d + 1)
    BY <1>1, <2>1, UptoMore
  <2>3. q[d + 1] = c
    BY <1>1, <2>2, OptionsIs
  <2>4. r = Upto(q, d + 1)
    BY <2>2, <2>3
  <2>5. d + 1 < t
    <3> SUFFICES ASSUME d + 1 = t PROVE FALSE
      BY <1>2, <2>1
    <3>1. t - 1 = d
      BY <1>2
    <3> QED  BY <2>1, <3>1
  <2>6. Fits(pr, q, d + 1, t, prev, ns, rep)
    <3>1. ASSUME NEW k \in 1 .. ChainLen(prev, rep)
          PROVE  StackIs(Chain(prev, ns, rep, k), pr, q, k, d + 1, TurnOf(prev, rep, k, t))
      <4>1. StackIs(Chain(prev, ns, rep, k), pr, q, k, d, TurnOf(prev, rep, k, t))
        BY <1>5 DEF Replaying, Fits
      <4>2. ~HasNode(pr, q, k, d + 1)
        BY <1>2, <1>3, <2>1, <2>2, HasNodeNext
      <4> QED  BY <1>2, <2>1, <4>1, <4>2, StackPass
    <3> QED  BY <3>1 DEF Fits
  <2> HIDE DEF r, d
  <2> QED  BY <1>2, <1>5, <2>4, <2>5, <2>6 DEF Replaying
<1>6. CASE \E q, t : Replaying(pr, p, prev, ns, rep, e, q, t)
  <2>1. \E q, t : Replaying(pr, r, prev, ns, rep, e, q, t)
    BY <1>5, <1>6
  <2> QED  BY <1>1, <1>2, <2>1 DEF Backtracking
<1> QED  BY <1>4, <1>6 DEF Backtracking

\* A choice with a node: explore_next makes, repeats or changes it.
LEMMA ChooseNode ==
  ASSUME ~Random, NEW pr \in Programs, NEW p, NEW prev, NEW ns, NEW rep, NEW e,
         Backtracking(pr, p, prev, ns, rep, e), Len(prev) = Crashes(pr, p), Branches(pr, p)
  PROVE  LET r == explore_next(ns, Size(pr, p))
         IN  \E c \in Options(pr, p) : get_choices(r) = {c} /\ Backtracking(pr, Append(p, c), prev, r, rep, e)
<1> DEFINE r == explore_next(ns, Size(pr, p))
           d == Len(p)
           m == Len(prev) + 1
           len == ChainLen(prev, rep)
<1>1. p \in Path /\ Reachable(pr, p) /\ prev \in Seq(Stack) /\ ns \in Stack /\ rep \in Seq(Stack)
  BY DEF Backtracking
<1>2. /\ Len(prev) \in Nat /\ m \in Nat /\ len = m + Len(rep) /\ Len(rep) \in Nat /\ len \in Nat /\ m \in 1 .. len
      /\ Chain(prev, ns, rep, m) = ns /\ d \in Nat /\ m = Crashes(pr, p) + 1
      /\ rep = <<>> <=> Len(rep) = 0
  BY <1>1, ChainIs DEF Path
<1>3. \A s : \A k \in 1 .. len : k # m => Chain(prev, s, rep, k) = Chain(prev, ns, rep, k)
  BY <1>1 DEF Chain, ChainLen
<1>4. \A s : s \in Stack => Chain(prev, s, rep, m) = s
  BY <1>1, ChainIs
<1>5. \A k \in 1 .. len : k \in Nat
  OBVIOUS
<1> HIDE DEF r, len, m
<1>6. CASE AtEnd(pr, p, prev, ns, rep, e)
  <2>1. StackIs(ns, pr, p, m, d, 0)
    <3>1. TurnOf(prev, rep, m, 0) = 0
      BY DEF TurnOf
    <3> QED  BY <1>2, <1>6, <3>1 DEF AtEnd, Fits, len
  <2>2. r \in Stack /\ r.curr = ns.curr /\ get_choices(r) = {0} /\ StackIs(r, pr, Append(p, 0), m, d + 1, 0)
    BY <1>1, <1>2, <2>1, StackFresh DEF r
  <2> DEFINE q == Append(p, 0)
  <2>3. 0 \in Options(pr, p)
    <3>1. Options(pr, p) = 0 .. (Size(pr, p) - 1) /\ Size(pr, p) \in Nat /\ Size(pr, p) > 1
      BY <1>1, OptionsIs DEF Branches
    <3> QED  BY <3>1
  <2>4. q \in Path /\ Len(q) = d + 1 /\ Reachable(pr, q)
    BY <1>1, <2>3, AppendIs, ReachableAppend
  <2>5. Fits(pr, q, d + 1, 0, prev, r, rep)
    <3>1. ASSUME NEW k \in 1 .. len
          PROVE  StackIs(Chain(prev, r, rep, k), pr, q, k, d + 1, 0) /\ TurnOf(prev, rep, k, 0) = 0
      <4>0. TurnOf(prev, rep, k, 0) = 0
        BY DEF TurnOf
      <4>1. CASE k = m
        BY <1>4, <2>2, <4>0, <4>1
      <4>2. CASE k # m
        <5>1. StackIs(Chain(prev, ns, rep, k), pr, p, k, d, 0)
          BY <1>6, <4>0 DEF AtEnd, Fits, len
        <5>2. 0 \in Nat /\ k \in Nat /\ k # Crashes(pr, p) + 1
          BY <1>2, <1>5, <4>2
        <5>3. StackIs(Chain(prev, ns, rep, k), pr, q, k, d + 1, 0)
          BY <1>1, <5>1, <5>2, StackEnd
        <5> QED  BY <1>3, <4>0, <4>2, <5>3
      <4> QED  BY <4>1, <4>2
    <3> HIDE DEF q
    <3> QED  BY <3>1 DEF Fits, len
  <2>6. Earlier(pr, q) = Earlier(pr, p)
    BY <1>1, <2>3, EarlierAppend
  <2> HIDE DEF q
  <2>7. AtEnd(pr, q, prev, r, rep, e)
    BY <1>6, <2>2, <2>4, <2>5, <2>6 DEF AtEnd
  <2>8. Backtracking(pr, q, prev, r, rep, e)
    BY <1>1, <2>2, <2>4, <2>7 DEF Backtracking
  <2> QED  BY <2>2, <2>3, <2>8 DEF q, r
<1>7. ASSUME NEW q, NEW t, Replaying(pr, p, prev, ns, rep, e, q, t)
      PROVE  \E c \in Options(pr, p) : get_choices(r) = {c} /\ Backtracking(pr, Append(p, c), prev, r, rep, e)
  <2>1. /\ IsLeaf(pr, q) /\ t \in 1 .. Len(q) /\ d < t /\ p = Upto(q, d) /\ q \in Path /\ Reachable(pr, q)
        /\ Branches(pr, Upto(q, t - 1)) /\ MoreAt(pr, q, t) /\ AllTaken(pr, q, t) /\ e = EarlierOr(pr, q)
        /\ len = Crashes(pr, Upto(q, t - 1)) + 1 /\ (rep # <<>> => ns.curr = 0)
        /\ t \in Nat /\ t # 0
    BY <1>7 DEF Replaying, IsLeaf, len
  <2>2. /\ d + 1 \in 1 .. Len(q) /\ q[d + 1] \in Options(pr, p) /\ Append(p, q[d + 1]) = Upto(q, d + 1)
        /\ q[d + 1] \in Nat /\ d \in 0 .. Len(q)
        /\ Append(p, q[d + 1]) \in Path /\ Len(Append(p, q[d + 1])) = d + 1 /\ Reachable(pr, Append(p, q[d + 1]))
    BY <1>1, <2>1, UptoMore
  <2>3. HasNode(pr, q, m, d + 1)
    BY <1>2, <2>1, <2>2, HasNodeNext
  <2>4. \A k \in 1 .. len : k # m => ~HasNode(pr, q, k, d + 1)
    BY <1>2, <1>5, <2>1, <2>2, HasNodeNext
  <2>5. \A k \in 1 .. len : StackIs(Chain(prev, ns, rep, k), pr, q, k, d, IF k = len THEN t ELSE 0)
    BY <1>7 DEF Replaying, Fits, TurnOf, len
  <2>6. CASE t = d + 1
    <3>1. t - 1 = d /\ Upto(q, t - 1) = p
      BY <1>2, <2>1, <2>6
    <3>2. len = m /\ rep = <<>>
      BY <1>2, <2>1, <3>1
    <3>3. StackIs(ns, pr, q, m, t - 1, t)
      BY <1>2, <2>5, <3>1, <3>2
    <3>4. HasNode(pr, q, m, t)
      BY <2>3, <2>6
    <3>5. r \in Stack /\ r.curr = 0 /\ get_choices(r) = {q[t] + 1} /\ StackIs(r, pr, Turned(q, t), m, t, 0)
      BY <2>1, <3>3, <3>4, StackTurn DEF r
    <3> DEFINE u == Turned(q, t)
               c == q[t] + 1
    <3>6. c \in Options(pr, p) /\ Reachable(pr, u)
      BY <2>1, <3>1, EarlierNotAll DEF MoreAt
    <3>7. u = Append(p, c)
      BY <3>1 DEF Turned
    <3>8. u \in Path /\ Len(u) = t
      BY <2>1, TurnedIs
    <3>9. Earlier(pr, u) = EarlierOr(pr, q)
      BY <2>1, EarlierTurned
    <3>10. Fits(pr, u, t, 0, prev, r, rep)
      <4>1. ASSUME NEW k \in 1 .. len
            PROVE  StackIs(Chain(prev, r, rep, k), pr, u, k, t, 0) /\ TurnOf(prev, rep, k, 0) = 0
        <5>0. TurnOf(prev, rep, k, 0) = 0
          BY DEF TurnOf
        <5>1. CASE k = m
          BY <1>4, <3>5, <5>0, <5>1
        <5>2. CASE k # m
          <6>1. StackIs(Chain(prev, ns, rep, k), pr, q, k, t - 1, 0)
            <7>1. k # len
              BY <3>2, <5>2
            <7> QED  BY <2>5, <3>1, <7>1
          <6>2. k \in Nat /\ k =< Crashes(pr, Upto(q, t - 1))
            BY <1>2, <1>5, <3>1, <3>2, <5>2
          <6>3. StackIs(Chain(prev, ns, rep, k), pr, u, k, t, 0)
            BY <2>1, <6>1, <6>2, StackBefore
          <6> QED  BY <1>3, <5>0, <5>2, <6>3
        <5> QED  BY <5>1, <5>2
      <4> HIDE DEF u
      <4> QED  BY <4>1 DEF Fits, len
    <3> HIDE DEF u, c
    <3>11. AtEnd(pr, u, prev, r, rep, e)
      BY <2>1, <3>2, <3>5, <3>8, <3>9, <3>10 DEF AtEnd
    <3>12. Backtracking(pr, u, prev, r, rep, e)
      BY <1>1, <3>5, <3>6, <3>8, <3>11 DEF Backtracking
    <3>13. get_choices(r) = {c}
      BY <3>5 DEF c
    <3> QED  BY <3>6, <3>7, <3>12, <3>13
  <2>7. CASE t # d + 1
    <3> DEFINE c == q[d + 1]
               u == Append(p, c)
               v == IF m = len THEN t ELSE 0
    <3>1. StackIs(ns, pr, q, m, d, v)
      BY <1>2, <2>5
    <3>2. ns.curr = 0 \/ (v # 0 /\ v # d + 1)
      <4>1. CASE rep = <<>>
        BY <1>2, <2>1, <2>7, <4>1
      <4> QED  BY <2>1, <4>1
    <3>0. q \in Path /\ d \in Nat
      BY <1>2, <2>1
    <3>3. r \in Stack /\ r.curr = ns.curr /\ get_choices(r) = {q[d + 1]} /\ StackIs(r, pr, q, m, d + 1, v)
      <4> HIDE DEF c, u, v, d
      <4> QED  BY <2>3, <3>0, <3>1, <3>2, StackRepeat DEF r
    <3> HIDE DEF v
    <3>4. Fits(pr, q, d + 1, t, prev, r, rep)
      <4>1. ASSUME NEW k \in 1 .. len
            PROVE  StackIs(Chain(prev, r, rep, k), pr, q, k, d + 1, IF k = len THEN t ELSE 0)
        <5>1. CASE k = m
          <6>1. StackIs(Chain(prev, r, rep, k), pr, q, k, d + 1, v)
            BY <1>4, <3>3, <5>1
          <6> QED  BY <5>1, <6>1 DEF v
        <5>2. CASE k # m
          <6> DEFINE w == IF k = len THEN t ELSE 0
          <6>1. StackIs(Chain(prev, ns, rep, k), pr, q, k, d, w) /\ ~HasNode(pr, q, k, d + 1)
            BY <2>4, <2>5, <5>2
          <6> HIDE DEF w
          <6>2. StackIs(Chain(prev, ns, rep, k), pr, q, k, d + 1, w)
            BY <1>2, <2>1, <6>1, StackPass
          <6> QED  BY <1>3, <5>2, <6>2 DEF w
        <5> QED  BY <5>1, <5>2
      <4> QED  BY <4>1 DEF Fits, TurnOf, len
    <3>5. d + 1 < t
      BY <1>2, <2>1, <2>7
    <3>6. c \in Options(pr, p) /\ u \in Path /\ Len(u) = d + 1 /\ Reachable(pr, u) /\ u = Upto(q, d + 1)
      BY <2>2
    <3>7. get_choices(r) = {c}
      BY <3>3
    <3> HIDE DEF c, u, d
    <3>8. Replaying(pr, u, prev, r, rep, e, q, t)
      BY <2>1, <3>3, <3>4, <3>5, <3>6 DEF Replaying, len
    <3>9. Backtracking(pr, u, prev, r, rep, e)
      BY <1>1, <3>3, <3>6, <3>8 DEF Backtracking
    <3> QED  BY <3>6, <3>7, <3>9 DEF u
  <2> QED  BY <2>6, <2>7
<1>8. CASE \E q, t : Replaying(pr, p, prev, ns, rep, e, q, t)
  BY <1>7, <1>8 DEF r
<1> QED  BY <1>6, <1>8 DEF Backtracking

-------------------------------------------------------------------------------
(* Crashes and restarts.                                                   *)

\* startAfterCrash: the next stack to be replayed, or a new one.
AfterCrash(rep) ==
  IF rep = <<>> THEN NewStack
  ELSE IF Len(rep) > 1 THEN repeat_prev_execution(Head(rep))
  ELSE Head(rep)

LEMMA Crash ==
  ASSUME NEW pr, NEW o \in Path, NEW c \in Nat, IsCrash(pr, o, c), NEW prev, Len(prev) = Crashes(pr, o),
         NEW ns, NEW rep, NEW e, Backtracking(pr, Append(o, c), prev, ns, rep, e)
  PROVE  Backtracking(pr, Append(o, c), Append(prev, ns), AfterCrash(rep), IF rep = <<>> THEN <<>> ELSE Tail(rep), e)
<1> DEFINE p == Append(o, c)
           d == Len(p)
           m == Len(prev) + 1
           after == Append(prev, ns)
           none == << >>
<1>1. p \in Path /\ Reachable(pr, p) /\ prev \in Seq(Stack) /\ ns \in Stack /\ rep \in Seq(Stack)
      /\ (AtEnd(pr, p, prev, ns, rep, e) \/ \E q, t : Replaying(pr, p, prev, ns, rep, e, q, t))
  BY DEF Backtracking
<1>2. /\ Len(prev) \in Nat /\ m \in Nat /\ Len(rep) \in Nat /\ ChainLen(prev, rep) = m + Len(rep)
      /\ Chain(prev, ns, rep, m) = ns /\ m \in 1 .. ChainLen(prev, rep)
      /\ \A k \in 1 .. Len(prev) : Chain(prev, ns, rep, k) = prev[k]
      /\ \A k \in (m + 1) .. ChainLen(prev, rep) : Chain(prev, ns, rep, k) = rep[k - m] /\ k - m \in 1 .. Len(rep)
      /\ rep = <<>> <=> Len(rep) = 0
  <2>1. prev \in Seq(Stack) /\ ns \in Stack /\ rep \in Seq(Stack)
    BY <1>1
  <2> HIDE DEF p, d, after, none, m
  <2>2. /\ Len(prev) \in Nat /\ Len(prev) + 1 \in Nat /\ Len(rep) \in Nat
        /\ ChainLen(prev, rep) = Len(prev) + 1 + Len(rep)
        /\ Len(prev) + 1 \in 1 .. ChainLen(prev, rep) /\ Chain(prev, ns, rep, Len(prev) + 1) = ns
    BY <2>1, ChainIs
  <2>3. \A k \in 1 .. Len(prev) : Chain(prev, ns, rep, k) = prev[k]
    BY <2>1, ChainIs
  <2>4. \A k \in (Len(prev) + 1 + 1) .. ChainLen(prev, rep) :
          Chain(prev, ns, rep, k) = rep[k - (Len(prev) + 1)] /\ k - (Len(prev) + 1) \in 1 .. Len(rep)
    BY <2>1, ChainIs
  <2>5. rep = <<>> <=> Len(rep) = 0
    BY <2>1, ChainIs
  <2> QED  BY <2>2, <2>3, <2>4, <2>5 DEF m
<1>3. /\ after \in Seq(Stack) /\ Len(after) = m /\ after[m] = ns /\ \A k \in 1 .. Len(prev) : after[k] = prev[k]
  BY <1>1
<1>4. \A k \in 1 .. m : after[k] = Chain(prev, ns, rep, k)
  <2>1. \A k \in 1 .. m : k = m \/ k \in 1 .. Len(prev)
    BY <1>2
  <2> HIDE DEF after, m
  <2> QED  BY <1>2, <1>3, <2>1
<1>5. Crashes(pr, p) = m
  <2>1. Crashes(pr, p) = Crashes(pr, o) + 1
    BY CrashesAppend
  <2> QED  BY <2>1
<1>6. none \in Seq(Stack) /\ Len(none) = 0
  OBVIOUS
<1>7. d \in Nat /\ d = Len(o) + 1 /\ Len(o) \in Nat
  BY AppendIs
<1>8. CASE AtEnd(pr, p, prev, ns, rep, e)
  <2>0. rep = none /\ AfterCrash(rep) = NewStack
    BY <1>8 DEF AtEnd, AfterCrash
  <2>1. \A i \in Nat : ~HasNode(pr, p, m + 1, i)
    <3> SUFFICES ASSUME NEW i \in Nat, HasNode(pr, p, m + 1, i) PROVE FALSE
      OBVIOUS
    <3>1. i \in 1 .. d /\ Crashes(pr, Upto(p, i - 1)) = m
      BY <1>2 DEF HasNode
    <3>2. i - 1 \in 0 .. Len(o) /\ Len(o) \in 0 .. Len(o)
      BY <1>7, <3>1
    <3>3. Upto(p, i - 1) = Upto(o, i - 1)
      BY <3>2, UptoAppend
    <3>4. Crashes(pr, Upto(o, i - 1)) =< Crashes(pr, Upto(o, Len(o)))
      BY <3>2, CrashesGrow
    <3>5. Upto(o, Len(o)) = o
      BY UptoAll
    <3> QED  BY <1>2, <3>1, <3>3, <3>4, <3>5
  <2>2. StackIs(NewStack, pr, p, m + 1, d, 0) /\ NewStack \in Stack /\ NewStack.curr = 0
    BY <2>1, StackNew
  <2>3. ChainLen(after, none) = m + 1 /\ m + 1 \in Nat
    BY <1>2, <1>3, <1>6 DEF ChainLen
  <2>4. \A k \in 1 .. m : Chain(after, NewStack, none, k) = Chain(prev, ns, rep, k) /\ k \in 1 .. ChainLen(prev, rep)
    <3>1. \A k \in 1 .. m : k =< Len(after) /\ k \in 1 .. ChainLen(prev, rep)
      BY <1>2, <1>3
    <3> HIDE DEF after, m
    <3> QED  BY <1>4, <3>1 DEF Chain
  <2>5. Chain(after, NewStack, none, m + 1) = NewStack
    <3>1. ~(m + 1 =< Len(after)) /\ m + 1 = Len(after) + 1
      BY <1>2, <1>3
    <3> QED  BY <3>1 DEF Chain
  <2>6. Fits(pr, p, d, 0, after, NewStack, none)
    <3>1. ASSUME NEW k \in 1 .. ChainLen(after, none)
          PROVE  StackIs(Chain(after, NewStack, none, k), pr, p, k, d, TurnOf(after, none, k, 0))
      <4>1. TurnOf(after, none, k, 0) = 0
        BY DEF TurnOf
      <4>2. CASE k = m + 1
        BY <2>2, <2>5, <4>1, <4>2
      <4>3. CASE k # m + 1
        <5>1. k \in 1 .. m
          BY <1>2, <2>3, <4>3
        <5>2. StackIs(Chain(prev, ns, rep, k), pr, p, k, d, 0)
          <6>1. TurnOf(prev, rep, k, 0) = 0
            BY DEF TurnOf
          <6> QED  BY <1>8, <2>4, <5>1, <6>1 DEF AtEnd, Fits
        <5> QED  BY <2>4, <4>1, <5>1, <5>2
      <4> QED  BY <4>2, <4>3
    <3> HIDE DEF none, after, p
    <3> QED  BY <3>1 DEF Fits
  <2> HIDE DEF after, p, d
  <2>7. AtEnd(pr, p, after, NewStack, none, e)
    BY <1>8, <2>2, <2>6 DEF AtEnd, d
  <2> HIDE DEF none
  <2>8. Backtracking(pr, p, after, NewStack, none, e)
    BY <1>1, <1>3, <1>6, <2>2, <2>7 DEF Backtracking
  <2>9. (IF rep = << >> THEN << >> ELSE Tail(rep)) = none
    BY <2>0 DEF none
  <2> QED  BY <2>0, <2>8, <2>9 DEF p, after
<1>9. ASSUME NEW q, NEW t, Replaying(pr, p, prev, ns, rep, e, q, t)
      PROVE  Backtracking(pr, p, after, AfterCrash(rep), IF rep = << >> THEN << >> ELSE Tail(rep), e)
  <2>1. /\ IsLeaf(pr, q) /\ t \in 1 .. Len(q) /\ d < t /\ p = Upto(q, d) /\ q \in Path /\ t \in Nat
        /\ ChainLen(prev, rep) = Crashes(pr, Upto(q, t - 1)) + 1
    BY <1>9 DEF Replaying, IsLeaf
  <2>2. Len(rep) > 0
    <3>1. t - 1 \in 0 .. Len(q) /\ d \in 0 .. (t - 1)
      BY <1>7, <2>1 DEF Path
    <3>2. Crashes(pr, Upto(q, d)) =< Crashes(pr, Upto(q, t - 1))
      BY <2>1, <3>1, CrashesGrow
    <3>3. Crashes(pr, Upto(q, t - 1)) \in Nat
      BY <2>1, <3>1, UptoIs, CrashSetIs
    <3> HIDE DEF p, d, m
    <3> QED  BY <1>2, <1>5, <2>1, <3>2, <3>3
  <2> DEFINE tail == Tail(rep)
             x == AfterCrash(rep)
             len == ChainLen(prev, rep)
  <2>3. rep # << >> /\ tail \in Seq(Stack) /\ Len(tail) = Len(rep) - 1 /\ Head(rep) = rep[1] /\ rep[1] \in Stack
        /\ \A j \in 1 .. (Len(rep) - 1) : tail[j] = rep[j + 1]
    BY <1>1, <1>2, <2>2
  <2>4. x = IF Len(rep) > 1 THEN repeat_prev_execution(rep[1]) ELSE rep[1]
    BY <2>3 DEF AfterCrash
  <2>5. x \in Stack /\ (Len(rep) > 1 => x.curr = 0)
    <3>1. repeat_prev_execution(rep[1]) \in Stack /\ repeat_prev_execution(rep[1]).curr = 0
      BY <2>3 DEF repeat_prev_execution, Stack
    <3> QED  BY <2>3, <2>4, <3>1
  <2>6. ChainLen(after, tail) = len /\ len = m + Len(rep) /\ m + 1 \in 1 .. len /\ len \in Nat
    <3>1. ChainLen(after, tail) = m + 1 + (Len(rep) - 1)
      <4> HIDE DEF after, tail, m
      <4> QED  BY <1>3, <2>3 DEF ChainLen
    <3>2. len = m + Len(rep)
      BY <1>2
    <3> HIDE DEF after, tail, m, len
    <3> QED  BY <1>2, <2>2, <3>1, <3>2
  <2> HIDE DEF x, tail
  <2>7. ASSUME NEW k \in 1 .. len
        PROVE  StackIs(Chain(after, x, tail, k), pr, q, k, d, IF k = len THEN t ELSE 0)
    <3> DEFINE v == IF k = len THEN t ELSE 0
    <3>1. StackIs(Chain(prev, ns, rep, k), pr, q, k, d, v)
      BY <1>9 DEF Replaying, Fits, TurnOf
    <3>2. CASE k = m + 1
      <4>1. k \in (m + 1) .. len /\ k - m = 1 /\ ~(k =< m)
        BY <1>2, <2>6, <3>2
      <4>2. Chain(prev, ns, rep, k) = rep[1]
        BY <1>2, <4>1
      <4>3. Chain(after, x, tail, k) = x
        BY <1>3, <3>2, <4>1 DEF Chain
      <4>4. CASE Len(rep) > 1
        <5>1. k # len
          BY <1>2, <2>6, <3>2, <4>4
        <5>2. x = repeat_prev_execution(rep[1]) /\ v = 0
          BY <2>4, <4>4, <5>1
        <5> HIDE DEF v
        <5>3. StackIs(repeat_prev_execution(rep[1]), pr, q, k, d, 0)
          BY <3>1, <4>2, StackCurr
        <5> QED  BY <4>3, <5>2, <5>3 DEF v
      <4>5. CASE ~(Len(rep) > 1)
        <5>1. x = rep[1]
          BY <2>4, <4>5
        <5> HIDE DEF v
        <5>2. StackIs(Chain(after, x, tail, k), pr, q, k, d, v)
          BY <3>1, <4>2, <4>3, <5>1
        <5> QED  BY <5>2 DEF v
      <4> QED  BY <4>4, <4>5
    <3>3. CASE k # m + 1
      <4>1. Chain(after, x, tail, k) = Chain(prev, ns, rep, k)
        <5>1. CASE k =< m
          <6>1. k \in 1 .. m /\ k =< Len(after)
            BY <1>3, <5>1
          <6>2. Chain(after, x, tail, k) = after[k]
            BY <6>1 DEF Chain
          <6> HIDE DEF after, m
          <6> QED  BY <1>4, <6>1, <6>2
        <5>2. CASE ~(k =< m)
          <6>1. k \in (m + 1) .. len /\ ~(k =< Len(after)) /\ k # Len(after) + 1
                /\ k - (Len(after) + 1) \in 1 .. (Len(rep) - 1) /\ (k - (Len(after) + 1)) + 1 = k - m
            BY <1>2, <1>3, <2>6, <3>3, <5>2
          <6>2. Chain(after, x, tail, k) = tail[k - (Len(after) + 1)]
            BY <6>1 DEF Chain
          <6>3. tail[k - (Len(after) + 1)] = rep[k - m]
            <7> HIDE DEF after
            <7> QED  BY <2>3, <6>1
          <6> QED  BY <1>2, <6>1, <6>2, <6>3
        <5> QED  BY <5>1, <5>2
      <4> HIDE DEF v
      <4>2. StackIs(Chain(after, x, tail, k), pr, q, k, d, v)
        BY <3>1, <4>1
      <4> QED  BY <4>2 DEF v
    <3> QED  BY <3>2, <3>3
  <2>8. Fits(pr, q, d, t, after, x, tail)
    <3> HIDE DEF d
    <3> QED  BY <2>6, <2>7 DEF Fits, TurnOf
  <2>9. tail # << >> => x.curr = 0
    <3>1. tail # << >> => Len(tail) # 0
      BY <2>3
    <3>2. Len(tail) # 0 => Len(rep) > 1
      BY <1>2, <2>2, <2>3
    <3> QED  BY <2>5, <3>1, <3>2
  <2> HIDE DEF p, after
  <2>10. Replaying(pr, p, after, x, tail, e, q, t)
    BY <1>9, <2>6, <2>8, <2>9 DEF Replaying
  <2>11. Backtracking(pr, p, after, x, tail, e)
    BY <1>1, <1>3, <2>3, <2>5, <2>10 DEF Backtracking
  <2> QED  BY <2>3, <2>11 DEF x, tail
<1>10. CASE \E q, t : Replaying(pr, p, prev, ns, rep, e, q, t)
  BY <1>9, <1>10
<1> QED  BY <1>1, <1>8, <1>10

\* Where there is no choice left, the last one there is has been taken.
LEMMA TakenIs ==
  ASSUME NEW pr \in Programs, NEW q \in Path, Reachable(pr, q), NEW i \in Nat, i \in 1 .. Len(q),
         Branches(pr, Upto(q, i - 1)), ~MoreAt(pr, q, i)
  PROVE  q[i] + 1 = Size(pr, Upto(q, i - 1))
<1> DEFINE p == Upto(q, i - 1)
<1>1. i - 1 \in 0 .. Len(q)
  BY DEF Path
<1>2. p \in Path
  BY <1>1, UptoIs
<1>3. q[i] \in Options(pr, p)
  BY ReachableIs
<1> HIDE DEF p
<1>4. Branches(pr, p) /\ ~(q[i] + 1 < Size(pr, p))
  BY DEF p, MoreAt
<1>5. Options(pr, p) = 0 .. (Size(pr, p) - 1) /\ Size(pr, p) \in Nat
  BY <1>2, <1>4, OptionsIs
<1>6. q[i] + 1 = Size(pr, p)
  BY <1>3, <1>4, <1>5
<1> QED  BY <1>6 DEF p

\* Every position at which there was a choice has a node in one of the stacks.
LEMMA NodeOf ==
  ASSUME NEW pr, NEW q \in Path, NEW i \in Nat, i \in 1 .. Len(q), Branches(pr, Upto(q, i - 1))
  PROVE  \E k \in 1 .. (Crashes(pr, q) + 1) : HasNode(pr, q, k, i) /\ k = Crashes(pr, Upto(q, i - 1)) + 1
<1>1. i - 1 \in 0 .. Len(q) /\ Len(q) \in 0 .. Len(q) /\ i - 1 \in Nat /\ (i - 1) + 1 = i
  BY DEF Path
<1>2. Crashes(pr, Upto(q, i - 1)) =< Crashes(pr, Upto(q, Len(q)))
  BY <1>1, CrashesGrow
<1>3. Upto(q, Len(q)) = q
  BY UptoAll
<1>4. PICK c \in Nat : c = Crashes(pr, Upto(q, i - 1))
  BY <1>1, UptoIs, CrashSetIs
<1>5. PICK n \in Nat : n = Crashes(pr, q)
  BY CrashSetIs
<1>6. c + 1 \in 1 .. (n + 1) /\ (c + 1) - 1 = c
  BY <1>2, <1>3, <1>4, <1>5
<1>7. HasNode(pr, q, c + 1, i)
  BY <1>4, <1>6 DEF HasNode
<1> QED  BY <1>4, <1>5, <1>6, <1>7

\* A run only ends where none has been.
LEMMA Finished ==
  ASSUME NEW pr \in Programs, NEW p, NEW prev, NEW ns, NEW rep, NEW e,
         Backtracking(pr, p, prev, ns, rep, e), Options(pr, p) = {}
  PROVE  /\ IsLeaf(pr, p) /\ p \in Leaves(pr) /\ AtEnd(pr, p, prev, ns, rep, e)
         /\ p \notin e /\ e \cup {p} = EarlierOr(pr, p)
<1>1. IsLeaf(pr, p) /\ p \in Path
  BY DEF Backtracking, IsLeaf
<1>2. ASSUME NEW q, NEW t, Replaying(pr, p, prev, ns, rep, e, q, t) PROVE FALSE
  <2>1. IsLeaf(pr, q) /\ t \in 1 .. Len(q) /\ Len(p) < t /\ p = Upto(q, Len(p)) /\ q \in Path /\ Reachable(pr, q)
    BY <1>2 DEF Replaying, IsLeaf
  <2>2. q[Len(p) + 1] \in Options(pr, p)
    BY <1>1, <2>1, UptoMore
  <2> QED  BY <2>2
<1>3. AtEnd(pr, p, prev, ns, rep, e)
  BY <1>2 DEF Backtracking
<1>4. p \in Leaves(pr)
  BY <1>1, LeavesIs
<1>5. ~Less(p, p)
  BY <1>1, LessIsNot
<1>6. e = Earlier(pr, p)
  BY <1>3 DEF AtEnd
<1>7. p \notin e /\ e \cup {p} = EarlierOr(pr, p)
  BY <1>4, <1>5, <1>6 DEF Earlier, EarlierOr
<1> QED  BY <1>1, <1>3, <1>4, <1>7

\* No stack has a choice left: every leaf has been run.
LEMMA NoneLeft ==
  ASSUME NEW pr \in Programs, NEW p, NEW prev, NEW ns, NEW rep, NEW e,
         Backtracking(pr, p, prev, ns, rep, e), Options(pr, p) = {}, Len(prev) = Crashes(pr, p),
         \A k \in 1 .. (Len(prev) + 1) : ~has_another_execution(Chain(prev, ns, rep, k))
  PROVE  Leaves(pr) = e \cup {p}
<1>1. IsLeaf(pr, p) /\ AtEnd(pr, p, prev, ns, rep, e) /\ e \cup {p} = EarlierOr(pr, p) /\ p \in Path /\ Reachable(pr, p)
  BY Finished DEF IsLeaf
<1>2. prev \in Seq(Stack) /\ ns \in Stack /\ rep \in Seq(Stack)
  BY DEF Backtracking
<1>3. ChainLen(prev, rep) = Len(prev) + 1
  <2>1. rep = <<>>
    BY <1>1 DEF AtEnd
  <2> QED  BY <1>2, <2>1 DEF ChainLen
<1>4. \A k \in 1 .. (Len(prev) + 1) : StackIs(Chain(prev, ns, rep, k), pr, p, k, Len(p), 0)
  BY <1>1, <1>3 DEF AtEnd, Fits, TurnOf
<1>5. ASSUME NEW i \in Nat, i \in 1 .. Len(p), Branches(pr, Upto(p, i - 1))
      PROVE  p[i] + 1 = Size(pr, Upto(p, i - 1))
  <2>1. PICK k \in 1 .. (Len(prev) + 1) : HasNode(pr, p, k, i)
    BY <1>1, <1>5, NodeOf
  <2>2. ~MoreAt(pr, p, i)
    BY <1>1, <1>4, <2>1, StackReset
  <2> QED  BY <1>1, <1>5, <2>2, TakenIs
<1>6. AllTaken(pr, p, 0)
  BY <1>5 DEF AllTaken
<1> QED  BY <1>1, <1>6, EarlierAll

LEMMA Start ==
  ASSUME NEW pr
  PROVE  LET none == <<>>
         IN  /\ none \in Path /\ Len(none) = 0 /\ Reachable(pr, none) /\ Crashes(pr, none) = 0
             /\ \A q \in Path : none = Upto(q, 0)
<1> DEFINE none == << >>
<1>1. none \in Path /\ Len(none) = 0
  BY DEF Path
<1> HIDE DEF none
<1>2. Reachable(pr, none)
  BY <1>1, ReachableIs
<1>3. CrashSet(pr, none) = {}
  BY <1>1, CrashSetIs
<1>4. Crashes(pr, none) = 0
  BY <1>1, <1>3, CrashSetIs, FS_EmptySet
<1>5. ASSUME NEW q \in Path PROVE none = Upto(q, 0)
  <2>1. 0 \in 0 .. Len(q)
    BY DEF Path
  <2>2. Upto(q, 0) \in Path /\ Len(Upto(q, 0)) = 0
    BY <2>1, UptoIs
  <2> QED  BY <1>1, <2>2, PathEqual
<1> QED  BY <1>1, <1>2, <1>4, <1>5 DEF none

\* restart: the stacks up to k, the first in x and the others in again.
Restarted(stk, rep, k, again, x) ==
  /\ again = [j \in 1 .. k - 1 |-> reset_execution(stk[j + 1])] \o rep
  /\ x = IF again = <<>> THEN reset_execution(stk[1]) ELSE repeat_prev_execution(reset_execution(stk[1]))

\* finish_execution: the last stack with a choice left takes its next one.
LEMMA Restart ==
  ASSUME NEW pr \in Programs, NEW p, NEW prev, NEW ns, NEW rep, NEW e,
         Backtracking(pr, p, prev, ns, rep, e), Options(pr, p) = {}, Len(prev) = Crashes(pr, p),
         NEW stk, stk = Append(prev, ns), NEW k \in 1 .. (Len(prev) + 1), has_another_execution(stk[k]),
         \A j \in 1 .. (Len(prev) + 1) : k < j => ~has_another_execution(stk[j]),
         NEW again, NEW x, Restarted(stk, rep, k, again, x)
  PROVE  /\ Backtracking(pr, <<>>, <<>>, x, again, e \cup {p})
         /\ \E leaf \in Leaves(pr) : leaf \notin e \cup {p}
<1> DEFINE n == Len(prev) + 1
           none == << >>
           f == [j \in 1 .. k - 1 |-> reset_execution(stk[j + 1])]
<1>1. IsLeaf(pr, p) /\ AtEnd(pr, p, prev, ns, rep, e) /\ e \cup {p} = EarlierOr(pr, p) /\ p \in Path /\ Reachable(pr, p)
  BY Finished DEF IsLeaf
<1>2. prev \in Seq(Stack) /\ ns \in Stack /\ rep = none
  BY <1>1 DEF Backtracking, AtEnd
<1>3. n \in Nat /\ k \in Nat /\ 1 =< k /\ k =< n /\ 1 \in 1 .. n /\ none \in Seq(Stack) /\ Len(none) = 0
  BY <1>2
<1>4. \A j \in 1 .. n : stk[j] = Chain(prev, ns, rep, j)
  <2>1. stk \in Seq(Stack) /\ stk[n] = ns /\ \A j \in 1 .. Len(prev) : stk[j] = prev[j]
    BY <1>2
  <2>2. \A j \in 1 .. n : j = n \/ j \in 1 .. Len(prev)
    BY <1>3
  <2>3. Chain(prev, ns, rep, n) = ns /\ \A j \in 1 .. Len(prev) : Chain(prev, ns, rep, j) = prev[j]
    BY <1>3 DEF Chain
  <2> HIDE DEF n
  <2> QED  BY <2>1, <2>2, <2>3
<1>5. ChainLen(prev, rep) = n
  BY <1>2, <1>3 DEF ChainLen
<1>6. \A j \in 1 .. n : StackIs(stk[j], pr, p, j, Len(p), 0)
  BY <1>1, <1>4, <1>5 DEF AtEnd, Fits, TurnOf
<1>7. \A j \in 1 .. n : reset_execution(stk[j]) \in Stack /\ StackIs(reset_execution(stk[j]), pr, p, j, 0, 0)
  BY <1>1, <1>6, StackReset
<1>8. PICK t : IsTurn(pr, p, k, t) /\ StackIs(reset_execution(stk[k]), pr, p, k, 0, t)
  BY <1>1, <1>6, StackReset
<1>9. /\ t \in Nat /\ t \in 1 .. Len(p) /\ Branches(pr, Upto(p, t - 1)) /\ Crashes(pr, Upto(p, t - 1)) = k - 1
      /\ MoreAt(pr, p, t)
  BY <1>8 DEF IsTurn, HasNode
<1>10. AllTaken(pr, p, t)
  <2>1. ASSUME NEW i \in Nat, i \in 1 .. Len(p), t < i, Branches(pr, Upto(p, i - 1))
        PROVE  p[i] + 1 = Size(pr, Upto(p, i - 1))
    <3>1. PICK j \in 1 .. n : HasNode(pr, p, j, i) /\ j = Crashes(pr, Upto(p, i - 1)) + 1
      BY <1>1, <2>1, NodeOf
    <3>2. k =< j
      <4>1. i - 1 \in 0 .. Len(p) /\ t - 1 \in 0 .. (i - 1)
        BY <1>1, <1>9, <2>1 DEF Path
      <4>2. Crashes(pr, Upto(p, t - 1)) =< Crashes(pr, Upto(p, i - 1))
        BY <1>1, <4>1, CrashesGrow
      <4>3. Crashes(pr, Upto(p, i - 1)) \in Nat
        BY <1>1, <4>1, UptoIs, CrashSetIs
      <4> QED  BY <1>3, <1>9, <3>1, <4>2, <4>3
    <3>3. ~MoreAt(pr, p, i)
      <4>1. CASE k = j
        BY <1>8, <2>1, <3>1, <4>1 DEF IsTurn
      <4>2. CASE k < j
        <5>1. ~has_another_execution(stk[j])
          BY <4>2
        <5> QED  BY <1>1, <1>6, <2>1, <3>1, <5>1, StackReset
      <4> QED  BY <1>3, <3>2, <4>1, <4>2
    <3> QED  BY <1>1, <2>1, <3>3, TakenIs
  <2> QED  BY <2>1 DEF AllTaken
<1>11. again \in Seq(Stack) /\ Len(again) = k - 1 /\ \A j \in 1 .. (k - 1) : again[j] = reset_execution(stk[j + 1])
  <2>1. \A j \in 1 .. (k - 1) : j + 1 \in 1 .. n /\ reset_execution(stk[j + 1]) \in Stack
    BY <1>3, <1>7
  <2>2. f \in Seq(Stack) /\ Len(f) = k - 1 /\ \A j \in 1 .. (k - 1) : f[j] = reset_execution(stk[j + 1])
    <3>1. k - 1 \in Nat
      BY <1>3
    <3> QED  BY <2>1, <3>1
  <2> HIDE DEF f
  <2>3. again = f \o << >>
    BY <1>2 DEF f, Restarted
  <2>4. f \o << >> = f
    BY <2>2
  <2> QED  BY <2>2, <2>3, <2>4
<1>12. (again = << >> <=> k = 1) /\ (again = << >> <=> Len(again) = 0)
  <2>1. \A g \in Seq(Stack) : g = << >> <=> Len(g) = 0
    OBVIOUS
  <2>2. again = << >> <=> Len(again) = 0
    BY <1>11, <2>1
  <2>3. k - 1 = 0 <=> k = 1
    BY <1>3
  <2> QED  BY <1>11, <2>2, <2>3
<1> DEFINE first == reset_execution(stk[1])
<1>13. /\ first \in Stack /\ repeat_prev_execution(first) \in Stack /\ repeat_prev_execution(first).curr = 0
       /\ x = IF k = 1 THEN first ELSE repeat_prev_execution(first)
  <2>1. first \in Stack
    BY <1>3, <1>7
  <2> HIDE DEF first
  <2>2. x = IF k = 1 THEN first ELSE repeat_prev_execution(first)
    BY <1>12 DEF first, Restarted
  <2> QED  BY <2>1, <2>2 DEF repeat_prev_execution, Stack
<1>14. x \in Stack /\ (k # 1 => x.curr = 0)
  BY <1>13
<1> HIDE DEF n, none, f, first
<1>15. ChainLen(none, again) = k
  BY <1>3, <1>11 DEF ChainLen
<1>16. ASSUME NEW j \in 1 .. k PROVE StackIs(Chain(none, x, again, j), pr, p, j, 0, IF j = k THEN t ELSE 0)
  <2>0. j \in 1 .. n /\ ~(j =< 0)
    BY <1>3
  <2>1. CASE j = 1
    <3>1. Chain(none, x, again, j) = x
      BY <1>3, <2>0, <2>1 DEF Chain
    <3>2. CASE k = 1
      BY <1>8, <1>13, <2>1, <3>1, <3>2 DEF first
    <3>3. CASE k # 1
      <4>1. StackIs(first, pr, p, 1, 0, 0)
        BY <1>7, <2>0, <2>1 DEF first
      <4>2. StackIs(repeat_prev_execution(first), pr, p, 1, 0, 0)
        BY <4>1, StackCurr
      <4>3. x = repeat_prev_execution(first) /\ j # k
        BY <1>13, <2>1, <3>3
      <4> QED  BY <2>1, <3>1, <4>2, <4>3
    <3> QED  BY <3>2, <3>3
  <2>2. CASE j # 1
    <3>1. j - 1 \in 1 .. (k - 1) /\ (j - 1) + 1 = j /\ ~(j =< Len(none)) /\ j # Len(none) + 1 /\ j - (Len(none) + 1) = j - 1
      BY <1>3, <2>2
    <3>2. Chain(none, x, again, j) = again[j - 1]
      BY <3>1 DEF Chain
    <3>3. Chain(none, x, again, j) = reset_execution(stk[j])
      BY <1>11, <3>1, <3>2
    <3>4. CASE j = k
      BY <1>8, <3>3, <3>4
    <3>5. CASE j # k
      BY <1>7, <2>0, <3>3, <3>5
    <3> QED  BY <3>4, <3>5
  <2> QED  BY <2>1, <2>2
<1>17. Fits(pr, p, 0, t, none, x, again)
  BY <1>15, <1>16 DEF Fits, TurnOf
<1>18. none \in Path /\ Len(none) = 0 /\ Reachable(pr, none) /\ none = Upto(p, 0)
  BY <1>1, Start DEF none
<1>19. /\ 0 < t /\ ChainLen(none, again) = Crashes(pr, Upto(p, t - 1)) + 1
       /\ (again # << >> => x.curr = 0)
  <2>1. 0 < t
    BY <1>9
  <2>2. Crashes(pr, Upto(p, t - 1)) + 1 = k
    BY <1>3, <1>9
  <2> QED  BY <1>12, <1>14, <1>15, <2>1, <2>2
<1>20. Replaying(pr, none, none, x, again, e \cup {p}, p, t)
  BY <1>1, <1>9, <1>10, <1>17, <1>18, <1>19 DEF Replaying
<1>21. Backtracking(pr, none, none, x, again, e \cup {p})
  BY <1>3, <1>11, <1>14, <1>18, <1>20 DEF Backtracking
<1>22. \E leaf \in Leaves(pr) : leaf \notin e \cup {p}
  <2>1. p[t] + 1 < Size(pr, Upto(p, t - 1))
    BY <1>9 DEF MoreAt
  <2> QED  BY <1>1, <1>9, <2>1, EarlierNotAll
<1> QED  BY <1>21, <1>22 DEF none

-------------------------------------------------------------------------------
(* Every step, with choices in order.                                      *)

LEMMA EventOptions ==
  ASSUME NEW pr \in Programs, NEW p \in Path
  PROVE  LET e == At(pr, p)
             c == Crashes(pr, p)
         IN  /\ c \in Nat /\ pr.numcrashes \in Nat
             /\ e.kind = "load" =>
                  /\ e.size \in Nat /\ e.size > 1 /\ \A a : ~IsCrash(pr, p, a)
                  /\ IF c = 0 THEN ~Branches(pr, p) /\ Options(pr, p) = {0}
                     ELSE Branches(pr, p) /\ Size(pr, p) = e.size
             /\ e.kind = "crashpoint" =>
                  /\ IsCrash(pr, p, 0) /\ \A a : a # 0 => ~IsCrash(pr, p, a)
                  /\ IF c < pr.numcrashes THEN Branches(pr, p) /\ Size(pr, p) = 2
                     ELSE ~Branches(pr, p) /\ Options(pr, p) = {1}
             /\ e.kind = "endDirty" =>
                  /\ IsCrash(pr, p, 0) /\ ~Branches(pr, p)
                  /\ Options(pr, p) = IF c < pr.numcrashes THEN {0} ELSE {}
             /\ e.kind = "end" => Options(pr, p) = {}
<1> DEFINE e == At(pr, p)
           c == Crashes(pr, p)
<1>1. /\ e.kind \in {"load", "crashpoint", "end", "endDirty"}
      /\ e.kind = "load" => e.size \in Nat /\ 2 =< e.size /\ e.size =< MaxChoices
      /\ e.kind = "crashpoint" => e.size = 2
  BY AtIs, EventIs
<1>2. c \in Nat /\ pr.numcrashes \in Nat
  BY CrashSetIs, Constants
<1>3. /\ e.kind = "load" => Options(pr, p) = IF c = 0 THEN {0} ELSE 0 .. (e.size - 1)
      /\ e.kind = "crashpoint" => Options(pr, p) = IF c < pr.numcrashes THEN {0, 1} ELSE {1}
      /\ e.kind = "endDirty" => Options(pr, p) = IF c < pr.numcrashes THEN {0} ELSE {}
      /\ e.kind = "end" => Options(pr, p) = {}
  BY DEF Options
<1>4. Size(pr, p) = IF e.kind = "load" /\ c # 0 THEN e.size
                    ELSE IF e.kind = "crashpoint" /\ c < pr.numcrashes THEN 2 ELSE 1
  BY DEF Size
<1>5. \A a : IsCrash(pr, p, a) <=> (a = 0 /\ e.kind \in {"crashpoint", "endDirty"})
  BY DEF IsCrash
<1>6. Branches(pr, p) <=> Size(pr, p) > 1
  BY DEF Branches
<1> HIDE DEF e, c
<1>7. e.kind = "load" =>
        /\ e.size \in Nat /\ e.size > 1 /\ \A a : ~IsCrash(pr, p, a)
        /\ IF c = 0 THEN ~Branches(pr, p) /\ Options(pr, p) = {0}
           ELSE Branches(pr, p) /\ Size(pr, p) = e.size
  BY <1>1, <1>2, <1>3, <1>4, <1>5, <1>6
<1>8. e.kind = "crashpoint" =>
        /\ IsCrash(pr, p, 0) /\ \A a : a # 0 => ~IsCrash(pr, p, a)
        /\ IF c < pr.numcrashes THEN Branches(pr, p) /\ Size(pr, p) = 2
           ELSE ~Branches(pr, p) /\ Options(pr, p) = {1}
  BY <1>1, <1>2, <1>3, <1>4, <1>5, <1>6
<1>9. e.kind = "endDirty" =>
        /\ IsCrash(pr, p, 0) /\ ~Branches(pr, p)
        /\ Options(pr, p) = IF c < pr.numcrashes THEN {0} ELSE {}
  BY <1>1, <1>2, <1>3, <1>4, <1>5, <1>6
<1> QED  BY <1>2, <1>3, <1>7, <1>8, <1>9 DEF e, c

\* With choices in order: what the stacks say of the path, and how many there are.
WalkInv ==
  state = "run" /\ ~Random =>
    /\ Backtracking(prog, path, prevContext, nodestack, replaystack, ended)
    /\ numcrashes = Crashes(prog, path) /\ Len(prevContext) = numcrashes

ProgInv == prog \in Programs /\ execution_number \in Nat \ {0} /\ state \in {"run", "done"}

LEMMA WalkInit == Init => WalkInv /\ (state = "run" /\ ~Random => ended = {} /\ Leaves(prog) # {})
<1> SUFFICES ASSUME Init, ~Random PROVE WalkInv /\ ended = {} /\ Leaves(prog) # {}
  BY DEF WalkInv
<1> DEFINE none == << >>
<1>0. none \in Seq(Stack) /\ Len(none) = 0
  OBVIOUS
<1>1. /\ prog \in Programs /\ path = none /\ nodestack = NewStack /\ prevContext = none /\ replaystack = none
      /\ numcrashes = 0 /\ ended = {}
  BY DEF Init
<1>2. none \in Path /\ Reachable(prog, none) /\ Crashes(prog, none) = 0
  BY Start
<1> HIDE DEF none
<1>3. \A k, i \in Nat : ~HasNode(prog, none, k, i)
  BY <1>0 DEF HasNode
<1>4. \A k \in Nat : StackIs(NewStack, prog, none, k, 0, 0) /\ NewStack \in Stack /\ NewStack.curr = 0
  BY <1>3, StackNew
<1>5. ChainLen(none, none) = 1 /\ NewStack \in Stack /\ NewStack.curr = 0
  BY <1>0, <1>4 DEF ChainLen
<1>6. Fits(prog, none, 0, 0, none, NewStack, none)
  <2>1. ASSUME NEW k \in 1 .. 1
        PROVE  StackIs(Chain(none, NewStack, none, k), prog, none, k, 0, TurnOf(none, none, k, 0))
    <3>1. k = 1 /\ k \in Nat /\ ~(k =< Len(none)) /\ k = Len(none) + 1
      BY <1>0
    <3>2. Chain(none, NewStack, none, k) = NewStack /\ TurnOf(none, none, k, 0) = 0
      BY <3>1 DEF Chain, TurnOf
    <3> QED  BY <1>4, <3>1, <3>2
  <2> QED  BY <1>5, <2>1 DEF Fits
<1>7. Earlier(prog, none) = {}
  <2>1. ASSUME NEW p, Less(p, none) PROVE FALSE
    BY <1>0, <2>1 DEF Less, LessAt
  <2> QED  BY <2>1 DEF Earlier
<1>8. AtEnd(prog, none, none, NewStack, none, {})
  BY <1>0, <1>5, <1>6, <1>7 DEF AtEnd, none
<1>9. Backtracking(prog, none, none, NewStack, none, {})
  BY <1>0, <1>2, <1>5, <1>8 DEF Backtracking
<1>10. WalkInv
  BY <1>0, <1>1, <1>2, <1>9 DEF WalkInv
<1>11. \E leaf : IsLeaf(prog, leaf)
  BY <1>1, <1>2, LeafAbove
<1>12. Leaves(prog) # {}
  BY <1>1, <1>11, LeavesIs
<1> QED  BY <1>1, <1>10, <1>12

\* A choice is made, and perhaps it is a crash.
LEMMA WalkChoose ==
  ASSUME NEW pr \in Programs, NEW p \in Path, NEW c \in Nat, NEW prev, Len(prev) = Crashes(pr, p),
         NEW ns, NEW rep, NEW e, Backtracking(pr, Append(p, c), prev, ns, rep, e)
  PROVE  /\ ~IsCrash(pr, p, c) => Len(prev) = Crashes(pr, Append(p, c))
         /\ IsCrash(pr, p, c) =>
              /\ Backtracking(pr, Append(p, c), Append(prev, ns), AfterCrash(rep), IF rep = <<>> THEN <<>> ELSE Tail(rep), e)
              /\ Len(Append(prev, ns)) = Len(prev) + 1 /\ Len(prev) + 1 = Crashes(pr, Append(p, c))
<1>1. prev \in Seq(Stack) /\ ns \in Stack
  BY DEF Backtracking
<1>2. Crashes(pr, Append(p, c)) = Crashes(pr, p) + (IF IsCrash(pr, p, c) THEN 1 ELSE 0) /\ Crashes(pr, p) \in Nat
  BY CrashesAppend, CrashSetIs
<1>3. Len(Append(prev, ns)) = Len(prev) + 1
  BY <1>1
<1>4. ASSUME IsCrash(pr, p, c)
      PROVE  Backtracking(pr, Append(p, c), Append(prev, ns), AfterCrash(rep), IF rep = <<>> THEN <<>> ELSE Tail(rep), e)
  BY <1>4, Crash
<1> QED  BY <1>2, <1>3, <1>4

LEMMA StartAfterCrash ==
  ASSUME NEW ns, startAfterCrash(ns)
  PROVE  /\ prevContext' = Append(prevContext, ns) /\ numcrashes' = numcrashes + 1
         /\ nodestack' = AfterCrash(replaystack)
         /\ replaystack' = IF replaystack = <<>> THEN <<>> ELSE Tail(replaystack)
BY DEF startAfterCrash, AfterCrash

\* While running, with choices in order.
WalkHere ==
  /\ prog \in Programs /\ path \in Path
  /\ Backtracking(prog, path, prevContext, nodestack, replaystack, ended)
  /\ numcrashes = Crashes(prog, path) /\ Len(prevContext) = numcrashes /\ numcrashes \in Nat

LEMMA WalkHereIs ==
  ASSUME prog \in Programs, WalkInv, state = "run", ~Random
  PROVE  WalkHere
<1>1. path \in Path
  BY DEF WalkInv, Backtracking
<1> QED  BY <1>1, CrashSetIs DEF WalkInv, WalkHere

LEMMA WalkLoad ==
  ASSUME WalkHere, state = "run", ~Random, Load
  PROVE  WalkInv'
<1>1. /\ prog \in Programs /\ path \in Path /\ numcrashes = Crashes(prog, path) /\ Len(prevContext) = numcrashes
      /\ Backtracking(prog, path, prevContext, nodestack, replaystack, ended) /\ prevContext \in Seq(Stack)
  BY DEF WalkHere, Backtracking
<1>2. /\ At(prog, path).kind = "load"
      /\ prog' = prog /\ prevContext' = prevContext /\ replaystack' = replaystack /\ numcrashes' = numcrashes
      /\ ended' = ended
  BY DEF Load, next
<1>3. /\ At(prog, path).size \in Nat /\ At(prog, path).size > 1 /\ \A a : ~IsCrash(prog, path, a)
      /\ IF Crashes(prog, path) = 0 THEN ~Branches(prog, path) /\ Options(prog, path) = {0}
         ELSE Branches(prog, path) /\ Size(prog, path) = At(prog, path).size
  BY <1>1, <1>2, EventOptions
<1>4. prevContext = <<>> <=> Crashes(prog, path) = 0
  <2>1. prevContext = <<>> <=> Len(prevContext) = 0
    BY <1>1
  <2> QED  BY <1>1, <2>1
<1>5. \E c \in Options(prog, path) : path' = Append(path, c)
        /\ Backtracking(prog, Append(path, c), prevContext, nodestack', replaystack, ended)
  <2>1. CASE Crashes(prog, path) = 0
    <3>1. nodestack' = nodestack /\ path' = Append(path, 0)
      BY <1>4, <2>1 DEF Load
    <3>2. 0 \in Options(prog, path) /\ ~Branches(prog, path)
      BY <1>3, <2>1
    <3>3. Backtracking(prog, Append(path, 0), prevContext, nodestack, replaystack, ended)
      BY <1>1, <3>2, ChooseAlone
    <3> QED  BY <3>1, <3>2, <3>3
  <2>2. CASE Crashes(prog, path) # 0
    <3>1. Branches(prog, path) /\ Size(prog, path) = At(prog, path).size /\ At(prog, path).size # 1
      BY <1>3, <2>2
    <3>2. PICK r : r = explore_next(nodestack, Size(prog, path))
      OBVIOUS
    <3>3. PICK c \in Options(prog, path) :
            get_choices(r) = {c} /\ Backtracking(prog, Append(path, c), prevContext, r, replaystack, ended)
      BY <1>1, <3>1, <3>2, ChooseNode
    <3>4. nodestack' = r /\ \E a \in get_choices(r) : path' = Append(path, a)
      BY <1>4, <2>2, <3>1, <3>2 DEF Load, next
    <3>5. path' = Append(path, c)
      BY <3>3, <3>4
    <3> QED  BY <3>3, <3>4, <3>5
  <2> QED  BY <2>1, <2>2
<1>6. PICK c \in Options(prog, path) : path' = Append(path, c)
        /\ Backtracking(prog, Append(path, c), prevContext, nodestack', replaystack, ended)
  BY <1>5
<1>7. c \in Nat /\ ~IsCrash(prog, path, c)
  BY <1>1, <1>3, OptionsIs
<1>8. Len(prevContext) = Crashes(prog, Append(path, c))
  BY <1>1, <1>6, <1>7, WalkChoose
<1> QED  BY <1>1, <1>2, <1>6, <1>8 DEF WalkInv

LEMMA WalkCrashPointOff ==
  ASSUME WalkHere, state = "run", ~Random, CrashPointOff
  PROVE  WalkInv'
<1>1. /\ prog \in Programs /\ path \in Path /\ numcrashes = Crashes(prog, path) /\ Len(prevContext) = numcrashes
      /\ Backtracking(prog, path, prevContext, nodestack, replaystack, ended) /\ numcrashes \in Nat
  BY DEF WalkHere
<1>2. /\ At(prog, path).kind = "crashpoint" /\ numcrashes >= prog.numcrashes /\ path' = Append(path, 1)
      /\ prog' = prog /\ nodestack' = nodestack /\ prevContext' = prevContext /\ replaystack' = replaystack
      /\ numcrashes' = numcrashes /\ ended' = ended
  BY DEF CrashPointOff, next, NumCrashes
<1>3. ~Branches(prog, path) /\ Options(prog, path) = {1} /\ ~IsCrash(prog, path, 1)
  <2>1. prog.numcrashes \in Nat
    BY <1>1, Constants
  <2>2. ~(Crashes(prog, path) < prog.numcrashes)
    BY <1>1, <1>2, <2>1
  <2> QED  BY <1>1, <1>2, <2>2, EventOptions
<1>4. Backtracking(prog, Append(path, 1), prevContext, nodestack, replaystack, ended)
  BY <1>1, <1>3, ChooseAlone
<1>5. Len(prevContext) = Crashes(prog, Append(path, 1))
  BY <1>1, <1>3, <1>4, WalkChoose
<1> QED  BY <1>1, <1>2, <1>4, <1>5 DEF WalkInv

LEMMA WalkCrashPoint ==
  ASSUME WalkHere, state = "run", ~Random, CrashPoint
  PROVE  WalkInv'
<1>1. /\ prog \in Programs /\ path \in Path /\ numcrashes = Crashes(prog, path) /\ Len(prevContext) = numcrashes
      /\ Backtracking(prog, path, prevContext, nodestack, replaystack, ended) /\ numcrashes \in Nat
  BY DEF WalkHere
<1>2. PICK r : r = explore_next(nodestack, 2)
  OBVIOUS
<1>3. /\ At(prog, path).kind = "crashpoint" /\ numcrashes < prog.numcrashes
      /\ prog' = prog /\ ended' = ended
      /\ \E a \in get_choices(r) :
           /\ path' = Append(path, a)
           /\ IF a = 0 THEN startAfterCrash(r)
              ELSE nodestack' = r /\ UNCHANGED <<prevContext, replaystack, numcrashes>>
  BY <1>2 DEF CrashPoint, next, NumCrashes
<1>4. Branches(prog, path) /\ Size(prog, path) = 2 /\ IsCrash(prog, path, 0) /\ \A a : a # 0 => ~IsCrash(prog, path, a)
  BY <1>1, <1>3, EventOptions
<1>5. PICK c \in Options(prog, path) :
        get_choices(r) = {c} /\ Backtracking(prog, Append(path, c), prevContext, r, replaystack, ended)
  BY <1>1, <1>2, <1>4, ChooseNode
<1>6. c \in Nat
  BY <1>1, OptionsIs
<1>7. /\ path' = Append(path, c)
      /\ IF c = 0 THEN startAfterCrash(r)
         ELSE nodestack' = r /\ UNCHANGED <<prevContext, replaystack, numcrashes>>
  BY <1>3, <1>5
<1>8. CASE c = 0
  <2>1. /\ prevContext' = Append(prevContext, r) /\ numcrashes' = numcrashes + 1
        /\ nodestack' = AfterCrash(replaystack)
        /\ replaystack' = IF replaystack = <<>> THEN <<>> ELSE Tail(replaystack)
    BY <1>7, <1>8, StartAfterCrash
  <2>2. /\ Backtracking(prog, Append(path, c), Append(prevContext, r), AfterCrash(replaystack),
                        IF replaystack = <<>> THEN <<>> ELSE Tail(replaystack), ended)
        /\ Len(Append(prevContext, r)) = Len(prevContext) + 1 /\ Len(prevContext) + 1 = Crashes(prog, Append(path, c))
    BY <1>1, <1>4, <1>5, <1>6, <1>8, WalkChoose
  <2> QED  BY <1>1, <1>3, <1>7, <2>1, <2>2 DEF WalkInv
<1>9. CASE c # 0
  <2>1. Len(prevContext) = Crashes(prog, Append(path, c))
    BY <1>1, <1>4, <1>5, <1>6, <1>9, WalkChoose
  <2> QED  BY <1>1, <1>3, <1>5, <1>7, <1>9, <2>1 DEF WalkInv
<1> QED  BY <1>8, <1>9

LEMMA WalkLastCrash ==
  ASSUME WalkHere, state = "run", ~Random, LastCrash
  PROVE  WalkInv'
<1>1. /\ prog \in Programs /\ path \in Path /\ numcrashes = Crashes(prog, path) /\ Len(prevContext) = numcrashes
      /\ Backtracking(prog, path, prevContext, nodestack, replaystack, ended) /\ numcrashes \in Nat
  BY DEF WalkHere
<1>2. /\ At(prog, path).kind = "endDirty" /\ numcrashes < prog.numcrashes /\ path' = Append(path, 0)
      /\ prog' = prog /\ ended' = ended /\ startAfterCrash(nodestack)
  BY DEF LastCrash, next, NumCrashes
<1>3. ~Branches(prog, path) /\ Options(prog, path) = {0} /\ IsCrash(prog, path, 0)
  BY <1>1, <1>2, EventOptions
<1>4. Backtracking(prog, Append(path, 0), prevContext, nodestack, replaystack, ended)
  BY <1>1, <1>3, ChooseAlone
<1>5. /\ prevContext' = Append(prevContext, nodestack) /\ numcrashes' = numcrashes + 1
      /\ nodestack' = AfterCrash(replaystack)
      /\ replaystack' = IF replaystack = <<>> THEN <<>> ELSE Tail(replaystack)
  BY <1>2, StartAfterCrash
<1>6. /\ Backtracking(prog, Append(path, 0), Append(prevContext, nodestack), AfterCrash(replaystack),
                      IF replaystack = <<>> THEN <<>> ELSE Tail(replaystack), ended)
      /\ Len(Append(prevContext, nodestack)) = Len(prevContext) + 1 /\ Len(prevContext) + 1 = Crashes(prog, Append(path, 0))
  BY <1>1, <1>3, <1>4, WalkChoose
<1> QED  BY <1>1, <1>2, <1>5, <1>6 DEF WalkInv

LEMMA WalkFinish ==
  ASSUME WalkHere, state = "run", ~Random, finish_execution
  PROVE  /\ WalkInv' /\ prog' = prog /\ execution_number' = execution_number + 1
         /\ path \in Leaves(prog) /\ path \notin ended /\ ended' = ended \cup {path}
         /\ state' = IF Leaves(prog) = ended \cup {path} THEN "done" ELSE "run"
<1>1. /\ prog \in Programs /\ path \in Path /\ numcrashes = Crashes(prog, path) /\ Len(prevContext) = numcrashes
      /\ Backtracking(prog, path, prevContext, nodestack, replaystack, ended) /\ numcrashes \in Nat
      /\ prevContext \in Seq(Stack) /\ nodestack \in Stack
  BY DEF WalkHere, Backtracking
<1>2. Finishing /\ prog' = prog /\ execution_number' = execution_number + 1 /\ ended' = ended \cup {path}
  BY DEF finish_execution
<1>3. Options(prog, path) = {}
  <2>1. CASE At(prog, path).kind = "end"
    BY <1>1, <2>1, EventOptions
  <2>2. CASE At(prog, path).kind = "endDirty" /\ numcrashes >= prog.numcrashes
    <3>1. prog.numcrashes \in Nat
      BY <1>1, Constants
    <3>2. ~(Crashes(prog, path) < prog.numcrashes)
      BY <1>1, <2>2, <3>1
    <3> QED  BY <1>1, <2>2, <3>2, EventOptions
  <2> QED  BY <1>2, <2>1, <2>2 DEF Finishing, next, NumCrashes
<1>4. IsLeaf(prog, path) /\ path \in Leaves(prog) /\ path \notin ended
      /\ AtEnd(prog, path, prevContext, nodestack, replaystack, ended)
  BY <1>1, <1>3, Finished
<1>5. PICK stk : stk = stacks
  OBVIOUS
<1>6. stk = Append(prevContext, nodestack)
  BY <1>5 DEF stacks
<1> DEFINE n == Len(prevContext) + 1
           B == {k \in 1 .. n : has_another_execution(stk[k])}
<1>7. n \in Nat /\ DOMAIN stk = 1 .. n
  BY <1>1, <1>6
<1>8. \A k \in 1 .. n : stk[k] = Chain(prevContext, nodestack, replaystack, k)
  <2>1. stk[n] = nodestack /\ \A j \in 1 .. Len(prevContext) : stk[j] = prevContext[j]
    BY <1>1, <1>6
  <2>2. \A j \in 1 .. n : j = n \/ j \in 1 .. Len(prevContext)
    BY <1>1
  <2>3. Chain(prevContext, nodestack, replaystack, n) = nodestack
        /\ \A j \in 1 .. Len(prevContext) : Chain(prevContext, nodestack, replaystack, j) = prevContext[j]
    BY <1>1 DEF Chain
  <2> HIDE DEF n
  <2> QED  BY <2>1, <2>2, <2>3
<1>9. backtrackable = B
  BY <1>5, <1>7 DEF backtrackable
<1> HIDE DEF B
<1>10. CASE B = {}
  <2>1. \A k \in 1 .. n : ~has_another_execution(Chain(prevContext, nodestack, replaystack, k))
    BY <1>8, <1>10 DEF B
  <2>2. Leaves(prog) = ended \cup {path}
    BY <1>1, <1>3, <2>1, NoneLeft
  <2>3. state' = "done"
    BY <1>9, <1>10 DEF finish_execution
  <2> QED  BY <1>2, <1>4, <2>2, <2>3 DEF WalkInv
<1>11. CASE B # {}
  <2>1. B \in SUBSET Nat /\ \A k \in B : k =< n
    BY <1>7 DEF B
  <2>2. Max(B) \in B /\ \A j \in B : j =< Max(B)
    BY <1>7, <1>11, <2>1, MaxIs
  <2>3. PICK k \in 1 .. n : k = Max(B) /\ has_another_execution(stk[k])
    BY <2>2 DEF B
  <2>4. \A j \in 1 .. n : k < j => ~has_another_execution(stk[j])
    <3> SUFFICES ASSUME NEW j \in 1 .. n, k < j, has_another_execution(stk[j]) PROVE FALSE
      OBVIOUS
    <3>1. j \in B
      BY DEF B
    <3>2. j =< k
      BY <2>2, <2>3, <3>1
    <3> QED  BY <3>2
  <2>5. restart(k)
    BY <1>9, <1>11, <2>3 DEF finish_execution
  <2>6. PICK again : again = replaystack'
    OBVIOUS
  <2>7. PICK x : x = nodestack'
    OBVIOUS
  <2>8. Restarted(stk, replaystack, k, again, x)
    BY <1>5, <2>5, <2>6, <2>7 DEF restart, Restarted
  <2>9. /\ Backtracking(prog, <<>>, <<>>, x, again, ended \cup {path})
         /\ \E leaf \in Leaves(prog) : leaf \notin ended \cup {path}
    BY <1>1, <1>3, <1>6, <2>3, <2>4, <2>8, Restart
  <2>10. prevContext' = <<>> /\ path' = <<>> /\ numcrashes' = 0 /\ state' = state
    BY <2>5 DEF restart
  <2>11. Crashes(prog, <<>>) = 0 /\ Len(<<>>) = 0
    BY Start
  <2>12. Leaves(prog) # ended \cup {path}
    BY <2>9
  <2>13. WalkInv'
    BY <1>2, <2>6, <2>7, <2>9, <2>10, <2>11 DEF WalkInv
  <2> QED  BY <1>2, <1>4, <2>10, <2>12, <2>13
<1> QED  BY <1>10, <1>11

-------------------------------------------------------------------------------
(* Every step, with choices at random.                                     *)

\* Stacks whose head points into them.
Loose == {ns \in Stack : ns.head =< Len(ns.nodes)}

LEMMA LooseIs ==
  ASSUME NEW ns \in Loose
  PROVE  /\ ns \in Stack /\ ns.nodes \in Seq(NodeRecord) /\ ns.head \in Nat /\ Len(ns.nodes) \in Nat
         /\ ns.head =< Len(ns.nodes)
         /\ reset_execution(ns) \in Loose /\ reset_execution(ns).last = 0
         /\ repeat_prev_execution(ns) \in Loose /\ repeat_prev_execution(ns).last = ns.last
         /\ [ns EXCEPT !.last = ns.head] \in Loose
<1>1. ns \in Stack /\ ns.nodes \in Seq(NodeRecord) /\ ns.head \in Nat /\ Len(ns.nodes) \in Nat /\ ns.last \in Nat
      /\ ns.curr \in Nat /\ ns.head =< Len(ns.nodes)
  BY DEF Loose, Stack
<1>2. 0 =< Len(ns.nodes)
  BY <1>1
<1>3. reset_execution(ns) \in Loose /\ reset_execution(ns).last = 0
  BY <1>1, <1>2 DEF Loose, Stack, reset_execution
<1>4. repeat_prev_execution(ns) \in Loose /\ repeat_prev_execution(ns).last = ns.last
  BY <1>1 DEF Loose, Stack, repeat_prev_execution
<1>5. [ns EXCEPT !.last = ns.head] \in Loose
  BY <1>1 DEF Loose, Stack
<1> QED  BY <1>1, <1>3, <1>4, <1>5

LEMMA LooseNew == NewStack \in Loose /\ NewStack.last = 0
<1> DEFINE none == << >>
<1>1. none \in Seq(NodeRecord) /\ 0 =< Len(none)
  OBVIOUS
<1>2. NewStack = [nodes |-> none, head |-> 0, last |-> 0, curr |-> 0]
  BY DEF NewStack
<1> HIDE DEF none
<1> QED  BY <1>1, <1>2 DEF Loose, Stack

\* At random explore_next never finds a choice left.
LEMMA ExploreRandom ==
  ASSUME Random, NEW ns \in Loose, NEW size \in Nat
  PROVE  explore_next(ns, size) \in Loose /\ explore_next(ns, size).last = ns.last
<1> DEFINE node == [idx |-> 0, size |-> size]
           h == ns.head + 1
           r == explore_next(ns, size)
           old == ns.nodes
<1>1. /\ old \in Seq(NodeRecord) /\ ns.head \in Nat /\ Len(old) \in Nat /\ ns.head =< Len(old) /\ ns.last \in Nat
      /\ ns.curr \in Nat /\ h \in Nat /\ h >= 1
  <2>1. ns.nodes \in Seq(NodeRecord) /\ ns.head \in Nat /\ Len(ns.nodes) \in Nat /\ ns.head =< Len(ns.nodes) /\ ns \in Stack
    BY LooseIs
  <2>2. ns.last \in Nat /\ ns.curr \in Nat
    BY <2>1 DEF Stack
  <2>3. h \in Nat /\ h >= 1
    BY <2>1
  <2> QED  BY <2>1, <2>2, <2>3
<1>2. node \in NodeRecord
  BY DEF NodeRecord
<1>3. \A s : ~has_more_choices(s)
  BY DEF has_more_choices
<1>4. CASE ns.head = Len(old)
  <2> DEFINE nodes == Append(old, node)
  <2>1. nodes \in Seq(NodeRecord) /\ Len(nodes) = h
    <3> HIDE DEF node
    <3> QED  BY <1>1, <1>2, <1>4
  <2>2. r = [nodes |-> nodes, head |-> h, last |-> IF has_more_choices(nodes[h]) THEN h ELSE ns.last, curr |-> ns.curr]
    BY <1>4 DEF explore_next
  <2> HIDE DEF nodes, r, h, node
  <2>3. r = [nodes |-> nodes, head |-> h, last |-> ns.last, curr |-> ns.curr]
    BY <1>3, <2>2
  <2>4. r \in Loose /\ r.last = ns.last
    BY <1>1, <2>1, <2>3 DEF Loose, Stack
  <2> QED  BY <2>4 DEF r
<1>5. CASE ns.head # Len(old) /\ h = ns.curr
  <2> DEFINE new == [old[h] EXCEPT !.idx = @ + 1]
             all == [old EXCEPT ![h] = new]
             nodes == SubSeq(all, 1, h)
  <2>0. h \in 1 .. Len(old) /\ h =< Len(old)
    BY <1>1, <1>5
  <2>1. old[h] \in NodeRecord
    BY <1>1, <2>0
  <2>2. new \in NodeRecord
    BY <2>1 DEF NodeRecord
  <2>3. all = [old EXCEPT ![h].idx = @ + 1]
    OBVIOUS
  <2>4. r = [nodes |-> nodes, head |-> h, last |-> IF has_more_choices(nodes[h]) THEN h ELSE ns.last, curr |-> 0]
    BY <1>5, <2>3 DEF explore_next
  <2> HIDE DEF r, nodes
  <2>5. all \in Seq(NodeRecord) /\ Len(all) = Len(old)
    <3> HIDE DEF new, h, old
    <3> QED  BY <1>1, <2>0, <2>2
  <2> HIDE DEF all
  <2>6. nodes \in Seq(NodeRecord) /\ Len(nodes) = h
    <3>1. \A i \in 1 .. h : all[i] \in NodeRecord
      BY <1>1, <2>0, <2>5
    <3>2. h \in Int /\ 1 \in Int /\ h - 1 + 1 = h
      BY <1>1
    <3>3. SubSeq(all, 1, h) \in Seq(NodeRecord) /\ Len(SubSeq(all, 1, h)) = IF 1 =< h THEN h - 1 + 1 ELSE 0
      BY <3>1, <3>2, SubSeqProperties
    <3> HIDE DEF h
    <3> QED  BY <1>1, <3>2, <3>3 DEF nodes
  <2> HIDE DEF h
  <2>7. r = [nodes |-> nodes, head |-> h, last |-> ns.last, curr |-> 0]
    BY <1>3, <2>4
  <2>8. r \in Loose /\ r.last = ns.last
    BY <1>1, <2>6, <2>7 DEF Loose, Stack
  <2> QED  BY <2>8 DEF r
<1>6. CASE ns.head # Len(old) /\ h # ns.curr
  <2>0. h =< Len(old)
    BY <1>1, <1>6
  <2>1. r = [nodes |-> old, head |-> h, last |-> IF has_more_choices(old[h]) THEN h ELSE ns.last, curr |-> ns.curr]
    BY <1>6 DEF explore_next
  <2> HIDE DEF r, h, old
  <2>2. r = [nodes |-> old, head |-> h, last |-> ns.last, curr |-> ns.curr]
    BY <1>3, <2>1
  <2>3. r \in Loose /\ r.last = ns.last
    BY <1>1, <2>0, <2>2 DEF Loose, Stack
  <2> QED  BY <2>3 DEF r
<1> QED  BY <1>4, <1>5, <1>6

LEMMA AskedIs ==
  ASSUME prog \in Programs
  PROVE  /\ MaxRuns \in Nat /\ Max({1, MaxRuns}) \in Nat
         /\ Max({1, MaxRuns}) = IF MaxRuns > 1 THEN MaxRuns ELSE 1
<1>1. PICK n \in Nat : n = MaxRuns
  BY Constants DEF MaxRuns
<1> DEFINE S == {1, n}
<1>2. S \in SUBSET Nat /\ S # {} /\ \A m \in S : m =< n + 1
  OBVIOUS
<1>3. Max(S) \in S /\ \A m \in S : m =< Max(S)
  <2> HIDE DEF S
  <2> QED  BY <1>2, MaxIs
<1>4. Max(S) \in {1, n} /\ 1 =< Max(S) /\ n =< Max(S)
  BY <1>3
<1> HIDE DEF S
<1>5. Max(S) = IF n > 1 THEN n ELSE 1
  BY <1>4
<1> QED  BY <1>1, <1>5 DEF S

\* At random: a stack with another execution is there only if another run is to
\* be made, and the stacks to be replayed have none.
RandomInv ==
  state = "run" /\ Random =>
    /\ prevContext \in Seq(Loose) /\ nodestack \in Loose /\ replaystack \in Seq(Loose)
    /\ nodestack.last # 0 \/ (\E k \in 1 .. Len(prevContext) : prevContext[k].last # 0) => execution_number < MaxRuns
    /\ \A k \in 1 .. Len(replaystack) : replaystack[k].last = 0
    /\ execution_number =< Max({1, MaxRuns})

LEMMA RandomInit == Init => RandomInv
<1> SUFFICES ASSUME Init PROVE RandomInv
  OBVIOUS
<1> DEFINE none == << >>
<1>0. none \in Seq(Loose) /\ Len(none) = 0
  OBVIOUS
<1>1. /\ prog \in Programs /\ nodestack = NewStack /\ prevContext = none /\ replaystack = none /\ execution_number = 1
  BY DEF Init
<1>2. 1 =< Max({1, MaxRuns})
  BY <1>1, AskedIs
<1> HIDE DEF none
<1> QED  BY <1>0, <1>1, <1>2, LooseNew DEF RandomInv

\* While running, at random.
RandomHere ==
  /\ prog \in Programs /\ execution_number \in Nat \ {0}
  /\ prevContext \in Seq(Loose) /\ nodestack \in Loose /\ replaystack \in Seq(Loose)
  /\ nodestack.last # 0 \/ (\E k \in 1 .. Len(prevContext) : prevContext[k].last # 0) => execution_number < MaxRuns
  /\ \A k \in 1 .. Len(replaystack) : replaystack[k].last = 0
  /\ execution_number =< Max({1, MaxRuns})

LEMMA RandomHereIs ==
  ASSUME ProgInv, RandomInv, state = "run", Random
  PROVE  RandomHere
BY DEF ProgInv, RandomInv, RandomHere

\* A crash adds the stack ns; the next one has no other execution.
LEMMA RandomStart ==
  ASSUME RandomHere, NEW ns \in Loose, ns.last # 0 => execution_number < MaxRuns, startAfterCrash(ns),
         prog' = prog, execution_number' = execution_number
  PROVE  RandomInv'
<1>1. /\ prevContext' = Append(prevContext, ns) /\ nodestack' = AfterCrash(replaystack)
      /\ replaystack' = IF replaystack = <<>> THEN <<>> ELSE Tail(replaystack)
  BY StartAfterCrash
<1>2. prevContext \in Seq(Loose) /\ replaystack \in Seq(Loose) /\ \A k \in 1 .. Len(replaystack) : replaystack[k].last = 0
  BY DEF RandomHere
<1>3. prevContext' \in Seq(Loose) /\ ((\E k \in 1 .. Len(prevContext') : prevContext'[k].last # 0) => execution_number < MaxRuns)
  <2>1. /\ Append(prevContext, ns) \in Seq(Loose) /\ Len(Append(prevContext, ns)) = Len(prevContext) + 1
        /\ Append(prevContext, ns)[Len(prevContext) + 1] = ns /\ Len(prevContext) \in Nat
        /\ \A k \in 1 .. Len(prevContext) : Append(prevContext, ns)[k] = prevContext[k]
    BY <1>2
  <2>2. \A k \in 1 .. (Len(prevContext) + 1) : k = Len(prevContext) + 1 \/ k \in 1 .. Len(prevContext)
    BY <2>1
  <2> QED  BY <1>1, <2>1, <2>2 DEF RandomHere
<1>4. nodestack' \in Loose /\ nodestack'.last = 0 /\ replaystack' \in Seq(Loose)
      /\ \A k \in 1 .. Len(replaystack') : replaystack'[k].last = 0
  <2>1. CASE replaystack = <<>>
    <3> DEFINE none == << >>
    <3>1. none \in Seq(Loose) /\ Len(none) = 0
      OBVIOUS
    <3>2. nodestack' = NewStack /\ replaystack' = none
      BY <1>1, <2>1 DEF AfterCrash
    <3> HIDE DEF none
    <3> QED  BY <3>1, <3>2, LooseNew
  <2>2. CASE replaystack # <<>>
    <3>1. PICK n \in Nat : n = Len(replaystack)
      BY <1>2
    <3>2. n >= 1 /\ 1 \in 1 .. n
      BY <1>2, <2>2, <3>1
    <3>3. Tail(replaystack) \in Seq(Loose) /\ Len(Tail(replaystack)) = n - 1
          /\ \A k \in 1 .. (n - 1) : Tail(replaystack)[k] = replaystack[k + 1]
      BY <1>2, <2>2, <3>1
    <3>4. \A k \in 1 .. (n - 1) : k + 1 \in 1 .. n
      BY <3>1
    <3>5. Head(replaystack) = replaystack[1] /\ replaystack[1] \in Loose /\ replaystack[1].last = 0
      BY <1>2, <2>2, <3>1, <3>2
    <3>6. repeat_prev_execution(replaystack[1]) \in Loose /\ repeat_prev_execution(replaystack[1]).last = 0
      BY <3>5, LooseIs
    <3>7. nodestack' \in {replaystack[1], repeat_prev_execution(replaystack[1])}
      BY <1>1, <2>2, <3>5 DEF AfterCrash
    <3>8. replaystack' = Tail(replaystack)
      BY <1>1, <2>2
    <3> QED  BY <1>2, <3>1, <3>3, <3>4, <3>5, <3>6, <3>7, <3>8
  <2> QED  BY <2>1, <2>2
<1>5. MaxRuns' = MaxRuns /\ execution_number =< Max({1, MaxRuns})
  BY DEF MaxRuns, RandomHere
<1> QED  BY <1>3, <1>4, <1>5 DEF RandomInv

\* Another run starts: no stack has another execution.
LEMMA RandomRestart ==
  ASSUME RandomHere, NEW k \in 1 .. (Len(prevContext) + 1), restart(k), prog' = prog,
         execution_number' =< Max({1, MaxRuns})
  PROVE  RandomInv'
<1>0. prevContext \in Seq(Loose) /\ nodestack \in Loose /\ replaystack \in Seq(Loose)
      /\ \A j \in 1 .. Len(replaystack) : replaystack[j].last = 0
  BY DEF RandomHere
<1>1. PICK stk : stk = stacks
  OBVIOUS
<1>2. PICK n \in Nat : n = Len(prevContext) + 1
  BY <1>0
<1>3. stk \in Seq(Loose) /\ Len(stk) = n
  BY <1>0, <1>1, <1>2 DEF stacks
<1>4. \A j \in 1 .. n : reset_execution(stk[j]) \in Loose /\ reset_execution(stk[j]).last = 0
                        /\ repeat_prev_execution(reset_execution(stk[j])) \in Loose
                        /\ repeat_prev_execution(reset_execution(stk[j])).last = 0
  <2>1. \A j \in 1 .. n : stk[j] \in Loose
    BY <1>3
  <2> QED  BY <2>1, LooseIs
<1>5. k \in Nat /\ 1 =< k /\ k =< n /\ k - 1 \in Nat /\ 1 \in 1 .. n
  BY <1>2
<1> DEFINE f == [j \in 1 .. k - 1 |-> reset_execution(stk[j + 1])]
<1>6. f \in Seq(Loose) /\ Len(f) = k - 1 /\ \A j \in 1 .. (k - 1) : f[j].last = 0
  <2>1. \A j \in 1 .. (k - 1) : j + 1 \in 1 .. n
    BY <1>5
  <2>2. \A j \in 1 .. (k - 1) : reset_execution(stk[j + 1]) \in Loose /\ reset_execution(stk[j + 1]).last = 0
    BY <1>4, <2>1
  <2> QED  BY <1>5, <2>2
<1> HIDE DEF f
<1>7. PICK again : again = replaystack'
  OBVIOUS
<1>8. again = f \o replaystack
  BY <1>1, <1>7 DEF restart, f
<1>9. again \in Seq(Loose) /\ \A j \in 1 .. Len(again) : again[j].last = 0
  <2>1. PICK l \in Nat : l = Len(replaystack)
    BY <1>0
  <2>2. /\ f \o replaystack \in Seq(Loose) /\ Len(f \o replaystack) = k - 1 + l
        /\ \A j \in 1 .. (k - 1 + l) : (f \o replaystack)[j] = IF j =< k - 1 THEN f[j] ELSE replaystack[j - (k - 1)]
    BY <1>0, <1>5, <1>6, <2>1
  <2>3. ASSUME NEW j \in 1 .. (k - 1 + l) PROVE (f \o replaystack)[j].last = 0
    <3>1. CASE j =< k - 1
      <4>1. j \in 1 .. (k - 1)
        BY <3>1
      <4> QED  BY <1>6, <2>2, <3>1, <4>1
    <3>2. CASE ~(j =< k - 1)
      <4>1. j - (k - 1) \in 1 .. l
        BY <1>5, <3>2
      <4> QED  BY <1>0, <2>1, <2>2, <3>2, <4>1
    <3> QED  BY <3>1, <3>2
  <2> QED  BY <1>8, <2>2, <2>3
<1>10. nodestack' \in {reset_execution(stk[1]), repeat_prev_execution(reset_execution(stk[1]))}
  BY <1>1 DEF restart
<1>11. nodestack' \in Loose /\ nodestack'.last = 0
  BY <1>4, <1>5, <1>10
<1>12. prevContext' \in Seq(Loose) /\ \A j \in 1 .. Len(prevContext') : FALSE
  <2> DEFINE none == << >>
  <2>1. none \in Seq(Loose) /\ Len(none) = 0
    OBVIOUS
  <2>2. prevContext' = none
    BY DEF restart
  <2> HIDE DEF none
  <2> QED  BY <2>1, <2>2
<1>13. MaxRuns' = MaxRuns
  BY DEF MaxRuns
<1> QED  BY <1>7, <1>9, <1>11, <1>12, <1>13 DEF RandomInv

LEMMA RandomKeep ==
  ASSUME RandomHere, nodestack' \in Loose, nodestack'.last = nodestack.last,
         UNCHANGED <<prog, prevContext, replaystack, execution_number>>
  PROVE  RandomInv'
<1>1. MaxRuns' = MaxRuns
  BY DEF MaxRuns
<1> QED  BY <1>1 DEF RandomInv, RandomHere

\* A load that explores has as many choices as its event.
LEMMA LoadIs ==
  ASSUME prog \in Programs, Load
  PROVE  \E size \in Nat : nodestack' = IF size = 1 THEN nodestack ELSE explore_next(nodestack, size)
<1> DEFINE size == IF prevContext = <<>> THEN 1 ELSE next.size
<1>1. nodestack' = IF size = 1 THEN nodestack ELSE explore_next(nodestack, size)
  BY DEF Load
<1>2. next.kind = "load" /\ (next \in Event => next.size \in Nat)
  BY EventIs DEF Load
<1>3. next \in Event
  <2>1. \A p \in DOMAIN prog.tree : prog.tree[p] \in Event
    BY Constants
  <2>2. End \in Event
    BY DEF End, Event
  <2> QED  BY <2>1, <2>2 DEF next, At
<1>4. size \in Nat
  BY <1>2, <1>3
<1> QED  BY <1>1, <1>4

LEMMA RandomStep ==
  ASSUME RandomHere, state = "run", Random, Load \/ CrashPointOff \/ CrashPoint \/ RandomCrash \/ LastCrash
  PROVE  RandomInv'
<1>0. nodestack \in Loose /\ prog \in Programs
  BY DEF RandomHere
<1>1. CASE Load
  <2>1. PICK size \in Nat : nodestack' = IF size = 1 THEN nodestack ELSE explore_next(nodestack, size)
    BY <1>0, <1>1, LoadIs
  <2>2. nodestack' \in Loose /\ nodestack'.last = nodestack.last
    BY <1>0, <2>1, ExploreRandom
  <2> QED  BY <1>1, <2>2, RandomKeep DEF Load
<1>2. CASE CrashPointOff
  BY <1>0, <1>2, RandomKeep DEF CrashPointOff
<1>3. CASE CrashPoint
  BY <1>3 DEF CrashPoint
<1>4. CASE RandomCrash
  <2>1. PICK r : r = explore_next(nodestack, 2)
    OBVIOUS
  <2>2. r \in Loose
    BY <1>0, <2>1, ExploreRandom
  <2>3. PICK s : s = [r EXCEPT !.last = r.head]
    OBVIOUS
  <2>4. s \in Loose
    BY <2>2, <2>3, LooseIs
  <2>5. execution_number < MaxRuns /\ startAfterCrash(s) /\ prog' = prog /\ execution_number' = execution_number
    BY <1>4, <2>1, <2>3 DEF RandomCrash
  <2> QED  BY <2>4, <2>5, RandomStart
<1>5. CASE LastCrash
  <2>1. startAfterCrash(nodestack) /\ prog' = prog /\ execution_number' = execution_number
    BY <1>5 DEF LastCrash
  <2>2. nodestack.last # 0 => execution_number < MaxRuns
    BY DEF RandomHere
  <2>3. PICK s : s = nodestack
    OBVIOUS
  <2> QED  BY <1>0, <2>1, <2>2, <2>3, RandomStart
<1> QED  BY <1>1, <1>2, <1>3, <1>4, <1>5

LEMMA RandomFinish ==
  ASSUME RandomHere, state = "run", Random, finish_execution
  PROVE  /\ RandomInv' /\ prog' = prog /\ execution_number' = execution_number + 1
         /\ state' = IF execution_number = Max({1, MaxRuns}) THEN "done" ELSE "run"
<1>1. /\ prog \in Programs /\ execution_number \in Nat /\ execution_number # 0
      /\ prevContext \in Seq(Loose) /\ nodestack \in Loose /\ execution_number =< Max({1, MaxRuns})
  BY DEF RandomHere
<1>2. prog' = prog /\ execution_number' = execution_number + 1
  BY DEF finish_execution
<1>3. PICK m \in Nat : m = MaxRuns
  BY <1>1, AskedIs
<1>4. PICK a \in Nat : a = Max({1, MaxRuns}) /\ a = IF m > 1 THEN m ELSE 1
  BY <1>1, <1>3, AskedIs
<1>5. PICK n \in Nat : n = Len(prevContext) + 1
  BY <1>1
<1>6. DOMAIN stacks = 1 .. n /\ stacks[n] = nodestack /\ \A k \in 1 .. Len(prevContext) : stacks[k] = prevContext[k]
  BY <1>1, <1>5 DEF stacks
<1>7. CASE backtrackable # {}
  <2>1. backtrackable \in SUBSET Nat /\ \A k \in backtrackable : k =< n
    BY <1>6 DEF backtrackable
  <2>2. Max(backtrackable) \in backtrackable
    BY <1>7, <2>1, MaxIs
  <2>3. PICK k \in 1 .. n : k = Max(backtrackable) /\ stacks[k].last # 0
    BY <1>6, <2>2 DEF backtrackable, has_another_execution
  <2>4. execution_number < MaxRuns
    <3>1. k = n \/ k \in 1 .. Len(prevContext)
      BY <1>5
    <3> QED  BY <1>6, <2>3, <3>1 DEF RandomHere
  <2>5. restart(k)
    BY <1>7, <2>3 DEF finish_execution
  <2>6. state' = state
    BY <2>5 DEF restart
  <2>7. execution_number + 1 =< a /\ execution_number # a
    BY <1>1, <1>3, <1>4, <2>4
  <2>8. RandomInv'
    BY <1>2, <1>4, <1>5, <2>5, <2>7, RandomRestart
  <2> QED  BY <1>2, <1>4, <2>6, <2>7, <2>8
<1>8. CASE backtrackable = {} /\ MaxRuns >= execution_number + 1
  <2>1. restart(1)
    BY <1>2, <1>8 DEF finish_execution
  <2>2. state' = state
    BY <2>1 DEF restart
  <2>3. execution_number + 1 =< a /\ execution_number # a
    BY <1>1, <1>3, <1>4, <1>8
  <2>4. 1 \in 1 .. (Len(prevContext) + 1)
    BY <1>5
  <2>5. RandomInv'
    BY <1>2, <1>4, <2>1, <2>3, <2>4, RandomRestart
  <2> QED  BY <1>2, <1>4, <2>2, <2>3, <2>5
<1>9. CASE backtrackable = {} /\ ~(MaxRuns >= execution_number + 1)
  <2>1. state' = "done"
    BY <1>2, <1>9 DEF finish_execution
  <2>2. execution_number = a
    BY <1>1, <1>3, <1>4, <1>9
  <2> QED  BY <1>2, <1>4, <2>1, <2>2 DEF RandomInv
<1> QED  BY <1>7, <1>8, <1>9

-------------------------------------------------------------------------------
(* The walk of the tree.                                                   *)

IInv == ProgInv /\ WalkInv /\ RandomInv

LEMMA EndedIsLeaves == ASSUME WalkHere PROVE ended \subseteq Leaves(prog)
BY DEF WalkHere, Backtracking, AtEnd, Replaying, Earlier, EarlierOr

\* The walk sees only the ends of executions.
LEMMA WalkWaits ==
  ASSUME UNCHANGED <<prog, state, execution_number, ended>>
  PROVE  UNCHANGED Walk!vars
<1>1. todo' = todo
  BY DEF todo, asked, Random, MaxRuns
<1>2. done' = done
  BY DEF done
<1> QED  BY <1>1, <1>2 DEF Walk!vars

\* What a step that ends no execution leaves alone.
LEMMA StepKeeps ==
  ASSUME Load \/ CrashPointOff \/ CrashPoint \/ RandomCrash \/ LastCrash
  PROVE  UNCHANGED <<prog, state, execution_number, ended>> /\ state = "run"
<1>1. CASE Load
  BY <1>1 DEF Load
<1>2. CASE CrashPointOff
  BY <1>2 DEF CrashPointOff
<1>3. CASE CrashPoint
  BY <1>3 DEF CrashPoint
<1>4. CASE RandomCrash
  BY <1>4 DEF RandomCrash
<1>5. CASE LastCrash
  BY <1>5 DEF LastCrash
<1> QED  BY <1>1, <1>2, <1>3, <1>4, <1>5

LEMMA StepWalk ==
  ASSUME IInv, Load \/ CrashPointOff \/ CrashPoint \/ RandomCrash \/ LastCrash
  PROVE  IInv' /\ UNCHANGED Walk!vars
<1>1. UNCHANGED <<prog, state, execution_number, ended>> /\ state = "run"
  BY StepKeeps
<1>2. UNCHANGED Walk!vars
  BY <1>1, WalkWaits
<1>3. ProgInv'
  BY <1>1 DEF IInv, ProgInv
<1>4. Random' = Random
  BY <1>1 DEF Random
<1>5. CASE Random
  <2>1. RandomHere
    BY <1>1, <1>5, RandomHereIs DEF IInv
  <2>2. RandomInv'
    BY <1>1, <1>5, <2>1, RandomStep
  <2>3. WalkInv'
    BY <1>4, <1>5 DEF WalkInv
  <2> QED  BY <1>2, <1>3, <2>2, <2>3 DEF IInv
<1>6. CASE ~Random
  <2>1. WalkHere
    BY <1>1, <1>6, WalkHereIs DEF IInv, ProgInv
  <2>2. WalkInv'
    <3>1. CASE Load
      BY <1>1, <1>6, <2>1, <3>1, WalkLoad
    <3>2. CASE CrashPointOff
      BY <1>1, <1>6, <2>1, <3>2, WalkCrashPointOff
    <3>3. CASE CrashPoint
      BY <1>1, <1>6, <2>1, <3>3, WalkCrashPoint
    <3>4. CASE RandomCrash
      BY <1>6, <3>4 DEF RandomCrash
    <3>5. CASE LastCrash
      BY <1>1, <1>6, <2>1, <3>5, WalkLastCrash
    <3> QED  BY <3>1, <3>2, <3>3, <3>4, <3>5
  <2>3. RandomInv'
    BY <1>4, <1>6 DEF RandomInv
  <2> QED  BY <1>2, <1>3, <2>2, <2>3 DEF IInv
<1> QED  BY <1>5, <1>6

\* The end of an execution takes the path it ended at off those still to be run.
LEMMA FinishWalk ==
  ASSUME IInv, finish_execution, ~Random
  PROVE  IInv' /\ Walk!Run
<1>1. state = "run" /\ prog \in Programs /\ execution_number \in Nat \ {0}
  BY DEF IInv, ProgInv, finish_execution, Finishing
<1>2. WalkHere
  BY <1>1, WalkHereIs DEF IInv
<1>3. /\ WalkInv' /\ prog' = prog /\ execution_number' = execution_number + 1
      /\ path \in Leaves(prog) /\ path \notin ended /\ ended' = ended \cup {path}
      /\ state' = IF Leaves(prog) = ended \cup {path} THEN "done" ELSE "run"
  BY <1>1, <1>2, WalkFinish
<1>4. Random' = Random
  BY <1>3 DEF Random
<1>5. IInv'
  BY <1>1, <1>3, <1>4 DEF IInv, ProgInv, RandomInv
<1>6. ended \subseteq Leaves(prog)
  BY <1>2, EndedIsLeaves
<1>7. todo = Leaves(prog) \ ended /\ todo' = Leaves(prog) \ ended'
  BY <1>3, <1>4 DEF todo
<1>8. PICK leaves : leaves = Leaves(prog)
  OBVIOUS
<1>9. path \in todo /\ todo' = todo \ {path}
  BY <1>3, <1>7
<1>10. done' = (todo = {path})
  <2>1. leaves = ended \cup {path} <=> leaves \ ended = {path}
    BY <1>3, <1>6, <1>8
  <2>2. done' = (state' = "done")
    BY DEF done
  <2>3. state' = "done" <=> leaves = ended \cup {path}
    BY <1>3, <1>8
  <2>4. (state' = "done") = (todo = {path})
    BY <1>7, <1>8, <2>1, <2>3
  <2> QED  BY <2>2, <2>4
<1>11. ~done
  BY <1>1 DEF done
<1>12. execution_number' - 1 = (execution_number - 1) + 1
  BY <1>1, <1>3
<1> QED  BY <1>5, <1>9, <1>10, <1>11, <1>12 DEF Walk!Run

\* At random the end of an execution takes its number off.
LEMMA FinishRuns ==
  ASSUME IInv, finish_execution, Random
  PROVE  IInv' /\ Walk!Run
<1>1. state = "run" /\ prog \in Programs /\ execution_number \in Nat \ {0}
  BY DEF IInv, ProgInv, finish_execution, Finishing
<1>2. RandomHere
  BY <1>1, RandomHereIs DEF IInv
<1>3. /\ RandomInv' /\ prog' = prog /\ execution_number' = execution_number + 1
      /\ state' = IF execution_number = Max({1, MaxRuns}) THEN "done" ELSE "run"
  BY <1>1, <1>2, RandomFinish
<1>4. Random' = Random /\ MaxRuns' = MaxRuns
  BY <1>3 DEF Random, MaxRuns
<1>5. IInv'
  BY <1>1, <1>3, <1>4 DEF IInv, ProgInv, WalkInv
<1>6. PICK a \in Nat : a = Max({1, MaxRuns})
  BY <1>1, AskedIs
<1>7. PICK e \in Nat : e = execution_number
  BY <1>1
<1>8. e # 0 /\ e =< a
  BY <1>1, <1>2, <1>6, <1>7 DEF RandomHere
<1>9. todo = (1 .. a) \ (1 .. (e - 1)) /\ todo' = (1 .. a) \ (1 .. e)
  <2>1. asked = 1 .. a /\ asked' = 1 .. a
    BY <1>4, <1>6 DEF asked
  <2>2. execution_number' - 1 = e
    BY <1>3, <1>7
  <2> QED  BY <1>4, <1>7, <2>1, <2>2 DEF todo
<1>10. e \in todo /\ todo' = todo \ {e}
  BY <1>8, <1>9
<1>11. todo = {e} <=> e = a
  <2>1. todo = e .. a
    BY <1>8, <1>9
  <2>2. CASE e = a
    BY <2>1, <2>2
  <2>3. CASE e # a
    <3>1. e + 1 \in todo /\ e + 1 # e
      BY <1>8, <2>1, <2>3
    <3> QED  BY <2>3, <3>1
  <2> QED  BY <2>2, <2>3
<1>12. done' = (todo = {e})
  <2>1. done' = (state' = "done")
    BY DEF done
  <2>2. state' = "done" <=> e = a
    BY <1>3, <1>6, <1>7
  <2>3. (state' = "done") = (todo = {e})
    BY <1>11, <2>2
  <2> QED  BY <2>1, <2>3
<1>13. ~done
  BY <1>1 DEF done
<1>14. execution_number' - 1 = (execution_number - 1) + 1
  BY <1>1, <1>3
<1> QED  BY <1>5, <1>10, <1>12, <1>13, <1>14 DEF Walk!Run

LEMMA InitIInv == Init => IInv /\ Walk!Init
<1> SUFFICES ASSUME Init PROVE IInv /\ Walk!Init
  OBVIOUS
<1>1. prog \in Programs /\ execution_number = 1 /\ state = "run"
  BY DEF Init
<1>2. IInv
  BY <1>1, WalkInit, RandomInit DEF IInv, ProgInv
<1>3. Walk!Init
  BY <1>1 DEF Walk!Init, done
<1> QED  BY <1>2, <1>3

LEMMA NextIInv == IInv /\ [Next]_vars => IInv' /\ [Walk!Run]_(Walk!vars)
<1> SUFFICES ASSUME IInv, [Next]_vars PROVE IInv' /\ [Walk!Run]_(Walk!vars)
  OBVIOUS
<1>1. CASE Load \/ CrashPointOff \/ CrashPoint \/ RandomCrash \/ LastCrash
  BY <1>1, StepWalk
<1>2. CASE finish_execution
  <2>1. IInv' /\ Walk!Run
    BY <1>2, FinishWalk, FinishRuns
  <2> QED  BY <2>1
<1>3. CASE UNCHANGED vars
  <2>1. UNCHANGED Walk!vars
    BY <1>3, WalkWaits DEF vars
  <2>2. IInv'
    BY <1>3 DEF vars, IInv, ProgInv, WalkInv, RandomInv, Random, MaxRuns
  <2> QED  BY <2>1, <2>2
<1> QED  BY <1>1, <1>2, <1>3 DEF Next

LEMMA SpecIInv == Spec => []IInv
BY InitIInv, NextIInv, PTL DEF Spec

\* Going back over the choices (finish_execution, doCrash, explore_next and the
\* stacks handed on between executions) walks the tree: every run ends at a
\* combination of choices at which no run ended before, and the checker stops as
\* soon as none is left; at random, after the number of runs asked for.
THEOREM ExploresOnce == Spec => Walk!Init /\ [][Walk!Run]_(Walk!vars)
BY InitIInv, NextIInv, SpecIInv, PTL DEF Spec

-------------------------------------------------------------------------------
(* At random nothing is replayed.                                          *)

\* At most one crash is asked for: then only the first stack of a chain ever has
\* another execution, and starting over leaves none to be crashed again.
NoReplay ==
  /\ Random => replaystack = <<>>
  /\ state = "run" /\ Random =>
       /\ Len(prevContext) = numcrashes /\ numcrashes \in {0, 1}
       /\ numcrashes = 1 => nodestack.last = 0

LEMMA NoReplayInit == Init => NoReplay
<1> SUFFICES ASSUME Init PROVE NoReplay
  OBVIOUS
<1>1. replaystack = <<>> /\ prevContext = <<>> /\ numcrashes = 0
  BY DEF Init
<1>2. Len(<<>>) = 0
  OBVIOUS
<1> QED  BY <1>1, <1>2 DEF NoReplay

\* A crash is the first, and the stack of the next execution is new.
LEMMA NoReplayStart ==
  ASSUME \A pr \in Programs : pr.random => pr.numcrashes =< 1,
         IInv, NoReplay, Random, state = "run", numcrashes < NumCrashes,
         NEW ns, startAfterCrash(ns), prog' = prog
  PROVE  NoReplay'
<1>1. prog \in Programs /\ prog.random /\ prog.numcrashes \in Nat /\ NumCrashes = prog.numcrashes
  BY Constants DEF IInv, ProgInv, Random, NumCrashes
<1>2. prog.numcrashes =< 1
  BY <1>1
<1>3. numcrashes = 0 /\ Len(prevContext) = 0 /\ replaystack = <<>>
  <2>1. numcrashes \in {0, 1} /\ Len(prevContext) = numcrashes /\ replaystack = <<>>
    BY DEF NoReplay
  <2> QED  BY <1>1, <1>2, <2>1
<1>4. /\ prevContext' = Append(prevContext, ns) /\ numcrashes' = 1
      /\ nodestack' = NewStack /\ replaystack' = <<>>
  BY <1>3 DEF startAfterCrash
<1>5. prevContext \in Seq(Loose)
  BY DEF IInv, RandomInv
<1>6. Len(Append(prevContext, ns)) = 1
  BY <1>3, <1>5
<1> QED  BY <1>4, <1>6, LooseNew DEF NoReplay

\* Starting over from the first stack.
LEMMA NoReplayRestart ==
  ASSUME replaystack = <<>>, restart(1)
  PROVE  NoReplay'
<1>1. prevContext' = <<>> /\ numcrashes' = 0 /\ Len(<<>>) = 0
  BY DEF restart
<1>2. [j \in 1 .. 1 - 1 |-> reset_execution(stacks[j + 1])] = <<>>
  BY 1 .. 1 - 1 = {}
<1>3. <<>> \o <<>> = <<>>
  OBVIOUS
<1>4. replaystack' = <<>>
  BY <1>2, <1>3 DEF restart
<1> QED  BY <1>1, <1>4 DEF NoReplay

LEMMA NoReplayNext ==
  ASSUME \A pr \in Programs : pr.random => pr.numcrashes =< 1,
         IInv, NoReplay, [Next]_vars
  PROVE  NoReplay'
<1>1. prog' = prog /\ Random' = Random
  BY DEF Next, vars, Load, CrashPointOff, CrashPoint, RandomCrash, LastCrash, finish_execution, Random
<1>2. CASE ~Random
  BY <1>1, <1>2 DEF NoReplay
<1>3. CASE Random /\ (Load \/ CrashPointOff)
  <2>1. state = "run" /\ state' = state /\ UNCHANGED <<prevContext, replaystack, numcrashes>>
    BY <1>3 DEF Load, CrashPointOff
  <2>2. prog \in Programs /\ nodestack \in Loose
    BY <1>3, <2>1 DEF IInv, ProgInv, RandomInv
  <2>3. nodestack'.last = nodestack.last
    <3>1. CASE Load
      <4>1. PICK size \in Nat : nodestack' = IF size = 1 THEN nodestack ELSE explore_next(nodestack, size)
        BY <2>2, <3>1, LoadIs
      <4> QED  BY <1>3, <2>2, <4>1, ExploreRandom
    <3>2. CASE CrashPointOff
      BY <3>2 DEF CrashPointOff
    <3> QED  BY <1>3, <3>1, <3>2
  <2> QED  BY <1>1, <2>1, <2>3 DEF NoReplay
<1>4. CASE Random /\ CrashPoint
  BY <1>4 DEF CrashPoint
<1>5. CASE Random /\ RandomCrash
  <2>1. PICK ns : startAfterCrash(ns) /\ state = "run" /\ numcrashes < NumCrashes
    BY <1>5 DEF RandomCrash
  <2> QED  BY <1>1, <1>5, <2>1, NoReplayStart
<1>6. CASE Random /\ LastCrash
  <2>1. PICK ns : startAfterCrash(ns) /\ state = "run" /\ numcrashes < NumCrashes
    BY <1>6 DEF LastCrash
  <2> QED  BY <1>1, <1>6, <2>1, NoReplayStart
<1>7. CASE Random /\ finish_execution
  <2>1. state = "run" /\ replaystack = <<>>
    BY <1>7 DEF finish_execution, Finishing, NoReplay
  <2>2. prevContext \in Seq(Loose) /\ nodestack \in Loose
    BY <1>7, <2>1 DEF IInv, RandomInv
  <2>3. Len(prevContext) \in {0, 1} /\ (Len(prevContext) = 1 => nodestack.last = 0)
    BY <1>7, <2>1 DEF NoReplay
  <2>4. backtrackable \in SUBSET {1}
    <3>1. DOMAIN stacks = 1 .. (Len(prevContext) + 1) /\ stacks[Len(prevContext) + 1] = nodestack
      BY <2>2 DEF stacks
    <3>2. ASSUME NEW k \in DOMAIN stacks, stacks[k].last # 0 PROVE k = 1
      <4>1. k = 1 \/ k = Len(prevContext) + 1
        <5>1. PICK n \in {0, 1} : n = Len(prevContext)
          BY <2>3
        <5>2. k \in 1 .. (n + 1)
          BY <3>1, <5>1
        <5>3. k = 1 \/ k = n + 1
          BY <5>2
        <5> QED  BY <5>1, <5>3
      <4>2. CASE k # 1
        <5>1. k = Len(prevContext) + 1 /\ Len(prevContext) = 1
          BY <2>3, <4>1, <4>2
        <5>2. stacks[k] = nodestack
          BY <3>1, <5>1
        <5> QED  BY <2>3, <3>2, <5>1, <5>2
      <4> QED  BY <4>2
    <3> QED  BY <3>2 DEF backtrackable, has_another_execution
  <2>5. CASE backtrackable # {}
    <3>1. Max(backtrackable) = 1
      <4>1. backtrackable \in SUBSET Nat /\ \A m \in backtrackable : m =< 1
        BY <2>4
      <4>2. Max(backtrackable) \in backtrackable
        BY <2>5, <4>1, MaxIs
      <4> QED  BY <2>4, <4>2
    <3>2. restart(1)
      BY <1>7, <2>5, <3>1 DEF finish_execution
    <3> QED  BY <2>1, <3>2, NoReplayRestart
  <2>6. CASE backtrackable = {}
    <3>1. restart(1) \/ (state' = "done" /\ replaystack' = replaystack)
      BY <1>7, <2>6 DEF finish_execution
    <3>2. CASE restart(1)
      BY <2>1, <3>2, NoReplayRestart
    <3>3. CASE state' = "done" /\ replaystack' = replaystack
      BY <2>1, <3>3 DEF NoReplay
    <3> QED  BY <3>1, <3>2, <3>3
  <2> QED  BY <2>5, <2>6
<1>8. CASE UNCHANGED vars
  BY <1>1, <1>8 DEF vars, NoReplay
<1> QED  BY <1>2, <1>3, <1>4, <1>5, <1>6, <1>7, <1>8 DEF Next

\* The assertion of finish_execution, replaystack.empty(), holds at random as
\* long as no run is asked to crash more than once (params.numcrashes).
THEOREM NothingReplayed ==
  ASSUME \A pr \in Programs : pr.random => pr.numcrashes =< 1
  PROVE  Spec => []RandomNeverReplays
<1>1. IInv /\ NoReplay /\ [Next]_vars => NoReplay'
  BY NoReplayNext
<1>2. NoReplay => RandomNeverReplays
  BY DEF NoReplay, RandomNeverReplays
<1> QED  BY <1>1, <1>2, NoReplayInit, SpecIInv, PTL DEF Spec
===============================================================================
