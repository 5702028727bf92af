------------------------- MODULE ThreadMemoryTSO_proofs -------------------------
(***************************************************************************)
(* The simulated memory is x86-TSO, for any number of threads, accesses,   *)
(* values, operations and bounds.                                          *)
(*                                                                         *)
(* Loads read what the x86-TSO machine would return, always.  Steps are    *)
(* steps of that machine as long as the scheduler does not evict stores at *)
(* random between the read and the write of an RMW (Undisturbed), where    *)
(* the code does let the stores of other threads come in between.          *)
(***************************************************************************)
EXTENDS ThreadMemoryTSO, ThreadMemory_proofs, WellFoundedInduction, FiniteSetTheorems

-------------------------------------------------------------------------------
(* Induction over a prefix of the naturals, with a set for the hypothesis. *)

LEMMA Climb ==
  ASSUME NEW n \in Nat, NEW P, 0 \in P, \A k \in 0 .. (n - 1) : k \in P => k + 1 \in P
  PROVE  \A k \in 0 .. n : k \in P
<1> DEFINE Bad == {k \in 0 .. n : k \notin P}
<1> SUFFICES ASSUME Bad # {} PROVE FALSE
  OBVIOUS
<1>1. Bad \subseteq Nat
  OBVIOUS
<1>2. PICK k \in Bad : \A m \in Bad : <<m, k>> \notin OpToRel(<, Nat)
  <2> HIDE DEF Bad
  <2> QED  BY <1>1, NatLessThanWellFounded, WFMin
<1>3. \A m \in Bad : ~(m < k)
  BY <1>1, <1>2 DEF OpToRel
<1>4. k \in 0 .. n /\ k \notin P /\ k # 0
  OBVIOUS
<1>5. k - 1 \in 0 .. (n - 1) /\ k - 1 \in 0 .. n /\ (k - 1) + 1 = k
  BY <1>4
<1>6. k - 1 \in P
  BY <1>3, <1>5
<1> QED  BY <1>4, <1>5, <1>6

-------------------------------------------------------------------------------
(* The stores among a sequence of operations.                              *)

\* The store of operation e.
AsStore(e) == [loc |-> e.loc, val |-> e.val]

\* One more operation.
Adds(s, e) == IF IsWrite(e) THEN Append(s, AsStore(e)) ELSE s

\* s[k] are the stores among the first k operations of q.
IsStores(s, q, n) == s = [k \in 0 .. n |-> IF k = 0 THEN <<>> ELSE Adds(s[k - 1], q[k])]

LEMMA StoresExist ==
  ASSUME NEW q, NEW n \in Nat
  PROVE  \E s : IsStores(s, q, n)
<1> DEFINE P == {m \in Nat : \E s : IsStores(s, q, m)}
<1>1. 0 \in P
  <2> DEFINE s == [k \in 0 .. 0 |-> <<>>]
  <2>1. s = [k \in 0 .. 0 |-> IF k = 0 THEN <<>> ELSE Adds(s[k - 1], q[k])]
    OBVIOUS
  <2>2. IsStores(s, q, 0)
    BY <2>1 DEF IsStores
  <2> QED  BY <2>2
<1>2. ASSUME NEW m \in 0 .. (n - 1), m \in P PROVE m + 1 \in P
  <2>1. PICK s : IsStores(s, q, m)
    BY <1>2
  <2> DEFINE d == [k \in 0 .. (m + 1) |-> IF k = m + 1 THEN Adds(s[m], q[m + 1]) ELSE s[k]]
  <2>2. \A k \in 0 .. (m + 1) : k # 0 => d[k - 1] = s[k - 1]
    OBVIOUS
  <2>3. ASSUME NEW k \in 0 .. (m + 1) PROVE d[k] = IF k = 0 THEN <<>> ELSE Adds(d[k - 1], q[k])
    <3>1. CASE k = m + 1
      BY <2>2, <3>1
    <3>2. CASE k # m + 1
      <4>1. k \in 0 .. m /\ d[k] = s[k]
        BY <3>2
      <4>2. s[k] = IF k = 0 THEN <<>> ELSE Adds(s[k - 1], q[k])
        BY <2>1, <4>1 DEF IsStores
      <4> QED  BY <2>2, <4>1, <4>2
    <3> QED  BY <3>1, <3>2
  <2>4. d = [k \in 0 .. (m + 1) |-> IF k = 0 THEN <<>> ELSE Adds(d[k - 1], q[k])]
    BY <2>3
  <2>5. IsStores(d, q, m + 1)
    BY <2>4 DEF IsStores
  <2> QED  BY <2>5
<1> HIDE DEF P
<1>3. n \in P
  <2>1. n \in 0 .. n
    OBVIOUS
  <2> QED  BY <1>1, <1>2, <2>1, Climb
<1> QED  BY <1>3 DEF P

\* The equations of StoresUpTo.
LEMMA StoresEquations ==
  ASSUME NEW q, Len(q) \in Nat
  PROVE  /\ StoresUpTo(q)[0] = <<>>
         /\ \A k \in 0 .. (Len(q) - 1) : StoresUpTo(q)[k + 1] = Adds(StoresUpTo(q)[k], q[k + 1])
<1> DEFINE s == StoresUpTo(q)
<1>1. IsStores(s, q, Len(q))
  <2>1. PICK d : IsStores(d, q, Len(q))
    BY StoresExist
  <2>2. \E f : f = [k \in 0 .. Len(q) |->
                     IF k = 0 THEN <<>>
                     ELSE IF IsWrite(q[k]) THEN Append(f[k - 1], [loc |-> q[k].loc, val |-> q[k].val])
                     ELSE f[k - 1]]
    BY <2>1 DEF IsStores, Adds, AsStore
  <2>3. s = [k \in 0 .. Len(q) |->
              IF k = 0 THEN <<>>
              ELSE IF IsWrite(q[k]) THEN Append(s[k - 1], [loc |-> q[k].loc, val |-> q[k].val])
              ELSE s[k - 1]]
    BY <2>2 DEF StoresUpTo
  <2> QED  BY <2>3 DEF IsStores, Adds, AsStore
<1> HIDE DEF s
<1>2. s[0] = <<>>
  <2>1. 0 \in 0 .. Len(q)
    OBVIOUS
  <2> QED  BY <1>1, <2>1 DEF IsStores
<1>3. ASSUME NEW k \in 0 .. (Len(q) - 1) PROVE s[k + 1] = Adds(s[k], q[k + 1])
  <2>1. k + 1 \in 0 .. Len(q) /\ k + 1 # 0 /\ (k + 1) - 1 = k
    OBVIOUS
  <2>2. s[k + 1] = IF k + 1 = 0 THEN <<>> ELSE Adds(s[(k + 1) - 1], q[k + 1])
    BY <1>1, <2>1 DEF IsStores
  <2> QED  BY <2>1, <2>2
<1> QED  BY <1>2, <1>3 DEF s

LEMMA StoresType ==
  ASSUME NEW E, NEW q \in Seq(E)
  PROVE  \A k \in 0 .. Len(q) : StoresUpTo(q)[k] \in Seq({AsStore(e) : e \in E})
<1> DEFINE S == {AsStore(e) : e \in E}
           P == {k \in 0 .. Len(q) : StoresUpTo(q)[k] \in Seq(S)}
<1>1. Len(q) \in Nat /\ \A k \in 1 .. Len(q) : q[k] \in E
  OBVIOUS
<1>2. 0 \in P
  <2>1. StoresUpTo(q)[0] = <<>>
    BY <1>1, StoresEquations
  <2>2. 0 \in 0 .. Len(q) /\ <<>> \in Seq(S)
    BY <1>1
  <2> QED  BY <2>1, <2>2
<1>3. ASSUME NEW k \in 0 .. (Len(q) - 1), k \in P PROVE k + 1 \in P
  <2>1. StoresUpTo(q)[k + 1] = Adds(StoresUpTo(q)[k], q[k + 1])
    BY <1>1, StoresEquations
  <2>2. k + 1 \in 0 .. Len(q) /\ AsStore(q[k + 1]) \in S /\ StoresUpTo(q)[k] \in Seq(S)
    BY <1>1, <1>3
  <2> HIDE DEF S
  <2>3. Adds(StoresUpTo(q)[k], q[k + 1]) \in Seq(S)
    BY <2>2 DEF Adds
  <2> QED  BY <2>1, <2>2, <2>3
<1> HIDE DEF P
<1>4. \A k \in 0 .. Len(q) : k \in P
  BY <1>1, <1>2, <1>3, Climb
<1> QED  BY <1>4 DEF P

\* An operation joins the sequence.
LEMMA StoresAppend ==
  ASSUME NEW E, NEW q \in Seq(E), NEW e \in E
  PROVE  StoresOf(Append(q, e)) = Adds(StoresOf(q), e)
<1> DEFINE r == Append(q, e)
           n == Len(q)
           P == {k \in 0 .. n : StoresUpTo(r)[k] = StoresUpTo(q)[k]}
<1>1. /\ n \in Nat /\ Len(r) = n + 1 /\ r[n + 1] = e
      /\ \A k \in 1 .. n : r[k] = q[k]
  OBVIOUS
<1>a. Len(q) \in Nat /\ Len(r) \in Nat
  OBVIOUS
<1> HIDE DEF r
<1>b. /\ StoresUpTo(q)[0] = <<>>
      /\ \A k \in 0 .. (n - 1) : StoresUpTo(q)[k + 1] = Adds(StoresUpTo(q)[k], q[k + 1])
  BY <1>a, StoresEquations
<1>c. /\ StoresUpTo(r)[0] = <<>>
      /\ \A k \in 0 .. (Len(r) - 1) : StoresUpTo(r)[k + 1] = Adds(StoresUpTo(r)[k], r[k + 1])
  BY <1>a, StoresEquations
<1>2. 0 \in P
  BY <1>1, <1>b, <1>c
<1>3. ASSUME NEW k \in 0 .. (n - 1), k \in P PROVE k + 1 \in P
  <2>1. k \in 0 .. (Len(r) - 1) /\ k + 1 \in 1 .. n /\ k + 1 \in 0 .. n
    BY <1>1
  <2>2. StoresUpTo(r)[k + 1] = Adds(StoresUpTo(r)[k], r[k + 1])
    BY <2>1, <1>c
  <2>3. StoresUpTo(q)[k + 1] = Adds(StoresUpTo(q)[k], q[k + 1])
    BY <1>b
  <2>4. StoresUpTo(r)[k] = StoresUpTo(q)[k] /\ r[k + 1] = q[k + 1]
    BY <1>1, <1>3, <2>1
  <2> QED  BY <2>1, <2>2, <2>3, <2>4
<1> HIDE DEF P
<1>4. n \in P
  <2>1. n \in 0 .. n
    BY <1>1
  <2> QED  BY <1>1, <1>2, <1>3, <2>1, Climb
<1>5. StoresUpTo(r)[n + 1] = Adds(StoresUpTo(r)[n], r[n + 1])
  <2>1. n \in 0 .. (Len(r) - 1)
    BY <1>1
  <2> QED  BY <1>1, <2>1, StoresEquations
<1> QED  BY <1>1, <1>4, <1>5 DEF StoresOf, P, r

\* The first operation leaves the sequence.
LEMMA StoresTail ==
  ASSUME NEW E, NEW q \in Seq(E), q # <<>>
  PROVE  IF IsWrite(Head(q))
         THEN /\ StoresOf(q) # <<>> /\ Head(StoresOf(q)) = AsStore(Head(q))
              /\ Tail(StoresOf(q)) = StoresOf(Tail(q))
         ELSE StoresOf(q) = StoresOf(Tail(q))
<1> DEFINE r == Tail(q)
           n == Len(r)
           S == {AsStore(x) : x \in E}
           s == StoresUpTo(q)
           z == StoresUpTo(r)
<1>1. /\ n \in Nat /\ Len(q) = n + 1 /\ Head(q) = q[1] /\ r \in Seq(E)
      /\ \A k \in 1 .. n : r[k] = q[k + 1]
  OBVIOUS
<1>2. /\ \A k \in 0 .. (n + 1) : s[k] \in Seq(S)
      /\ \A k \in 0 .. n : z[k] \in Seq(S)
  BY <1>1, StoresType
<1>3. /\ s[0] = <<>> /\ z[0] = <<>>
      /\ \A k \in 0 .. n : s[k + 1] = Adds(s[k], q[k + 1])
      /\ \A k \in 0 .. (n - 1) : z[k + 1] = Adds(z[k], r[k + 1])
  <2>1. Len(q) \in Nat /\ Len(r) \in Nat
    BY <1>1
  <2>2. s[0] = <<>> /\ \A k \in 0 .. (Len(q) - 1) : s[k + 1] = Adds(s[k], q[k + 1])
    BY <2>1, StoresEquations
  <2>3. z[0] = <<>> /\ \A k \in 0 .. (Len(r) - 1) : z[k + 1] = Adds(z[k], r[k + 1])
    BY <2>1, StoresEquations
  <2> HIDE DEF r, s, z
  <2> QED  BY <1>1, <2>2, <2>3
<1>4. n \in 0 .. n /\ 0 \in 0 .. n
  BY <1>1
<1> HIDE DEF r, s, z
<1>5. s[1] = Adds(<<>>, q[1])
  BY <1>1, <1>3, <1>4
<1>6. CASE ~IsWrite(q[1])
  <2> DEFINE P == {k \in 0 .. n : s[k + 1] = z[k]}
  <2>1. 0 \in P
    BY <1>3, <1>4, <1>5, <1>6 DEF Adds
  <2>2. ASSUME NEW k \in 0 .. (n - 1), k \in P PROVE k + 1 \in P
    <3>1. k + 1 \in 0 .. n /\ k + 1 \in 1 .. n
      BY <1>1
    <3> QED  BY <1>1, <1>3, <2>2, <3>1
  <2> HIDE DEF P
  <2>3. n \in P
    BY <1>1, <1>4, <2>1, <2>2, Climb
  <2> QED  BY <1>1, <1>6, <2>3 DEF P, StoresOf, r, s, z
<1>7. CASE IsWrite(q[1])
  <2> DEFINE e == AsStore(q[1])
             P == {k \in 0 .. n : s[k + 1] # <<>> /\ Head(s[k + 1]) = e /\ Tail(s[k + 1]) = z[k]}
  <2>0. e \in S
    BY <1>1
  <2>1. 0 \in P
    <3>1. s[1] = Append(<<>>, e)
      BY <1>5, <1>7 DEF Adds
    <3>2. Append(<<>>, e) = <<e>> /\ <<e>> # <<>> /\ Head(<<e>>) = e /\ Tail(<<e>>) = <<>>
      OBVIOUS
    <3> HIDE DEF e
    <3>3. 0 + 1 = 1 /\ z[0] = <<>>
      BY <1>3
    <3>4. s[1] # <<>> /\ Head(s[1]) = e /\ Tail(s[1]) = z[0]
      BY <3>1, <3>2, <3>3, Zenon
    <3> QED  BY <1>4, <3>3, <3>4
  <2>2. ASSUME NEW k \in 0 .. (n - 1), k \in P PROVE k + 1 \in P
    <3>1. k + 1 \in 0 .. n /\ k + 1 \in 1 .. n /\ k \in 0 .. n /\ k + 1 \in 0 .. (n + 1)
      BY <1>1
    <3>2. /\ s[(k + 1) + 1] = Adds(s[k + 1], q[(k + 1) + 1]) /\ z[k + 1] = Adds(z[k], q[(k + 1) + 1])
          /\ s[k + 1] \in Seq(S) /\ z[k] \in Seq(S)
          /\ s[k + 1] # <<>> /\ Head(s[k + 1]) = e /\ Tail(s[k + 1]) = z[k]
      BY <1>1, <1>2, <1>3, <2>2, <3>1
    <3>3. PICK x, a, b : x = q[(k + 1) + 1] /\ a = s[k + 1] /\ b = z[k]
      OBVIOUS
    <3>4. CASE IsWrite(x)
      <4>1. x \in E
        BY <1>1, <3>1, <3>3
      <4>2. PICK y \in S : y = AsStore(x)
        BY <4>1
      <4>3. s[(k + 1) + 1] = Append(a, y) /\ z[k + 1] = Append(b, y)
        BY <3>2, <3>3, <3>4, <4>2 DEF Adds
      <4> HIDE DEF S, e
      <4>4. Append(a, y) # <<>> /\ Head(Append(a, y)) = Head(a) /\ Tail(Append(a, y)) = Append(Tail(a), y)
        BY <3>2, <3>3, HeadTailAppend, AppendProperties, SMTT(20)
      <4> QED  BY <3>1, <3>2, <3>3, <4>3, <4>4
    <3>5. CASE ~IsWrite(x)
      BY <3>1, <3>2, <3>3, <3>5 DEF Adds
    <3> QED  BY <3>4, <3>5
  <2> HIDE DEF P
  <2>3. n \in P
    BY <1>1, <1>4, <2>1, <2>2, Climb
  <2> QED  BY <1>1, <1>7, <2>3 DEF P, StoresOf, r, s, z
<1> QED  BY <1>1, <1>6, <1>7

-------------------------------------------------------------------------------
(* The word of a byte.                                                     *)

\* The word address of an access is a multiple of the word size.
LEMMA DivMod ==
  ASSUME NEW a \in Nat, NEW m \in Nat \ {0}
  PROVE  a % m \in 0 .. (m - 1) /\ \E q \in Nat : a - (a % m) = m * q
<1>1. a % m \in 0 .. (m - 1)
  OBVIOUS
<1>2. a = (a \div m) * m + (a % m)
  <2>1. a \in Int /\ m \in Int /\ m > 0
    OBVIOUS
  <2>2. ASSUME NEW x \in Int, NEW y \in Int, y > 0 PROVE x = (x \div y) * y + (x % y)
    BY <2>2, Z3
  <2> QED  BY <2>1, <2>2
<1>3. a \div m \in Nat
  OBVIOUS
<1>4. m * (a \div m) = (a \div m) * m /\ m * (a \div m) \in Nat
  BY <1>3
<1>5. PICK q \in Nat, r \in Nat : q = a \div m /\ r = a % m
  BY <1>1, <1>3
<1>6. a = q * m + r /\ m * q = q * m /\ m * q \in Nat
  BY <1>2, <1>4, <1>5
<1>7. a - r = m * q
  BY <1>6
<1> QED  BY <1>1, <1>5, <1>7

\* Multiples of m that lie less than m apart are equal.
LEMMA SameMultiple ==
  ASSUME NEW m \in Nat \ {0}, NEW p \in Nat, NEW q \in Nat, m * p < m * q + m, m * q < m * p + m
  PROVE  p = q
<1>1. ASSUME NEW x \in Nat, NEW y \in Nat, x < y PROVE m * x + m =< m * y
  <2>1. PICK z \in Nat : y = x + 1 + z
    <3>1. y - x - 1 \in Nat /\ y = x + 1 + (y - x - 1)
      BY <1>1
    <3> QED  BY <3>1
  <2>2. m * y = m * x + m + m * z /\ m * z \in Nat /\ m * x \in Nat
    BY <2>1
  <2> QED  BY <2>2
<1>2. m * p \in Nat /\ m * q \in Nat
  OBVIOUS
<1>3. ~(p < q)
  BY <1>1, <1>2
<1>4. ~(q < p)
  BY <1>1, <1>2
<1> QED  BY <1>3, <1>4

-------------------------------------------------------------------------------
(* The newest store to a byte.                                             *)

\* The operations among the first n of q, and the stores in s, that write byte b.
Writing(q, n, b) == {k \in 1 .. n : IsWrite(q[k]) /\ b \in BytesAt(q[k].loc)}

Holding(s, b) == {k \in DOMAIN s : b \in DOMAIN s[k].val}

Newest(k, S) == k \in S /\ \A j \in S : j =< k

LEMMA NewestIsMax ==
  ASSUME NEW S, S \subseteq Int, NEW k, Newest(k, S)
  PROVE  Max(S) = k
<1>1. \A x \in S : (\A y \in S : x >= y) => x = k
  BY DEF Newest
<1>2. k \in S /\ \A y \in S : k >= y
  BY DEF Newest
<1> QED  BY <1>1, <1>2 DEF Max

LEMMA NewestExists ==
  ASSUME NEW n \in Nat, NEW S, S \subseteq 1 .. n, S # {}
  PROVE  Newest(Max(S), S)
<1> DEFINE Up == {x \in 0 .. n : \A j \in S : j =< x}
<1>1. n \in Up /\ Up \subseteq Nat
  OBVIOUS
<1>2. PICK x \in Up : \A y \in Up : <<y, x>> \notin OpToRel(<, Nat)
  <2> HIDE DEF Up
  <2> QED  BY <1>1, NatLessThanWellFounded, WFMin
<1>3. x \in 0 .. n /\ \A j \in S : j =< x
  BY <1>2
<1>4. \A y \in Up : ~(y < x)
  BY <1>1, <1>2 DEF OpToRel
<1>5. x \in S
  <2> SUFFICES ASSUME x \notin S PROVE FALSE
    OBVIOUS
  <2>a. x \in Int /\ \A j \in S : j \in Int /\ j > 0 /\ j =< x /\ j # x
    BY <1>3
  <2>b. x # 0
    <3>1. PICK j \in S : TRUE
      OBVIOUS
    <3> QED  BY <2>a, <3>1
  <2>1. \A j \in S : j =< x - 1
    <3> TAKE j \in S
    <3>1. j \in Int /\ j =< x /\ j # x
      BY <2>a
    <3> QED  BY <2>a, <3>1
  <2>2. x - 1 \in Up
    BY <1>3, <2>b, <2>1
  <2> HIDE DEF Up
  <2> QED  BY <1>3, <1>4, <2>2
<1>6. Newest(x, S)
  BY <1>3, <1>5 DEF Newest
<1>7. S \subseteq Int
  OBVIOUS
<1> QED  BY <1>6, <1>7, NewestIsMax

\* Operations and stores agree on the newest value of byte b, if any.
Agree(q, n, s, b) ==
  \/ Writing(q, n, b) = {} /\ Holding(s, b) = {}
  \/ \E i, j : Newest(i, Writing(q, n, b)) /\ Newest(j, Holding(s, b)) /\ q[i].val[b] = s[j].val[b]

LEMMA AgreeAdds ==
  ASSUME NEW q, NEW n \in Nat, NEW S, NEW s \in Seq(S), NEW b, Agree(q, n, s, b),
         IsWrite(q[n + 1]) => DOMAIN q[n + 1].val = BytesAt(q[n + 1].loc)
  PROVE  Agree(q, n + 1, Adds(s, q[n + 1]), b)
<1> DEFINE e == q[n + 1]
           u == Adds(s, e)
           C == Writing(q, n, b)
           C1 == Writing(q, n + 1, b)
<1>1. n + 1 \in 1 .. (n + 1) /\ \A k \in 1 .. (n + 1) : k = n + 1 \/ (k \in 1 .. n /\ k =< n + 1)
  OBVIOUS
<1>2. 1 .. n \subseteq 1 .. (n + 1)
  OBVIOUS
<1>3. CASE ~(IsWrite(e) /\ b \in BytesAt(e.loc))
  <2>1. C1 = C
    BY <1>1, <1>2, <1>3 DEF Writing
  <2>2. CASE ~IsWrite(e)
    BY <2>1, <2>2 DEF Agree, Adds
  <2>3. CASE IsWrite(e)
    <3>1. u = Append(s, AsStore(e)) /\ AsStore(e).val = e.val /\ b \notin DOMAIN e.val
      BY <1>3, <2>3 DEF Adds, AsStore
    <3>2. DOMAIN u = DOMAIN s \cup {Len(s) + 1} /\ u[Len(s) + 1] = AsStore(e)
          /\ \A k \in DOMAIN s : u[k] = s[k]
      BY <3>1
    <3> HIDE DEF u, e
    <3>3. Holding(u, b) = Holding(s, b)
      BY <3>1, <3>2 DEF Holding
    <3>4. \A j \in Holding(s, b) : u[j] = s[j]
      BY <3>2 DEF Holding
    <3>5. Agree(q, n + 1, u, b)
      BY <2>1, <3>3, <3>4 DEF Agree, Newest
    <3> QED  BY <3>5 DEF u, e
  <2> QED  BY <2>2, <2>3
<1>4. CASE IsWrite(e) /\ b \in BytesAt(e.loc)
  <2>1. u = Append(s, AsStore(e)) /\ AsStore(e).val = e.val /\ b \in DOMAIN e.val
    BY <1>4 DEF Adds, AsStore
  <2>2. /\ DOMAIN u = 1 .. (Len(s) + 1) /\ u[Len(s) + 1] = AsStore(e) /\ Len(s) + 1 \in DOMAIN u
        /\ \A k \in DOMAIN u : k =< Len(s) + 1
    BY <2>1
  <2> HIDE DEF u
  <2>3. Newest(Len(s) + 1, Holding(u, b))
    BY <2>1, <2>2 DEF Newest, Holding
  <2>4. Newest(n + 1, C1)
    BY <1>1, <1>4 DEF Newest, Writing
  <2>5. q[n + 1].val[b] = u[Len(s) + 1].val[b]
    BY <2>1, <2>2
  <2>6. Agree(q, n + 1, u, b)
    BY <2>3, <2>4, <2>5 DEF Agree
  <2> QED  BY <2>6 DEF u
<1> QED  BY <1>3, <1>4

LEMMA StoresAgree ==
  ASSUME NEW E, NEW q \in Seq(E), NEW b, \A e \in E : IsWrite(e) => DOMAIN e.val = BytesAt(e.loc)
  PROVE  Agree(q, Len(q), StoresOf(q), b)
<1> DEFINE s == StoresUpTo(q)
           n == Len(q)
           P == {k \in 0 .. n : Agree(q, k, s[k], b)}
<1>1. n \in Nat /\ n \in 0 .. n /\ 0 \in 0 .. n /\ \A k \in 1 .. n : q[k] \in E
  OBVIOUS
<1>2. s[0] = <<>> /\ \A k \in 0 .. (n - 1) : s[k + 1] = Adds(s[k], q[k + 1])
  BY <1>1, StoresEquations
<1>3. \A k \in 0 .. n : s[k] \in Seq({AsStore(e) : e \in E})
  BY StoresType
<1> HIDE DEF s
<1>4. 0 \in P
  <2>1. Writing(q, 0, b) = {}
    BY DEF Writing
  <2>2. Holding(<<>>, b) = {}
    BY DEF Holding
  <2>3. Agree(q, 0, s[0], b)
    BY <1>2, <2>1, <2>2 DEF Agree
  <2> QED  BY <1>1, <2>3
<1>5. ASSUME NEW k \in 0 .. (n - 1), k \in P PROVE k + 1 \in P
  <2>1. k \in Nat /\ k + 1 \in 1 .. n /\ k \in 0 .. n /\ k + 1 \in 0 .. n
    BY <1>1
  <2>2. q[k + 1] \in E /\ s[k] \in Seq({AsStore(e) : e \in E}) /\ Agree(q, k, s[k], b)
    BY <1>1, <1>3, <1>5, <2>1
  <2>3. Agree(q, k + 1, Adds(s[k], q[k + 1]), b)
    <3> DEFINE S == {AsStore(e) : e \in E}
    <3>1. s[k] \in Seq(S)
      BY <2>2
    <3> HIDE DEF S
    <3> QED  BY <2>1, <2>2, <3>1, AgreeAdds
  <2> QED  BY <1>2, <2>1, <2>3
<1> HIDE DEF P
<1>6. n \in P
  BY <1>1, <1>4, <1>5, Climb
<1> QED  BY <1>6 DEF P, StoresOf, s

\* The word a byte of an access lies in.
WordOf(b) == CHOOSE x \in Word : b \in x .. (x + WordSize - 1)

LEMMA ByteInWord ==
  ASSUME NEW l \in Loc, NEW b \in BytesAt(l)
  PROVE  /\ alignAddress(l) \in Word /\ alignAddress(l) \in Nat /\ WordSize \in Nat \ {0}
         /\ alignAddress(l) =< l.addr /\ l.addr + l.size =< alignAddress(l) + WordSize
         /\ l.addr \in Nat /\ l.size \in 1 .. WordSize /\ b \in Nat
         /\ l.addr =< b /\ b < l.addr + l.size
         /\ WordOf(b) = alignAddress(l)
<1> DEFINE m == WordSize
<1>1. m \in Nat \ {0} /\ l.addr \in Nat /\ l.size \in 1 .. m /\ (l.addr % m) + l.size =< m
  BY AddressAssumption
<1>2. b \in Nat /\ l.addr =< b /\ b < l.addr + l.size
  BY <1>1 DEF BytesAt
<1> DEFINE Multiple(x) == \E q \in Nat : x = m * q
<1>3. \A x \in Word : x \in Nat /\ Multiple(x)
  <2> SUFFICES ASSUME NEW k \in Loc PROVE alignAddress(k) \in Nat /\ Multiple(alignAddress(k))
    BY DEF Word
  <2>1. k.addr \in Nat
    BY AddressAssumption
  <2>2. PICK q \in Nat : k.addr - (k.addr % m) = m * q
    BY <1>1, <2>1, DivMod
  <2>3. m * q \in Nat
    BY <1>1
  <2> QED  BY <2>2, <2>3 DEF alignAddress
<1>4. alignAddress(l) \in Word
  BY DEF Word
<1>5. PICK r \in 0 .. (m - 1) : r = l.addr % m
  BY <1>1, DivMod
<1>6. /\ alignAddress(l) = l.addr - r /\ r + l.size =< m
  BY <1>1, <1>5 DEF alignAddress
<1>7. b \in alignAddress(l) .. (alignAddress(l) + m - 1)
  BY <1>1, <1>2, <1>5, <1>6
<1>8. ASSUME NEW x \in Word, b \in x .. (x + m - 1) PROVE x = alignAddress(l)
  <2>1. PICK p \in Nat : x = m * p
    BY <1>3
  <2>2. PICK q \in Nat : alignAddress(l) = m * q
    BY <1>3, <1>4
  <2>3. m * p \in Nat /\ m * q \in Nat
    BY <1>1
  <2>4. m * p =< b /\ b < m * p + m /\ m * q =< b /\ b < m * q + m
    BY <1>1, <1>2, <1>7, <1>8, <2>1, <2>2, <2>3
  <2>5. m * p < m * q + m /\ m * q < m * p + m
    BY <1>1, <1>2, <2>3, <2>4
  <2>6. p = q
    BY <1>1, <2>5, SameMultiple
  <2> QED  BY <2>1, <2>2, <2>6
<1>9. WordOf(b) = alignAddress(l)
  BY <1>4, <1>7, <1>8 DEF WordOf
<1> QED  BY <1>1, <1>2, <1>3, <1>4, <1>5, <1>6, <1>9

LEMMA MemoryByteIs ==
  ASSUME NEW l \in Loc, NEW b \in BytesAt(l)
  PROVE  LET s == wr[alignAddress(l)]
         IN  MemoryByte(b) = IF s = <<>> THEN 0 ELSE ValAt(s[Max(Covering(s, b))], b)
<1>1. WordOf(b) = alignAddress(l)
  BY ByteInWord
<1>2. MemoryByte(b) = IF wr[WordOf(b)] = <<>> THEN 0
                      ELSE ValAt(wr[WordOf(b)][Max(Covering(wr[WordOf(b)], b))], b)
  BY Zenon DEF MemoryByte, WordOf
<1> QED  BY <1>1, <1>2

-------------------------------------------------------------------------------
(* Loads.                                                                  *)

\* The operations in the store buffer of thread t, as memory sees them.
Effects(t) == [k \in DOMAIN sb[t] |-> Effect(act[sb[t][k]])]

EffectSet == {e \in [kind : Kind, loc : Loc \cup {NoLoc}, val : Value \cup {Null}] :
                IsWrite(e) => e.loc \in Loc /\ e.val \in [BytesAt(e.loc) -> Byte]}

LEMMA EffectsType ==
  ASSUME TypeOK, NEW t \in Thread
  PROVE  /\ Effects(t) \in Seq(EffectSet)
         /\ Len(Effects(t)) = Len(sb[t]) /\ DOMAIN Effects(t) = DOMAIN sb[t]
         /\ \A k \in DOMAIN sb[t] :
              /\ sb[t][k] \in Acts
              /\ Effects(t)[k].kind = act[sb[t][k]].kind
              /\ Effects(t)[k].loc = act[sb[t][k]].loc
              /\ Effects(t)[k].val = act[sb[t][k]].val
         /\ Stores(t) = StoresOf(Effects(t))
<1>1. sb[t] \in Seq(Acts) /\ Acts = DOMAIN act
  BY BufferSeqs DEF Acts
<1>2. \A i \in Acts : Effect(act[i]) \in EffectSet
  <2> TAKE i \in Acts
  <2>1. act[i] \in ModelAction /\ (IsWrite(act[i]) => act[i].val \in [BytesAt(act[i].loc) -> Byte])
        /\ (act[i].kind \in {"sfence", "mfence"} \/ act[i].loc \in Loc)
    BY DEF TypeOK, ActsOK, Acts
  <2>2. act[i].kind \in Kind /\ act[i].loc \in Loc \cup {NoLoc} /\ act[i].val \in Value \cup {Null}
    BY <2>1 DEF ModelAction
  <2> QED  BY <2>1, <2>2 DEF Effect, EffectSet, IsWrite
<1>3. Len(sb[t]) \in Nat /\ DOMAIN sb[t] = 1 .. Len(sb[t]) /\ \A k \in DOMAIN sb[t] : sb[t][k] \in Acts
  BY <1>1
<1>4. Effects(t) \in [1 .. Len(sb[t]) -> EffectSet]
  BY <1>2, <1>3 DEF Effects
<1>5. Effects(t) \in Seq(EffectSet)
  BY <1>3, <1>4
<1>6. Len(Effects(t)) = Len(sb[t])
  BY <1>3, <1>4
<1>7. \A k \in DOMAIN sb[t] : Effects(t)[k] = Effect(act[sb[t][k]])
  BY DEF Effects
<1> QED  BY <1>3, <1>4, <1>5, <1>6, <1>7 DEF Effect, Stores, Effects

LEMMA LoadsAgreeHere == TypeOK => LoadsAgree
<1> SUFFICES ASSUME TypeOK, NEW t \in Thread, NEW l \in Loc, Initialized(l), NEW b \in BytesAt(l)
             PROVE  ValAt(ReadFrom(t, l)[b], b) = TSO!Load(t, b)
  BY DEF LoadsAgree
<1> DEFINE q == Effects(t)
           s == Stores(t)
           own == Covering(sb[t], b)
           all == wr[alignAddress(l)]
           inMemory == all[Max(Covering(all, b))]
<1>1. ReadFrom(t, l)[b] = IF own # {} THEN sb[t][Max(own)] ELSE inMemory
  BY DEF ReadFrom
<1>2. TSO!Load(t, b) = IF Holding(s, b) # {} THEN s[Max(Holding(s, b))].val[b] ELSE MemoryByte(b)
  <2>1. \A S : TSO!Max(S) = Max(S)
    BY Zenon DEF Max, TSO!Max
  <2>2. b \in UNION {BytesAt(k) : k \in Loc}
    OBVIOUS
  <2> QED  BY <2>1, <2>2 DEF TSO!Load, Holding
<1>3. MemoryByte(b) = ValAt(inMemory, b)
  BY MemoryByteIs DEF Initialized
<1>4. own = Writing(q, Len(q), b)
  BY EffectsType, BufferSeqs DEF Covering, Covers, Writing, IsWrite
<1>5. Agree(q, Len(q), s, b)
  <2>1. q \in Seq(EffectSet) /\ s = StoresOf(q)
    BY EffectsType
  <2>2. \A e \in EffectSet : IsWrite(e) => DOMAIN e.val = BytesAt(e.loc)
    BY DEF EffectSet
  <2> HIDE DEF q, s
  <2> QED  BY <2>1, <2>2, StoresAgree
<1>a. own \subseteq DOMAIN sb[t] /\ DOMAIN sb[t] \subseteq Int
      /\ \A k \in DOMAIN sb[t] : sb[t][k] # 0 /\ act[sb[t][k]].val = q[k].val
  BY EffectsType, BufferSeqs DEF Covering
<1>b. Holding(s, b) \subseteq Int
  <2>1. q \in Seq(EffectSet) /\ s = StoresUpTo(q)[Len(q)] /\ Len(q) \in 0 .. Len(q)
    BY EffectsType DEF StoresOf
  <2>2. s \in Seq({AsStore(e) : e \in EffectSet})
    <3> HIDE DEF q, s
    <3> QED  BY <2>1, StoresType
  <2> HIDE DEF s
  <2> QED  BY <2>2 DEF Holding
<1> HIDE DEF q, s, own, all
<1>6. CASE own = {} /\ Holding(s, b) = {}
  BY <1>1, <1>2, <1>3, <1>6
<1>7. ASSUME NEW i, NEW j, Newest(i, own), Newest(j, Holding(s, b)), q[i].val[b] = s[j].val[b]
      PROVE  ValAt(ReadFrom(t, l)[b], b) = TSO!Load(t, b)
  <2>1. Max(own) = i /\ i \in DOMAIN sb[t] /\ own # {}
    BY <1>a, <1>7, NewestIsMax DEF Newest
  <2>2. Max(Holding(s, b)) = j /\ Holding(s, b) # {}
    BY <1>b, <1>7, NewestIsMax DEF Newest
  <2>3. sb[t][i] # 0 /\ act[sb[t][i]].val = q[i].val
    BY <2>1, <1>a
  <2> QED  BY <1>1, <1>2, <1>7, <2>1, <2>2, <2>3 DEF ValAt
<1> QED  BY <1>4, <1>5, <1>6, <1>7 DEF Agree

\* A load returns, byte by byte, what an x86-TSO machine in the corresponding
\* state would: the thread's own newest buffered store, else memory.
THEOREM LoadsAgreeTheorem == Spec => []LoadsAgree
BY TypeCorrect, LoadsAgreeHere, PTL

-------------------------------------------------------------------------------
(* What the write lists hold.                                              *)

\* A list starts with the word's initial value and holds writes from then on;
\* the words of buffered writes and of a pending RMW have a list.
Filed ==
  /\ \A w \in Word : wr[w] # <<>> => wr[w][1] = 0
  /\ \A w \in Word : \A k \in DOMAIN wr[w] : wr[w][k] # 0 => IsWrite(act[wr[w][k]])
  /\ \A i \in Acts : IsWrite(act[i]) => Initialized(act[i].loc)
  /\ rmw # Null => Initialized(rmw.loc)

\* While no RMW is to be emptied for, no buffer is being emptied.
JobControl == phase \in {"run", "rmw", "rmwgo"} => job = "none"

\* What the operations are to memory never changes.
Keeps ==
  /\ Acts \subseteq DOMAIN act'
  /\ \A i \in Acts : /\ act'[i].kind = act[i].kind
                     /\ act'[i].loc = act[i].loc
                     /\ act'[i].val = act[i].val

\* Entry i joins the write list of the word of l.
Joins(i, l) == wr' = [wr EXCEPT ![alignAddress(l)] = Append(@, i)]

LEMMA KeepsAppend ==
  ASSUME TypeOK, NEW a, act' = Append(act, a)
  PROVE  Keeps /\ DOMAIN act' = Acts \cup {new} /\ new \notin Acts /\ new # 0 /\ act'[new] = a
BY IssueClocks DEF Issued, Keeps, Acts

LEMMA KeepsCommit ==
  ASSUME TypeOK, NEW i \in Acts, Commit(i)
  PROVE  Keeps /\ DOMAIN act' = Acts
<1>1. act \in Seq(ModelAction) /\ Acts = DOMAIN act /\ act[i] \in ModelAction
  BY DEF TypeOK, ActsOK, Acts
<1>2. PICK a : a = [act[i] EXCEPT !.seq = used + 1]
  OBVIOUS
<1>3. a.kind = act[i].kind /\ a.loc = act[i].loc /\ a.val = act[i].val
  BY <1>1, <1>2 DEF ModelAction
<1>4. act' = [act EXCEPT ![i] = a]
  BY <1>2 DEF Commit
<1> QED  BY <1>1, <1>3, <1>4 DEF Keeps

LEMMA KeepsLastFlush ==
  ASSUME TypeOK, NEW i \in Acts, NEW c, act' = act \/ act' = [act EXCEPT ![i].last_clflush = c]
  PROVE  Keeps /\ DOMAIN act' = Acts
<1>1. act \in Seq(ModelAction) /\ Acts = DOMAIN act /\ act[i] \in ModelAction
  BY DEF TypeOK, ActsOK, Acts
<1>2. PICK a : a = [act[i] EXCEPT !.last_clflush = c]
  OBVIOUS
<1>3. a.kind = act[i].kind /\ a.loc = act[i].loc /\ a.val = act[i].val
  BY <1>1, <1>2 DEF ModelAction
<1>4. act' = act \/ act' = [act EXCEPT ![i] = a]
  BY <1>2
<1> QED  BY <1>1, <1>3, <1>4 DEF Keeps

-------------------------------------------------------------------------------
(* What a step does to a byte of memory.                                   *)

\* The entries of the list s, of trace a, that give byte b a value, and the
\* value that it has.
Entries(a, s, b) == {k \in DOMAIN s : s[k] = 0 \/ (IsWrite(a[s[k]]) /\ b \in BytesAt(a[s[k]].loc))}

EntryByte(a, i, b) == IF i = 0 THEN 0 ELSE a[i].val[b]

ByteOf(a, s, b) == IF s = <<>> THEN 0 ELSE EntryByte(a, s[Max(Entries(a, s, b))], b)

LEMMA MemoryByteOf ==
  ASSUME NEW l \in Loc, NEW b \in BytesAt(l)
  PROVE  /\ MemoryByte(b) = ByteOf(act, wr[alignAddress(l)], b)
         /\ MemoryByte(b)' = ByteOf(act', wr'[alignAddress(l)], b)
<1>1. WordOf(b) = alignAddress(l)
  BY ByteInWord
<1>2. MemoryByte(b) = ByteOf(act, wr[WordOf(b)], b)
  BY Zenon DEF MemoryByte, WordOf, ByteOf, Entries, Covering, Covers, EntryByte, ValAt
<1>3. MemoryByte(b)' = ByteOf(act', wr'[WordOf(b)], b)
  BY Zenon DEF MemoryByte, WordOf, ByteOf, Entries, Covering, Covers, EntryByte, ValAt
<1> QED  BY <1>1, <1>2, <1>3

\* The lists hold what they are meant to.
LEMMA ListIs ==
  ASSUME TypeOK, Filed, NEW w \in Word
  PROVE  /\ wr[w] \in Seq(0 .. Len(act))
         /\ \A k \in DOMAIN wr[w] : wr[w][k] = 0 \/ (wr[w][k] \in Acts /\ IsWrite(act[wr[w][k]]))
         /\ wr[w] # <<>> => 1 \in DOMAIN wr[w] /\ wr[w][1] = 0
<1>1. wr[w] \in Seq(0 .. Len(act)) /\ Acts = 1 .. Len(act) /\ Len(act) \in Nat
  BY DEF TypeOK, IndicesOK, ActsOK, Acts
<1>2. \A k \in DOMAIN wr[w] : wr[w][k] \in 0 .. Len(act)
  BY <1>1
<1>3. wr[w] # <<>> => 1 \in DOMAIN wr[w]
  BY <1>1
<1> QED  BY <1>1, <1>2, <1>3 DEF Filed

LEMMA ByteOfStays ==
  ASSUME TypeOK, Filed, Keeps, NEW w \in Word, NEW b
  PROVE  ByteOf(act', wr[w], b) = ByteOf(act, wr[w], b)
<1> DEFINE s == wr[w]
<1>1. \A k \in DOMAIN s : s[k] # 0 => /\ act'[s[k]].kind = act[s[k]].kind
                                      /\ act'[s[k]].loc = act[s[k]].loc
                                      /\ act'[s[k]].val = act[s[k]].val
  BY ListIs DEF Keeps
<1>2. Entries(act', s, b) = Entries(act, s, b)
  BY <1>1 DEF Entries, IsWrite
<1>3. CASE s = <<>>
  BY <1>3 DEF ByteOf
<1>4. CASE s # <<>>
  <2>1. 1 \in Entries(act, s, b)
    BY <1>4, ListIs DEF Entries
  <2>2. Max(Entries(act, s, b)) \in DOMAIN s
    <3>1. Len(s) \in Nat /\ DOMAIN s = 1 .. Len(s)
      BY ListIs
    <3>2. Entries(act, s, b) \subseteq 1 .. Len(s)
      BY <3>1 DEF Entries
    <3>3. Newest(Max(Entries(act, s, b)), Entries(act, s, b))
      BY <2>1, <3>1, <3>2, NewestExists, Zenon
    <3> QED  BY <3>1, <3>2, <3>3 DEF Newest
  <2> QED  BY <1>1, <1>2, <2>2 DEF ByteOf, EntryByte
<1> QED  BY <1>3, <1>4

\* Nothing, if no write reaches it.
LEMMA MemoryStays ==
  ASSUME TypeOK, Filed, Keeps, NEW l \in Loc, NEW b \in BytesAt(l),
         \/ wr'[alignAddress(l)] = wr[alignAddress(l)]
         \/ wr[alignAddress(l)] = <<>> /\ wr'[alignAddress(l)] = << 0 >>
  PROVE  MemoryByte(b)' = MemoryByte(b)
<1> DEFINE w == alignAddress(l)
<1>1. w \in Word
  BY ByteInWord
<1>2. MemoryByte(b) = ByteOf(act, wr[w], b) /\ MemoryByte(b)' = ByteOf(act', wr'[w], b)
  BY MemoryByteOf
<1>3. CASE wr'[w] = wr[w]
  BY <1>1, <1>2, <1>3, ByteOfStays
<1>4. CASE wr[w] = <<>> /\ wr'[w] = <<0>>
  <2>1. ByteOf(act, <<>>, b) = 0
    BY DEF ByteOf
  <2>2. Newest(1, Entries(act', <<0>>, b))
    BY DEF Newest, Entries
  <2>3. Max(Entries(act', <<0>>, b)) = 1
    <3>1. Entries(act', <<0>>, b) \subseteq Int
      BY DEF Entries
    <3> QED  BY <2>2, <3>1, NewestIsMax
  <2>4. ByteOf(act', <<0>>, b) = 0
    BY <2>3 DEF ByteOf, EntryByte
  <2> QED  BY <1>2, <1>4, <2>1, <2>4
<1> QED  BY <1>3, <1>4

\* A store of v to l would change nothing: what IsSilent finds.
Silent(l, v) ==
  LET w == alignAddress(l)
      s == wr[w]
  IN  \E k \in DOMAIN s :
        /\ \A j \in (k + 1) .. Len(s) : ~Overlap(l, LocOf(s[j], w))
        /\ Inside(l, LocOf(s[k], w))
        /\ \A b \in BytesAt(l) : ValAt(s[k], b) = v[b]

LEMMA SilentChangesNothing ==
  ASSUME TypeOK, Filed, NEW l \in Loc, NEW v, Silent(l, v), NEW b \in BytesAt(l)
  PROVE  MemoryByte(b) = v[b]
<1> DEFINE w == alignAddress(l)
           s == wr[w]
           C == Entries(act, s, b)
<1>1. PICK k \in DOMAIN s : /\ \A j \in (k + 1) .. Len(s) : ~Overlap(l, LocOf(s[j], w))
                            /\ Inside(l, LocOf(s[k], w))
                            /\ ValAt(s[k], b) = v[b]
  BY DEF Silent
<1>2. /\ w \in Word /\ w \in Nat /\ WordSize \in Nat /\ l.addr \in Nat /\ l.size \in Nat /\ b \in Nat
      /\ w =< l.addr /\ l.addr + l.size =< w + WordSize /\ l.addr =< b /\ b < l.addr + l.size
  BY ByteInWord
<1>3. s \in Seq(0 .. Len(act)) /\ Len(s) \in Nat /\ DOMAIN s = 1 .. Len(s)
      /\ \A j \in DOMAIN s : s[j] = 0 \/ (s[j] \in Acts /\ IsWrite(act[s[j]]))
  BY <1>2, ListIs
<1>4. \A j \in DOMAIN s : s[j] # 0 => act[s[j]].loc.addr \in Nat /\ act[s[j]].loc.size \in Nat
  <2> TAKE j \in DOMAIN s
  <2>1. s[j] # 0 => act[s[j]].loc \in Loc
    BY <1>3 DEF TypeOK, ActsOK, IsWrite
  <2> QED  BY <2>1, AddressAssumption
<1>5. ASSUME NEW j \in DOMAIN s, j \in C PROVE Overlap(l, LocOf(s[j], w))
  <2>1. CASE s[j] = 0
    BY <1>2, <2>1 DEF LocOf, Overlap
  <2>2. CASE s[j] # 0
    <3>1. b \in BytesAt(act[s[j]].loc)
      BY <1>5, <2>2 DEF Entries
    <3>2. act[s[j]].loc.addr =< b /\ b < act[s[j]].loc.addr + act[s[j]].loc.size
      BY <1>2, <1>4, <2>2, <3>1 DEF BytesAt
    <3> QED  BY <1>2, <1>4, <2>2, <3>2 DEF LocOf, Overlap
  <2> QED  BY <2>1, <2>2
<1>6. k \in C
  <2>1. CASE s[k] = 0
    BY <2>1 DEF Entries
  <2>2. CASE s[k] # 0
    <3>1. PICK m : m = act[s[k]].loc
      OBVIOUS
    <3>2. Inside(l, m)
      BY <1>1, <2>2, <3>1 DEF LocOf
    <3>3. m.addr \in Nat /\ m.size \in Nat
      BY <1>4, <2>2, <3>1
    <3>4. b \in BytesAt(m)
      BY <1>2, <3>2, <3>3 DEF Inside, BytesAt
    <3> QED  BY <1>3, <2>2, <3>1, <3>4 DEF Entries
  <2> QED  BY <2>1, <2>2
<1>7. Newest(k, C)
  <2> SUFFICES ASSUME NEW j \in C PROVE j =< k
    BY <1>6 DEF Newest
  <2>1. j \in DOMAIN s /\ Overlap(l, LocOf(s[j], w))
    BY <1>5 DEF Entries
  <2>2. j \notin (k + 1) .. Len(s)
    BY <1>1, <2>1
  <2> QED  BY <1>3, <2>1, <2>2
<1>8. Max(C) = k
  <2>1. C \subseteq Int
    BY <1>3 DEF Entries
  <2> HIDE DEF C
  <2> QED  BY <1>7, <2>1, NewestIsMax
<1>9. MemoryByte(b) = EntryByte(act, s[k], b)
  <2>1. s # <<>>
    BY <1>3
  <2> QED  BY <1>8, <2>1, MemoryByteOf DEF ByteOf
<1> QED  BY <1>1, <1>9 DEF EntryByte, ValAt

\* A store that reaches memory, or is dropped because it would change nothing,
\* gives its bytes their values and no other byte.
LEMMA MemoryLands ==
  ASSUME TypeOK, Filed, Keeps, NEW i \in DOMAIN act', i # 0, NEW l \in Loc, NEW v,
         DOMAIN v = BytesAt(l),
         IsWrite(act'[i]), act'[i].loc = l, act'[i].val = v, Initialized(l),
         Joins(i, l) \/ (wr' = wr /\ Silent(l, v)),
         NEW k \in Loc, NEW b \in BytesAt(k)
  PROVE  MemoryByte(b)' = IF b \in DOMAIN v THEN v[b] ELSE MemoryByte(b)
<1> DEFINE w == alignAddress(l)
           s == wr[w]
           n == Len(s)
<1>1. /\ w \in Word /\ alignAddress(k) \in Word /\ (b \in BytesAt(l) => alignAddress(k) = w)
      /\ wr \in [Word -> Seq(0 .. Len(act))]
  BY ByteInWord DEF Word, TypeOK, IndicesOK
<1>2. CASE wr' = wr /\ Silent(l, v)
  BY <1>2, MemoryStays, SilentChangesNothing
<1>3. CASE Joins(i, l) /\ alignAddress(k) # w
  <2>1. wr'[alignAddress(k)] = wr[alignAddress(k)]
    BY <1>1, <1>3 DEF Joins
  <2> QED  BY <1>1, <1>3, <2>1, MemoryStays
<1>4. CASE Joins(i, l) /\ alignAddress(k) = w
  <2> DEFINE u == wr'[w]
             C == Entries(act', s, b)
             D == Entries(act', u, b)
  <2>1. n \in Nat /\ DOMAIN s = 1 .. n /\ s # <<>> /\ 1 \in DOMAIN s /\ s[1] = 0
    BY <1>1, ListIs DEF Initialized
  <2>2. u = Append(s, i)
    BY <1>1, <1>4 DEF Joins
  <2>3. DOMAIN u = 1 .. (n + 1) /\ u[n + 1] = i /\ u # <<>> /\ \A j \in 1 .. n : u[j] = s[j]
    BY <1>1, <2>1, <2>2, SMTT(20)
  <2>4. MemoryByte(b) = ByteOf(act', s, b) /\ MemoryByte(b)' = ByteOf(act', u, b)
    BY <1>1, <1>4, MemoryByteOf, ByteOfStays
  <2> HIDE DEF s, u, n
  <2>5. CASE b \in BytesAt(l)
    <3>1. Newest(n + 1, D)
      BY <2>1, <2>3, <2>5 DEF Newest, Entries
    <3>2. Max(D) = n + 1
      <4>1. D \subseteq Int
        BY <2>1, <2>3 DEF Entries
      <4> HIDE DEF D
      <4> QED  BY <3>1, <4>1, NewestIsMax
    <3> QED  BY <2>3, <2>4, <2>5, <3>2 DEF ByteOf, EntryByte
  <2>6. CASE b \notin BytesAt(l)
    <3>1. \A j \in DOMAIN u : j \in DOMAIN s \/ j = n + 1
      BY <2>1, <2>3
    <3>2. n + 1 \notin D
      BY <2>3, <2>6 DEF Entries
    <3>3. D = C
      BY <2>1, <2>3, <3>1, <3>2 DEF Entries
    <3>4. Max(C) \in 1 .. n
      <4>1. C \subseteq 1 .. n /\ 1 \in C
        BY <2>1 DEF Entries
      <4> HIDE DEF C
      <4>2. Newest(Max(C), C)
        BY <2>1, <4>1, NewestExists
      <4> QED  BY <4>1, <4>2 DEF Newest
    <3>5. u[Max(C)] = s[Max(C)]
      BY <2>3, <3>4
    <3> QED  BY <2>1, <2>3, <2>4, <2>6, <3>3, <3>5 DEF ByteOf
  <2> QED  BY <2>5, <2>6
<1> QED  BY <1>2, <1>3, <1>4

-------------------------------------------------------------------------------
(* What a step does to the stores of a buffer.                             *)

LEMMA EffectsLater ==
  ASSUME TypeOK, Keeps, NEW t \in Thread
  PROVE  /\ Stores(t)' = StoresOf([k \in DOMAIN sb'[t] |-> Effect(act'[sb'[t][k]])])
         /\ \A i \in Acts : Effect(act'[i]) = Effect(act[i])
BY DEF Stores, Keeps, Effect

LEMMA StoresStay ==
  ASSUME TypeOK, Keeps, NEW t \in Thread, sb'[t] = sb[t]
  PROVE  Stores(t)' = Stores(t)
<1>1. [k \in DOMAIN sb'[t] |-> Effect(act'[sb'[t][k]])] = Effects(t)
  BY EffectsLater, EffectsType DEF Effects
<1> QED  BY <1>1, EffectsLater, EffectsType

LEMMA StoresLeave ==
  ASSUME TypeOK, Keeps, NEW t \in Thread, sb[t] # <<>>, sb'[t] = Tail(sb[t])
  PROVE  IF IsWrite(act[Head(sb[t])])
         THEN /\ Stores(t) # <<>>
              /\ Head(Stores(t)).loc = act[Head(sb[t])].loc
              /\ Head(Stores(t)).val = act[Head(sb[t])].val
              /\ Stores(t)' = Tail(Stores(t))
         ELSE Stores(t)' = Stores(t)
<1> DEFINE q == Effects(t)
           r == [k \in DOMAIN sb'[t] |-> Effect(act'[sb'[t][k]])]
           s == sb[t]
           h == Head(s)
<1>1. /\ s \in Seq(Acts) /\ Len(s) \in Nat /\ Len(s) > 0 /\ DOMAIN s = 1 .. Len(s) /\ h = s[1]
      /\ DOMAIN Tail(s) = 1 .. (Len(s) - 1) /\ \A k \in 1 .. (Len(s) - 1) : Tail(s)[k] = s[k + 1]
  <2>1. s \in Seq(Acts) /\ s # <<>>
    BY BufferSeqs
  <2> HIDE DEF s
  <2> QED  BY <2>1
<1>2. /\ q \in Seq(EffectSet) /\ Len(q) = Len(s) /\ q # <<>>
      /\ \A k \in DOMAIN s : s[k] \in Acts /\ q[k] = Effect(act[s[k]])
  <2>1. \A k \in DOMAIN s : q[k] = Effect(act[s[k]])
    BY DEF Effects
  <2> QED  BY <1>1, <2>1, EffectsType
<1>3. Head(q) = Effect(act[h])
  BY <1>1, <1>2
<1>4. r = Tail(q)
  <2>1. r = [k \in 1 .. (Len(s) - 1) |-> Effect(act'[s[k + 1]])]
    BY <1>1
  <2>3. \A k \in 1 .. (Len(s) - 1) : Effect(act'[s[k + 1]]) = q[k + 1]
    <3> TAKE k \in 1 .. (Len(s) - 1)
    <3>1. k + 1 \in DOMAIN s
      BY <1>1
    <3>2. s[k + 1] \in Acts /\ q[k + 1] = Effect(act[s[k + 1]])
      BY <1>2, <3>1
    <3> QED  BY <3>2, EffectsLater
  <2> DEFINE n == Len(s) - 1
  <2> HIDE DEF r, q
  <2>4. n \in Nat /\ \A k \in 1 .. n : q[k + 1] \in EffectSet
    BY <1>1, <1>2
  <2>5. r \in [1 .. n -> EffectSet] /\ \A k \in 1 .. n : r[k] = q[k + 1]
    BY <2>1, <2>3, <2>4
  <2>6. r \in Seq(EffectSet) /\ Len(r) = n
    BY <2>4, <2>5
  <2>7. /\ Tail(q) \in Seq(EffectSet) /\ Len(Tail(q)) = n
        /\ \A k \in 1 .. n : Tail(q)[k] = q[k + 1]
    <3>1. /\ Tail(q) \in Seq(EffectSet) /\ Len(Tail(q)) = Len(q) - 1
          /\ \A k \in 1 .. Len(Tail(q)) : Tail(q)[k] = q[k + 1]
      BY <1>2, HeadTailProperties, Zenon
    <3> QED  BY <1>2, <3>1
  <2> HIDE DEF n
  <2> QED  BY <2>5, <2>6, <2>7, SeqEqual
<1>5. Stores(t) = StoresOf(q) /\ Stores(t)' = StoresOf(Tail(q))
  BY <1>4, EffectsLater, EffectsType
<1>6. IsWrite(Head(q)) <=> IsWrite(act[h])
  BY <1>3 DEF IsWrite, Effect
<1>7. AsStore(Head(q)) = [loc |-> act[h].loc, val |-> act[h].val]
  BY <1>3 DEF AsStore, Effect
<1> HIDE DEF q, r, h
<1>8. IF IsWrite(Head(q))
      THEN /\ StoresOf(q) # <<>> /\ Head(StoresOf(q)) = AsStore(Head(q))
           /\ Tail(StoresOf(q)) = StoresOf(Tail(q))
      ELSE StoresOf(q) = StoresOf(Tail(q))
  BY <1>2, StoresTail
<1> QED  BY <1>5, <1>6, <1>7, <1>8 DEF h

LEMMA StoresJoin ==
  ASSUME TypeOK, Keeps, NEW t \in Thread, NEW i \in DOMAIN act', NEW a \in ModelAction, act'[i] = a,
         IsWrite(a) => a.loc \in Loc /\ a.val \in [BytesAt(a.loc) -> Byte],
         sb'[t] = Append(sb[t], i)
  PROVE  Stores(t)' = IF IsWrite(a) THEN Append(Stores(t), [loc |-> a.loc, val |-> a.val])
                      ELSE Stores(t)
<1> DEFINE q == Effects(t)
           r == [k \in DOMAIN sb'[t] |-> Effect(act'[sb'[t][k]])]
           s == sb[t]
<1>1. /\ Len(s) \in Nat /\ DOMAIN s = 1 .. Len(s) /\ DOMAIN sb'[t] = 1 .. (Len(s) + 1)
      /\ sb'[t][Len(s) + 1] = i /\ \A k \in 1 .. Len(s) : sb'[t][k] = s[k]
  <2>1. s \in Seq(Acts) /\ sb'[t] = Append(s, i)
    BY BufferSeqs
  <2> HIDE DEF s
  <2> QED  BY <2>1
<1>2. /\ q \in Seq(EffectSet) /\ Len(q) = Len(s)
      /\ \A k \in DOMAIN s : s[k] \in Acts /\ q[k] = Effect(act[s[k]])
  <2>1. \A k \in DOMAIN s : q[k] = Effect(act[s[k]])
    BY DEF Effects
  <2> QED  BY <1>1, <2>1, EffectsType
<1>3. PICK e : e = Effect(a)
  OBVIOUS
<1>4. e \in EffectSet
  <2>1. a.kind \in Kind /\ a.loc \in Loc \cup {NoLoc} /\ a.val \in Value \cup {Null}
    BY DEF ModelAction
  <2> QED  BY <1>3, <2>1 DEF Effect, EffectSet, IsWrite
<1>5. r = Append(q, e)
  <2>1. \A k \in 1 .. Len(s) : Effect(act'[s[k]]) = q[k]
    BY <1>1, <1>2, EffectsLater
  <2>2. DOMAIN r = 1 .. (Len(s) + 1) /\ r[Len(s) + 1] = e /\ \A k \in 1 .. Len(s) : r[k] = q[k]
    BY <1>1, <1>3, <2>1
  <2> HIDE DEF q
  <2>3. \A k \in 1 .. Len(s) : q[k] \in EffectSet
    BY <1>2
  <2>4. \A k \in 1 .. (Len(s) + 1) : k \in 1 .. Len(s) \/ k = Len(s) + 1
    BY <1>1
  <2>5. r \in [1 .. (Len(s) + 1) -> EffectSet]
    <3>1. r = [k \in 1 .. (Len(s) + 1) |-> r[k]]
      BY <1>1
    <3> HIDE DEF r
    <3> QED  BY <1>4, <2>2, <2>3, <2>4, <3>1
  <2> HIDE DEF r
  <2>6. r \in Seq(EffectSet) /\ Len(r) = Len(s) + 1
    BY <1>1, <2>5
  <2>7. /\ Append(q, e) \in Seq(EffectSet) /\ Len(Append(q, e)) = Len(s) + 1
        /\ Append(q, e)[Len(s) + 1] = e /\ \A k \in 1 .. Len(s) : Append(q, e)[k] = q[k]
    BY <1>2, <1>4, AppendProperties
  <2>8. \A k \in 1 .. Len(r) : r[k] = Append(q, e)[k]
    BY <2>2, <2>4, <2>6, <2>7
  <2> QED  BY <2>6, <2>7, <2>8, SeqEqual
<1>6. Stores(t) = StoresOf(q) /\ Stores(t)' = StoresOf(Append(q, e))
  BY <1>5, EffectsLater, EffectsType
<1>7. (IsWrite(e) <=> IsWrite(a)) /\ AsStore(e) = [loc |-> a.loc, val |-> a.val]
  BY <1>3 DEF IsWrite, Effect, AsStore
<1> HIDE DEF q, r
<1>8. StoresOf(Append(q, e)) = Adds(StoresOf(q), e)
  BY <1>2, <1>4, StoresAppend
<1> QED  BY <1>6, <1>7, <1>8 DEF Adds

-------------------------------------------------------------------------------
(* The steps, as the memory system sees them.                              *)

\* Neither a store buffer nor memory gains or loses a store.
Idle ==
  /\ Keeps
  /\ \A t \in Thread : \/ sb'[t] = sb[t]
                       \/ sb[t] # <<>> /\ sb'[t] = Tail(sb[t]) /\ ~IsWrite(act[Head(sb[t])])
  /\ wr' = wr \/ \E w \in Word : wr[w] = <<>> /\ wr' = [wr EXCEPT ![w] = <<0>>]

\* Or a thread buffers an operation that is no store.
Buffers(t, a) ==
  /\ Keeps /\ wr' = wr /\ \E i \in DOMAIN act' : act'[i] = a /\ sb' = [sb EXCEPT ![t] = Append(@, i)]
  /\ a \in ModelAction /\ (IsWrite(a) => a.loc \in Loc /\ a.val \in [BytesAt(a.loc) -> Byte])

\* Memory, byte by byte, and the stores of the buffers.
Memories == [b \in UNION {BytesAt(l) : l \in Loc} |-> MemoryByte(b)]

Queues == [t \in Thread |-> Stores(t)]

LEMMA IdleSame ==
  ASSUME TypeOK, Filed, Idle
  PROVE  Memories' = Memories /\ Queues' = Queues
<1>1. ASSUME NEW l \in Loc, NEW b \in BytesAt(l) PROVE MemoryByte(b)' = MemoryByte(b)
  <2>1. alignAddress(l) \in Word /\ wr \in [Word -> Seq(0 .. Len(act))]
    BY ByteInWord DEF TypeOK, IndicesOK
  <2>2. \/ wr'[alignAddress(l)] = wr[alignAddress(l)]
        \/ wr[alignAddress(l)] = <<>> /\ wr'[alignAddress(l)] = <<0>>
    BY <2>1 DEF Idle
  <2> QED  BY <2>2, MemoryStays DEF Idle
<1>2. ASSUME NEW t \in Thread PROVE Stores(t)' = Stores(t)
  <2>1. CASE sb'[t] = sb[t]
    BY <2>1, StoresStay DEF Idle
  <2>2. CASE sb[t] # <<>> /\ sb'[t] = Tail(sb[t]) /\ ~IsWrite(act[Head(sb[t])])
    BY <2>2, StoresLeave DEF Idle
  <2> QED  BY <2>1, <2>2 DEF Idle
<1>3. Memories' = Memories
  <2>1. \A b \in UNION {BytesAt(l) : l \in Loc} : MemoryByte(b)' = MemoryByte(b)
    BY <1>1
  <2> QED  BY <2>1 DEF Memories
<1>4. Queues' = Queues
  BY <1>2 DEF Queues
<1> QED  BY <1>3, <1>4

LEMMA BuffersJoin ==
  ASSUME TypeOK, Filed, NEW t \in Thread, NEW a, Buffers(t, a)
  PROVE  /\ Memories' = Memories
         /\ Queues' = IF IsWrite(a)
                      THEN [Queues EXCEPT ![t] = Append(@, [loc |-> a.loc, val |-> a.val])]
                      ELSE Queues
<1>1. ASSUME NEW l \in Loc, NEW b \in BytesAt(l) PROVE MemoryByte(b)' = MemoryByte(b)
  BY MemoryStays DEF Buffers
<1>2. Memories' = Memories
  <2>1. \A b \in UNION {BytesAt(l) : l \in Loc} : MemoryByte(b)' = MemoryByte(b)
    BY <1>1
  <2> QED  BY <2>1 DEF Memories
<1>3. PICK i \in DOMAIN act' : act'[i] = a /\ sb' = [sb EXCEPT ![t] = Append(@, i)]
  BY DEF Buffers
<1>4. sb'[t] = Append(sb[t], i) /\ \A u \in Thread \ {t} : sb'[u] = sb[u]
  BY <1>3 DEF TypeOK, BuffersOK
<1>5. \A u \in Thread \ {t} : Stores(u)' = Stores(u)
  BY <1>4, StoresStay DEF Buffers
<1>6. Stores(t)' = IF IsWrite(a) THEN Append(Stores(t), [loc |-> a.loc, val |-> a.val]) ELSE Stores(t)
  BY <1>3, <1>4, StoresJoin DEF Buffers
<1> QED  BY <1>2, <1>5, <1>6 DEF Queues

-------------------------------------------------------------------------------
(* The shapes of the steps.                                                *)

\* No write is issued.
NoNewWrite ==
  DOMAIN act' = Acts \/ (DOMAIN act' = Acts \cup {new} /\ ~IsWrite(act'[new]))

\* The store i, of v to l, reaches memory or is dropped as silent.
Lands(i, l, v) ==
  /\ Keeps /\ i \in DOMAIN act' /\ i # 0
  /\ l \in Loc /\ v \in [BytesAt(l) -> Byte] /\ Initialized(l)
  /\ IsWrite(act'[i]) /\ act'[i].loc = l /\ act'[i].val = v
  /\ Joins(i, l) \/ (wr' = wr /\ Silent(l, v))

LEMMA SilentIs ==
  ASSUME NEW a
  PROVE  IsSilent(a) <=> Silent(a.loc, a.val)
BY DEF IsSilent, Silent

LEMMA EvictStoreShape ==
  ASSUME TypeOK, Filed, EvictStore
  PROVE  /\ Lands(head, act[head].loc, act[head].val) /\ DOMAIN act' = Acts
         /\ cur \in Thread /\ sb[cur] # <<>> /\ sb' = [sb EXCEPT ![cur] = Tail(@)]
         /\ IsWrite(act[head]) /\ phase = "sb"
         /\ UNCHANGED <<phase, cur, job, rmw, hasCrashed>>
<1>1. /\ cur \in Thread /\ sb[cur] # <<>> /\ sb' = [sb EXCEPT ![cur] = Tail(@)]
      /\ phase = "sb" /\ IsWrite(act[head]) /\ Commit(head) /\ addWriteToLists(head)
      /\ UNCHANGED <<phase, cur, job, rmw, hasCrashed>>
  BY DEF EvictStore, Draining, Pop, TypeOK, ControlOK
<1>2. head \in Acts
  <2>1. head \in In(sb[cur])
    BY <1>1, BufferSeqs DEF head, In
  <2> QED  BY <1>1, <2>1, BufferSeqs
<1>3. Keeps /\ DOMAIN act' = Acts
  BY <1>1, <1>2, KeepsCommit
<1>4. head # 0 /\ act[head].loc \in Loc /\ act[head].val \in [BytesAt(act[head].loc) -> Byte]
  BY <1>1, <1>2 DEF TypeOK, ActsOK, Acts, IsWrite
<1>5. Initialized(act[head].loc)
  BY <1>1, <1>2 DEF Filed
<1>6. Joins(head, act[head].loc) \/ (wr' = wr /\ Silent(act[head].loc, act[head].val))
  BY <1>1, SilentIs DEF addWriteToLists, Joins
<1>7. act'[head].kind = act[head].kind /\ act'[head].loc = act[head].loc /\ act'[head].val = act[head].val
  BY <1>2, <1>3 DEF Keeps
<1>8. IsWrite(act'[head])
  BY <1>1, <1>7 DEF IsWrite
<1> QED  BY <1>1, <1>2, <1>3, <1>4, <1>5, <1>6, <1>7, <1>8 DEF Lands

LEMMA RMWWriteShape ==
  ASSUME TypeOK, Filed, NEW v, RMWWrite(v)
  PROVE  /\ Lands(new, rmw.loc, v) /\ DOMAIN act' = Acts \cup {new}
         /\ sb' = sb /\ rmw # Null /\ rmw' = Null /\ phase \in {"rmw", "rmwgo"} /\ phase' = "run"
         /\ UNCHANGED <<job, hasCrashed>>
<1> DEFINE a == Action(rmw.tid, "rmw", rmw.loc, v, used + 1)
<1>1. rmw # Null /\ rmw.loc \in Loc /\ phase \in {"rmw", "rmwgo"} /\ v \in [BytesAt(rmw.loc) -> Byte]
  BY DEF RMWWrite, TypeOK, ControlOK
<1>2. a.kind = "rmw" /\ a.loc = rmw.loc /\ a.val = v
  BY DEF Action
<1>3. /\ act' = Append(act, a) /\ sb' = sb /\ rmw' = Null /\ phase' = "run" /\ UNCHANGED <<job, hasCrashed>>
      /\ wr' = IF IsSilent(a) THEN wr ELSE [wr EXCEPT ![alignAddress(rmw.loc)] = Append(@, new)]
  BY DEF RMWWrite, bufs
<1> HIDE DEF a
<1>4. Keeps /\ DOMAIN act' = Acts \cup {new} /\ new # 0 /\ act'[new] = a
  BY <1>3, KeepsAppend
<1>5. IsSilent(a) <=> Silent(rmw.loc, v)
  BY <1>2, SilentIs
<1> QED  BY <1>1, <1>2, <1>3, <1>4, <1>5 DEF Lands, IsWrite, Joins, Filed

\* Thread t issues a store.
LEMMA WriteShape ==
  ASSUME TypeOK, NEW t \in Thread, NEW l \in Loc, NEW k \in {"write", "scwrite"},
         NEW v \in [BytesAt(l) -> Byte], Write(t, k, l, v)
  PROVE  \E a : /\ Buffers(t, a) /\ IsWrite(a) /\ a.loc = l /\ a.val = v /\ Initialized(l)
                /\ DOMAIN act' = Acts \cup {new} /\ act'[new] = a
                /\ phase = "run" /\ phase' \in {"run", "sb"} /\ (phase' = "run" => job' = job)
                /\ UNCHANGED <<rmw, hasCrashed>>
<1> DEFINE a == Action(t, k, l, v, 0)
<1>1. a.kind = k /\ a.loc = l /\ a.val = v
  BY DEF Action
<1>2. a \in ModelAction
  <2>1. v \in Value /\ k \in Kind
    BY DEF Value, Kind
  <2> QED  BY <2>1, ActionType
<1>3. /\ act' = Append(act, a) /\ sb' = [sb EXCEPT ![t] = Append(@, new)] /\ wr' = wr
      /\ Initialized(l) /\ phase = "run" /\ phase' \in {"run", "sb"} /\ (phase' = "run" => job' = job)
      /\ UNCHANGED <<rmw, hasCrashed>>
  BY DEF Write, Enqueue, CanIssue, StartDrain, ctl, mem
<1> HIDE DEF a
<1>4. Keeps /\ DOMAIN act' = Acts \cup {new} /\ act'[new] = a
  BY <1>3, KeepsAppend
<1>5. IsWrite(a)
  BY <1>1 DEF IsWrite
<1>6. Buffers(t, a)
  BY <1>1, <1>2, <1>3, <1>4 DEF Buffers
<1> QED  BY <1>1, <1>3, <1>4, <1>5, <1>6

\* Thread t issues a flush or an sfence.
LEMMA CacheOpShape ==
  ASSUME TypeOK, NEW t \in Thread,
         SFence(t) \/ \E l \in Loc, k \in {"clflush", "clflushopt"} : CacheOp(t, k, l)
  PROVE  \E a : /\ Buffers(t, a) /\ ~IsWrite(a)
                /\ DOMAIN act' = Acts \cup {new} /\ act'[new] = a
                /\ UNCHANGED <<rmw, hasCrashed, phase, job>>
<1>1. PICK a \in ModelAction : /\ act' = Append(act, a) /\ ~IsWrite(a)
  <2>1. CASE SFence(t)
    <3>1. Action(t, "sfence", NoLoc, Null, 0) \in ModelAction
      BY ActionType DEF Kind
    <3>2. Action(t, "sfence", NoLoc, Null, 0).kind = "sfence"
      BY DEF Action
    <3> QED  BY <2>1, <3>1, <3>2 DEF SFence, IsWrite
  <2>2. ASSUME NEW l \in Loc, NEW k \in {"clflush", "clflushopt"}, CacheOp(t, k, l)
        PROVE  \E a \in ModelAction : act' = Append(act, a) /\ ~IsWrite(a)
    <3>1. PICK i \in Nat : i = obj_to_last_write[t][getCacheID(l)]
      <4>1. getCacheID(l) \in Line /\ 0 .. Len(act) \subseteq Nat
        BY DEF Line
      <4> QED  BY <4>1 DEF TypeOK, IndicesOK
    <3>2. used \in Nat
      BY DEF TypeOK, CountersOK
    <3>3. PICK a : a = [tid |-> t, kind |-> k, loc |-> l, val |-> Null, seq |-> 0, lastwrite |-> i,
                        lastcommittedWrite |-> used, last_clflush |-> ValueNone, issued |-> used]
      OBVIOUS
    <3>4. act' = Append(act, a)
      <4> DEFINE b == Action(t, k, l, Null, 0)
                 c == [b EXCEPT !.lastwrite = i]
                 d == [c EXCEPT !.lastcommittedWrite = used]
      <4>1. act' = Append(act, [d EXCEPT !.issued = used])
        BY <2>2, <3>1 DEF CacheOp
      <4>2. b = [tid |-> t, kind |-> k, loc |-> l, val |-> Null, seq |-> 0, lastwrite |-> 0,
                 lastcommittedWrite |-> 0, last_clflush |-> ValueNone, issued |-> 0]
        BY DEF Action
      <4> HIDE DEF b
      <4>3. c = [tid |-> t, kind |-> k, loc |-> l, val |-> Null, seq |-> 0, lastwrite |-> i,
                 lastcommittedWrite |-> 0, last_clflush |-> ValueNone, issued |-> 0]
        BY <4>2
      <4> HIDE DEF c
      <4>4. d = [tid |-> t, kind |-> k, loc |-> l, val |-> Null, seq |-> 0, lastwrite |-> i,
                 lastcommittedWrite |-> used, last_clflush |-> ValueNone, issued |-> 0]
        BY <4>3
      <4> HIDE DEF d
      <4>5. [d EXCEPT !.issued = used] = a
        BY <3>3, <4>4
      <4> QED  BY <4>1, <4>5
    <3>5. a \in ModelAction
      BY <3>1, <3>2, <3>3, ThreadMemoryAssumption DEF ModelAction, Kind
    <3>6. ~IsWrite(a)
      BY <3>3 DEF IsWrite
    <3> QED  BY <3>4, <3>5, <3>6
  <2> QED  BY <2>1, <2>2
<1>2. /\ sb' = [sb EXCEPT ![t] = Append(@, new)] /\ wr' = wr
      /\ UNCHANGED <<rmw, hasCrashed, phase, job>>
  BY DEF SFence, CacheOp, Enqueue, ctl, mem
<1>3. Keeps /\ DOMAIN act' = Acts \cup {new} /\ act'[new] = a
  BY <1>1, KeepsAppend
<1>4. Buffers(t, a)
  BY <1>1, <1>2, <1>3 DEF Buffers
<1> QED  BY <1>1, <1>2, <1>3, <1>4

\* Anything else neither issues a store nor lets one reach memory.
LEMMA IdleShape ==
  ASSUME TypeOK,
         \/ EvictClflush \/ EvictFlushOpt \/ FlushForSFence \/ EvictSFence \/ CrashInStoreBuffer
         \/ StoreBufferEmptied \/ PopsDone \/ FlushNext \/ CrashInFlushBuffer \/ FlushedAfterCrash
         \/ FlushBufferEmptied \/ DoCrash
         \/ (\E w \in Word : EnsureInitialValue(w))
         \/ (\E t \in Thread, l \in Loc : Read(t, l) \/ RMWRead(t, l))
         \/ (\E t \in Thread : MFence(t)) \/ CASFail
         \/ (\E t \in Thread, n \in 1 .. (EvictMax - 1) : EvictRandom(t, n))
         \/ Finish \/ UNCHANGED vars
  PROVE  Idle /\ NoNewWrite
<1> USE DEF Acts
<1>1. ASSUME act' = act PROVE Keeps /\ NoNewWrite
  BY <1>1 DEF Keeps, NoNewWrite
<1>2. CASE CrashInStoreBuffer
  <2>1. /\ act' = act /\ wr' = wr /\ cur \in Thread /\ sb[cur] # <<>> /\ sb' = [sb EXCEPT ![cur] = Tail(@)]
        /\ act[Head(sb[cur])].kind \in {"clflush", "sfence"}
    BY <1>2 DEF CrashInStoreBuffer, Draining, head, mem, TypeOK, ControlOK
  <2>2. ~IsWrite(act[Head(sb[cur])])
    BY <2>1 DEF IsWrite
  <2>3. sb'[cur] = Tail(sb[cur]) /\ \A t \in Thread \ {cur} : sb'[t] = sb[t]
    BY <2>1 DEF TypeOK, BuffersOK
  <2> QED  BY <1>1, <2>1, <2>2, <2>3 DEF Idle
<1>3. CASE EvictClflush \/ EvictSFence \/ EvictFlushOpt
  <2>1. /\ wr' = wr /\ cur \in Thread /\ sb[cur] # <<>> /\ sb' = [sb EXCEPT ![cur] = Tail(@)]
        /\ act[head].kind \in {"clflush", "sfence", "clflushopt"}
        /\ Commit(head) \/ \E c : act' = act \/ act' = [act EXCEPT ![head].last_clflush = c]
    BY <1>3 DEF EvictClflush, EvictSFence, EvictFlushOpt, evictCacheOp, Draining, Pop, mem, TypeOK, ControlOK
  <2>2. head \in Acts
    <3>1. head \in In(sb[cur])
      BY <2>1, BufferSeqs DEF head, In
    <3> QED  BY <2>1, <3>1, BufferSeqs
  <2>3. Keeps /\ DOMAIN act' = Acts
    BY <2>1, <2>2, KeepsCommit, KeepsLastFlush
  <2>4. ~IsWrite(act[Head(sb[cur])])
    BY <2>1 DEF IsWrite, head
  <2>5. sb'[cur] = Tail(sb[cur]) /\ \A t \in Thread \ {cur} : sb'[t] = sb[t]
    BY <2>1 DEF TypeOK, BuffersOK
  <2> QED  BY <2>1, <2>3, <2>4, <2>5 DEF Idle, NoNewWrite
<1>4. CASE FlushForSFence \/ FlushNext \/ (FlushBufferEmptied /\ job = "fence")
  <2>1. /\ wr' = wr /\ sb' = sb /\ cur \in Thread
        /\ \/ Commit(Len(act)) /\ Len(act) > 0
           \/ fb[cur] # <<>> /\ Commit(Head(fb[cur]))
    BY <1>4 DEF FlushForSFence, FlushNext, FlushBufferEmptied, Flush, evictCacheOp, Draining, bufs,
       TypeOK, ControlOK
  <2>2. PICK i \in Acts : Commit(i)
    <3>1. CASE Commit(Len(act)) /\ Len(act) > 0
      BY <3>1 DEF TypeOK, ActsOK
    <3>2. CASE fb[cur] # <<>> /\ Commit(Head(fb[cur]))
      <4>1. Head(fb[cur]) \in In(fb[cur])
        BY <2>1, <3>2, BufferSeqs DEF In
      <4> QED  BY <2>1, <3>2, <4>1, BufferSeqs
    <3> QED  BY <2>1, <3>1, <3>2
  <2>3. Keeps /\ DOMAIN act' = Acts
    BY <2>2, KeepsCommit
  <2> QED  BY <2>1, <2>3 DEF Idle, NoNewWrite
<1>5. CASE (\E t \in Thread, l \in Loc : Read(t, l)) \/ (\E t \in Thread : MFence(t)) \/ CASFail
  <2>1. wr' = wr /\ sb' = sb /\ \E a : act' = Append(act, a) /\ ~IsWrite(a)
    <3>1. CASE \E t \in Thread, l \in Loc : Read(t, l)
      BY <3>1 DEF Read, bufs, Action, IsWrite
    <3>2. CASE \E t \in Thread : MFence(t)
      BY <3>2 DEF MFence, bufs, mem, Action, IsWrite
    <3>3. CASE CASFail
      BY <3>3 DEF CASFail, bufs, Action, IsWrite
    <3> QED  BY <1>5, <3>1, <3>2, <3>3
  <2>2. PICK a : act' = Append(act, a) /\ ~IsWrite(a)
    BY <2>1
  <2>3. Keeps /\ DOMAIN act' = Acts \cup {new} /\ act'[new] = a
    BY <2>2, KeepsAppend
  <2> QED  BY <2>1, <2>2, <2>3 DEF Idle, NoNewWrite
<1>6. CASE \E w \in Word : EnsureInitialValue(w)
  <2>1. act' = act /\ sb' = sb /\ \E w \in Word : wr[w] = <<>> /\ wr' = [wr EXCEPT ![w] = <<0>>]
    BY <1>6 DEF EnsureInitialValue, bufs
  <2> QED  BY <1>1, <2>1 DEF Idle
<1>7. ASSUME UNCHANGED <<act, sb, wr>> PROVE Idle /\ NoNewWrite
  BY <1>1, <1>7 DEF Idle
<1>8. CASE (FlushBufferEmptied /\ job # "fence") \/ StoreBufferEmptied \/ PopsDone
  BY <1>7, <1>8 DEF FlushBufferEmptied, StoreBufferEmptied, PopsDone, bufs, mem
<1>9. CASE CrashInFlushBuffer \/ FlushedAfterCrash \/ DoCrash \/ Finish \/ UNCHANGED vars
  BY <1>7, <1>9 DEF CrashInFlushBuffer, FlushedAfterCrash, DoCrash, Finish, bufs, mem, vars
<1>10. CASE \/ \E t \in Thread, l \in Loc : RMWRead(t, l)
            \/ \E t \in Thread, n \in 1 .. (EvictMax - 1) : EvictRandom(t, n)
  BY <1>7, <1>10 DEF RMWRead, EvictRandom, bufs, mem
<1> QED  BY <1>2, <1>3, <1>4, <1>5, <1>6, <1>8, <1>9, <1>10

-------------------------------------------------------------------------------
(* The lists are filed, and no drain is pending while instructions run.    *)

LEMMA FiledKept ==
  ASSUME TypeOK, TypeOK', Filed, Keeps,
         \/ wr' = wr
         \/ \E w \in Word : wr[w] = <<>> /\ wr' = [wr EXCEPT ![w] = << 0 >>]
         \/ \E i \in DOMAIN act', l \in Loc : i # 0 /\ IsWrite(act'[i]) /\ Initialized(l) /\ Joins(i, l),
         \/ NoNewWrite
         \/ DOMAIN act' = Acts \cup {new} /\ \E l \in Loc : act'[new].loc = l /\ Initialized(l),
         rmw' = Null \/ \E l \in Loc : rmw'.loc = l /\ Initialized(l)
  PROVE  Filed'
<1>1. wr \in [Word -> Seq(0 .. Len(act))]
  BY DEF TypeOK, IndicesOK
<1>2. ASSUME NEW w \in Word
      PROVE  /\ wr[w] # <<>> => wr'[w] # <<>>
             /\ wr'[w] # <<>> => wr'[w][1] = 0
             /\ \A k \in DOMAIN wr'[w] : wr'[w][k] # 0 => IsWrite(act'[wr'[w][k]])
  <2>1. /\ wr[w] # <<>> => 1 \in DOMAIN wr[w] /\ wr[w][1] = 0
        /\ \A k \in DOMAIN wr[w] : wr[w][k] # 0 => IsWrite(act'[wr[w][k]])
    BY ListIs DEF Keeps, IsWrite
  <2>2. CASE wr'[w] = wr[w]
    BY <2>1, <2>2
  <2>3. CASE wr'[w] = <<0>>
    BY <2>3
  <2>4. ASSUME NEW i \in DOMAIN act', i # 0, IsWrite(act'[i]), wr[w] # <<>>, wr'[w] = Append(wr[w], i)
        PROVE  /\ wr'[w] # <<>> /\ wr'[w][1] = 0
               /\ \A k \in DOMAIN wr'[w] : wr'[w][k] # 0 => IsWrite(act'[wr'[w][k]])
    <3>1. \A k \in DOMAIN wr'[w] : (k \in DOMAIN wr[w] /\ wr'[w][k] = wr[w][k]) \/ wr'[w][k] = i
      BY <1>1, <2>4
    <3>2. wr'[w][1] = wr[w][1] /\ wr'[w] # <<>>
      BY <1>1, <2>4
    <3> QED  BY <2>1, <2>4, <3>1, <3>2
  <2>5. \/ wr'[w] = wr[w] \/ wr'[w] = <<0>>
        \/ \E i \in DOMAIN act' : /\ i # 0 /\ IsWrite(act'[i]) /\ wr[w] # <<>>
                                  /\ wr'[w] = Append(wr[w], i)
    BY <1>1 DEF Joins, Initialized
  <2> QED  BY <2>2, <2>3, <2>4, <2>5
<1>3. ASSUME NEW l \in Loc, Initialized(l) PROVE Initialized(l)'
  BY <1>2, <1>3, ByteInWord DEF Initialized, Word
<1>4. ASSUME NEW i \in DOMAIN act', IsWrite(act'[i])
      PROVE  \E l \in Loc : act'[i].loc = l /\ Initialized(l)
  <2>1. CASE i \in Acts
    <3>1. act'[i].loc = act[i].loc /\ IsWrite(act[i])
      BY <1>4, <2>1 DEF Keeps, IsWrite
    <3>2. act[i].loc \in Loc /\ Initialized(act[i].loc)
      BY <2>1, <3>1 DEF Filed, TypeOK, ActsOK, IsWrite
    <3> QED  BY <3>1, <3>2
  <2> QED  BY <1>4, <2>1 DEF NoNewWrite
<1>5. \A i \in DOMAIN act' : IsWrite(act'[i]) => wr'[alignAddress(act'[i].loc)] # <<>>
  BY <1>3, <1>4 DEF Initialized
<1>6. rmw' # Null => wr'[alignAddress(rmw'.loc)] # <<>>
  BY <1>3 DEF Initialized
<1> QED  BY <1>2, <1>5, <1>6 DEF Filed, Initialized, Acts

LEMMA FiledInit == Init => Filed /\ JobControl
BY DEF Init, Filed, JobControl, Acts, IsWrite

LEMMA FiledNext ==
  ASSUME Control, TypeOK', Filed, JobControl, [Next]_vars
  PROVE  Filed' /\ JobControl'
<1> USE DEF Control
<1>1. rmw # Null => rmw.loc \in Loc /\ Initialized(rmw.loc)
  BY DEF Filed, TypeOK, ControlOK
<1>2. CASE EvictStore
  <2>1. PICK l, v : Lands(head, l, v)
    BY <1>2, EvictStoreShape DEF Lands
  <2>2. NoNewWrite /\ rmw' = rmw /\ Keeps /\ phase' = phase /\ phase = "sb"
    BY <1>2, <2>1, EvictStoreShape DEF NoNewWrite, Lands
  <2>3. Filed'
    BY <1>1, <2>1, <2>2, FiledKept DEF Lands
  <2> QED  BY <2>2, <2>3 DEF JobControl
<1>3. ASSUME NEW v, RMWWrite(v) PROVE Filed' /\ JobControl'
  <2>1. /\ Lands(new, rmw.loc, v) /\ DOMAIN act' = Acts \cup {new} /\ rmw' = Null
        /\ phase \in {"rmw", "rmwgo"} /\ job' = job
    BY <1>3, RMWWriteShape
  <2>2. Filed'
    BY <2>1, FiledKept DEF Lands
  <2> QED  BY <2>1, <2>2 DEF JobControl
<1>4. ASSUME NEW t \in Thread, NEW l \in Loc, NEW k \in {"write", "scwrite"},
             NEW v \in [BytesAt(l) -> Byte], Write(t, k, l, v)
      PROVE  Filed' /\ JobControl'
  <2>1. PICK a : /\ Buffers(t, a) /\ a.loc = l /\ Initialized(l)
                 /\ DOMAIN act' = Acts \cup {new} /\ act'[new] = a
                 /\ phase = "run" /\ phase' \in {"run", "sb"} /\ (phase' = "run" => job' = job)
                 /\ rmw' = rmw
    BY <1>4, WriteShape
  <2>2. Filed'
    BY <1>1, <2>1, FiledKept DEF Buffers
  <2> QED  BY <2>1, <2>2 DEF JobControl
<1>5. ASSUME NEW t \in Thread,
             SFence(t) \/ \E l \in Loc, k \in {"clflush", "clflushopt"} : CacheOp(t, k, l)
      PROVE  Filed' /\ JobControl'
  <2>1. PICK a : /\ Buffers(t, a) /\ ~IsWrite(a) /\ DOMAIN act' = Acts \cup {new} /\ act'[new] = a
                 /\ UNCHANGED <<rmw, phase, job>>
    BY <1>5, CacheOpShape
  <2>2. Filed'
    BY <1>1, <2>1, FiledKept DEF Buffers, NoNewWrite
  <2> QED  BY <2>1, <2>2 DEF JobControl
<1>6. CASE \E t \in Thread : FreeActions(t)
  <2>1. act' = act /\ wr' = wr /\ rmw' = rmw /\ phase' = phase /\ job' = job
    BY <1>6 DEF FreeActions, mem, ctl
  <2>2. Filed' /\ JobControl'
    BY <2>1 DEF Filed, JobControl, Acts, Initialized, IsWrite
  <2> QED  BY <2>2
<1>7. ASSUME \/ EvictClflush \/ EvictFlushOpt \/ FlushForSFence \/ EvictSFence \/ CrashInStoreBuffer
             \/ StoreBufferEmptied \/ PopsDone \/ FlushNext \/ CrashInFlushBuffer \/ FlushedAfterCrash
             \/ FlushBufferEmptied \/ DoCrash
             \/ (\E w \in Word : EnsureInitialValue(w))
             \/ (\E t \in Thread, l \in Loc : Read(t, l) \/ RMWRead(t, l))
             \/ (\E t \in Thread : MFence(t)) \/ CASFail
             \/ (\E t \in Thread, n \in 1 .. (EvictMax - 1) : EvictRandom(t, n))
             \/ Finish \/ UNCHANGED vars
      PROVE  Filed' /\ JobControl'
  <2>1. Idle /\ NoNewWrite
    BY <1>7, IdleShape
  <2>2. rmw' = Null \/ \E l \in Loc : rmw'.loc = l /\ Initialized(l)
    <3>1. CASE rmw' \in {rmw, Null}
      BY <1>1, <3>1
    <3>2. CASE \E t \in Thread, l \in Loc : RMWRead(t, l)
      BY <3>2 DEF RMWRead
    <3>3. CASE FlushBufferEmptied
      BY <1>1, <3>3 DEF FlushBufferEmptied, TypeOK, ControlOK
    <3> QED  BY <1>7, <3>1, <3>2, <3>3
             DEF EvictClflush, EvictFlushOpt, FlushForSFence, EvictSFence, CrashInStoreBuffer,
                 StoreBufferEmptied, PopsDone, FlushNext, CrashInFlushBuffer, FlushedAfterCrash,
                 DoCrash, EnsureInitialValue, Read, MFence, CASFail, EvictRandom, Finish, Flush, vars
  <2>3. Filed'
    BY <2>1, <2>2, FiledKept DEF Idle
  <2>4. JobControl'
    BY <1>7 DEF JobControl, EvictClflush, EvictFlushOpt, FlushForSFence, EvictSFence,
       CrashInStoreBuffer, StoreBufferEmptied, PopsDone, FlushNext, CrashInFlushBuffer,
       FlushedAfterCrash, FlushBufferEmptied, DoCrash, EnsureInitialValue, Read, RMWRead, MFence,
       CASFail, EvictRandom, Finish, Flush, Pop, StartDrain, Draining, ctl, vars
  <2> QED  BY <2>3, <2>4
<1> QED  BY <1>2, <1>3, <1>4, <1>5, <1>6, <1>7 DEF Next, Issue, Drain, Terminated

-------------------------------------------------------------------------------
(* The lock and the power.                                                 *)

Holder == IF rmw # Null /\ job # "rmwr" THEN rmw.tid ELSE NoThread

\* No store is evicted at random between the halves of an RMW.
Undisturbed == ~(phase = "sb" /\ job = "pop" /\ rmw # Null)

LEMMA DrainUnlocked ==
  ASSUME Control, Undisturbed, phase = "sb"
  PROVE  Holder = NoThread /\ Running
BY DEF Control, CrashControl, RMWPending, TypeOK, ControlOK, Undisturbed, Holder, Running

LEMMA LockedHalf ==
  ASSUME Control, JobControl, phase \in {"rmw", "rmwgo"}
  PROVE  rmw # Null /\ Holder = rmw.tid /\ Holder \in Thread /\ Holder # NoThread /\ Running
BY ThreadMemoryAssumption
   DEF Control, CrashControl, RMWPending, TypeOK, ControlOK, JobControl, Holder, Running

\* The read of an RMW takes the lock.
LEMMA LockTaken ==
  ASSUME Control, FlushBufferEmptied, job = "rmwr"
  PROVE  /\ cur \in Thread /\ sb[cur] = <<>> /\ Running /\ Running'
         /\ Holder = NoThread /\ Holder' = cur
<1>1. /\ cur \in Thread /\ sb[cur] = <<>> /\ ~hasCrashed /\ phase = "fb" /\ cur = rmw.tid
      /\ rmw # Null /\ DOMAIN rmw = {"tid", "loc", "from"}
  BY DEF FlushBufferEmptied, Control, RMWControl, TypeOK, ControlOK
<1>2. rmw' = [rmw EXCEPT !.from = ReadFrom(cur, rmw.loc)] /\ phase' = "rmw" /\ job' = "none"
      /\ hasCrashed' = hasCrashed
  BY DEF FlushBufferEmptied
<1>3. rmw'.tid = cur /\ rmw' # Null
  <2>1. DOMAIN rmw' = {"tid", "loc", "from"} /\ rmw'.tid = rmw.tid
    BY <1>1, <1>2
  <2>2. DOMAIN Null = {}
    BY DEF Null
  <2> QED  BY <1>1, <2>1, <2>2
<1> QED  BY <1>1, <1>2, <1>3 DEF Holder, Running

\* Other steps than the two halves of an RMW leave the lock alone; the power
\* may fail, and does not come back.
LEMMA LockStays ==
  ASSUME Control, JobControl,
         \/ EvictStore \/ EvictClflush \/ EvictFlushOpt \/ FlushForSFence \/ EvictSFence
         \/ CrashInStoreBuffer \/ StoreBufferEmptied \/ PopsDone \/ FlushNext \/ CrashInFlushBuffer
         \/ FlushedAfterCrash \/ (FlushBufferEmptied /\ job # "rmwr")
         \/ (\E t \in Thread : FreeActions(t)) \/ DoCrash
         \/ (\E w \in Word : EnsureInitialValue(w))
         \/ (\E t \in Thread, l \in Loc :
               \/ \E k \in {"write", "scwrite"}, v \in [BytesAt(l) -> Byte] : Write(t, k, l, v)
               \/ \E k \in {"clflush", "clflushopt"} : CacheOp(t, k, l)
               \/ Read(t, l) \/ RMWRead(t, l))
         \/ (\E t \in Thread : SFence(t) \/ MFence(t))
         \/ (\E t \in Thread, n \in 1 .. (EvictMax - 1) : EvictRandom(t, n))
         \/ Finish \/ UNCHANGED vars
  PROVE  Holder' = Holder /\ (Running' => Running)
<1>1. CASE EvictStore \/ EvictClflush \/ EvictFlushOpt \/ EvictSFence \/ FlushForSFence \/ FlushNext
  BY <1>1, SMTT(20) DEF EvictStore, EvictClflush, EvictFlushOpt, EvictSFence, FlushForSFence, FlushNext, Flush,
     evictCacheOp, Pop, ctl, Holder, Running
<1>2. CASE CrashInStoreBuffer \/ CrashInFlushBuffer \/ FlushedAfterCrash \/ StoreBufferEmptied \/ Finish
  BY <1>2 DEF CrashInStoreBuffer, CrashInFlushBuffer, FlushedAfterCrash, StoreBufferEmptied, Finish,
     Draining, Holder, Running
<1>3. CASE (\E t \in Thread : FreeActions(t)) \/ DoCrash \/ UNCHANGED vars
  BY <1>3 DEF FreeActions, DoCrash, ctl, vars, Holder, Running
<1>4. CASE PopsDone
  BY <1>4 DEF PopsDone, Holder, Running
<1>5. CASE FlushBufferEmptied /\ job # "rmwr"
  <2>1. rmw = Null
    BY <1>5 DEF FlushBufferEmptied, Control, RMWPending, TypeOK, ControlOK
  <2> QED  BY <1>5, <2>1 DEF FlushBufferEmptied, Holder, Running
<1>6. CASE \/ \E w \in Word : EnsureInitialValue(w)
           \/ \E t \in Thread, l \in Loc :
                \/ \E k \in {"write", "scwrite"}, v \in [BytesAt(l) -> Byte] : Write(t, k, l, v)
                \/ \E k \in {"clflush", "clflushopt"} : CacheOp(t, k, l)
                \/ Read(t, l)
           \/ \E t \in Thread : SFence(t) \/ MFence(t)
  <2>1. phase = "run" /\ rmw' = rmw /\ hasCrashed' = hasCrashed
    BY <1>6, ZenonT(60) DEF EnsureInitialValue, Write, CacheOp, Read, SFence, MFence, CanIssue
  <2>2. rmw = Null
    BY <2>1 DEF Control, RMWPending
  <2> QED  BY <2>1, <2>2 DEF Holder, Running
<1>7. CASE \E t \in Thread, l \in Loc : RMWRead(t, l)
  <2>1. phase = "run" /\ job' = "rmwr" /\ hasCrashed' = hasCrashed
    BY <1>7 DEF RMWRead, StartDrain, CanIssue
  <2>2. rmw = Null
    BY <2>1 DEF Control, RMWPending
  <2> QED  BY <2>1, <2>2 DEF Holder, Running
<1>8. CASE \E t \in Thread, n \in 1 .. (EvictMax - 1) : EvictRandom(t, n)
  BY <1>8 DEF EvictRandom, JobControl, Holder, Running
<1> QED  BY <1>1, <1>2, <1>3, <1>4, <1>5, <1>6, <1>7, <1>8

-------------------------------------------------------------------------------
(* The actions of the x86-TSO machine, in the terms above.                 *)

Addresses == UNION {BytesAt(l) : l \in Loc}

\* The bytes of an access are the same to the machine.
LEMMA SameBytes == \A l : TSO!BytesAt(l) = BytesAt(l)
BY DEF TSO!BytesAt, BytesAt

LEMMA Machine ==
  /\ TSO!tsoVars = <<Memories, Queues, Holder, Running>>
  /\ TSO!Addr = Addresses
  /\ TSO!Entry = UNION {[loc : {l}, val : [BytesAt(l) -> Byte]] : l \in Loc}
<1>1. TSO!tsoVars = <<Memories, Queues, Holder, Running>>
  BY DEF TSO!tsoVars, Memories, Queues, Holder, Running
<1>2. TSO!Addr = Addresses
  BY SameBytes DEF TSO!Addr, Addresses
<1>3. TSO!Entry = UNION {[loc : {l}, val : [BytesAt(l) -> Byte]] : l \in Loc}
  BY SameBytes DEF TSO!Entry
<1> QED  BY <1>1, <1>2, <1>3

LEMMA MachineInit ==
  TSO!TSOInit <=> /\ Memories = [b \in Addresses |-> 0] /\ Queues = [t \in Thread |-> <<>>]
                  /\ Holder = NoThread /\ Running = TRUE
BY Machine DEF TSO!TSOInit, Memories, Queues, Holder, Running

LEMMA MachineStore ==
  ASSUME NEW t
  PROVE  TSO!Store(t) <=> /\ Running
                          /\ \E e \in TSO!Entry : Queues' = [Queues EXCEPT ![t] = Append(@, e)]
                          /\ Memories' = Memories /\ Holder' = Holder /\ Running' = Running
BY DEF TSO!Store, Memories, Queues, Holder, Running

LEMMA MachineCommit ==
  ASSUME NEW t
  PROVE  TSO!CommitStore(t) <=>
           /\ Running /\ Queues[t] # <<>> /\ Holder \in {NoThread, t}
           /\ Memories' = [b \in Addresses |-> IF b \in DOMAIN Head(Queues[t]).val
                                               THEN Head(Queues[t]).val[b] ELSE Memories[b]]
           /\ Queues' = [Queues EXCEPT ![t] = Tail(@)]
           /\ Holder' = Holder /\ Running' = Running
BY Machine DEF TSO!CommitStore, TSO!Update, Memories, Queues, Holder, Running

LEMMA MachineLock ==
  ASSUME NEW t
  PROVE  TSO!Lock(t) <=> /\ Running /\ Holder = NoThread /\ Queues[t] = <<>> /\ Holder' = t
                         /\ Memories' = Memories /\ Queues' = Queues /\ Running' = Running
BY DEF TSO!Lock, Memories, Queues, Holder, Running

LEMMA MachineLockedWrite ==
  TSO!LockedWrite <=>
    /\ Running /\ Holder # NoThread
    /\ \E e \in TSO!Entry :
         Memories' = [b \in Addresses |-> IF b \in DOMAIN e.val THEN e.val[b] ELSE Memories[b]]
    /\ Holder' = NoThread
    /\ Queues' = Queues /\ Running' = Running
BY Machine DEF TSO!LockedWrite, TSO!Update, Memories, Queues, Holder, Running

LEMMA MachineUnlock ==
  TSO!Unlock <=> /\ Running /\ Holder # NoThread /\ Holder' = NoThread
                 /\ Memories' = Memories /\ Queues' = Queues /\ Running' = Running
BY DEF TSO!Unlock, Memories, Queues, Holder, Running

LEMMA MachineFails ==
  TSO!PowerFailure <=> /\ Running /\ Running' = FALSE
                       /\ Memories' = Memories /\ Queues' = Queues /\ Holder' = Holder
BY DEF TSO!PowerFailure, Memories, Queues, Holder, Running

LEMMA MachineLoses ==
  ASSUME NEW t
  PROVE  TSO!LoseBuffer(t) <=> /\ ~Running /\ Queues' = [Queues EXCEPT ![t] = <<>>]
                               /\ Memories' = Memories /\ Holder' = Holder /\ Running' = Running
BY DEF TSO!LoseBuffer, Memories, Queues, Holder, Running

-------------------------------------------------------------------------------
(* Every step is one of the machine's.                                     *)

LEMMA MachineStarts == Init => TSO!TSOInit
<1> SUFFICES ASSUME Init PROVE TSO!TSOInit
  OBVIOUS
<1>1. TypeOK
  BY TypeInit
<1>2. ASSUME NEW b \in Addresses PROVE MemoryByte(b) = 0
  <2>1. PICK l \in Loc : b \in BytesAt(l)
    BY DEF Addresses
  <2>2. wr[alignAddress(l)] = <<>>
    BY <2>1, ByteInWord DEF Init
  <2> QED  BY <2>1, <2>2, MemoryByteIs
<1>3. Memories = [b \in Addresses |-> 0]
  BY <1>2 DEF Memories, Addresses
<1>4. ASSUME NEW t \in Thread PROVE Stores(t) = <<>>
  <2> DEFINE q == Effects(t)
  <2>1. Len(q) = 0 /\ Stores(t) = StoresUpTo(q)[Len(q)]
    <3>1. Len(sb[t]) = 0
      BY DEF Init
    <3> QED  BY <1>1, <3>1, EffectsType DEF StoresOf
  <2> HIDE DEF q
  <2>2. StoresUpTo(q)[0] = <<>>
    BY <2>1, StoresEquations
  <2> QED  BY <2>1, <2>2
<1>5. Queues = [t \in Thread |-> <<>>]
  BY <1>4 DEF Queues
<1>6. Holder = NoThread /\ Running = TRUE
  BY DEF Init, Holder, Running
<1> QED  BY <1>3, <1>5, <1>6, MachineInit

\* What a store that lands makes of memory.
LEMMA MemoriesLand ==
  ASSUME TypeOK, Filed, NEW i, NEW l, NEW v, Lands(i, l, v)
  PROVE  Memories' = [b \in Addresses |-> IF b \in DOMAIN v THEN v[b] ELSE Memories[b]]
<1>1. ASSUME NEW b \in Addresses
      PROVE  MemoryByte(b)' = IF b \in DOMAIN v THEN v[b] ELSE MemoryByte(b)
  <2>1. PICK k \in Loc : b \in BytesAt(k)
    BY DEF Addresses
  <2>2. DOMAIN v = BytesAt(l)
    BY DEF Lands
  <2> QED  BY <2>1, <2>2, MemoryLands DEF Lands
<1>2. Memories = [b \in Addresses |-> MemoryByte(b)] /\ Memories' = [b \in Addresses |-> MemoryByte(b)']
  BY DEF Memories, Addresses
<1> QED  BY <1>1, <1>2

LEMMA EntryIs ==
  ASSUME NEW l \in Loc, NEW v \in [BytesAt(l) -> Byte]
  PROVE  [loc |-> l, val |-> v] \in TSO!Entry
<1>1. [loc |-> l, val |-> v] \in [loc : {l}, val : [BytesAt(l) -> Byte]]
  OBVIOUS
<1> QED  BY <1>1, Machine

\* Issuing a store.
LEMMA WriteIsStore ==
  ASSUME Control, Filed, JobControl, NEW t \in Thread, NEW l \in Loc, NEW k \in {"write", "scwrite"},
         NEW v \in [BytesAt(l) -> Byte], Write(t, k, l, v)
  PROVE  TSO!Store(t)
<1>1. PICK a : /\ Buffers(t, a) /\ IsWrite(a) /\ a.loc = l /\ a.val = v
               /\ phase = "run" /\ phase' \in {"run", "sb"} /\ hasCrashed' = hasCrashed
  BY WriteShape DEF Control
<1>2. Memories' = Memories /\ Queues' = [Queues EXCEPT ![t] = Append(@, [loc |-> l, val |-> v])]
  BY <1>1, BuffersJoin DEF Control
<1>3. Running /\ Running'
  BY <1>1 DEF Control, CrashControl, Running
<1>4. Holder' = Holder
  BY LockStays
<1> QED  BY <1>2, <1>3, <1>4, EntryIs, MachineStore

\* A store leaves its buffer for memory.
LEMMA EvictIsCommit ==
  ASSUME Control, Filed, JobControl, Undisturbed, EvictStore
  PROVE  \E t \in Thread : TSO!CommitStore(t)
<1>1. /\ cur \in Thread /\ sb[cur] # <<>> /\ sb' = [sb EXCEPT ![cur] = Tail(@)]
      /\ IsWrite(act[head]) /\ Lands(head, act[head].loc, act[head].val)
      /\ phase = "sb" /\ UNCHANGED <<phase, hasCrashed>>
  BY EvictStoreShape DEF Control
<1>2. PICK t, v : t \in Thread /\ t = cur /\ v = act[head].val
  BY <1>1
<1>3. Keeps
  BY <1>1 DEF Lands
<1>4. sb[t] # <<>> /\ sb'[t] = Tail(sb[t]) /\ \A u \in Thread \ {t} : sb'[u] = sb[u]
  BY <1>1, <1>2 DEF Control, TypeOK, BuffersOK
<1>5. Head(sb[t]) = head
  BY <1>2 DEF head
<1>6. /\ Stores(t) # <<>> /\ Head(Stores(t)).val = v
      /\ Stores(t)' = Tail(Stores(t))
  BY <1>1, <1>2, <1>3, <1>4, <1>5, StoresLeave DEF Control
<1>7. \A u \in Thread \ {t} : Stores(u)' = Stores(u)
  BY <1>3, <1>4, StoresStay DEF Control
<1>8. Queues[t] = Stores(t)
  BY <1>2 DEF Queues
<1>9. Queues' = [Queues EXCEPT ![t] = Tail(@)]
  BY <1>6, <1>7 DEF Queues
<1>10. Memories' = [b \in Addresses |-> IF b \in DOMAIN v THEN v[b] ELSE Memories[b]]
  BY <1>1, <1>2, MemoriesLand DEF Control
<1>11. Holder = NoThread /\ Running /\ Holder' = Holder /\ Running'
  BY <1>1, DrainUnlocked, LockStays DEF Running
<1>12. TSO!CommitStore(t)
  BY <1>6, <1>8, <1>9, <1>10, <1>11, MachineCommit
<1> QED  BY <1>2, <1>12

\* The write of an RMW.
LEMMA RMWIsLockedWrite ==
  ASSUME Control, Filed, JobControl, NEW v, RMWWrite(v)
  PROVE  TSO!LockedWrite
<1>1. /\ Lands(new, rmw.loc, v) /\ sb' = sb /\ rmw' = Null
      /\ phase \in {"rmw", "rmwgo"} /\ phase' = "run" /\ hasCrashed' = hasCrashed
  BY RMWWriteShape DEF Control
<1>2. rmw.loc \in Loc /\ v \in [BytesAt(rmw.loc) -> Byte] /\ Keeps
  BY <1>1 DEF Lands
<1>3. Memories' = [b \in Addresses |-> IF b \in DOMAIN v THEN v[b] ELSE Memories[b]]
  BY <1>1, MemoriesLand DEF Control
<1>4. PICK e \in TSO!Entry : e.val = v
  BY <1>2, EntryIs
<1>5. Queues' = Queues
  BY <1>1, <1>2, StoresStay DEF Control, Queues
<1>6. Holder # NoThread /\ Running
  BY <1>1, LockedHalf
<1>7. Holder' = NoThread /\ Running'
  BY <1>1, <1>6 DEF Holder, Running
<1> QED  BY <1>3, <1>4, <1>5, <1>6, <1>7, MachineLockedWrite

\* A thread's buffer is lost with the power.
LEMMA FreeIsLoss ==
  ASSUME Control, Filed, JobControl, NEW t \in Thread, FreeActions(t)
  PROVE  TSO!LoseBuffer(t)
<1>1. /\ act' = act /\ wr' = wr /\ phase = "crashed" /\ UNCHANGED <<phase, job, rmw, hasCrashed>>
      /\ sb' = [sb EXCEPT ![t] = <<>>]
  BY DEF FreeActions, mem, ctl
<1>2. TypeOK' /\ TypeOK
  <2>1. [Next]_vars
    BY DEF Next, Drain
  <2> QED  BY <2>1, TypeNext DEF Control
<1>3. Keeps
  BY <1>1 DEF Keeps, Acts
<1>4. sb'[t] = <<>> /\ \A u \in Thread \ {t} : sb'[u] = sb[u]
  BY <1>1, <1>2 DEF TypeOK, BuffersOK
<1>5. \A u \in Thread \ {t} : Stores(u)' = Stores(u)
  BY <1>2, <1>3, <1>4, StoresStay
<1>6. Stores(t)' = <<>>
  <2> DEFINE q == [k \in DOMAIN sb'[t] |-> Effect(act'[sb'[t][k]])]
  <2>1. Stores(t)' = StoresUpTo(q)[Len(q)]
    BY <1>2, <1>3, EffectsLater DEF StoresOf
  <2>2. DOMAIN q = {}
    BY <1>4
  <2> HIDE DEF q
  <2>3. PICK r : r = q
    OBVIOUS
  <2>4. Len(q) = 0
    BY <1>4 DEF q
  <2>5. StoresUpTo(q)[0] = <<>>
    BY <2>4, StoresEquations
  <2> QED  BY <2>1, <2>4, <2>5
<1>7. Queues' = [Queues EXCEPT ![t] = <<>>]
  BY <1>5, <1>6 DEF Queues
<1>8. Memories' = Memories
  <2>1. ASSUME NEW l \in Loc, NEW b \in BytesAt(l) PROVE MemoryByte(b)' = MemoryByte(b)
    BY <1>1, <1>2, <1>3, MemoryStays
  <2>2. \A b \in UNION {BytesAt(l) : l \in Loc} : MemoryByte(b)' = MemoryByte(b)
    BY <2>1
  <2> QED  BY <2>2 DEF Memories
<1>9. ~Running /\ Running' = Running /\ Holder' = Holder
  BY <1>1 DEF Running, Holder
<1> QED  BY <1>7, <1>8, <1>9, MachineLoses

\* A failed compare-and-swap.
LEMMA CASFailIsUnlock ==
  ASSUME Control, Filed, JobControl, CASFail
  PROVE  TSO!Unlock
<1>1. Memories' = Memories /\ Queues' = Queues
  BY IdleShape, IdleSame DEF Control
<1>2. phase \in {"rmw", "rmwgo"} /\ rmw' = Null /\ phase' = "run" /\ hasCrashed' = hasCrashed
  BY DEF CASFail
<1>3. Holder # NoThread /\ Running
  BY <1>2, LockedHalf
<1>4. Holder' = NoThread /\ Running'
  BY <1>2, <1>3 DEF Holder, Running
<1> QED  BY <1>1, <1>3, <1>4, MachineUnlock

\* The read of an RMW.
LEMMA RMWReadIsLock ==
  ASSUME Control, Filed, JobControl, FlushBufferEmptied, job = "rmwr"
  PROVE  \E t \in Thread : TSO!Lock(t)
<1>1. Memories' = Memories /\ Queues' = Queues
  BY IdleShape, IdleSame DEF Control
<1>2. /\ cur \in Thread /\ sb[cur] = <<>> /\ Running /\ Running'
      /\ Holder = NoThread /\ Holder' = cur
  BY LockTaken
<1>3. PICK t \in Thread : t = cur
  BY <1>2
<1>4. Stores(t) = <<>>
  <2> DEFINE q == Effects(t)
  <2>1. Len(q) = 0 /\ Stores(t) = StoresUpTo(q)[Len(q)]
    <3>1. Len(sb[t]) = 0
      BY <1>2, <1>3
    <3> QED  BY <3>1, EffectsType DEF StoresOf, Control
  <2> HIDE DEF q
  <2>2. StoresUpTo(q)[0] = <<>>
    BY <2>1, StoresEquations
  <2> QED  BY <2>1, <2>2
<1>5. Queues[t] = <<>>
  BY <1>4 DEF Queues
<1>6. TSO!Lock(t)
  BY <1>1, <1>2, <1>3, <1>5, MachineLock
<1> QED  BY <1>6

\* Where the memory and the buffers stay, the machine does nothing or its power
\* fails.
LEMMA StaysOrFails ==
  ASSUME Memories' = Memories, Queues' = Queues, Holder' = Holder, Running' => Running
  PROVE  TSO!PowerFailure \/ UNCHANGED TSO!tsoVars
<1>1. Running \in BOOLEAN /\ Running' \in BOOLEAN
  BY DEF Running
<1>2. CASE Running' = Running
  BY <1>2 DEF TSO!tsoVars, Memories, Queues, Holder, Running
<1>3. CASE Running /\ ~Running'
  BY <1>1, <1>3, MachineFails
<1> QED  BY <1>1, <1>2, <1>3

LEMMA MachineStep ==
  ASSUME Control, Filed, JobControl, Undisturbed, [Next]_vars
  PROVE  [TSO!TSONext]_TSO!tsoVars
<1>1. CASE EvictStore
  BY <1>1, EvictIsCommit DEF TSO!TSONext
<1>2. ASSUME NEW v, RMWWrite(v) PROVE TSO!TSONext
  BY <1>2, RMWIsLockedWrite DEF TSO!TSONext
<1>3. ASSUME NEW t \in Thread, NEW l \in Loc, NEW k \in {"write", "scwrite"},
             NEW v \in [BytesAt(l) -> Byte], Write(t, k, l, v)
      PROVE  TSO!TSONext
  BY <1>3, WriteIsStore DEF TSO!TSONext
<1>4. ASSUME NEW t \in Thread,
             SFence(t) \/ \E l \in Loc, k \in {"clflush", "clflushopt"} : CacheOp(t, k, l)
      PROVE  [TSO!TSONext]_TSO!tsoVars
  <2>1. PICK a : Buffers(t, a) /\ ~IsWrite(a)
    BY <1>4, CacheOpShape DEF Control
  <2>2. Memories' = Memories /\ Queues' = Queues
    BY <2>1, BuffersJoin DEF Control
  <2>3. Holder' = Holder /\ (Running' => Running)
    BY <1>4, LockStays
  <2> QED  BY <2>2, <2>3, StaysOrFails DEF TSO!TSONext
<1>5. ASSUME NEW t \in Thread, FreeActions(t) PROVE TSO!TSONext
  BY <1>5, FreeIsLoss DEF TSO!TSONext
<1>6. CASE CASFail
  BY <1>6, CASFailIsUnlock DEF TSO!TSONext
<1>7. CASE FlushBufferEmptied /\ job = "rmwr"
  BY <1>7, RMWReadIsLock DEF TSO!TSONext
<1>8. ASSUME \/ EvictClflush \/ EvictFlushOpt \/ FlushForSFence \/ EvictSFence \/ CrashInStoreBuffer
             \/ StoreBufferEmptied \/ PopsDone \/ FlushNext \/ CrashInFlushBuffer \/ FlushedAfterCrash
             \/ (FlushBufferEmptied /\ job # "rmwr") \/ DoCrash
             \/ (\E w \in Word : EnsureInitialValue(w))
             \/ (\E t \in Thread, l \in Loc : Read(t, l) \/ RMWRead(t, l))
             \/ (\E t \in Thread : MFence(t))
             \/ (\E t \in Thread, n \in 1 .. (EvictMax - 1) : EvictRandom(t, n))
             \/ Finish \/ UNCHANGED vars
      PROVE  [TSO!TSONext]_TSO!tsoVars
  <2>1. Memories' = Memories /\ Queues' = Queues
    <3>1. Idle
      BY <1>8, IdleShape DEF Control
    <3> QED  BY <3>1, IdleSame DEF Control
  <2>2. Holder' = Holder /\ (Running' => Running)
    BY <1>8, LockStays
  <2> QED  BY <2>1, <2>2, StaysOrFails DEF TSO!TSONext
<1> QED  BY <1>1, <1>2, <1>3, <1>4, <1>5, <1>6, <1>7, <1>8 DEF Next, Issue, Drain, Terminated

LEMMA FiledHolds == Spec => [](Control /\ Filed /\ JobControl)
<1> DEFINE Inv == Control /\ Filed /\ JobControl
<1>1. Init => Inv
  BY ControlInit, FiledInit
<1>2. Inv /\ [Next]_vars => Inv'
  <2>1. Inv /\ [Next]_vars => Control' /\ TypeOK'
    BY ControlNext DEF Control
  <2> QED  BY <2>1, FiledNext
<1> HIDE DEF Inv
<1>3. Spec => []Inv
  BY <1>1, <1>2, PTL DEF Spec
<1> QED  BY <1>3 DEF Inv

\* ThreadMemory implements x86-TSO as long as no store leaves a buffer at random
\* between the halves of an RMW (ModelExecution::action_select_next_thread,
\* getNextThread).
THEOREM ImplementsTSOTheorem == Spec /\ []Undisturbed => ImplementsTSO
<1> DEFINE Inv == Control /\ Filed /\ JobControl
<1>1. Init => TSO!TSOInit
  BY MachineStarts
<1>2. Inv /\ Undisturbed /\ [Next]_vars => [TSO!TSONext]_TSO!tsoVars
  BY MachineStep
<1>3. Spec => []Inv
  BY FiledHolds
<1> HIDE DEF Inv
<1> QED  BY <1>1, <1>2, <1>3, PTL DEF Spec, ImplementsTSO, TSO!TSOSpec

\* Operations buffered so far are operations issued so far.
UsageBounded == usage =< Len(act) /\ usage =< MaxActs

LEMMA UsageNext ==
  ASSUME TypeOK, TypeOK', UsageBounded, [Next]_vars
  PROVE  UsageBounded'
<1>1. /\ usage \in Int /\ usage' \in Int /\ count \in Nat /\ MaxActs \in Nat
      /\ Len(act) \in Nat /\ usage =< Len(act) /\ usage =< MaxActs
      /\ \A t \in Thread : Len(sb[t]) \in Nat
  BY ThreadMemoryAssumption, SMTT(20) DEF TypeOK, CountersOK, ActsOK, BuffersOK, UsageBounded
<1>2. ASSUME usage' =< usage, Len(act') = Len(act) \/ Len(act') = Len(act) + 1 PROVE UsageBounded'
  BY <1>1, <1>2 DEF UsageBounded
<1>3. ASSUME NEW a, act' = Append(act, a) PROVE Len(act') = Len(act) + 1
  BY <1>3 DEF TypeOK, ActsOK
<1>4. ASSUME NEW i, Commit(i) PROVE Len(act') = Len(act)
  <2>1. act \in Seq(ModelAction)
    BY DEF TypeOK, ActsOK
  <2> QED  BY <1>4, <2>1 DEF Commit
<1>5. ASSUME usage' = usage + 1, Len(act) < MaxActs, Len(act') = Len(act) + 1 PROVE UsageBounded'
  BY <1>1, <1>5 DEF UsageBounded
<1>6. CASE Issue
  <2>1. CASE \/ \E t \in Thread, l \in Loc :
                  \/ \E k \in {"write", "scwrite"}, v \in [BytesAt(l) -> Byte] : Write(t, k, l, v)
                  \/ \E k \in {"clflush", "clflushopt"} : CacheOp(t, k, l)
             \/ \E t \in Thread : SFence(t)
    <3>1. usage' = usage + 1 /\ Len(act) < MaxActs /\ \E a : act' = Append(act, a)
      BY <2>1, ZenonT(60) DEF Write, CacheOp, SFence, Enqueue, CanIssue
    <3> QED  BY <1>3, <1>5, <3>1
  <2>2. CASE \/ \E t \in Thread, l \in Loc : Read(t, l)
             \/ \E t \in Thread : MFence(t)
             \/ \E v \in Value : RMWWrite(v)
             \/ CASFail
    <3>1. usage' = usage /\ \E a : act' = Append(act, a)
      BY <2>2 DEF Read, MFence, RMWWrite, CASFail
    <3> QED  BY <1>1, <1>2, <1>3, <3>1
  <2>3. CASE \/ \E w \in Word : EnsureInitialValue(w)
             \/ \E t \in Thread, l \in Loc : RMWRead(t, l)
             \/ \E t \in Thread, n \in 1 .. (EvictMax - 1) : EvictRandom(t, n)
             \/ Finish
    <3>1. usage' = usage /\ act' = act
      BY <2>3 DEF EnsureInitialValue, RMWRead, EvictRandom, Finish
    <3> QED  BY <1>1, <1>2, <3>1
  <2> QED  BY <1>6, <2>1, <2>2, <2>3 DEF Issue
<1>7. CASE Drain
  <2>1. CASE EvictStore \/ EvictClflush \/ EvictSFence
    <3>1. usage' \in {usage, usage - 1} /\ Commit(head)
      BY <2>1 DEF EvictStore, EvictClflush, EvictSFence, evictCacheOp, Pop
    <3> QED  BY <1>1, <1>2, <1>4, <3>1
  <2>2. CASE EvictFlushOpt
    <3>1. usage' \in {usage, usage - 1} /\ \E c : act' \in {act, [act EXCEPT ![head].last_clflush = c]}
      BY <2>2 DEF EvictFlushOpt, Pop
    <3>2. Len(act') = Len(act)
      <4>1. act \in Seq(ModelAction)
        BY DEF TypeOK, ActsOK
      <4> QED  BY <3>1, <4>1
    <3> QED  BY <1>1, <1>2, <3>1, <3>2
  <2>3. CASE FlushForSFence \/ FlushNext
    <3>1. usage' = usage /\ Commit(Head(fb[cur]))
      BY <2>3 DEF FlushForSFence, FlushNext, Flush, evictCacheOp
    <3> QED  BY <1>1, <1>2, <1>4, <3>1
  <2>4. CASE FlushBufferEmptied
    <3>1. usage' = usage /\ (Commit(Len(act)) \/ act' = act)
      BY <2>4 DEF FlushBufferEmptied
    <3> QED  BY <1>1, <1>2, <1>4, <3>1
  <2>5. CASE \/ CrashInStoreBuffer \/ StoreBufferEmptied \/ PopsDone \/ CrashInFlushBuffer
             \/ FlushedAfterCrash \/ (\E t \in Thread : FreeActions(t)) \/ DoCrash
    <3>1. /\ act' = act
          /\ \/ usage' \in {usage, usage - 1, usage - count, usage - (count + 1)}
             \/ \E t \in Thread : usage' = usage - Len(sb[t])
      BY <2>5 DEF CrashInStoreBuffer, StoreBufferEmptied, PopsDone, CrashInFlushBuffer,
         FlushedAfterCrash, FreeActions, DoCrash
    <3> QED  BY <1>1, <1>2, <3>1
  <2> QED  BY <1>7, <2>1, <2>2, <2>3, <2>4, <2>5 DEF Drain
<1>8. CASE Terminated \/ UNCHANGED vars
  BY <1>1, <1>2, <1>8 DEF Terminated, vars
<1> QED  BY <1>6, <1>7, <1>8 DEF Next

\* That is so for a program without locked instructions, when a random eviction
\* takes nothing (evictmax 1), and for executions too short for the threshold from
\* which buffers are evicted at random.
THEOREM ImplementsTSOCorollary ==
  \/ "rmw" \notin Instr
  \/ EvictMax =< 1
  \/ MaxActs =< StoreBufferThreshold * (Cardinality(Thread) + 1)
  => (Spec => ImplementsTSO)
<1> DEFINE NoEviction == EvictMax =< 1 \/ MaxActs =< StoreBufferThreshold * (Cardinality(Thread) + 1)
           Inv == TypeOK /\ UsageBounded /\ ("rmw" \notin Instr => rmw = Null)
                         /\ (NoEviction => job # "pop")
<1>1. Init => Inv
  BY TypeInit, ThreadMemoryAssumption DEF Init, UsageBounded
<1>2. Inv /\ [Next]_vars => Inv'
  <2> SUFFICES ASSUME Inv, [Next]_vars PROVE Inv'
    OBVIOUS
  <2>1. TypeOK' /\ UsageBounded'
    <3>1. TypeOK'
      BY TypeNext
    <3> QED  BY <3>1, UsageNext
  <2>2. ASSUME "rmw" \notin Instr PROVE rmw' = Null
    <3>1. rmw = Null
      BY <2>2
    <3>2. \A t, l, v : ~RMWRead(t, l) /\ ~RMWWrite(v)
      BY <2>2 DEF RMWRead, RMWWrite, CanIssue
    <3>3. CASE FlushBufferEmptied
      BY <3>1, <3>3 DEF FlushBufferEmptied, TypeOK, ControlOK
    <3>4. CASE Issue
      BY <3>1, <3>2, <3>4, ZenonT(60) DEF Issue, EnsureInitialValue, Write, CacheOp, Read, SFence, MFence, CASFail,
         EvictRandom, Finish
    <3>5. CASE Drain /\ ~FlushBufferEmptied
      BY <3>1, <3>5 DEF Drain, EvictStore, EvictClflush, EvictFlushOpt, FlushForSFence, EvictSFence,
         CrashInStoreBuffer, StoreBufferEmptied, PopsDone, FlushNext, CrashInFlushBuffer,
         FlushedAfterCrash, FreeActions, DoCrash, Flush
    <3> QED  BY <3>1, <3>3, <3>4, <3>5 DEF Next, Terminated, vars
  <2>3. ASSUME NoEviction PROVE job' # "pop"
    <3>1. job # "pop" /\ \A t \in Thread, n \in 1 .. (EvictMax - 1) : ~EvictRandom(t, n)
      <4>1. CASE EvictMax =< 1
        <5>1. 1 .. (EvictMax - 1) = {}
          BY <4>1, ThreadMemoryAssumption
        <5> QED  BY <2>3, <5>1
      <4>2. CASE MaxActs =< StoreBufferThreshold * (Cardinality(Thread) + 1)
        <5>1. /\ usage =< MaxActs /\ usage \in Int /\ MaxActs \in Nat
              /\ StoreBufferThreshold \in Nat /\ Cardinality(Thread) \in Nat
          BY ThreadMemoryAssumption, FS_CardinalityType DEF TypeOK, CountersOK, UsageBounded
        <5>2. PICK m \in Nat : m = StoreBufferThreshold * (Cardinality(Thread) + 1)
          BY <5>1
        <5>3. ~(usage > m)
          BY <4>2, <5>1, <5>2
        <5> QED  BY <2>3, <5>2, <5>3 DEF EvictRandom
      <4> QED  BY <2>3, <4>1, <4>2
    <3>2. CASE Issue
      BY <3>1, <3>2, ZenonT(60) DEF Issue, EnsureInitialValue, Write, CacheOp, Read, RMWRead, RMWWrite, SFence,
         MFence, CASFail, Finish, StartDrain, ctl
    <3>3. CASE Drain
      BY <3>1, <3>3 DEF Drain, EvictStore, EvictClflush, EvictFlushOpt, FlushForSFence, EvictSFence,
         CrashInStoreBuffer, StoreBufferEmptied, PopsDone, FlushNext, CrashInFlushBuffer,
         FlushedAfterCrash, FlushBufferEmptied, FreeActions, DoCrash, Flush, Pop, ctl
    <3> QED  BY <3>1, <3>2, <3>3 DEF Next, Terminated, vars
  <2> QED  BY <2>1, <2>2, <2>3
<1> DEFINE Quiet == "rmw" \notin Instr \/ NoEviction
<1>3. Quiet /\ Inv => Undisturbed
  BY DEF Undisturbed
<1>4. Quiet <=> \/ "rmw" \notin Instr
                \/ EvictMax =< 1
                \/ MaxActs =< StoreBufferThreshold * (Cardinality(Thread) + 1)
  OBVIOUS
<1>5. Quiet => Quiet'
  OBVIOUS
<1> HIDE DEF Inv, Quiet
<1>6. Quiet /\ Spec => []Undisturbed
  BY <1>1, <1>2, <1>3, <1>5, PTL DEF Spec
<1> QED  BY <1>4, <1>6, ImplementsTSOTheorem, PTL
===============================================================================
