----------------------------- MODULE PersistedCuts -----------------------------
(***************************************************************************)
(* What crashes leave in persistent memory, without any algorithm: of each *)
(* crashed execution a cache line keeps the writes up to some clock, its   *)
(* cut, and nobody knows which.  cuts[l] is the set of the vectors of cuts *)
(* of line l that agree with every flush and every read so far.            *)
(***************************************************************************)
EXTENDS Address, FiniteSetsExt, Sequences

CONSTANTS
  MaxExec,  \* bound: executions, the last of which does not crash
  MaxSeq,   \* bound: sequence numbers of one execution
  BootSeq   \* sequence numbers used up before the program's first operation

VARIABLES
  n,     \* the running execution; 1 .. n - 1 have crashed
  wr,    \* per execution and word, the writes in memory order
  used,  \* per execution, its clock
  cuts   \* per line, the vectors of cuts still possible

Exec  == 1 .. MaxExec
Crashing == 1 .. MaxExec - 1

vars == <<n, wr, used, cuts>>

Init ==
  /\ n = 1
  /\ wr = [e \in Exec |-> [w \in Word |-> <<>>]]
  /\ used = [e \in Exec |-> BootSeq]
  /\ cuts = [l \in Line |-> [Crashing -> 0 .. MaxSeq]]

\* The writes to byte b of execution e that a line with cuts p still holds.
Kept(p, e, b, l) ==
  {k \in DOMAIN wr[e][alignAddress(l)] :
     LET x == wr[e][alignAddress(l)][k]
     IN  b \in BytesAt(x.loc) /\ (e < n => x.seq =< p[e])}

\* The write that each byte of l shows: the newest kept one.
Shown(p, l) ==
  [b \in BytesAt(l) |->
     LET e == Max({x \in 1 .. n : Kept(p, x, b, l) # {}})
     IN  [exec |-> e, idx |-> Max(Kept(p, e, b, l))]]

Tick == used[n] < MaxSeq /\ used' = [used EXCEPT ![n] = @ + 1]

EnsureInitialValue(w) ==
  /\ wr[1][w] = <<>>
  /\ wr' = [wr EXCEPT ![1][w] = <<[loc |-> [addr |-> w, size |-> WordSize], seq |-> 0]>>]
  /\ UNCHANGED <<n, used, cuts>>

Initialized(l) == wr[1][alignAddress(l)] # <<>>

Store(l) ==
  /\ Initialized(l)
  /\ Tick
  /\ wr' = [wr EXCEPT ![n][alignAddress(l)] = Append(@, [loc |-> l, seq |-> used[n] + 1])]
  /\ UNCHANGED <<n, cuts>>

\* A flush: whatever happens, line l keeps the writes up to clock c.
Persist(l, c) ==
  /\ Tick
  /\ cuts' = [cuts EXCEPT ![l] = {p \in @ : n \in Crashing => p[n] >= c}]
  /\ UNCHANGED <<n, wr>>

\* A load shows what one of the possible vectors keeps; those that would have
\* shown something else become impossible.
Read(l) ==
  /\ Initialized(l)
  /\ Tick
  /\ \E shown \in {Shown(p, l) : p \in cuts[getCacheID(l)]} :
       cuts' = [cuts EXCEPT ![getCacheID(l)] = {q \in @ : Shown(q, l) = shown}]
  /\ UNCHANGED <<n, wr>>

Crash == n < MaxExec /\ n' = n + 1 /\ UNCHANGED <<wr, used, cuts>>

Next ==
  \/ \E w \in Word : EnsureInitialValue(w)
  \/ \E l \in Loc : Store(l) \/ Read(l)
  \/ \E l \in Line, c \in 0 .. MaxSeq : Persist(l, c)
  \/ Crash

Spec == Init /\ [][Next]_vars
===============================================================================
