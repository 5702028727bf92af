------------------------------ MODULE CrashReads ------------------------------
(***************************************************************************)
(* Loads that may read what crashed executions left behind.  Every crashed *)
(* execution keeps its write lists and, per cache line, the window         *)
(* [begin, end] of clocks at which the line may last have been written     *)
(* back (end 0: no upper bound).  build_may_read_from collects the choices *)
(* of a load, a write for each of its bytes; process_read narrows the      *)
(* windows to those that explain the choice taken.                         *)
(*                                                                         *)
(* All addresses are persistent.  The running execution is what            *)
(* ThreadMemory makes of it: stores that reach memory and flushes that     *)
(* take effect, the latter with any clock they may carry.  A byte that a   *)
(* store buffer forwards takes no part in any of this, as one written by   *)
(* the running execution.                                                  *)
(***************************************************************************)
EXTENDS Address, SequencesExt

CONSTANTS
  MaxExec,  \* bound: executions, the last of which does not crash
  MaxSeq,   \* bound: sequence numbers of one execution
  MaxOps,   \* bound: operations of all executions
  BootSeq   \* sequence numbers used up before the program's first operation

ASSUME CrashReadsAssumption ==
  {MaxExec, MaxSeq, MaxOps, BootSeq} \subseteq Nat \ {0}

VARIABLES
  n,      \* the running execution; 1 .. n - 1 are the chain of prevContext
  wr,     \* obj_wr_map of every execution
  begin,  \* CacheLine.beginR of every execution
  end,    \* CacheLine.endR
  used    \* used_sequence_numbers

vars == <<n, wr, begin, end, used>>

Exec  == 1 .. MaxExec
None  == [exec |-> 0, idx |-> 0]

Init ==
  /\ n = 1
  /\ wr = [e \in Exec |-> [w \in Word |-> <<>>]]
  /\ begin = [e \in Exec |-> [l \in Line |-> 0]]
  /\ end = [e \in Exec |-> [l \in Line |-> 0]]
  /\ used = [e \in Exec |-> BootSeq]

Writes(e, l) == wr[e][alignAddress(l)]

\* The writes of execution e to byte b of l.
Covering(e, l, b) == {k \in DOMAIN Writes(e, l) : b \in BytesAt(Writes(e, l)[k].loc)}

Full(v) == \A b \in DOMAIN v : v[b] # None

-------------------------------------------------------------------------------
(* build_may_read_from                                                     *)

\* Write k of execution e fills the slots of v that it covers and no newer one
\* has filled.
Fill(v, e, k, l) ==
  [b \in DOMAIN v |->
     IF v[b] = None /\ k \in Covering(e, l, b) THEN [exec |-> e, idx |-> k] ELSE v[b]]

\* Not issued after the line was last written back.
InWindow(e, l, k) ==
  LET last == end[e][getCacheID(l)] IN last = 0 \/ Writes(e, l)[k].seq =< last

\* Mutant of IsOlder, off by one.
IsOlderStrict(e, l, k) ==
  Writes(e, l)[k].seq < begin[e][getCacheID(l)] \/ Writes(e, l)[k].seq = 0

\* Certainly written back, as is whatever precedes it.
IsOlder(e, l, k) ==
  Writes(e, l)[k].seq =< begin[e][getCacheID(l)] \/ Writes(e, l)[k].seq = 0

\* Mutant of visit: goes no further once something certainly was written back.
visitAndStop(e, l, seeds, k, s) ==
  IF s.isDone \/ ~InWindow(e, l, k) \/ ~Overlap(Writes(e, l)[k].loc, l)
  THEN s
  ELSE LET vecs == {Fill(v, e, k, l) : v \in s.vecs \cup (IF s.pastWindow THEN {} ELSE seeds)}
           past == s.pastWindow \/ IsOlder(e, l, k)
       IN  [vecs |-> vecs, pastWindow |-> past, isDone |-> past]

\* Write k may be the last one written back, unless a newer one certainly was;
\* either way it fills slots that the writes after it left open.
visit(e, l, seeds, k, s) ==
  IF s.isDone \/ ~InWindow(e, l, k) \/ ~Overlap(Writes(e, l)[k].loc, l)
  THEN s
  ELSE LET vecs == {Fill(v, e, k, l) : v \in s.vecs \cup (IF s.pastWindow THEN {} ELSE seeds)}
           past == s.pastWindow \/ IsOlder(e, l, k)
       IN  [vecs |-> vecs, pastWindow |-> past, isDone |-> past /\ \A v \in vecs : Full(v)]

\* From the newest write of execution e to l's word back.
visitAll(e, l, seeds) ==
  LET m == Len(Writes(e, l))
      walk[i \in 0 .. m] ==
        IF i = 0 THEN [vecs |-> {}, pastWindow |-> FALSE, isDone |-> FALSE]
        ELSE visit(e, l, seeds, m + 1 - i, walk[i - 1])
  IN  walk[m]

\* Mutant of lookforWritesInPriorExecution: that nothing of e was written back
\* is not considered.
lookforWritesWithoutSeeds(e, l, seeds) ==
  LET res == visitAll(e, l, seeds)
  IN  [vecs |-> IF res.vecs = {} THEN seeds ELSE res.vecs, isDone |-> res.isDone]

\* Unless something certainly was written back, nothing may have been.
lookforWritesInPriorExecution(e, l, seeds) ==
  LET res == visitAll(e, l, seeds)
  IN  [vecs |-> res.vecs \cup (IF res.pastWindow THEN {} ELSE seeds), isDone |-> res.isDone]

\* The slots that the running execution's own writes fill: processWrites.
processWrites(l) ==
  [b \in BytesAt(l) |->
     IF Covering(n, l, b) = {} THEN None
     ELSE [exec |-> n, idx |-> Max(Covering(n, l, b))]]

\* rf_set: the running execution first, then the crashed ones from the newest.
build_may_read_from(l) ==
  LET own  == processWrites(l)
      look[k \in 0 .. n - 1] ==
        IF k = 0 THEN [vecs |-> {own}, isDone |-> Full(own)]
        ELSE IF look[k - 1].isDone THEN look[k - 1]
        ELSE lookforWritesInPriorExecution(n - k, l, look[k - 1].vecs)
  IN  look[n - 1].vecs

-------------------------------------------------------------------------------
(* process_read                                                            *)

\* Mutant of Limits: only of the execution read from.
LimitsOfSame(e, l, rf) ==
  LET newer(b) == {k \in Covering(e, l, b) : rf[b].exec = e /\ k > rf[b].idx}
  IN  {Writes(e, l)[Min(newer(b))].seq - 1 : b \in {x \in BytesAt(l) : newer(x) # {}}}

\* Reading byte b from rf[b] shows that line l was not written back after the
\* first write to b that is newer.
Limits(e, l, rf) ==
  LET newer(b) == {k \in Covering(e, l, b) : rf[b].exec < e \/ (rf[b].exec = e /\ k > rf[b].idx)}
  IN  {Writes(e, l)[Min(newer(b))].seq - 1 : b \in {x \in BytesAt(l) : newer(x) # {}}}

ReadClocks(e, l, rf) ==
  {Writes(e, l)[rf[b].idx].seq : b \in {x \in BytesAt(l) : rf[x].exec = e}}

\* Mutant of process_read: does not raise the lower bounds.
process_readWithoutBegin(l, rf) ==
  LET c == getCacheID(l) IN
  /\ end' = [e \in Exec |->
               IF e >= n \/ (end[e][c] = 0 /\ Limits(e, l, rf) = {}) THEN end[e]
               ELSE [end[e] EXCEPT ![c] = Min(Limits(e, l, rf) \cup ({@} \ {0}))]]
  /\ UNCHANGED begin

process_read(l, rf) ==
  LET c == getCacheID(l) IN
  /\ begin' = [e \in Exec |->
                 IF e >= n THEN begin[e]
                 ELSE [begin[e] EXCEPT ![c] = Max({@} \cup ReadClocks(e, l, rf))]]
  /\ end' = [e \in Exec |->
               IF e >= n \/ (end[e][c] = 0 /\ Limits(e, l, rf) = {}) THEN end[e]
               ELSE [end[e] EXCEPT ![c] = Min(Limits(e, l, rf) \cup ({@} \ {0}))]]

-------------------------------------------------------------------------------
(* The operations of the running execution.                                *)

Tick ==
  /\ used[n] < MaxSeq /\ SumFunction(used) < MaxExec * BootSeq + MaxOps
  /\ used' = [used EXCEPT ![n] = @ + 1]

Initialized(l) == Writes(1, l) # <<>>

\* The word's ATOMIC_INIT write belongs to the first execution.
EnsureInitialValue(w) ==
  /\ wr[1][w] = <<>>
  /\ wr' = [wr EXCEPT ![1][w] = <<[loc |-> [addr |-> w, size |-> WordSize], seq |-> 0]>>]
  /\ UNCHANGED <<n, begin, end, used>>

\* A store reaches memory.
Store(l) ==
  /\ Initialized(l)
  /\ Tick
  /\ wr' = [wr EXCEPT ![n][alignAddress(l)] = Append(@, [loc |-> l, seq |-> used[n] + 1])]
  /\ UNCHANGED <<n, begin, end>>

\* A clflush takes effect.
Clflush(l) ==
  /\ Tick
  /\ begin' = [begin EXCEPT ![n][l] = used[n] + 1]
  /\ UNCHANGED <<n, wr, end>>

\* A clflushopt that covers the writes up to clock c takes effect.
Clflushopt(l, c) ==
  /\ Tick /\ c =< used[n]
  /\ begin' = [begin EXCEPT ![n][l] = Max({@, c})]
  /\ UNCHANGED <<n, wr, end>>

Read(l, rf) ==
  /\ Initialized(l)
  /\ Tick
  /\ process_read(l, rf)
  /\ UNCHANGED <<n, wr>>

\* The running execution becomes a prior one; what it wrote is in doubt again.
Crash ==
  /\ n < MaxExec
  /\ n' = n + 1
  /\ UNCHANGED <<wr, begin, end, used>>

Next ==
  \/ \E w \in Word : EnsureInitialValue(w)
  \/ \E l \in Loc : Store(l) \/ \E rf \in build_may_read_from(l) : Read(l, rf)
  \/ \E l \in Line : Clflush(l) \/ \E c \in 0 .. MaxSeq : Clflushopt(l, c)
  \/ Crash

Spec == Init /\ [][Next]_vars

-------------------------------------------------------------------------------
(* Properties.                                                             *)

WriteRecord == [loc : Loc \cup {[addr |-> w, size |-> WordSize] : w \in Word}, seq : 0 .. MaxSeq]

\* The shape of the state; no window of a line (CacheLine::getBeginRange and
\* getEndRange) is empty.
TypeOK ==
  /\ n \in Exec
  /\ wr \in [Exec -> [Word -> Seq(WriteRecord)]]
  /\ begin \in [Exec -> [Line -> 0 .. MaxSeq]] /\ end \in [Exec -> [Line -> 0 .. MaxSeq]]
  /\ used \in [Exec -> Nat]
  /\ \A e \in Exec : \A l \in Line :
       begin[e][l] =< used[e] /\ (end[e][l] = 0 \/ begin[e][l] =< end[e][l])

\* The windows as the set of the cuts they allow, for each line.
cuts ==
  [l \in Line |->
     {p \in [1 .. MaxExec - 1 -> 0 .. MaxSeq] :
        \A e \in 1 .. MaxExec - 1 : begin[e][l] =< p[e] /\ (end[e][l] = 0 \/ p[e] =< end[e][l])}]

Cuts == INSTANCE PersistedCuts

\* A load returns what some state that the crashes can have left shows, and the
\* windows then allow exactly the states that show it.
ImplementsCuts == Cuts!Spec

\* The converse, without which crash states would be missed: every state that
\* the windows allow is among a load's choices.
AllCutsOffered ==
  \A l \in Loc : Initialized(l) =>
    {Cuts!Shown(p, l) : p \in cuts[getCacheID(l)]} \subseteq build_may_read_from(l)

===============================================================================
