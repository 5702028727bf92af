------------------------------- MODULE DataRace -------------------------------
(***************************************************************************)
(* The data race detector (datarace.cc) on top of the clock vectors of one *)
(* execution (clockvector.cc).  Every instrumented access first goes       *)
(* through switch_thread, which runs it as an action (check_current_action)*)
(* and then compares, byte by byte, the clock vector of the thread's last  *)
(* action with the shadow word of the byte.                                *)
(*                                                                         *)
(* A shadow word is 0 (kind "none"), an encoded pair of a read and a write *)
(* ("short") or a pointer to a RaceRecord ("full").  What a short word     *)
(* says of a read with clock 0 is reads = <<>>.                            *)
(*                                                                         *)
(* The ghosts log, know and knowC keep the accesses made so far and which  *)
(* of them a thread, a buffered store or a byte of memory comes after: in  *)
(* know by program order, reads-from, mutexes and thread creation; knowC   *)
(* adds what a clock cannot tell apart (see Commit).  No store is silent   *)
(* (add_write_to_lists): values are left out.                              *)
(***************************************************************************)
EXTENDS Integers, Sequences, FiniteSetsExt

CONSTANTS
  N,             \* threads of the program; thread 1 created the others
  Address,       \* bytes
  PageSize,      \* SHADOWTABLESIZE
  Program,       \* what the threads may do: sequences of operations [op, b, n]
  Recovery,      \* what they may do after a crash
  ThreadMask,    \* THREADMASK
  VectorMask,    \* READMASK and WRITEMASK
  InitCapacity,  \* INITCAPACITY
  StoreBufferThreshold,  \* params.storebufferthreshold
  MaxCrash       \* bound: crashes

Thread == 1 .. N
MaxThreadId == ThreadMask - 1
MaxVector   == VectorMask - 1

ASSUME DataRaceAssumption ==
  /\ {N, PageSize, ThreadMask, VectorMask} \subseteq Nat \ {0}
  /\ InitCapacity \in Nat \ {0, 1}
  /\ {MaxCrash, StoreBufferThreshold} \subseteq Nat
  /\ Address \subseteq Nat /\ IsFiniteSet(Address)
  /\ \A p \in Program \cup Recovery : \A t \in Thread :
       /\ DOMAIN p = Thread
       /\ \A i \in 1 .. Len(p[t]) : p[t][i].b .. (p[t][i].b + p[t][i].n - 1) \subseteq Address

VARIABLES
  prog,     \* the program
  pc,       \* the next operation of every thread
  used,     \* used_sequence_numbers
  last,     \* the clock vector of thrd_last_action
  sb,       \* the stores in ThreadMemory.storeBuffer
  mem,      \* the newest write of every byte in obj_wr_map: what its readers come after
  owner,    \* the thread that holds the mutex, 0 if none
  unlock,   \* the last unlock of the mutex
  shadow,   \* the shadow table
  log,      \* ghost: the accesses of the execution
  know,     \* ghost: the accesses that a thread's next action comes after
  knowC,    \* ghost: as know, where a clock says so
  regress,  \* ghost: a thread's clock vector has lost an entry
  latest,   \* the latest access and the races reported at it
  crashes   \* counts to MaxCrash

vars == <<prog, pc, used, last, sb, mem, owner, unlock, shadow, log, know, knowC, regress,
          latest, crashes>>

\* Sizes of nonatomic accesses, in bytes.
Size == {1, 2, 4, 8}

EmptyShadow == [kind |-> "none", reads |-> <<>>, cap |-> 0, wt |-> 0, wc |-> 0,
                isAtomic |-> FALSE]
NoSync   == [cv |-> [u \in Thread |-> 0], k |-> {}, kC |-> {}]
NoAccess == [t |-> 0, bytes |-> {}, kind |-> "none", before |-> {}, beforeC |-> {},
             races |-> {}]

IsWrite(a)  == a.kind \in {"store", "atomicstore", "rmw"}
IsAtomic(a) == a.kind \in {"atomicload", "atomicstore", "rmw"}

\* Thread 1 starts with clock 1 and creates the others, whose first action
\* inherits the vector of its PTHREAD_CREATE.
StartClock(t) ==
  [u \in Thread |-> IF u = t THEN (IF t = 1 THEN N ELSE N + t - 1)
                    ELSE IF u = 1 /\ t > 1 THEN t ELSE 0]

Init ==
  /\ prog \in Program
  /\ pc = [t \in Thread |-> 1]
  /\ used = 2 * N - 1
  /\ last = [t \in Thread |-> StartClock(t)]
  /\ sb = [t \in Thread |-> <<>>]
  /\ mem = [b \in Address |-> NoSync]
  /\ owner = 0
  /\ unlock = NoSync
  /\ shadow = [b \in Address |-> EmptyShadow]
  /\ log = <<>>
  /\ know = [t \in Thread |-> {}]
  /\ knowC = [t \in Thread |-> {}]
  /\ regress = FALSE
  /\ latest = NoAccess
  /\ crashes = 0

-------------------------------------------------------------------------------
(* ClockVector                                                             *)

merge(c, d) == [u \in Thread |-> IF d[u] > c[u] THEN d[u] ELSE c[u]]

\* merge with each of the vectors cs.
mergeAll(c, cs) == [u \in Thread |-> Max({c[u]} \cup {d[u] : d \in cs})]

setClock(c, t, n) == [c EXCEPT ![t] = n]

\* Mutant of clock_may_race: < instead of =<.
clock_may_race_lt(c, t, n, u) == t # u /\ n # 0 /\ c[u] < n

clock_may_race(c, t, n, u) == t # u /\ n # 0 /\ c[u] =< n

-------------------------------------------------------------------------------
(* Shadow words                                                            *)

\* Does not fit a short record.
TooLarge(t, n) == t > MaxThreadId \/ n > MaxVector

Short(reads, t, n, isAtomic) ==
  [kind |-> "short", reads |-> reads, cap |-> 0, wt |-> t, wc |-> n, isAtomic |-> isAtomic]

\* Mutant of expandRecord: forgets the read.
expandRecordWithoutRead(s) == [s EXCEPT !.kind = "full", !.reads = <<>>]

expandRecord(s) ==
  [s EXCEPT !.kind = "full", !.cap = IF s.reads = <<>> THEN 0 ELSE InitCapacity]

RaceWith(t, n, isWrite) == {[t |-> t, clock |-> n, isWrite |-> isWrite]}

\* The first recorded read that may race.
ReadRace(s, c, t) ==
  LET racing == {i \in DOMAIN s.reads : clock_may_race(c, t, s.reads[i].clock, s.reads[i].t)}
  IN  IF racing = {} THEN {}
      ELSE LET r == s.reads[Min(racing)] IN RaceWith(r.t, r.clock, FALSE)

WriteRace(s, c, t) ==
  IF clock_may_race(c, t, s.wc, s.wt) THEN RaceWith(s.wt, s.wc, TRUE) ELSE {}

\* A read is looked for first; at most one race is reported.
AnyRace(s, c, t) == IF ReadRace(s, c, t) # {} THEN ReadRace(s, c, t) ELSE WriteRace(s, c, t)

\* The results of a check: the new shadow word and the race reported, if any.
Checked(s, races) == [s |-> s, races |-> races]

fullRecordWrite(s, c, t, isAtomic) ==
  [s EXCEPT !.reads = <<>>, !.wt = t, !.wc = c[t], !.isAtomic = isAtomic]

fullRaceCheckWrite(s, c, t) == Checked(fullRecordWrite(s, c, t, FALSE), AnyRace(s, c, t))

atomfullRaceCheckWrite(s, c, t) ==
  Checked(fullRecordWrite(s, c, t, TRUE), IF s.isAtomic THEN {} ELSE AnyRace(s, c, t))

raceCheckWrite(s, c, t) ==
  IF s.kind = "full" THEN fullRaceCheckWrite(s, c, t)
  ELSE IF TooLarge(t, c[t]) THEN fullRaceCheckWrite(expandRecord(s), c, t)
  ELSE Checked(Short(<<>>, t, c[t], FALSE), AnyRace(s, c, t))

\* Mutant of atomraceCheckWrite: leaves the word nonatomic.
atomraceCheckWritePlain(s, c, t) ==
  IF s.kind = "full" THEN atomfullRaceCheckWrite(s, c, t)
  ELSE IF TooLarge(t, c[t]) THEN atomfullRaceCheckWrite(expandRecord(s), c, t)
  ELSE Checked(Short(<<>>, t, c[t], FALSE), IF s.isAtomic THEN {} ELSE AnyRace(s, c, t))

atomraceCheckWrite(s, c, t) ==
  IF s.kind = "full" THEN atomfullRaceCheckWrite(s, c, t)
  ELSE IF TooLarge(t, c[t]) THEN atomfullRaceCheckWrite(expandRecord(s), c, t)
  ELSE Checked(Short(<<>>, t, c[t], TRUE), IF s.isAtomic THEN {} ELSE AnyRace(s, c, t))

recordWrite(s, c, t) ==
  IF s.kind = "full" THEN fullRecordWrite(s, c, t, TRUE)
  ELSE IF TooLarge(t, c[t]) THEN fullRecordWrite(expandRecord(s), c, t, TRUE)
  ELSE Short(<<>>, t, c[t], TRUE)

IsPowerOf2(n) == \E k \in 0 .. n : 2 ^ k = n

\* The capacity after kept reads were copied: __builtin_popcount(kept) =< 1.
NewCapacity(s, kept) ==
  IF kept = 0 THEN InitCapacity
  ELSE IF IsPowerOf2(kept) /\ kept >= InitCapacity THEN 2 * kept
  ELSE s.cap

\* Mutant of keptReads: those that the read comes after instead of the others.
subsumedReads(s, c, t) ==
  LET kept[i \in 0 .. Len(s.reads)] ==
        IF i = 0 THEN <<>>
        ELSE IF clock_may_race(c, t, s.reads[i].clock, s.reads[i].t) THEN kept[i - 1]
        ELSE Append(kept[i - 1], s.reads[i])
  IN  kept[Len(s.reads)]

\* The recorded reads that a read of t does not come after.
keptReads(s, c, t) ==
  LET kept[i \in 0 .. Len(s.reads)] ==
        IF i = 0 THEN <<>>
        ELSE IF clock_may_race(c, t, s.reads[i].clock, s.reads[i].t)
             THEN Append(kept[i - 1], s.reads[i])
        ELSE kept[i - 1]
  IN  kept[Len(s.reads)]

\* Drops the others.
fullRaceCheckRead(s, c, t) ==
  LET kept == keptReads(s, c, t)
  IN  Checked([s EXCEPT !.reads = Append(kept, [t |-> t, clock |-> c[t]]),
                        !.cap = NewCapacity(s, Len(kept))],
              WriteRace(s, c, t))

\* The read of a short word does not come before this one.
NotSubsumed(s, c, t) == ReadRace(s, c, t) # {}

\* The variant for one byte, which nothing but the sized ones' specification
\* uses: an expanded word is checked again.
raceCheckRead(s, c, t) ==
  IF s.kind = "full" THEN fullRaceCheckRead(s, c, t)
  ELSE IF TooLarge(t, c[t]) THEN fullRaceCheckRead(expandRecord(s), c, t)
  ELSE IF NotSubsumed(s, c, t)
       THEN Checked(fullRaceCheckRead(expandRecord(s), c, t).s, WriteRace(s, c, t))
  ELSE Checked(Short(<<[t |-> t, clock |-> c[t]]>>, s.wt, s.wc, s.isAtomic), WriteRace(s, c, t))

\* Mutant of raceCheckRead_otherIt: overwrites the read that is there.
raceCheckRead_otherIt_first(s, c, t) ==
  IF s.kind = "full" THEN fullRaceCheckRead(s, c, t)
  ELSE IF TooLarge(t, c[t]) THEN fullRaceCheckRead(expandRecord(s), c, t)
  ELSE IF NotSubsumed(s, c, t)
       THEN Checked([expandRecord(s) EXCEPT !.reads = <<[t |-> t, clock |-> c[t]]>>],
                    WriteRace(s, c, t))
  ELSE Checked(Short(<<[t |-> t, clock |-> c[t]]>>, s.wt, s.wc, s.isAtomic), WriteRace(s, c, t))

\* As raceCheckRead, but the read goes into slot 1 of an expanded word.
raceCheckRead_otherIt(s, c, t) ==
  IF s.kind = "full" THEN fullRaceCheckRead(s, c, t)
  ELSE IF TooLarge(t, c[t]) THEN fullRaceCheckRead(expandRecord(s), c, t)
  ELSE IF NotSubsumed(s, c, t)
       THEN Checked([expandRecord(s) EXCEPT !.reads = Append(@, [t |-> t, clock |-> c[t]])],
                    WriteRace(s, c, t))
  ELSE Checked(Short(<<[t |-> t, clock |-> c[t]]>>, s.wt, s.wc, s.isAtomic), WriteRace(s, c, t))

\* raceCheckRead_firstIt leaves old_val and new_val invalid unless a short word
\* was replaced by a short word.
Copies(s, c, t) == s.kind # "full" /\ ~TooLarge(t, c[t]) /\ ~NotSubsumed(s, c, t)

raceCheckRead_firstIt(s, c, t) == raceCheckRead_otherIt(s, c, t)

atomfullRaceCheckRead(s, c, t) == IF s.isAtomic THEN {} ELSE WriteRace(s, c, t)

\* Mutant of atomraceCheckRead: atomic writes are looked at too.
atomraceCheckReadAny(s, c, t) == WriteRace(s, c, t)

\* Records nothing.
atomraceCheckRead(s, c, t) ==
  IF s.kind = "full" THEN atomfullRaceCheckRead(s, c, t)
  ELSE IF s.isAtomic THEN {} ELSE WriteRace(s, c, t)

\* CHECKBOUNDARY: n bytes from b lie in one shadow table.
InOneTable(b, n) == (b % PageSize) + n - 1 < PageSize

Bytes(b, n) == b .. (b + n - 1)

\* The sized checks: once the first byte went from one short word to another,
\* those after it that held the same word are only overwritten, up to the first
\* that did not.
Sized(sh, b, n, copies, first, other) ==
  LET fast   == copies /\ InOneTable(b, n)
      Copy(a) == fast /\ \A d \in Bytes(b, n) : d =< a => sh[d] = sh[b]
      New(a)  == IF a = b THEN first ELSE IF Copy(a) THEN Checked(first.s, {}) ELSE other[a]
  IN  [shadow |-> [a \in DOMAIN sh |-> IF a \in Bytes(b, n) THEN New(a).s ELSE sh[a]],
       races  |-> UNION {{<<a, r>> : r \in New(a).races} : a \in Bytes(b, n)}]

raceCheckReadSized(sh, b, n, c, t) ==
  Sized(sh, b, n, Copies(sh[b], c, t), raceCheckRead_firstIt(sh[b], c, t),
        [a \in Bytes(b, n) |-> raceCheckRead_otherIt(sh[a], c, t)])

raceCheckWriteSized(sh, b, n, c, t) ==
  LET check == [a \in Bytes(b, n) |-> raceCheckWrite(sh[a], c, t)]
  IN  Sized(sh, b, n, sh[b].kind # "full" /\ ~TooLarge(t, c[t]), check[b], check)

\* The checks of atomic operations, which loop over the bytes.
Each(sh, check) ==
  [shadow |-> [a \in DOMAIN sh |-> IF a \in DOMAIN check THEN check[a].s ELSE sh[a]],
   races  |-> UNION {{<<a, r>> : r \in check[a].races} : a \in DOMAIN check}]

-------------------------------------------------------------------------------
(* The actions of the execution, as far as clocks go.                      *)

\* The accesses of t are numbered in the order in which they are made.
Accesses(t) == {i \in DOMAIN log : log[i].t = t}

\* Mutant of Commit: the store keeps the clock it was issued at.
CommitAtIssue(t, n) ==
  [i \in 1 .. n |-> [sb[t][i] EXCEPT !.cv = setClock(@, t, last[t][t])]]

\* remove_action_from_store_buffer: the first n stores of t get their sequence
\* numbers.  A thread that reads one will take all accesses t has made by now
\* for earlier, those it made after issuing the store included, and so misses the
\* reads of other threads that they have taken the place of.
Commit(t, n) ==
  LET passed == Accesses(t) \cup UNION {log[j].over : j \in Accesses(t)}
  IN  [i \in 1 .. n |-> [sb[t][i] EXCEPT !.cv = setClock(@, t, used + i),
                                         !.kC = @ \cup passed]]

Storing(w, b) == {i \in DOMAIN w : b \in w[i].bytes}

\* Memory once the stores w have reached it.
Stored(w) ==
  [b \in Address |-> IF Storing(w, b) = {} THEN mem[b]
                     ELSE LET i == Max(Storing(w, b))
                          IN  [cv |-> w[i].cv, k |-> w[i].k, kC |-> w[i].kC]]

\* Memory once t has emptied its store buffer.
Drained(t) == Stored(Commit(t, Len(sb[t])))

\* What t comes after by reading the bytes from memory m: nothing it did not
\* know, for a byte its own buffer holds.
From(m, t, bytes) ==
  LET outer == {b \in bytes : Storing(sb[t], b) = {}}
  IN  [cv |-> mergeAll(last[t], {m[b].cv : b \in outer}),
       k  |-> know[t] \cup UNION {m[b].k : b \in outer},
       kC |-> knowC[t] \cup UNION {m[b].kC : b \in outer}]

\* Access of t is made, with clock vector c, coming after what x tells.  own:
\* the clock it is recorded with is its own sequence number.  over: the reads it
\* comes after, which a read takes the place of in the shadow words.
Access(t, bytes, kind, c, own, x, check) ==
  LET over == IF kind = "load"
              THEN {i \in x.kC : log[i].kind = "load" /\ log[i].bytes \cap bytes # {}}
              ELSE {}
  IN  /\ shadow' = check.shadow
      /\ log' = Append(log, [t |-> t, bytes |-> bytes, kind |-> kind, clock |-> c[t],
                            own |-> own, over |-> over])
      /\ latest' = [t |-> t, bytes |-> bytes, kind |-> kind, before |-> x.k,
                    beforeC |-> x.kC, races |-> check.races]
      /\ know' = [know EXCEPT ![t] = x.k \cup {Len(log) + 1}]
      /\ knowC' = [knowC EXCEPT ![t] = x.kC \cup {Len(log) + 1}]

Known(t) == [cv |-> last[t], k |-> know[t], kC |-> knowC[t]]

\* A store enters the buffer with the clock vector of the last action, and the
\* race check sees that of the last action too: the store is none yet.
Buffer(t, bytes) ==
  sb' = [sb EXCEPT ![t] =
           Append(@, [bytes |-> bytes, cv |-> setClock(last[t], t, 0),
                      k |-> know[t] \cup {Len(log) + 1},
                      kC |-> knowC[t] \cup {Len(log) + 1}])]

\* Thread t's next operation is o.
Does(t, o) ==
  /\ pc[t] =< Len(prog[t]) /\ prog[t][pc[t]] = o
  /\ pc' = [pc EXCEPT ![t] = @ + 1]
  /\ UNCHANGED prog

At(op, b, n) == [op |-> op, b |-> b, n |-> n]

\* pmc_store8 to pmc_store64
Store(t, b, n) ==
  /\ Does(t, At("store", b, n))
  /\ Buffer(t, Bytes(b, n))
  /\ Access(t, Bytes(b, n), "store", last[t], FALSE, Known(t),
            raceCheckWriteSized(shadow, b, n, last[t], t))
  /\ UNCHANGED <<used, last, mem, owner, unlock, regress, crashes>>

\* Mutant of Load: the race check uses the clocks from before the load.
LoadStale(t, b, n) ==
  LET x == From(mem, t, Bytes(b, n))
      c == setClock(x.cv, t, used + 1)
  IN  /\ Does(t, At("load", b, n))
      /\ used' = used + 1
      /\ last' = [last EXCEPT ![t] = c]
      /\ Access(t, Bytes(b, n), "load", c, TRUE, x,
                raceCheckReadSized(shadow, b, n, last[t], t))
      /\ UNCHANGED <<sb, mem, owner, unlock, regress, crashes>>

\* pmc_load8 to pmc_load64: comes after the stores it reads from.
Load(t, b, n) ==
  LET x == From(mem, t, Bytes(b, n))
      c == setClock(x.cv, t, used + 1)
  IN  /\ Does(t, At("load", b, n))
      /\ used' = used + 1
      /\ last' = [last EXCEPT ![t] = c]
      /\ Access(t, Bytes(b, n), "load", c, TRUE, x,
                raceCheckReadSized(shadow, b, n, c, t))
      /\ UNCHANGED <<sb, mem, owner, unlock, regress, crashes>>

\* pmc_atomic_store, pmc_volatile_store and pmc_atomic_init, unless seq_cst.
AtomicStore(t, b) ==
  LET check == atomraceCheckWrite(shadow[b], last[t], t)
  IN  /\ Does(t, At("atomicstore", b, 1))
      /\ Buffer(t, {b})
      /\ Access(t, {b}, "atomicstore", last[t], FALSE, Known(t), Each(shadow, [a \in {b} |-> check]))
      /\ UNCHANGED <<used, last, mem, owner, unlock, regress, crashes>>

\* pmc_atomic_load and pmc_volatile_load
AtomicLoad(t, b) ==
  LET x == From(mem, t, {b})
      c == setClock(x.cv, t, used + 1)
      check == Checked(shadow[b], atomraceCheckRead(shadow[b], c, t))
  IN  /\ Does(t, At("atomicload", b, 1))
      /\ used' = used + 1
      /\ last' = [last EXCEPT ![t] = c]
      /\ Access(t, {b}, "atomicload", c, TRUE, x, Each(shadow, [a \in {b} |-> check]))
      /\ UNCHANGED <<sb, mem, owner, unlock, regress, crashes>>

\* A write of t that drains the buffer and is the last to leave it, with the
\* clock vector x.cv.
WriteThrough(t, b, x) ==
  LET n == Len(sb[t])
      c == setClock(x.cv, t, used + n + 1)
      w == [cv |-> c, k |-> x.k \cup {Len(log) + 1},
            kC |-> x.kC \cup {Len(log) + 1}]
  IN  /\ used' = used + n + 1
      /\ last' = [last EXCEPT ![t] = c]
      /\ sb' = [sb EXCEPT ![t] = <<>>]
      /\ mem' = [Drained(t) EXCEPT ![b] = w]

\* pmc_atomic_store with memory_order_seq_cst: the buffer is emptied after it.
SeqCstStore(t, b) ==
  LET c == setClock(last[t], t, used + Len(sb[t]) + 1)
      check == atomraceCheckWrite(shadow[b], c, t)
  IN  /\ Does(t, At("seqcst", b, 1))
      /\ WriteThrough(t, b, Known(t))
      /\ Access(t, {b}, "atomicstore", c, TRUE, Known(t), Each(shadow, [a \in {b} |-> check]))
      /\ UNCHANGED <<owner, unlock, regress, crashes>>

\* The read of an RMW or CAS empties the buffer, then reads; its own stores
\* tell it nothing it did not know.
Emptied(t, b) ==
  IF Storing(sb[t], b) = {} THEN From(mem, t, {b}) ELSE Known(t)

\* _ATOMIC_RMW_, and _ATOMIC_CMPSWP_ when it succeeds
RMW(t, b) ==
  LET x == Emptied(t, b)
      c == setClock(x.cv, t, used + Len(sb[t]) + 1)
      check == Checked(recordWrite(shadow[b], c, t), atomraceCheckRead(shadow[b], c, t))
  IN  /\ Does(t, At("rmw", b, 1))
      /\ WriteThrough(t, b, x)
      /\ Access(t, {b}, "rmw", c, TRUE, x, Each(shadow, [a \in {b} |-> check]))
      /\ UNCHANGED <<owner, unlock, regress, crashes>>

\* An action of t empties its buffer and is its last one, coming after x.
Fence(t, x) ==
  LET n == Len(sb[t])
  IN  /\ used' = used + n + 1
      /\ last' = [last EXCEPT ![t] = setClock(x.cv, t, used + n + 1)]
      /\ sb' = [sb EXCEPT ![t] = <<>>]
      /\ mem' = Drained(t)
      /\ know' = [know EXCEPT ![t] = x.k]
      /\ knowC' = [knowC EXCEPT ![t] = x.kC]
      /\ UNCHANGED <<shadow, log, latest, regress, crashes>>

\* _ATOMIC_CMPSWP_ when it fails: both halves empty the buffer.
CASFail(t, b) ==
  LET x == Emptied(t, b)
      n == Len(sb[t])
      c == setClock(x.cv, t, used + n + 1)
      check == Checked(shadow[b], atomraceCheckRead(shadow[b], c, t))
  IN  /\ Does(t, At("casfail", b, 1))
      /\ used' = used + n + 1
      /\ last' = [last EXCEPT ![t] = c]
      /\ sb' = [sb EXCEPT ![t] = <<>>]
      /\ mem' = Drained(t)
      /\ Access(t, {b}, "atomicload", c, TRUE, x, Each(shadow, [a \in {b} |-> check]))
      /\ UNCHANGED <<owner, unlock, regress, crashes>>

MFence(t) ==
  /\ Does(t, At("mfence", 0, 0))
  /\ Fence(t, Known(t))
  /\ UNCHANGED <<owner, unlock>>

\* ATOMIC_LOCK synchronizes with the last unlock.
Lock(t) ==
  /\ Does(t, At("lock", 0, 0))
  /\ owner = 0 /\ owner' = t
  /\ Fence(t, [cv |-> merge(last[t], unlock.cv), k |-> know[t] \cup unlock.k,
               kC |-> knowC[t] \cup unlock.kC])
  /\ UNCHANGED unlock

Unlock(t) ==
  /\ Does(t, At("unlock", 0, 0))
  /\ owner = t /\ owner' = 0
  /\ Fence(t, Known(t))
  /\ unlock' = [cv |-> setClock(last[t], t, used + Len(sb[t]) + 1), k |-> know[t],
                kC |-> knowC[t]]

\* getNextThread evicts: the store becomes the thread's last action and its
\* clock vector, of the time it was issued, that of the thread.
Evict(t) ==
  LET w == Commit(t, 1)
  IN  /\ MapThenSumSet(LAMBDA u : Len(sb[u]), Thread) > StoreBufferThreshold * N
      /\ sb[t] # <<>>
      /\ used' = used + 1
      /\ last' = [last EXCEPT ![t] = w[1].cv]
      /\ sb' = [sb EXCEPT ![t] = Tail(@)]
      /\ mem' = Stored(w)
      /\ regress' = (regress \/ \E u \in Thread : last[t][u] > w[1].cv[u])
      /\ UNCHANGED <<owner, unlock, shadow, log, know, knowC, latest, crashes,
                     prog, pc>>

\* Mutant of resetRaceDetector, called by doCrash and finish_execution: full
\* records stay.
resetShortRecords ==
  shadow' = [b \in Address |-> IF shadow[b].kind = "full" THEN shadow[b] ELSE EmptyShadow]

resetRaceDetector == shadow' = [b \in Address |-> EmptyShadow]

\* doCrash, then the first actions of the next execution.
Crash ==
  /\ crashes < MaxCrash /\ crashes' = crashes + 1
  /\ resetRaceDetector
  /\ used' = 2 * N - 1
  /\ last' = [t \in Thread |-> StartClock(t)]
  /\ sb' = [t \in Thread |-> <<>>]
  /\ mem' = [b \in Address |-> NoSync]
  /\ owner' = 0 /\ unlock' = NoSync
  /\ log' = <<>>
  /\ know' = [t \in Thread |-> {}] /\ knowC' = [t \in Thread |-> {}]
  /\ regress' = FALSE
  /\ latest' = NoAccess
  /\ prog' \in Recovery /\ pc' = [t \in Thread |-> 1]

Next ==
  \/ \E t \in Thread :
       \/ \E b \in Address, n \in Size : Store(t, b, n) \/ Load(t, b, n)
       \/ \E b \in Address : \/ AtomicStore(t, b) \/ AtomicLoad(t, b)
                             \/ SeqCstStore(t, b) \/ RMW(t, b) \/ CASFail(t, b)
       \/ MFence(t) \/ Lock(t) \/ Unlock(t) \/ Evict(t)
  \/ Crash

Spec == Init /\ [][Next]_vars

-------------------------------------------------------------------------------
(* Properties                                                              *)

Clock == [Thread -> Nat]
Sync  == [cv : Clock, k : SUBSET (1 .. Len(log)), kC : SUBSET (1 .. Len(log))]

\* An encoded word decodes to what was encoded (ENCODEOP shifts without masking).
ShortOK(s) ==
  /\ Len(s.reads) =< 1
  /\ s.wt =< ThreadMask /\ s.wc =< VectorMask
  /\ \A i \in DOMAIN s.reads : s.reads[i].t =< ThreadMask /\ s.reads[i].clock =< VectorMask

\* The shapes of the detector's data: shadow words lose no bits, reads stay in
\* the arrays of their RaceRecord, are of different threads and have a clock, and
\* no clock is from the future.
TypeOK ==
  /\ used \in Nat
  /\ \A t \in Thread : last[t] \in Clock /\ last[t][t] \in 1 .. used
  /\ \A b \in Address : mem[b] \in Sync
  /\ owner \in 0 .. N /\ unlock \in Sync
  /\ \A b \in Address :
       LET s == shadow[b] IN
       /\ s.kind \in {"none", "short", "full"} /\ s.isAtomic \in BOOLEAN
       /\ s.wt \in 0 .. N /\ s.wc \in 0 .. used
       /\ \A i \in DOMAIN s.reads : s.reads[i] \in [t : Thread, clock : 1 .. used]
       /\ \A i, j \in DOMAIN s.reads : i # j => s.reads[i].t # s.reads[j].t
       /\ s.kind = "short" => ShortOK(s)
       /\ s.kind = "full" => Len(s.reads) =< s.cap
  /\ regress \in BOOLEAN /\ crashes \in 0 .. MaxCrash

Conflict(a, c, b) ==
  a.t # c.t /\ b \in a.bytes \cap c.bytes /\ (IsWrite(a) \/ IsWrite(c))

\* Every race reported is one: an earlier conflicting access of another thread,
\* not both atomic, that the access does not come after.  But a thread that has
\* synchronized with nothing later than the atomic operation itself is taken
\* not to come after it, and nothing is claimed once an eviction has put back a
\* thread's clock vector.
RacesAreReal ==
  \A x \in latest.races :
    \/ regress
    \/ \E i \in 1 .. (Len(log) - 1) :
         /\ log[i].t = x[2].t /\ log[i].clock = x[2].clock /\ IsWrite(log[i]) = x[2].isWrite
         /\ Conflict(log[i], latest, x[1])
         /\ ~(IsAtomic(log[i]) /\ IsAtomic(latest))
         /\ i \in latest.before => log[i].own /\ IsAtomic(log[i])

\* The last write to b before the latest access, 0 if none.
LastWrite(b) ==
  LET w == {i \in 1 .. (Len(log) - 1) : b \in log[i].bytes /\ IsWrite(log[i])}
  IN  IF w = {} THEN 0 ELSE Max(w)

\* Atomic writes are not compared with atomic accesses, nor with reads made
\* after an atomic write; atomic reads are not recorded.
Compared(b) ==
  LET w == LastWrite(b)
      reads == {i \in (w + 1) .. (Len(log) - 1) : b \in log[i].bytes /\ log[i].kind = "load"}
      plain == w = 0 \/ ~IsAtomic(log[w])
  IN  IF IsAtomic(latest) /\ ~plain THEN {}
      ELSE ({w} \ {0}) \cup (IF latest.kind \in {"store", "atomicstore"} THEN reads ELSE {})

\* No race is missed: if an access does not come after one that it is compared
\* with, as far as clocks tell, a race is reported.  Dropping reads, packing and
\* expanding words and copying a word to the bytes after it lose none.
RacesAreFound ==
  \A b \in latest.bytes :
    (\E i \in Compared(b) : Conflict(log[i], latest, b) /\ i \notin latest.beforeC)
      => latest.races # {}

\* The sized checks leave the shadow words that raceCheckRead and raceCheckWrite
\* leave when called for every byte, whichever bytes they only overwrite.
SizedAsBytes ==
  \A t \in Thread, b \in Address, n \in Size \ {1} :
    Bytes(b, n) \subseteq Address =>
      LET c == last[t]
          R == [a \in Bytes(b, n) |-> raceCheckRead(shadow[a], c, t)]
          W == [a \in Bytes(b, n) |-> raceCheckWrite(shadow[a], c, t)]
      IN  /\ raceCheckReadSized(shadow, b, n, c, t).shadow = Each(shadow, R).shadow
          /\ raceCheckWriteSized(shadow, b, n, c, t).shadow = Each(shadow, W).shadow
===============================================================================
