----------------------------- MODULE HashTable -----------------------------
(***************************************************************************)
(* The open-addressing hash table of src/Collection/hashtable.h, on which  *)
(* the checker keeps its write lists, cache lines, mutexes and races.      *)
(* A bin with key 0 is empty; the key 0 itself lives in a node of its own. *)
(* remove clears both fields of a bin and moves later entries back, so a   *)
(* bin with a value and no key, which put would reuse, never exists.       *)
(***************************************************************************)
EXTENDS Integers, FiniteSets, SequencesExt

CONSTANTS
    Keys,            \* the keys other than 0
    Values,          \* the values stored; 0 is the null value of get
    Hash,            \* the hash of every key
    InitialCapacity, \* a power of two
    MaxCapacity      \* bound: no resize beyond it is explored

VARIABLES
    table,           \* the bins, the node of key 0, and the bookkeeping
    map              \* history: the dictionary that the calls describe

vars == <<table, map>>

EmptyBin == [key |-> 0, val |-> 0]

\* The constructor: all bins empty, to be resized when half full.
NewTable(capacity) ==
    [bins |-> [i \in 0 .. capacity - 1 |-> EmptyBin], capacity |-> capacity,
     threshold |-> capacity \div 2, zero |-> <<>>, size |-> 0]

Home(t, k) == Hash[k] % t.capacity

NoBin == -1

\* The bin at which probing for k stops: the first that is empty or holds k.
Probe(t, k) ==
    LET stops == {i \in 0 .. t.capacity - 1 :
                    LET b == t.bins[(Home(t, k) + i) % t.capacity]
                    IN  b = EmptyBin \/ b.key = k}
    IN  IF stops = {} THEN NoBin ELSE (Home(t, k) + Min(stops)) % t.capacity

contains(t, k) ==
    IF k = 0 THEN t.zero # <<>>
    ELSE Probe(t, k) # NoBin /\ t.bins[Probe(t, k)].key = k

get(t, k) ==
    IF ~contains(t, k) THEN 0
    ELSE IF k = 0 THEN t.zero[1] ELSE t.bins[Probe(t, k)].val

Rehash(u, b) == IF b = EmptyBin THEN u ELSE [u EXCEPT !.bins[Probe(u, b.key)] = b]

\* Entries are put again in the order of the old bins; size is not counted
\* anew, and the node of key 0 stays where it is.  rehashed[n] has those of
\* the first n bins.
resize(t, capacity) ==
    LET rehashed[n \in 0 .. t.capacity] ==
            IF n = 0 THEN NewTable(capacity) ELSE Rehash(rehashed[n - 1], t.bins[n - 1])
    IN  [rehashed[t.capacity] EXCEPT !.zero = t.zero, !.size = t.size]

\* The table that put looks for the key in.
Grown(t) == IF t.size > t.threshold THEN resize(t, 2 * t.capacity) ELSE t

put(t, k, v) ==
    IF k = 0
    THEN [t EXCEPT !.zero = <<v>>, !.size = IF t.zero = <<>> THEN @ + 1 ELSE @]
    ELSE LET u == Grown(t)
             b == Probe(u, k)
         IN  [u EXCEPT !.bins[b] = [key |-> k, val |-> v],
                       !.size = IF u.bins[b].key = k THEN @ ELSE @ + 1]

\* Mutant of Stays: the hole is taken to lie before the entry.
StaysUnwrapped(hole, j, home) == hole < home /\ home <= j

\* An entry at j whose home is (cyclically) after the hole stays where it is.
Stays(hole, j, home) ==
    \/ hole <= j /\ hole < home /\ home <= j
    \/ hole > j /\ (hole < home \/ home <= j)

\* The entry at j moves into the hole, which is then at j, or stays.
Look(s, j) ==
    IF Stays(s.hole, j, Home(s.table, s.table.bins[j].key)) THEN s
    ELSE [table |-> [s.table EXCEPT !.bins[s.hole] = s.table.bins[j], !.bins[j] = EmptyBin],
          hole |-> j]

\* Keep bins contiguous: later entries, up to the next empty bin, move back
\* into the hole at b and those this leaves.  closed[n] is the table, and its
\* hole, when n bins behind b have been looked at.
Close(t, b) ==
    LET closed[n \in 0 .. t.capacity] ==
            IF n = 0 THEN [table |-> t, hole |-> b] ELSE Look(closed[n - 1], (b + n) % t.capacity)
        run == {i \in 1 .. t.capacity - 1 : t.bins[(b + i) % t.capacity] = EmptyBin}
    IN  closed[Min(run) - 1].table

remove(t, k) ==
    IF ~contains(t, k) THEN t
    ELSE IF k = 0 THEN [t EXCEPT !.zero = <<>>, !.size = @ - 1]
    ELSE LET b == Probe(t, k)
         IN  Close([t EXCEPT !.bins[b] = EmptyBin, !.size = @ - 1], b)

\* reset, and resetanddelete as far as the table goes.
reset(t) == [NewTable(t.capacity) EXCEPT !.threshold = t.threshold]

-----------------------------------------------------------------------------
Init == table = NewTable(InitialCapacity) /\ map = <<>>

Put(k, v) ==
    /\ k # 0 => Grown(table).capacity <= MaxCapacity
    /\ table' = put(table, k, v)
    /\ map' = [j \in DOMAIN map \union {k} |-> IF j = k THEN v ELSE map[j]]

RemoveKey(k) ==
    /\ table' = remove(table, k)
    /\ map' = [j \in DOMAIN map \ {k} |-> map[j]]

Reset == table' = reset(table) /\ map' = <<>>

Next ==
    \/ \E k \in Keys \union {0}, v \in Values : Put(k, v)
    \/ \E k \in Keys \union {0} : RemoveKey(k)
    \/ Reset

Spec == Init /\ [][Next]_vars

-----------------------------------------------------------------------------
\* After any calls get and contains answer as the dictionary does, the size
\* is right, and a bin is empty, without which the probing of contains and
\* remove for an absent key never ends (hashtable.h:284 and 346).
TableIsMap ==
    /\ \A k \in Keys \union {0} :
         /\ contains(table, k) <=> k \in DOMAIN map
         /\ get(table, k) = IF k \in DOMAIN map THEN map[k] ELSE 0
    /\ table.size = Cardinality(DOMAIN map)
    /\ \E i \in DOMAIN table.bins : table.bins[i] = EmptyBin
=============================================================================
