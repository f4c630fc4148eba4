----------------------------- MODULE OrderedMap -----------------------------
(***************************************************************************)
(* OrderedMap as map.rs builds it: entries in order, and, once there are   *)
(* more than a scan is good for, a robin hood table of bucket -> position  *)
(* that is kept in step with every change.  The sizes are constants so     *)
(* that every threshold is reached: the code has LINEAR_MAX = 8,           *)
(* MIN_BUCKETS = 16 and MAX_INDEXED = u32::MAX.                            *)
(*                                                                         *)
(* The entry API holds the map borrowed between its lookup and its change, *)
(* so an entry's insert and remove are Insert and RemoveEntry.             *)
(*                                                                         *)
(* An operator named X_Slip is X with one mistake in it: the runs check    *)
(* that a property notices.                                                *)
(***************************************************************************)
EXTENDS Integers, Sequences, FiniteSets, TLC, SequencesExt

CONSTANTS
  Key, Value,
  HashKeys,      \* the hash functions to check, each from Key to Nat
  LinearMax, MinBuckets, MaxIndexed

ASSUME KeyAssumption == Key \subseteq Nat   \* for sort_keys; any total order would do

ASSUME SizesAssumption ==
  /\ LinearMax \in Nat /\ MinBuckets \in Nat /\ MaxIndexed \in Nat
  /\ MinBuckets >= 4   \* a power of two there, so that a mask does for %
  /\ LinearMax < (MinBuckets \div 4) * 3
  /\ LinearMax < MaxIndexed
  /\ HashKeys \subseteq [Key -> Nat]

VARIABLES
  hashKey,   \* the hash function, chosen once
  entries,   \* Vec<(String, V)>
  table,     \* Option<HashTable>: buckets from 0, or NoTable
  ret        \* what the latest operation returned

omvars == <<hashKey, entries, table, ret>>

None    == <<>>   \* Option
Some(x) == <<x>>
NoTable == <<>>
Empty   == MaxIndexed   \* u32::MAX, which is also MAX_INDEXED
Vacant  == [index |-> Empty, hash |-> 0]
NotFound == -1

Least(set) == CHOOSE i \in set : \A j \in set : i <= j

-----------------------------------------------------------------------------
(* HashTable.                                                              *)

LoadLimit(buckets) == (buckets \div 4) * 3

\* Doubling from the minimum until the entries fit.
BucketsFor(count) ==
  LET doubled[e \in 0 .. count] == IF e = 0 THEN MinBuckets ELSE 2 * doubled[e - 1]
  IN doubled[Least({e \in 0 .. count : count <= LoadLimit(doubled[e])})]

IsEmpty(bucket)  == bucket.index = Empty
Cap(t)           == Cardinality(DOMAIN t)
Walk(t, hash, d) == (hash + d) % Cap(t)           \* the d-th bucket probed for a hash
Distance(t, at)  == (at - t[at].hash) % Cap(t)    \* how far its entry is from home

\* find: walk until the key, an empty bucket, or an entry closer to home.
ProbeStops(t, hash) ==
  {d \in 0 .. Cap(t) - 1 :
     LET at == Walk(t, hash, d) IN IsEmpty(t[at]) \/ Distance(t, at) < d}

Find(t, es, key) ==
  LET hash  == hashKey[key]
      stops == ProbeStops(t, hash)
      hits  == {d \in 0 .. Cap(t) - 1 :
                  LET b == t[Walk(t, hash, d)] IN
                  ~IsEmpty(b) /\ b.hash = hash /\ es[b.index + 1][1] = key}
  IN IF hits = {} \/ \E d \in stops : d <= Least(hits)
     THEN NotFound ELSE t[Walk(t, hash, Least(hits))].index

\* place, at one bucket: an entry farther from home than the one in its way
\* takes its bucket, and the evicted one is carried on.
PlaceStep(s) ==
  LET at     == Walk(s.t, s.carried.hash, s.travelled)
      theirs == Distance(s.t, at)
  IN CASE IsEmpty(s.t[at]) ->
            [s EXCEPT !.t = [@ EXCEPT ![at] = s.carried], !.placed = TRUE]
       [] ~IsEmpty(s.t[at]) /\ theirs < s.travelled ->
            [s EXCEPT !.t = [@ EXCEPT ![at] = s.carried],
                      !.carried = s.t[at], !.travelled = theirs + 1]
       [] OTHER -> [s EXCEPT !.travelled = @ + 1]

\* place: from home on, until an empty bucket.
Place(t, entry) ==
  LET after[k \in 0 .. Cap(t)] ==
        IF k = 0 THEN [t |-> t, carried |-> entry, travelled |-> 0, placed |-> FALSE]
        ELSE LET s == after[k - 1] IN IF s.placed THEN s ELSE PlaceStep(s)
  IN after[Cap(t)].t

\* The buckets of a list that are not empty, placed one after another in a new
\* table of n buckets.
Placed(n, buckets) ==
  LET upTo[k \in 0 .. Len(buckets)] ==
        IF k = 0 THEN [i \in 0 .. n - 1 |-> Vacant]
        ELSE IF IsEmpty(buckets[k]) THEN upTo[k - 1] ELSE Place(upTo[k - 1], buckets[k])
  IN upTo[Len(buckets)]

\* bucket_of: from home on, the bucket that holds the position.
BucketOf(t, es, pos) ==
  LET hash == hashKey[es[pos + 1][1]]
      hits == {d \in 0 .. Cap(t) - 1 : t[Walk(t, hash, d)].index = pos}
  IN Walk(t, hash, Least(hits))

Erase_Tombstone(t, at) == [t EXCEPT ![at] = Vacant]   \* slip: nothing moves back

\* erase: each following entry that is not at home moves back one bucket, and
\* the hole comes to rest where the run ends.
Erase(t, at) ==
  LET n    == Cap(t)
      ends == {d \in 1 .. n : LET i == (at + d) % n IN IsEmpty(t[i]) \/ Distance(t, i) = 0}
      run  == Least(ends)
  IN [i \in DOMAIN t |->
        LET d == (i - at) % n IN
        CASE d < run - 1 -> t[(i + 1) % n]
          [] d = run - 1 -> Vacant
          [] d > run - 1 -> t[i]]

ShiftDownAbove_From(t, pos) ==   \* slip: never renumbers the next one up
  [i \in DOMAIN t |-> IF ~IsEmpty(t[i]) /\ t[i].index > pos + 1
                      THEN [t[i] EXCEPT !.index = @ - 1] ELSE t[i]]

\* shift_down_above: positions past a removed entry have moved down.
ShiftDownAbove(t, pos) ==
  [i \in DOMAIN t |-> IF ~IsEmpty(t[i]) /\ t[i].index > pos
                      THEN [t[i] EXCEPT !.index = @ - 1] ELSE t[i]]

BucketFor(es, pos) == [index |-> pos, hash |-> hashKey[es[pos + 1][1]]]

\* rebuild: sized for the entries, so a table may shrink as well.
Rebuilt(es) == Placed(BucketsFor(Len(es)), [i \in DOMAIN es |-> BucketFor(es, i - 1)])

\* grow: the old buckets in bucket order, into twice as many.
Grown(t) == Placed(2 * Cap(t), [i \in 1 .. Cap(t) |-> t[i - 1]])

-----------------------------------------------------------------------------
(* OrderedMap.                                                             *)

\* locate and find: a scan without a table, else one probe.
Locate(key) ==
  LET at == {i \in DOMAIN entries : entries[i][1] = key} IN
  CASE table # NoTable -> Find(table, entries, key)
    [] table = NoTable /\ at # {} -> Least(at) - 1
    [] OTHER -> NotFound

\* reindex: none at all for a map to scan, or too wide to address.
Reindex(t, es) ==
  IF Len(es) <= LinearMax \/ Len(es) > MaxIndexed THEN NoTable ELSE Rebuilt(es)

PushNew_OneTooWide(t, es) ==   \* slip: indexes one entry past the addressable
  CASE Len(es) <= LinearMax -> t
    [] Len(es) > LinearMax /\ Len(es) > MaxIndexed + 1 -> NoTable
    [] Len(es) > LinearMax /\ Len(es) <= MaxIndexed + 1 /\ t # NoTable ->
         Place(IF Len(es) > LoadLimit(Cap(t)) THEN Grown(t) ELSE t, BucketFor(es, Len(es) - 1))
    [] OTHER -> Reindex(t, es)

\* push_new, what it does to the table once the entry is pushed.
PushNew(t, es) ==
  CASE Len(es) <= LinearMax -> t
    [] Len(es) > LinearMax /\ Len(es) > MaxIndexed -> NoTable
    [] Len(es) > LinearMax /\ Len(es) <= MaxIndexed /\ t # NoTable ->
         Place(IF Len(es) > LoadLimit(Cap(t)) THEN Grown(t) ELSE t, BucketFor(es, Len(es) - 1))
    [] OTHER -> Reindex(t, es)

\* remove_at, what it does to the table: repaired bucket by bucket while the
\* map stays wide enough to have one.
RemoveAtPos(t, es, pos) ==
  IF Len(es) - 1 > LinearMax /\ t # NoTable
  THEN ShiftDownAbove(Erase(t, BucketOf(t, es, pos)), pos)
  ELSE Reindex(t, RemoveAt(es, pos + 1))

\* The members of a set from the lowest rank to the highest, no two having the
\* same: what retain keeps, in place, and what a sort makes of distinct keys.
\* (SelectSeq and SortSeq would do, but the proof system knows nothing of them.)
Ordered(set, rank) ==
  [k \in 1 .. Cardinality(set) |->
     CHOOSE i \in set : Cardinality({j \in set : rank[j] < rank[i]}) = k - 1]

Arranged(es, order) == [k \in DOMAIN order |-> es[order[k]]]

KeptOf(es, kept) ==
  Arranged(es, Ordered({i \in DOMAIN es : es[i][1] \in kept}, [i \in DOMAIN es |-> i]))

SortedByKey(es) == Arranged(es, Ordered(DOMAIN es, [i \in DOMAIN es |-> es[i][1]]))

Returns(answer) == ret' = answer
ValueAt(pos) == IF pos = NotFound THEN None ELSE Some(entries[pos + 1][2])

Init ==
  /\ hashKey \in HashKeys
  /\ entries = <<>> /\ table = NoTable
  /\ ret = None

Get(key) ==
  /\ Returns(ValueAt(Locate(key)))
  /\ UNCHANGED <<hashKey, entries, table>>

Insert(key, value) ==
  LET pos == Locate(key) IN
  /\ IF pos # NotFound
     THEN /\ entries' = [entries EXCEPT ![pos + 1][2] = value]
          /\ UNCHANGED table
     ELSE /\ entries' = Append(entries, <<key, value>>)
          /\ table' = PushNew(table, entries')
  /\ Returns(ValueAt(pos))
  /\ UNCHANGED hashKey

RemoveEntry(key) ==
  LET pos == Locate(key) IN
  /\ IF pos # NotFound
     THEN /\ entries' = RemoveAt(entries, pos + 1)
          /\ table' = RemoveAtPos(table, entries, pos)
     ELSE UNCHANGED <<entries, table>>
  /\ Returns(ValueAt(pos))
  /\ UNCHANGED hashKey

Retain(kept) ==
  /\ entries' = KeptOf(entries, kept)
  /\ table' = IF Len(entries') # Len(entries) THEN Reindex(table, entries') ELSE table
  /\ Returns(None)
  /\ UNCHANGED hashKey

SortKeys ==
  /\ entries' = SortedByKey(entries)
  /\ table' = Reindex(table, entries')
  /\ Returns(None)
  /\ UNCHANGED hashKey

Clear ==
  /\ entries' = <<>> /\ table' = NoTable
  /\ Returns(None)
  /\ UNCHANGED hashKey

Next ==
  \/ \E key \in Key : Get(key) \/ RemoveEntry(key) \/ \E value \in Value : Insert(key, value)
  \/ \E kept \in SUBSET {entries[i][1] : i \in DOMAIN entries} : Retain(kept)
  \/ SortKeys
  \/ Clear

Spec == Init /\ [][Next]_omvars

\* retain when the caller's predicate unwinds at entry n: Vec closes the gaps
\* the earlier answers left and keeps the rest, and reindex is never reached.
RetainUnwinds(kept, n) ==
  /\ entries' = KeptOf(SubSeq(entries, 1, n - 1), kept) \o SubSeq(entries, n, Len(entries))
  /\ Returns(None)
  /\ UNCHANGED <<hashKey, table>>

NextOrUnwind ==
  Next \/ \E kept \in SUBSET Key, n \in DOMAIN entries : RetainUnwinds(kept, n)

UnwindSpec == Init /\ [][NextOrUnwind]_omvars

-----------------------------------------------------------------------------
(* Properties.                                                             *)

\* A table that exists describes every entry, and there is no state in
\* between: each entry has exactly one bucket, with its hash, no bucket points
\* anywhere else, and there is a table exactly for the sizes that have one.
TableDescribesEntries ==
  /\ table = NoTable <=> Len(entries) <= LinearMax \/ Len(entries) > MaxIndexed
  /\ table # NoTable =>
       LET used == {i \in DOMAIN table : ~IsEmpty(table[i])} IN
       /\ Cardinality(used) = Len(entries)
       /\ {table[i] : i \in used} = {BucketFor(entries, i - 1) : i \in DOMAIN entries}

\* No probe walks for ever: whatever key is asked for, present or not, there
\* is a bucket its walk stops at, since the table is never filled past its
\* load limit.
EveryProbeStops ==
  table # NoTable =>
    /\ Len(entries) <= LoadLimit(Cap(table))
    /\ \A key \in Key : ProbeStops(table, hashKey[key]) # {}

\* Robin hood order: an entry is at most one bucket farther from home than the
\* one before it, and at home after an empty one.  It is what makes the early
\* exit of a probe right, and what erase has to leave intact.
BucketsInOrder ==
  \A i \in DOMAIN table :
    LET next == (i + 1) % Cap(table) IN
    ~IsEmpty(table[next]) =>
      Distance(table, next) <= IF IsEmpty(table[i]) THEN 0 ELSE Distance(table, i) + 1

\* Every probe ends, and where it ends it has missed nothing.
ProbesAreRight == EveryProbeStops /\ BucketsInOrder

\* The table is invisible: every operation answers, and leaves the entries, as
\* a map that only ever scans would.
Scanned == INSTANCE OrderedMapSpec
ImplementsMap == Scanned!Spec
=============================================================================
