--------------------------- MODULE OrderedMapSpec ---------------------------
(***************************************************************************)
(* What OrderedMap promises: a sequence of entries with distinct keys, in  *)
(* the order the keys first arrived, that every operation looks up by      *)
(* scanning.  There is no table here.                                      *)
(***************************************************************************)
EXTENDS Integers, Sequences, FiniteSets, TLC, SequencesExt

CONSTANTS
  Key,     \* numbers, for the order sort_keys goes by
  Value

VARIABLES
  entries,   \* sequence of <<key, value>>
  ret        \* what the latest operation returned

mvars == <<entries, ret>>

\* Option.
None == <<>>
Some(x) == <<x>>

Positions(k) == {i \in DOMAIN entries : entries[i][1] = k}
Holds(k)     == Positions(k) # {}
Where(k)     == CHOOSE i \in Positions(k) : TRUE
ValueOf(k)   == IF Holds(k) THEN Some(entries[Where(k)][2]) ELSE None
Returns(answer) == ret' = answer

Init == entries = <<>> /\ ret = None

Get(k) == Returns(ValueOf(k)) /\ UNCHANGED entries

\* A key that is there keeps its place.
Insert(k, v) ==
  /\ entries' = IF Holds(k) THEN [entries EXCEPT ![Where(k)] = <<k, v>>]
                            ELSE Append(entries, <<k, v>>)
  /\ Returns(ValueOf(k))

\* The entries after it move up.
RemoveEntry(k) ==
  /\ entries' = IF Holds(k) THEN RemoveAt(entries, Where(k)) ELSE entries
  /\ Returns(ValueOf(k))

\* The entries that are kept stay in their order.
Retain(kept) ==
  /\ Range(entries') = {e \in Range(entries) : e[1] \in kept}
  /\ \A i, j \in DOMAIN entries' : i < j => Where(entries'[i][1]) < Where(entries'[j][1])
  /\ Returns(None)

SortKeys ==
  /\ Range(entries') = Range(entries)
  /\ \A i, j \in DOMAIN entries' : i < j => entries'[i][1] < entries'[j][1]
  /\ Returns(None)

Clear == entries' = <<>> /\ Returns(None)

Next ==
  \/ \E k \in Key : Get(k) \/ RemoveEntry(k) \/ \E v \in Value : Insert(k, v)
  \/ \E kept \in SUBSET {entries[i][1] : i \in DOMAIN entries} : Retain(kept)
  \/ SortKeys
  \/ Clear

Spec == Init /\ [][Next]_mvars
=============================================================================
