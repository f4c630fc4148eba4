------------------------------- MODULE KeyMap -------------------------------
(***************************************************************************)
(* From the bytes of a key to the field it may name: keymap.rs.  A map is  *)
(* built once for a declaration, by the first of a ladder of schemes that  *)
(* tells all its keys apart, and is then asked of keys whose length is     *)
(* known (BEVE) or is not (JSON).  Its answer is a candidate, which the    *)
(* caller compares with the key.                                           *)
(*                                                                         *)
(* A key is a sequence of bytes; fields are numbered from 0, and n, the    *)
(* number of keys, is no field.  What is hashed is the bytes a scheme      *)
(* reads.  The two mixing functions are others than the code's, on a word  *)
(* of 12 bits: what they do is tell words apart under some seeds and not   *)
(* under others, and each unlike the other.                                *)
(***************************************************************************)
EXTENDS Integers, Bitwise, SequencesExt, FiniteSetsExt, Stepwise

CONSTANTS
  MaxHashedKeys,     \* MAX_HASHED_KEYS, 255 in the code
  MaxSearchedKeys,   \* MAX_SEARCHED_KEYS, 72 in the code
  Seeds              \* seed_at of each of SEED_ATTEMPTS attempts

ASSUME KeyMapAssumption ==
  /\ MaxHashedKeys \in 0 .. 255 /\ MaxSearchedKeys \in Nat
  /\ \A a \in DOMAIN Seeds : Seeds[a] \in 0 .. 4095

SlotCap == 256
QuoteByte == 34

Lengths(keys) == {Len(keys[k]) : k \in DOMAIN keys}
MinLen(keys)  == Min(Lengths(keys))
MaxLen(keys)  == Max(Lengths(keys))

\* The field whose key has x, or none.
FieldAt(xs, x, none) == IF x \in Range(xs) THEN Min({k \in DOMAIN xs : xs[k] = x}) - 1 ELSE none

-----------------------------------------------------------------------------
(* Hashing.                                                                *)

\* to_u64_below_8, to_u64_at: n bytes, of which those that are not there are 0.
Load(b, n) == [k \in 1 .. n |-> IF k <= Len(b) THEN b[k] ELSE 0]

\* key_digest: a short key's bytes and its length; of a long one its length,
\* its whole chunks and its last eight bytes.
KeyDigest(b) ==
  LET n == Len(b) IN
  IF n < 8 THEN Append(Load(b, 7), n)
  ELSE <<n>> \o SubSeq(b, 1, 8 * (n \div 8)) \o SubSeq(b, n - 7, n)

Word(pre) == FoldLeft(LAMBDA h, x : (h * 31 + x) % 4096, 0, pre)

\* bitmix and rich_bitmix: high bits are brought down, by a seed that
\* multiplies, or that is added in between.
BitMix(pre, seed)     == With(Word(pre) * seed, LAMBDA h : h + h \div 4096)
RichBitMix(pre, seed) == With(Word(pre) * 21, LAMBDA h : ((h + h \div 4096 + seed) * 13) \div 8)

\* The front bytes a scheme hashes.
Widths == ("Front2" :> 2) @@ ("Front4" :> 4) @@ ("Front8" :> 8)

\* search_preimage: what of a key a scheme hashes.
Column(b, col) == <<b[col + 1], Len(b)>>
SearchPreimage(m, kind, b) ==
  CASE kind \in DOMAIN Widths -> Load(b, Widths[kind])
    [] kind = "UniqueIndexSized" -> Column(b, m.col)
    [] kind = "UniquePerLength" -> Column(b, m.perLen[Len(b)])
    [] kind = "FullFlat" -> KeyDigest(b)

\* mix_preimage.
MixPreimage_Plain(kind, pre, seed) == BitMix(pre, seed)   \* slip: one mix for all
MixPreimage(kind, pre, seed) ==
  IF kind = "Front8" THEN RichBitMix(pre, seed) ELSE BitMix(pre, seed)

\* slots_for.
SlotsFor(n) ==
  IF n <= 1 THEN 1
  ELSE Min({SlotCap, Min({s \in {2 ^ e : e \in 0 .. 16} : s >= n * n}) \div 2})

\* search_seed: the first seed that gives every key a slot of its own, and the
\* table of them; a slot nobody has holds n.
SearchSeed(m, kind, keys) ==
  LET pre   == [k \in DOMAIN keys |-> SearchPreimage(m, kind, keys[k])]
      slots == [a \in DOMAIN Seeds |->
                  [k \in DOMAIN keys |-> MixPreimage(kind, pre[k], Seeds[a]) % (m.mask + 1)]]
      good  == {a \in DOMAIN Seeds : Seeds[a] # 0 /\ IsInjective(slots[a])}
  IN IF good = {} THEN <<>>
     ELSE With(Min(good), LAMBDA a :
            <<[m EXCEPT !.kind = kind, !.seed = Seeds[a],
                        !.table = [s \in 0 .. m.mask |-> FieldAt(slots[a], s, m.n)]]>>)

-----------------------------------------------------------------------------
(* Building.  A rung of the ladder is a map, or none.                      *)

\* build: no two keys alike, and none that JSON has to escape.
Declarable(keys) ==
  /\ IsInjective(keys)
  /\ \A k \in DOMAIN keys : \A i \in DOMAIN keys[k] :
       keys[k][i] >= 32 /\ keys[k][i] \notin {QuoteByte, 92}

\* A map of no keys; col is unique_index, and per_len the column by length.
Blank == [kind |-> "Empty", n |-> 0, seed |-> 0, col |-> 0, perLen |-> <<>>,
          minLen |-> 0, maxLen |-> 0, mask |-> 0, table |-> <<>>]

\* try_mod4.
Mod4(m, keys) ==
  LET c0 == keys[1][1]
      kinds == <<"Mod4", "XorMod4", "MinusMod4">>
      lands(k, c) == CASE kinds[k] = "Mod4" -> c % 4
                       [] kinds[k] = "XorMod4" -> (c ^^ c0) % 4
                       [] kinds[k] = "MinusMod4" -> (c - c0) % 4
      good == {k \in 1 .. 3 : \A i \in DOMAIN keys : lands(k, keys[i][1]) = i - 1}
  IN IF Len(keys) \notin {3, 4} \/ m.minLen = 0 THEN <<>>
     ELSE IF good = {} THEN <<>> ELSE <<[m EXCEPT !.kind = kinds[Min(good)], !.seed = c0]>>

\* The columns within reach of each of some keys that tell them all apart.
Telling(keys) ==
  IF keys = <<>> THEN {}
  ELSE {col \in 0 .. MinLen(keys) - 1 : IsInjective([k \in DOMAIN keys |-> keys[k][col + 1]])}

\* find_unique_index.
UniqueIndex(m, keys) ==
  With(Telling(keys), LAMBDA cols :
    IF cols = {} THEN <<>>
    ELSE With([k \in DOMAIN keys |-> keys[k][Min(cols) + 1]], LAMBDA bytes :
           IF Len(keys) = 2
           THEN <<[m EXCEPT !.kind = "UniqueIndexTwo", !.col = Min(cols), !.seed = bytes[1]]>>
           ELSE <<[m EXCEPT !.kind = "UniqueIndex", !.col = Min(cols),
                            !.table = [x \in 0 .. SlotCap - 1 |-> FieldAt(bytes, x, m.n)]]>>))

\* front_bytes_distinct.
FrontHash(m, kind, keys) ==
  IF m.minLen >= Widths[kind] /\ IsInjective([k \in DOMAIN keys |-> Load(keys[k], Widths[kind])])
  THEN <<m>> ELSE <<>>

\* find_sized_unique_index.
Sized(m, keys) ==
  With({col \in 0 .. m.minLen - 1 : IsInjective([k \in DOMAIN keys |-> Column(keys[k], col)])},
       LAMBDA cols : IF cols = {} THEN <<>> ELSE <<[m EXCEPT !.col = Min(cols)]>>)

\* unique_per_length; 255 where no key has the length.
PerLength(m, keys) ==
  With([len \in Lengths(keys) |-> Telling(SelectSeq(keys, LAMBDA b : Len(b) = len))], LAMBDA telling :
    IF m.minLen = 0 \/ m.maxLen >= SlotCap \/ {} \in Range(telling) THEN <<>>
    ELSE <<[m EXCEPT !.perLen = [len \in 0 .. m.maxLen |->
                                   IF len \in DOMAIN telling THEN Min(telling[len]) ELSE 255]]>>)

\* The schemes that hash, each where it has something that tells the keys apart
\* and there is a seed for it.
Hashed(m, kind, keys) ==
  With(CASE kind \in DOMAIN Widths -> FrontHash(m, kind, keys)
         [] kind = "UniqueIndexSized" -> Sized(m, keys)
         [] kind = "UniquePerLength" -> PerLength(m, keys)
         [] kind = "FullFlat" -> IF m.n > MaxSearchedKeys THEN <<>> ELSE <<m>>,
       LAMBDA may : IF may = <<>> THEN <<>> ELSE SearchSeed(may[1], kind, keys))

Rung(m, kind, keys) ==
  CASE kind = "Mod4" -> Mod4(m, keys)
    [] kind = "UniqueIndex" -> UniqueIndex(m, keys)
    [] kind = "Linear" -> <<[m EXCEPT !.kind = "Linear"]>>
    [] OTHER -> Hashed(m, kind, keys)

\* The first rung that is a map.
Ladder(m, keys) ==
  FoldLeft(LAMBDA found, kind : IF found # <<>> THEN found ELSE Rung(m, kind, keys), <<>>,
           <<"Mod4", "UniqueIndex", "Front2", "Front4", "Front8", "UniqueIndexSized",
             "UniquePerLength", "FullFlat", "Linear">>)

\* KeyMap::build, which compiles only what is Declarable.
Build(keys) ==
  IF keys = <<>> THEN Blank
  ELSE With([Blank EXCEPT !.n = Len(keys), !.minLen = MinLen(keys), !.maxLen = MaxLen(keys)], LAMBDA m :
    CASE Declarable(keys) /\ m.n > MaxHashedKeys -> [m EXCEPT !.kind = "Linear"]
      [] Declarable(keys) /\ m.n = 1 -> [m EXCEPT !.kind = "SingleElement"]
      [] Declarable(keys) /\ m.n \in 2 .. MaxHashedKeys ->
           Ladder([m EXCEPT !.mask = SlotsFor(m.n) - 1], keys)[1])

-----------------------------------------------------------------------------
(* Looking up.                                                             *)

Slot(m, hash) == m.table[hash % (m.mask + 1)]

\* The schemes that read no further than a number of bytes, which is theirs.
Reach(m) ==
  CASE m.kind \in {"Empty", "SingleElement"} -> 0
    [] m.kind \in {"Mod4", "XorMod4", "MinusMod4"} -> 1
    [] m.kind \in {"UniqueIndexTwo", "UniqueIndex"} -> m.col + 1
    [] m.kind \in DOMAIN Widths -> Widths[m.kind]
    [] OTHER -> -1
ByFront(m, b) ==
  CASE m.kind = "Empty" -> m.n
    [] m.kind = "SingleElement" -> 0
    [] m.kind = "Mod4" -> b[1] % 4
    [] m.kind = "XorMod4" -> (b[1] ^^ m.seed) % 4
    [] m.kind = "MinusMod4" -> (b[1] - m.seed) % 4
    [] m.kind = "UniqueIndexTwo" -> IF b[m.col + 1] = m.seed THEN 0 ELSE 1
    [] m.kind = "UniqueIndex" -> m.table[b[m.col + 1]]
    [] m.kind \in {"Front2", "Front4"} -> Slot(m, BitMix(Load(b, Widths[m.kind]), m.seed))
    [] m.kind = "Front8" -> Slot(m, RichBitMix(Load(b, 8), m.seed))

\* Those that need the whole key.
BySize(m, keys, key) ==
  LET column(col) == IF col >= Len(key) THEN m.n ELSE Slot(m, BitMix(Column(key, col), m.seed))
      same == {k \in DOMAIN keys : keys[k] = key}
  IN CASE m.kind = "UniqueIndexSized" -> column(m.col)
       [] m.kind = "UniquePerLength" -> column(m.perLen[Len(key)])
       [] m.kind = "FullFlat" -> Slot(m, BitMix(KeyDigest(key), m.seed))
       [] m.kind = "Linear" -> IF same = {} THEN m.n ELSE Min(same) - 1

\* key_len, find_quote: the first quote that can end a declared key, -1 if none.
KeyLen(m, buf) ==
  LET quotes == {i \in m.minLen .. Len(buf) - 1 : buf[i + 1] = QuoteByte}
  IN IF quotes = {} THEN -1 ELSE IF Min(quotes) > m.maxLen THEN -1 ELSE Min(quotes)

\* lookup: buf is from the key's first byte to the end of the document.
Lookup(m, keys, buf) ==
  CASE Reach(m) > Len(buf) -> m.n
    [] Reach(m) \in 0 .. Len(buf) -> ByFront(m, buf)
    [] Reach(m) = -1 ->
         With(KeyLen(m, buf), LAMBDA len :
           IF len = -1 THEN m.n ELSE BySize(m, keys, SubSeq(buf, 1, len)))

\* lookup_sized.
LookupSized(m, keys, key) ==
  CASE Len(key) \notin m.minLen .. m.maxLen -> m.n
    [] Len(key) \in m.minLen .. m.maxLen ->
         IF Reach(m) = -1 THEN BySize(m, keys, key) ELSE ByFront(m, key)
=============================================================================
