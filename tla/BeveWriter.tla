----------------------------- MODULE BeveWriter -----------------------------
(***************************************************************************)
(* The BEVE writer: beve/writer.rs, and what the impls of beve/impls.rs    *)
(* and the declarations have it write.                                     *)
(*                                                                         *)
(* What a value writes is a sequence of pieces, each one call that asks    *)
(* the buffer for room: its bytes, and n, the room asked for before they   *)
(* are stored.  A piece by "raw" asks for its own length, and may go past  *)
(* the buffer.  A piece by "pad" has no bytes until the offset it falls on *)
(* is known; its n is the width to align to.                               *)
(***************************************************************************)
EXTENDS BeveReader

Piece(by, bytes, n) == <<[by |-> by, bytes |-> bytes, n |-> n]>>
Store(bytes) == Piece("store", bytes, Len(bytes))   \* push, write_number, write_complex
Raw(bytes)   == Piece("raw", bytes, 0)
Pad(width)   == Piece("pad", <<>>, width)

\* header::encode_size, and Writer::size, which has room for the widest.
SizeLen(n) == CASE n < 64 -> 1
                [] n >= 64 /\ n < 16384 -> 2
                [] OTHER -> 4
EncodeSize(n) ==
  [k \in 1 .. SizeLen(n) |->
     IF k = 1 THEN (n % 64) * 4 + SizeLen(n) \div 2 ELSE (n \div (64 * 256 ^ (k - 2))) % 256]
Size(n) == Piece("store", EncodeSize(n), 8)

\* to_le_bytes: past the bytes an integer has here its sign goes on.
LeBytes(n, width) ==
  [k \in 1 .. width |-> IF k > 4 THEN IF n < 0 THEN 255 ELSE 0
                        ELSE (n \div 256 ^ (k - 1)) % 256]

-----------------------------------------------------------------------------
(* Arrays.                                                                 *)

\* Write::ARRAY: what an array of the type begins with, nothing where it is a
\* generic one.  An enum of names alone is a unit_enum!.
UnitEnum(t) == t.k = "enum" /\ \A i \in DOMAIN t.sub : t.sub[i].k = "unit"
ArrayPrefix(t) ==
  CASE t.k = "bool" -> <<TypedArray + 8 * OtherCat>>
    [] t.k = "str" \/ UnitEnum(t) -> <<TypedArray + 8 * OtherCat + 32>>
    [] t.k \in {"int", "float"} -> <<ElementTag(t) - Number + TypedArray>>
    [] t.k = "complex" -> <<COMPLEX, ElementTag(t) - Undefined + 1>>   \* COMPLEX_MANY
    [] OTHER -> <<>>

\* padded_width, -1 for none: of a typed array, and of more than one byte.
PaddedWidth(h) == IF Ty(h) = TypedArray /\ ByteWidth(h) > 1 THEN ByteWidth(h) ELSE -1

\* begin_generic_array, begin_typed_array, begin_aligned_array, begin_array.
BeginGenericArray(n) == Store(<<GenericArray>>) \o Size(n)
BeginAlignedArray(h, n) ==
  Store(<<ALIGNED_ARRAY>>) \o Store(<<h>>) \o Size(n) \o Pad(ByteWidth(h))
BeginTypedArray(aligned, h, n) ==
  IF aligned /\ PaddedWidth(h) # -1 THEN BeginAlignedArray(h, n) ELSE Store(<<h>>) \o Size(n)
BeginArray(aligned, prefix, n) ==
  LET class == Last(prefix)
      components == class - Ty(class) + TypedArray
  IN CASE Len(prefix) = 1 -> BeginTypedArray(aligned, prefix[1], n)
       [] Len(prefix) = 2 /\ aligned /\ PaddedWidth(components) # -1 ->
            Store(<<COMPLEX>>) \o Store(<<class + 1>>)   \* COMPLEX_ALIGNED
              \o BeginAlignedArray(components, 2 * n)
       [] OTHER -> Raw(prefix) \o Size(n)

\* write_str_body.
StrPieces(bytes) == Size(Len(bytes)) \o Raw(bytes)

\* The bytes of a number, or of both parts of a complex one.
ElementBytes(t, node) ==
  IF t.k # "complex" THEN LeBytes(IntOf(node), t.width)
  ELSE FlattenSeq([k \in 1 .. 2 |-> LeBytes(IntOf(node.sub[k][2]), t.sub[1].width)])

\* Write::write_payload: packed, or one after another, or one block.
Payload(t, nodes) ==
  LET bit(k) == IF k <= Len(nodes) THEN IF nodes[k].kind = "true" THEN 1 ELSE 0 ELSE 0
      packed(k) == FoldLeft(LAMBDA n, j : n + bit(8 * (k - 1) + j + 1) * 2 ^ j, 0,
                            [j \in 1 .. 8 |-> j - 1])
  IN CASE t.k = "bool" -> FlattenSeq([k \in 1 .. PackedBytes(Len(nodes)) |-> Store(<<packed(k)>>)])
       [] t.k \in {"str", "enum"} ->
            FlattenSeq([k \in DOMAIN nodes |-> StrPieces(BytesOf(nodes[k].text))])
       [] OTHER -> Raw(FlattenSeq([k \in DOMAIN nodes |-> ElementBytes(t, nodes[k])]))

\* matrix.rs write_extents: the narrowest width that holds them all, of those
\* an integer here can need.
WriteExtents(aligned, nodes) ==
  LET largest == Max({0} \cup {IntOf(nodes[k]) : k \in DOMAIN nodes})
      width   == CASE largest < 256 -> 1 [] largest \in 256 .. 65535 -> 2 [] OTHER -> 4
  IN BeginTypedArray(aligned, TypedArray + 8 * Unsigned + 32 * CodeFor(width), Len(nodes))
       \o FlattenSeq([k \in DOMAIN nodes |-> Raw(LeBytes(IntOf(nodes[k]), width))])

-----------------------------------------------------------------------------
(* Values.  o is the policy: skipNull of Options, and Writer::aligned.     *)

Written(o, node) == ~(o.skipNull /\ node.kind = "null")   \* is_null

\* count_fields, which is kept apart from the members it counts.
CountFields_All(o, node) == Len(node.sub)   \* slip: those left out are counted
CountFields(o, node) == Cardinality({k \in DOMAIN node.sub : Written(o, node.sub[k][2])})

\* The tag or the member's key, encoded when the program was compiled.
Key(name) == Raw(EncodeSize(Len(name)) \o BytesOf(name))

RECURSIVE Pieces(_, _, _)
Pieces(o, t, node) ==
  LET each(type) == FlattenSeq([k \in DOMAIN node.sub |-> Pieces(o, type, node.sub[k][2])])
      slice(elem, items) ==       \* write_slice
        IF ArrayPrefix(elem) = <<>>
        THEN BeginGenericArray(Len(items))
               \o FlattenSeq([k \in DOMAIN items |-> Pieces(o, elem, items[k])])
        ELSE BeginArray(o.aligned, ArrayPrefix(elem), Len(items)) \o Payload(elem, items)
      fields(struct, of) ==       \* write_fields, over member
        FlattenSeq([i \in DOMAIN struct.sub |->
          IF Written(o, of.sub[i][2])
          THEN Key(Primary(struct, i)) \o Pieces(o, struct.sub[i], of.sub[i][2]) ELSE <<>>])
      object(n) == Store(<<Object>>) \o Size(n)
      string(bytes) == Store(<<String>>) \o StrPieces(bytes)
      keyed(key(_), value, h) ==  \* write_keyed
        Store(<<h>>) \o Size(Len(node.sub))
          \o FlattenSeq([k \in DOMAIN node.sub |->
               key(node.sub[k][1]) \o Pieces(o, value, node.sub[k][2])])
      strKey(text) == StrPieces(BytesOf(text))
      intKey(text) == Raw(LeBytes(IntOf(Leaf("unsigned", text)), t.sub[2].width))
      i == CHOOSE v \in DOMAIN t.sub : IsVariant(t, v, node)
  IN CASE node.kind = "null" -> Store(<<NULL>>)
       [] t.k = "bool" -> Store(<<IF node.kind = "true" THEN TRUE8 ELSE FALSE8>>)
       [] t.k = "int" -> Store(<<ElementTag(t)>> \o ElementBytes(t, node))
       [] t.k = "str" -> string(BytesOf(node.text))
       [] t.k = "option" /\ node.kind # "null" -> Pieces(o, t.sub[1], node)
       [] t.k = "vec" -> slice(t.sub[1], SubOf(node))
       [] t.k = "bytes" -> slice(Integer(FALSE, 1), SubOf(node))
       [] t.k = "tuple" ->
            BeginGenericArray(Len(t.sub))
              \o FlattenSeq([k \in DOMAIN t.sub |-> Pieces(o, t.sub[k], node.sub[k][2])])
       [] t.k = "map" /\ t.sub[2].k = "str" -> keyed(strKey, t.sub[1], Object)
       [] t.k = "map" /\ t.sub[2].k = "int" ->
            keyed(intKey, t.sub[1], Object + 8 * CatOf(t.sub[2]) + 32 * CodeFor(t.sub[2].width))
       [] t.k = "struct" -> object(CountFields(o, node)) \o fields(t, node)
       [] t.k = "enum" /\ t.sub[i].k = "unit" -> string(BytesOf(node.text))
       [] t.k = "enum" /\ t.sub[i].k # "unit" ->          \* write_tagged
            object(1) \o Key(Primary(t, i)) \o Pieces(o, t.sub[i], PayloadOf(t, node))
       [] t.k = "tagged" /\ t.sub[i].k = "unit" ->
            object(1) \o Key(t.tag) \o string(BytesOf(Primary(t, i)))
       [] t.k = "tagged" /\ t.sub[i].k # "unit" ->        \* write_internally_tagged
            object(CountFields(o, PayloadOf(t, node)) + 1) \o Key(t.tag)
              \o string(BytesOf(Primary(t, i))) \o fields(t.sub[i], PayloadOf(t, node))
       [] t.k = "complex" -> Store(<<COMPLEX, ElementTag(t) - Undefined>> \o ElementBytes(t, node))
       [] t.k = "matrix" ->
            Store(<<MATRIX>>)
              \o Store(<<IF node.sub[1][2].text = Layouts[1] THEN 0 ELSE 1>>)
              \o WriteExtents(o.aligned, SubOf(node.sub[2][2]))
              \o slice(t.sub[1], SubOf(node.sub[3][2]))
       [] t.k = "value" /\ node.kind \in {"true", "false"} -> Pieces(o, Bool, node)
       [] t.k = "value" /\ node.kind = "unsigned" -> Pieces(o, Integer(FALSE, 8), node)
       [] t.k = "value" /\ node.kind = "negative" -> Pieces(o, Integer(TRUE, 8), node)
       [] t.k = "value" /\ node.kind = "string" -> Pieces(o, Str, node)
       [] t.k = "value" /\ node.kind = "array" -> BeginGenericArray(Len(node.sub)) \o each(t)
       [] t.k = "value" /\ node.kind = "object" -> keyed(strKey, t, Object)

-----------------------------------------------------------------------------
(* The buffer and the sink.                                                *)

Unlimited == 1000   \* usize::MAX, more than any buffer holds here

\* failure says which write_all of the sink fails, 0 for none, and how much of
\* what it was given goes through first.
NewWriter(buf, cap, threshold, sink, failure) ==
  [buf |-> buf, cap |-> cap, limit |-> Min({cap, threshold}), threshold |-> threshold,
   origin |-> 0, skip |-> 0, sink |-> sink, failure |-> failure, sent |-> <<>>, calls |-> 0,
   err |-> FALSE,
   sound |-> TRUE]   \* history: every unchecked store was inside the allocation

\* to_sink_with_capacity; appending, and by an empty buffer new and from_vec.
ToSink(capacity, failure) ==
  LET cap == Max({capacity, 1}) IN NewWriter(<<>>, cap, cap, TRUE, failure)
Appending(buf, cap) == NewWriter(buf, cap, Unlimited, FALSE, [at |-> 0, taken |-> 0])

\* Writer::at, and offset.
AtOffset(w, offset) ==
  IF offset >= Len(w.buf) THEN [w EXCEPT !.origin = offset - Len(w.buf), !.skip = 0]
  ELSE [w EXCEPT !.origin = 0, !.skip = Len(w.buf) - offset]
Offset(w) == w.origin + Len(w.buf) - w.skip

\* The sink is asked for nothing once it has failed.
WriteAll(w, bytes) ==
  CASE w.err -> w
    [] ~w.err /\ w.calls + 1 = w.failure.at ->
         [w EXCEPT !.calls = @ + 1, !.err = TRUE,
                   !.sent = @ \o SubSeq(bytes, 1, Min({w.failure.taken, Len(bytes) - 1}))]
    [] OTHER -> [w EXCEPT !.calls = @ + 1, !.sent = @ \o bytes]

\* drain: what the sink refuses is discarded, and counted.
Drain(w) ==
  IF w.buf = <<>> \/ ~w.sink THEN w
  ELSE [WriteAll(w, w.buf) EXCEPT !.origin = @ + Len(w.buf), !.buf = <<>>]

\* room and spill.  reserve may give more than it is asked for; the least is
\* what the stores have to do with.
Spill(w, n) ==
  With(Drain(w), LAMBDA d :
    With(Max({d.cap, Len(d.buf) + n}), LAMBDA cap :
      [d EXCEPT !.cap = cap, !.limit = Min({cap, d.threshold})]))
Room(w, n) == IF Len(w.buf) + n > w.limit THEN Spill(w, n) ELSE w

\* A store of some bytes to the end of the buffer, reaching as far as it asked.
Stored(w, bytes, reach) ==
  [w EXCEPT !.buf = @ \o bytes, !.sound = @ /\ Len(w.buf) + reach <= w.cap]

\* raw, over hand_over: a block at least as long as the sink's buffer is not
\* copied into it, and leaves after what is there.
HandedOver_Early(w, bytes) ==   \* slip: it leaves before what is there
  [WriteAll(w, bytes) EXCEPT !.origin = @ + Len(bytes)]
HandedOver(w, bytes) ==
  With(Drain(w), LAMBDA d : [WriteAll(d, bytes) EXCEPT !.origin = @ + Len(bytes)])
PutRaw(w, bytes) ==
  CASE Len(w.buf) + Len(bytes) <= w.limit -> Stored(w, bytes, Len(bytes))
    [] Len(w.buf) + Len(bytes) > w.limit /\ Len(bytes) >= w.threshold /\ w.sink ->
         HandedOver(w, bytes)
    [] OTHER -> Stored(Spill(w, Len(bytes)), bytes, Len(bytes))

\* The padding of begin_aligned_array: its length, then that many zeros, after
\* which the offset is a multiple of the width.
Padding(offset, width) ==
  LET pad == width - 1 - (offset % width) IN <<pad>> \o [k \in 1 .. pad |-> 0]

PutPiece(w, p) ==
  CASE p.by = "raw"   -> PutRaw(w, p.bytes)
    [] p.by = "store" -> Stored(Room(w, p.n), p.bytes, p.n)
    [] p.by = "pad"   -> Stored(Room(w, 16), Padding(Offset(w), p.n), 16)

\* A writer under Measured, which stores nothing: measuring and measured.
MeasuredAfter(pieces, prefix) ==
  FoldLeft(LAMBDA n, p : n + Len(IF p.by = "pad" THEN Padding(n, p.n) ELSE p.bytes),
           prefix, pieces) - prefix

\* finish: the tail, and the first error there was.
Finished(w) ==
  IF ~w.sink THEN w
  ELSE [IF w.buf = <<>> THEN w ELSE WriteAll(w, w.buf) EXCEPT !.buf = <<>>]
=============================================================================
