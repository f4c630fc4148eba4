----------------------------- MODULE JsonTyped ------------------------------
(***************************************************************************)
(* Declared types read from JSON and written as it: the driving methods of *)
(* Parser (json/parser.rs) and Writer (json/writer.rs), the impls of       *)
(* json/impls.rs over num/atoi.rs, and the reads and writes the            *)
(* declaration macros generate.  A read is over the value that was there:  *)
(* members, elements and payloads it does not replace stay.                *)
(***************************************************************************)
EXTENDS JsonParser

RECURSIVE ReadType(_, _, _)

\* Parser::rewind: never forward.  What failed has been given up.
Rewind(p, to) == [Move(p, Min({to, p.idx})) EXCEPT !.code = "none"]

\* try_null, which takes nothing but a null, and () of impls.rs.
TryNull(p) ==
  IF Peek(p) = "n" THEN Then(ExpectLit(p), LAMBDA q : Give(q, TRUE)) ELSE Give(p, FALSE)
ReadUnit(p) ==
  Then(TryNull(p), LAMBDA q : IF q.val THEN Give(q, Null) ELSE Fail(q, "ExpectedNull"))

\* read_bool and read_bool_slow.
ReadBool(p) ==
  CASE Peek(p) \in {"t", "f"} ->
         Give(Step(p), Leaf(IF Peek(p) = "t" THEN "true" ELSE "false", <<>>))
    [] Peek(p) = "T" -> Fail(p, "ExpectedTrue")
    [] Peek(p) = "EOF" -> Fail(p, "UnexpectedEnd")
    [] OTHER -> Fail(p, "UnexpectedCharacter")

-----------------------------------------------------------------------------
(* Integers: num/atoi.rs.  A number too large leaves the cursor past its   *)
(* digits; what is no number leaves it past the sign.                      *)

\* reject_float_tail and out_of_range.
FloatTail(p)  == IF Peek(p) \in {".", "e", "E"} THEN Fail(p, "InvalidNumber") ELSE p
OutOfRange(p) == Then(FloatTail(p), LAMBDA q : Fail(q, "NumberOutOfRange"))

\* parse_u64: a magnitude, which may be no more than most.
ParseU64(p, most) ==
  LET digits == DigitsAt(p.bytes, p.idx)
      past   == Move(p, p.idx + Len(digits))
  IN CASE Peek(p) = "EOF" -> Fail(p, "UnexpectedEnd")
       [] Peek(p) # "EOF" /\ digits = <<>> -> Fail(p, "ExpectedNumber")
       [] Len(digits) > 1 /\ Head(digits) = "0" -> Fail(p, "InvalidNumber")
       [] OTHER -> IF NumberOf(digits) > most THEN OutOfRange(past) ELSE Give(past, NumberOf(digits))

\* parse_i64; parse_unsigned_u64 and negative_unsigned.
Most(t, minus) ==
  CASE t.signed -> MaxSigned + (IF minus THEN 1 ELSE 0)
    [] ~t.signed -> IF minus THEN 0 ELSE MaxUnsigned
ParseInteger(t, p) ==
  IF Peek(p) = "-"
  THEN Then(ParseU64(Step(p), Most(t, TRUE)), LAMBDA q : Give(q, -q.val))
  ELSE ParseU64(p, Most(t, FALSE))

\* read_u64 and read_i64, then try_from.
ReadInt(t, p) ==
  Then(ParseInteger(t, p), LAMBDA q : Then(FloatTail(q), LAMBDA r :
    IF Holds(t, r.val) THEN Give(r, IntNode(r.val)) ELSE Fail(r, "NumberOutOfRange")))

-----------------------------------------------------------------------------
(* Sequences.                                                              *)

\* Element i of a sequence of the type t, over the one that is there.
ReadElement(t, p, i, old) ==
  LET of  == IF t.k = "tuple" THEN t.sub[i] ELSE t.sub[1]
      was == IF i \in DOMAIN old.sub THEN old.sub[i][2] ELSE Default(of)
  IN IF t.k = "tuple" /\ i > Len(t.sub) THEN Fail(p, "ArrayLengthMismatch")
     ELSE ReadType(of, p, was)

\* read_seq: a Vec is truncated to what was read.
ReadSeq(t, p, old) ==
  Then(Expect(SkipWs(p), "[", "ExpectedBracket"), LAMBDA q :
    Then(Container(q, "]", LAMBDA r, nodes :
           Then(ReadElement(t, r, Len(nodes) + 1, old), LAMBDA s : Give(s, Append(nodes, s.val)))),
         LAMBDA m : Give(m, ListOf(m.val))))

\* read_array, which tuples and array! go through, and [T; N].
ReadArray(t, p, old) ==
  Then(ReadSeq(t, p, old), LAMBDA q :
    IF Len(q.val.sub) = Len(t.sub) THEN q ELSE Fail(q, "ArrayLengthMismatch"))

\* read_map, into a map that has been cleared; FromJsonKey.
FromKey(t, p) ==
  IF t.k = "str" THEN p
  ELSE With(ParseIntText(t.signed, p.val), LAMBDA n :
         CASE n = <<>> -> Fail(p, "InvalidNumber")
           [] n # <<>> -> IF Holds(t, n[1]) THEN Give(p, Decimal(n[1])) ELSE Fail(p, "InvalidNumber"))
ReadEntry(t, p, entries) ==
  Then(ReadString(p), LAMBDA s : Then(Colon(s), LAMBDA c : Then(FromKey(t.sub[2], c), LAMBDA k :
    Then(ReadType(t.sub[1], k, Default(t.sub[1])), LAMBDA v :
      Give(v, Insert(entries, k.val, v.val))))))
ReadMap(t, p) ==
  Then(Expect(SkipWs(p), "{", "ExpectedBrace"), LAMBDA q :
    Then(Container(q, "}", LAMBDA r, entries : ReadEntry(t, r, entries)),
         LAMBDA m : Give(m, Node("object", <<>>, m.val))))

-----------------------------------------------------------------------------
(* Objects.  A parser's val carries the members filled, and which were.    *)

\* The name the bytes at the cursor are, and the cursor past its quote:
\* match_key, which compares them as they are, escapes and all.
NameEnd(p)    == FirstFrom(p.bytes, p.idx, LAMBDA x : x = Quote)
NameAt(p)     == SubSeq(p.bytes, p.idx + 1, NameEnd(p))
PastName(p)   == Move(p, NameEnd(p) + 1)
Rest(p)       == BytesOf(SubSeq(p.bytes, p.idx + 1, Len(p.bytes)))
Claimed(t, p) ==
  IF NameEnd(p) = Len(p.bytes) THEN 0
  ELSE With(t.declared, LAMBDA d : With(Rest(p), LAMBDA buf :
         With(Lookup(d.map, d.keys, buf), LAMBDA i : Confirmed(t, i, NameAt(p)))))

\* unknown_key: a key cut short is not unknown.
UnknownKey(p) == Then(WalkString(p, FALSE), LAMBDA q : Fail(Move(q, p.idx), "UnknownKey"))

SkipUnknownMember(p) ==
  Then(WalkString(p, FALSE), LAMBDA q : Then(Colon(q), LAMBDA r : WalkValue(r, FALSE)))

\* object_member over read_field, and a member nothing claims.
ObjectMember(t, p) ==
  Then(Expect(p, Quote, "ExpectedQuote"), LAMBDA q : With(Claimed(t, q), LAMBDA i :
    CASE i # 0 ->
           Then(Colon(PastName(q)), LAMBDA c : Then(ReadType(t.sub[i], c, p.val.nodes[i]), LAMBDA v :
             Give(v, [nodes |-> [p.val.nodes EXCEPT ![i] = v.val], seen |-> p.val.seen \cup {i}])))
      [] i = 0 /\ q.unknown -> UnknownKey(q)
      [] OTHER -> Then(SkipUnknownMember(q), LAMBDA r : Give(r, p.val))))

\* object_members.
RECURSIVE ObjectMembers(_, _)
ObjectMembers(t, p) ==
  Then(ObjectMember(t, p), LAMBDA q : Then(CommaOrClose(q, "}"), LAMBDA c :
    IF c.val THEN ObjectMembers(t, Give(c, q.val)) ELSE Give(c, q.val)))

\* take_deferred, deferred_members: the members in front of a late tag, of the
\* object that ends here and not of one around it.
HasDeferred(p) == p.runs # <<>> /\ Last(p.runs).depth = p.depth
RECURSIVE DeferredMembers(_, _, _)
DeferredMembers(t, p, end) ==
  IF p.idx = end THEN p
  ELSE Then(ObjectMember(t, p), LAMBDA q : Then(CommaOrClose(q, "}"), LAMBDA c :
         IF c.val THEN DeferredMembers(t, Give(c, q.val), end) ELSE Fail(c, "ExpectedTag")))
WithDeferred(t, p) ==
  IF ~HasDeferred(p) THEN p
  ELSE LET run == Last(p.runs) IN
       Then(DeferredMembers(t, [p EXCEPT !.runs = Front(@), !.idx = run.start], run.end), LAMBDA q :
         Move(q, p.idx))

\* require_fields, Fields::MASK: the object is what is incomplete.
RequireFields(t, p, open) ==
  LET mask == IF p.missing THEN DOMAIN t.sub ELSE t.required IN
  IF mask \subseteq p.val.seen THEN Give(p, ObjectOf(t, p.val.nodes))
  ELSE Fail(Move(p, open), "MissingKey")

Unfilled(t, old) == [nodes |-> [i \in DOMAIN t.sub |-> old.sub[i][2]], seen |-> {}]

\* read_object.
ReadObject(t, p, old) ==
  LET open == SkipWs(p).idx IN
  Then(Expect(SkipWs(p), "{", "ExpectedBrace"), LAMBDA q :
    Then(Nested(q, LAMBDA r : With(Give(SkipWs(r), Unfilled(t, old)), LAMBDA s :
           IF Peek(s) = "}" THEN Step(s) ELSE ObjectMembers(t, s))),
         LAMBDA m : RequireFields(t, m, open)))

\* rest_members: what is left of an object once its tag has been taken.
RestMembers(t, p, old) ==
  Then(CommaOrClose(p, "}"), LAMBDA c : With(Give(c, Unfilled(t, old)), LAMBDA q :
    Then(IF c.val THEN ObjectMembers(t, q) ELSE q, LAMBDA m : WithDeferred(t, m))))

\* read_object_rest; finish_internally_tagged and unknown_members, nothing
\* claiming any of them.  The level is left whether or not the members read.
ReadObjectRest(t, p, open, old) ==
  Then(Leave(RestMembers(t, p, old)), LAMBDA q : RequireFields(t, q, open))
UnknownMembers(p) == Leave(RestMembers(Unit, p, Null))

-----------------------------------------------------------------------------
(* Enums.                                                                  *)

\* dispatch_variant, where nothing claims the name.
NoVariant(p) == Then(WalkString(p, FALSE), LAMBDA q : Fail(Move(q, p.idx), "UnknownVariant"))

\* read_name as it is generated.
ReadName(t, p) ==
  With(Claimed(t, p), LAMBDA i :
    CASE i = 0 -> NoVariant(p)
      [] i # 0 /\ t.sub[i].k = "unit" -> Give(PastName(p), VariantOf(t, i, Null))
      [] OTHER -> Fail(PastName(p), "ExpectedBrace"))

\* read_payload as it is generated.
ReadPayload(t, p, old) ==
  With(Claimed(t, p), LAMBDA i :
    CASE i = 0 -> NoVariant(p)
      [] i # 0 /\ t.sub[i].k = "unit" ->
           Then(Colon(PastName(p)), LAMBDA c : Then(ReadUnit(c), LAMBDA v :
             Give(v, VariantOf(t, i, Null))))
      [] OTHER ->
           Then(Colon(PastName(p)), LAMBDA c :
             Then(ReadType(t.sub[i], c, OldPayload(t, i, old)), LAMBDA v :
               Give(v, VariantOf(t, i, v.val)))))

\* read_enum: a name, or an object whose one member is the variant.
OnlyMember(t, p, open, old) ==
  LET several(q) == Fail(Move(q, open), "ExpectedVariant") IN
  IF Peek(p) = "}" THEN several(p)
  ELSE Then(Expect(p, Quote, "ExpectedQuote"), LAMBDA q : Then(ReadPayload(t, q, old), LAMBDA v :
         Then(CommaOrClose(v, "}"), LAMBDA c : IF c.val THEN several(c) ELSE Give(c, v.val))))
ReadEnum(t, p, old) ==
  With(SkipWs(p), LAMBDA q :
    CASE Peek(q) = Quote -> ReadName(t, Step(q))
      [] Peek(q) = "{" -> Nested(Step(q), LAMBDA r : OnlyMember(t, SkipWs(r), q.idx, old))
      [] Peek(q) = "EOF" -> Fail(q, "UnexpectedEnd")
      [] OTHER -> Fail(q, "ExpectedVariant"))

\* tagged_object's match of its first key, and find_late_tag: past the tag's
\* key, with the members in front of it put off.
RECURSIVE FindTag(_, _, _)
FindTag(t, p, first) ==
  Then(Expect(p, Quote, "ExpectedQuote"), LAMBDA q :
    CASE NameEnd(q) < Len(q.bytes) /\ NameAt(q) = t.tag ->
           IF p.idx = first THEN PastName(q)
           ELSE [PastName(q) EXCEPT !.runs = Append(@, [start |-> first, end |-> p.idx, depth |-> p.depth])]
      [] OTHER ->
           Then(SkipUnknownMember(q), LAMBDA r : Then(CommaOrClose(r, "}"), LAMBDA c :
             IF c.val THEN FindTag(t, c, first) ELSE Fail(Move(c, first), "ExpectedTag"))))

\* read_variant as it is generated, the cursor inside the quote of the name.
ReadVariant(t, p, open, old) ==
  With(Claimed(t, p), LAMBDA i :
    CASE i = 0 -> NoVariant(p)
      [] i # 0 /\ t.sub[i].k = "unit" ->
           Then(UnknownMembers(PastName(p)), LAMBDA v : Give(v, VariantOf(t, i, Null)))
      [] OTHER ->
           Then(ReadObjectRest(t.sub[i], PastName(p), open, OldPayload(t, i, old)), LAMBDA v :
             Give(v, VariantOf(t, i, v.val))))

\* tagged_object.
TaggedObject(t, p, open, old) ==
  Then(Enter(p), LAMBDA e : With(SkipWs(e), LAMBDA q :
    IF Peek(q) = "}" THEN Fail(Move(q, open), "ExpectedTag")
    ELSE Then(FindTag(t, q, q.idx), LAMBDA f : Then(Colon(f), LAMBDA c :
           CASE Peek(c) = Quote -> ReadVariant(t, Step(c), open, old)
             [] Peek(c) = "EOF" -> Fail(c, "UnexpectedEnd")
             [] OTHER -> Fail(Move(c, q.idx), "ExpectedTag")))))

\* read_internally_tagged: a failure puts back the level and the runs.
Restored_Level(p, q) ==   \* slip: the runs stay
  IF p.code = "none" THEN p ELSE [p EXCEPT !.depth = q.depth]
Restored(p, q) ==
  IF p.code = "none" THEN p ELSE [p EXCEPT !.depth = q.depth, !.runs = SubSeq(@, 1, Len(q.runs))]
ReadTagged(t, p, old) ==
  LET open == SkipWs(p).idx IN
  Then(Expect(SkipWs(p), "{", "ExpectedBrace"), LAMBDA q :
    Restored(TaggedObject(t, q, open, old), q))

-----------------------------------------------------------------------------
\* A program's own Read that tries one type and, when that fails, winds back
\* and tries another.
ReadEither(t, p) ==
  With(ReadType(t.sub[1], p, Default(t.sub[1])), LAMBDA q :
    IF q.code = "none" THEN q ELSE ReadType(t.sub[2], Rewind(q, p.idx), Default(t.sub[2])))

\* Option's read: over the payload that is there.
ReadOption(t, p, old) ==
  Then(TryNull(p), LAMBDA q :
    IF q.val THEN Give(q, Null)
    ELSE ReadType(t.sub[1], q, IF old = Null THEN Default(t.sub[1]) ELSE old))

\* Read::read of a type, over what is there.
ReadType(t, p, old) ==
  CASE t.k = "bool"   -> ReadBool(p)
    [] t.k = "unit"   -> ReadUnit(p)
    [] t.k = "int"    -> ReadInt(t, p)
    [] t.k = "str"    -> Then(ReadString(p), LAMBDA q : Give(q, Leaf("string", q.val)))
    [] t.k = "value"  -> ReadValue(p)
    [] t.k = "option" -> ReadOption(t, p, old)
    [] t.k = "vec"    -> ReadSeq(t, p, old)
    [] t.k = "tuple"  -> ReadArray(t, p, old)
    [] t.k = "map"    -> ReadMap(t, p)
    [] t.k = "struct" -> ReadObject(t, p, old)
    [] t.k = "enum"   -> ReadEnum(t, p, old)
    [] t.k = "tagged" -> ReadTagged(t, p, old)
    [] t.k = "either" -> ReadEither(t, p)

\* from_str_with and read_into_with, under the read policy o.
ReadOver(o, t, b, old) ==
  Then(ReadType(t, [SkipWs(NewParser(b, o.comments)) EXCEPT !.unknown = o.unknown, !.missing = o.missing], old),
       Finish)
ReadFresh(o, t, b) == ReadOver(o, t, b, Default(t))

-----------------------------------------------------------------------------
(* Writing.                                                                *)

\* The key of a member: key of writer.rs, over a name that needs no escape.
PutKey(o, w, name) == PutColon(o, Put(Line(o, w), Quoted(name)))

RECURSIVE WriteType(_, _, _, _)

\* write_fields, over member: one that holds nothing may be left out.
WriteFields(o, w, t, node) ==
  FoldLeft(LAMBDA v, i :
             IF o.skipNull /\ node.sub[i][2].kind = "null" THEN v
             ELSE Put(WriteType(o, PutKey(o, v, Primary(t, i)), t.sub[i], node.sub[i][2]), <<Comma>>),
           w, [i \in DOMAIN t.sub |-> i])

\* write_tagged, which leaves nothing out.
WriteTagged(o, w, key, t, node) ==
  Close(o, Put(WriteType(o, PutKey(o, Open(o, w, "{"), key), t, node), <<Comma>>), "}")

\* write_internally_tagged.
WriteInternallyTagged(o, w, t, i, payload) ==
  Close(o, WriteFields(o, Put(Put(PutKey(o, Open(o, w, "{"), t.tag), Quoted(Primary(t, i))), <<Comma>>),
                       t.sub[i], payload), "}")

\* write_seq, write_array and write_keyed.
WriteSeq(o, w, t, node) ==
  Close(o, FoldLeft(LAMBDA v, k :
                      Put(WriteType(o, Item(o, v), IF t.k = "tuple" THEN t.sub[k] ELSE t.sub[1],
                                    node.sub[k][2]), <<Comma>>),
                    Open(o, w, "["), [k \in DOMAIN node.sub |-> k]), "]")
WriteKeyed(o, w, t, node) ==
  Close(o, FoldLeft(LAMBDA v, m : Put(WriteType(o, PutKey(o, v, m[1]), t.sub[1], m[2]), <<Comma>>),
                    Open(o, w, "{"), node.sub), "}")

\* Write::write of a type, an enum's over __write_variant and
\* __write_internal_variant.
WriteType(o, w, t, node) ==
  LET i == CHOOSE v \in DOMAIN t.sub : IsVariant(t, v, node) IN
  CASE t.k \in {"bool", "unit", "int", "str", "value"} -> WriteValue(o, w, node)
    [] t.k = "option" ->
         IF node = Null THEN WriteValue(o, w, node) ELSE WriteType(o, w, t.sub[1], node)
    [] t.k \in {"vec", "tuple"} -> WriteSeq(o, w, t, node)
    [] t.k = "either" -> WriteValue(o, w, node)
    [] t.k = "map"    -> WriteKeyed(o, w, t, node)
    [] t.k = "struct" -> Close(o, WriteFields(o, Open(o, w, "{"), t, node), "}")
    [] t.k = "enum" /\ t.sub[i].k = "unit" -> Put(w, Quoted(Primary(t, i)))
    [] t.k = "enum" /\ t.sub[i].k # "unit" ->
         WriteTagged(o, w, Primary(t, i), t.sub[i], PayloadOf(t, node))
    [] t.k = "tagged" /\ t.sub[i].k = "unit" ->
         WriteTagged(o, w, t.tag, Str, Leaf("string", Primary(t, i)))
    [] t.k = "tagged" /\ t.sub[i].k # "unit" ->
         WriteInternallyTagged(o, w, t, i, PayloadOf(t, node))
=============================================================================
