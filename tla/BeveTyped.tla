----------------------------- MODULE BeveTyped ------------------------------
(***************************************************************************)
(* Reading declared types from BEVE: the driving methods of Reader         *)
(* (beve/reader.rs), the impls of beve/impls.rs and ext/, and the reads    *)
(* the declaration macros generate.  A read is over the value that was     *)
(* there: members, elements and payloads it does not replace stay.         *)
(***************************************************************************)
EXTENDS BeveReader

RECURSIVE ReadType(_, _, _)

\* Reader::try_null, which takes nothing but a null.
TryNull(r) ==
  CASE Peek(r) = -1 -> Fail(r, "UnexpectedEnd")
    [] Peek(r) = NULL -> Then(HeadOf(r), LAMBDA q : Give(q, TRUE))
    [] OTHER -> Give(r, FALSE)

\* Reader::read_bool, and () of impls.rs.
ReadBool(r) ==
  Then(HeadOf(r), LAMBDA q : With(q.val, LAMBDA h :
    CASE h \in {TRUE8, FALSE8} -> Give(q, Leaf(IF h = TRUE8 THEN "true" ELSE "false", <<>>))
      [] Ty(h) = NullBool /\ h \notin {NULL, TRUE8, FALSE8} -> Fail(q, "InvalidHeader")
      [] OTHER -> Fail(q, "ExpectedBool")))
ReadUnit(r) ==
  Then(HeadOf(r), LAMBDA q : With(q.val, LAMBDA h :
    CASE h = NULL -> Give(q, Null)
      [] Ty(h) = NullBool /\ h \notin {NULL, TRUE8, FALSE8} -> Fail(q, "InvalidHeader")
      [] OTHER -> Fail(q, "ExpectedNull")))

\* Reader::read_int, then try_from: a float is refused on its header.
ReadInt(t, r) ==
  Then(HeadOf(r), LAMBDA q : With(q.val, LAMBDA h :
    CASE Ty(h) # Number -> Fail(q, "ExpectedNumber")
      [] Ty(h) = Number /\ ByteWidth(h) = 0 -> Fail(q, "InvalidHeader")
      [] Ty(h) = Number /\ ByteWidth(h) # 0 /\ Sub(h) = FloatCat -> Fail(q, "ExpectedInteger")
      [] OTHER -> Then(Take(q, ByteWidth(h)), LAMBDA b : With(LeInt(Sub(h), b.val), LAMBDA n :
                    IF Holds(t, n) THEN Give(b, IntNode(n)) ELSE Fail(b, "NumberOutOfRange")))))

\* Reader::number_body and widen: any number is an f64.
ReadFloat(r) ==
  Then(HeadOf(r), LAMBDA q : With(q.val, LAMBDA h :
    IF Ty(h) # Number THEN Fail(q, "ExpectedNumber")
    ELSE Then(Decodable(q, h), LAMBDA d : Then(Take(d, ByteWidth(h)), LAMBDA b :
           Give(b, Leaf("float", IF Sub(h) = FloatCat THEN FloatDigits(Count(h), b.val)
                                 ELSE Decimal(LeInt(Sub(h), b.val))))))))

\* Reader::read_str.
ReadStr(r) ==
  Then(HeadOf(r), LAMBDA q :
    CASE Ty(q.val) # String -> Fail(q, "ExpectedString")
      [] Ty(q.val) = String /\ ~Bare(q.val) -> Fail(q, "InvalidHeader")
      [] OTHER -> StrBody(q))

\* byte_elements: a typed array's header h says one-byte integers, u8 or i8.
ByteElements_Unsigned(r, h) ==   \* slip: an i8 is no byte
  CASE ByteWidth(h) = 0 -> Fail(r, "InvalidHeader")
    [] Sub(h) = Unsigned /\ Count(h) = 0 -> r
    [] OTHER -> Fail(r, "ExpectedBytes")
ByteElements(r, h) ==
  CASE ByteWidth(h) = 0 -> Fail(r, "InvalidHeader")
    [] Sub(h) \in {Signed, Unsigned} /\ Count(h) = 0 -> r
    [] OTHER -> Fail(r, "ExpectedBytes")

\* Reader::read_bytes: a typed array of such, plain or aligned, which is charged
\* no level and is refused where one cannot be entered.
ReadBytes(r) ==
  LET taken(q, n) ==
        Then(Take(q, n), LAMBDA b : Give(b, ListOf([k \in 1 .. n |-> IntNode(b.val[k])])))
  IN Then(HeadOf(r), LAMBDA q : With(q.val, LAMBDA h :
       CASE Ty(h) # TypedArray -> Fail(q, "ExpectedArray")
         [] Ty(h) = TypedArray /\ q.depth >= MaxDepth -> Fail(q, "ExceededMaxDepth")
         [] Ty(h) = TypedArray /\ q.depth < MaxDepth /\ Sub(h) # OtherCat ->
              Then(ByteElements(q, h), LAMBDA b : Then(CountOf(b), LAMBDA n : taken(n, n.val)))
         [] Ty(h) = TypedArray /\ q.depth < MaxDepth /\ Sub(h) = OtherCat ->
              CASE Count(h) = 2 ->
                     Then(Took(q, AlignedHead(q.s, q.pos)), LAMBDA f :
                       Then(ByteElements(f, f.val.elem), LAMBDA b : taken(b, f.val.n)))
                [] Count(h) \in {0, 1} -> Fail(q, "ExpectedBytes")
                [] OTHER -> Fail(q, "InvalidHeader")))

-----------------------------------------------------------------------------
(* Sequences.                                                              *)

\* Element i of a sequence of the type t, over the one that is there: what a
\* Vec, [T; N], a tuple, array! or a Complex reads each of its elements with.
ReadElement(t, r, i, old) ==
  LET of  == IF t.k = "tuple" THEN t.sub[i] ELSE t.sub[1]
      was == IF t.k # "complex" /\ i \in DOMAIN old.sub THEN old.sub[i][2] ELSE Default(of)
  IN CASE t.k = "tuple" /\ i > Len(t.sub) -> Fail(r, "ArrayLengthMismatch")
       [] t.k = "complex" /\ i > 2 -> Fail(r, "ExpectedComplex")
       [] OTHER -> ReadType(of, r, was)
NextElement(t, r, old) ==
  Then(ReadElement(t, r, Len(r.val) + 1, old), LAMBDA p : Give(p, Append(r.val, p.val)))

\* Reader::run: each element is read under the header the array implies for it.
RECURSIVE Run(_, _, _, _)
Run(t, r, headers, old) ==
  IF headers = <<>> THEN r
  ELSE Then(NextElement(t, Install(r, Head(headers)), old), LAMBDA p :
         Run(t, Uninstalled(p, r), Tail(headers), old))
RunAlike(t, r, n, h, old) == Run(t, Give(r, <<>>), [k \in 1 .. n |-> h], old)

\* Reader::typed: the cursor stays on packed booleans until they are all read.
DriveTyped(t, r, h, old) ==
  Then(TypedForm(r, h), LAMBDA q : With(q.val, LAMBDA f :
    CASE f.kind = "Bools" ->
           Then(Run(t, Give(q, <<>>),
                    [k \in 1 .. f.n |-> IF BitSet(SubSeq(q.s, q.pos + 1, Len(q.s)), k)
                                        THEN TRUE8 ELSE FALSE8], old), LAMBDA p :
             [p EXCEPT !.pos = q.pos + PackedBytes(f.n)])
      [] f.kind = "Strings" -> RunAlike(t, q, f.n, String, old)
      [] f.kind = "Fixed" ->
           Then(IF f.n > 0 THEN Decodable(q, f.elem) ELSE q, LAMBDA d :
             Then(Took(d, Block(f, ByteWidth(f.elem))), LAMBDA b :
               Then(Have(b, b.val.n), LAMBDA p : RunAlike(t, p, f.n, ElementOf(f.elem), old))))))

\* Reader::complex_run: numbers and nothing else, so it costs no level.
ComplexRun(t, r, old) ==
  Then(ComplexForm(r), LAMBDA q : With(q.val, LAMBDA f :
    IF f.kind = "One" THEN Fail(q, "ExpectedArray")
    ELSE Then(IF f.n > 0 THEN Decodable(q, f.elem) ELSE q, LAMBDA d :
           Then(Took(d, Block(f, 2 * ByteWidth(f.elem))), LAMBDA b :
             Then(Have(b, b.val.n), LAMBDA p : RunAlike(t, p, f.n, ComplexElement(f.elem), old))))))

\* Reader::drive: the elements of a generic array bring their own headers.
RECURSIVE DriveGeneric(_, _, _, _)
DriveGeneric(t, r, n, old) ==
  IF n = 0 THEN r ELSE Then(NextElement(t, r, old), LAMBDA p : DriveGeneric(t, p, n - 1, old))
Drive(t, r, h, old) ==
  CASE Ty(h) = GenericArray ->
         Then(CountOf(r), LAMBDA c : DriveGeneric(t, Give(c, <<>>), c.val, old))
    [] Ty(h) = TypedArray -> DriveTyped(t, r, h, old)
    [] OTHER -> Fail(r, "ExpectedArray")

\* Reader::read_seq_counted: the elements, however they are stored.
ReadSeq(t, r, old) ==
  Then(HeadOf(r), LAMBDA q : With(q.val, LAMBDA h :
    CASE r.implied = -1 /\ h = COMPLEX -> ComplexRun(t, q, old)
      [] Ty(h) = GenericArray /\ ~Bare(h) -> Fail(q, "InvalidHeader")
      [] OTHER -> Nested(q, LAMBDA p : Drive(t, p, h, old))))

\* [T; N], tuples and array!, and a Complex: exactly so many elements.
ReadExactly(t, r, old) ==
  Then(ReadSeq(t, r, old), LAMBDA q :
    CASE t.k = "tuple" /\ Len(q.val) # Len(t.sub) -> Fail(q, "ArrayLengthMismatch")
      [] t.k = "complex" /\ Len(q.val) # 2 -> Fail(q, "ExpectedComplex")
      [] OTHER -> Give(q, ListOf(q.val)))

\* Reader::block_head: what is at the cursor, where it is one block of numbers.
\* What is not, or is cut short, is left to the ordinary path to report.
Declined(r) == Fail(r, "declined")
BlockHead(r) ==
  LET h == Peek(r)
      p == [r EXCEPT !.pos = @ + 1]
      block(q, elem, n) == Give(q, [elem |-> elem, n |-> n])
  IN CASE r.implied # -1 \/ h = -1 -> Declined(r)
       [] r.implied = -1 /\ h = COMPLEX ->
            Then(ComplexForm(p), LAMBDA q :
              IF q.val.kind = "One" THEN Declined(q) ELSE block(q, ComplexElement(q.val.elem), q.val.n))
       [] r.implied = -1 /\ Ty(h) = TypedArray /\ r.depth < MaxDepth /\ Sub(h) # OtherCat ->
            Then(CountOf(p), LAMBDA q : block(q, ElementOf(h), q.val))
       [] r.implied = -1 /\ h = ALIGNED_ARRAY /\ r.depth < MaxDepth ->
            Then(Took(p, AlignedHead(p.s, p.pos)), LAMBDA q : block(q, ElementOf(q.val.elem), q.val.n))
       [] OTHER -> Declined(r)

\* What the bytes of one element of a block are.
Element(t, bytes) ==
  LET one(c, b) == IF c.k = "float" THEN Leaf("float", FloatDigits(3, b)) ELSE IntNode(LeInt(CatOf(c), b))
  IN IF t.k # "complex" THEN one(t, bytes)
     ELSE ListOf([k \in 1 .. 2 |-> one(t.sub[1], Chunks(bytes, Len(bytes) \div 2)[k])])

\* The elements a Vec is left with, of those it had and those that were read.
LeftOver_Longer(old, nodes) ==   \* slip: the vector is not truncated
  ListOf(nodes \o [k \in 1 .. Len(old.sub) - Len(nodes) |-> old.sub[Len(nodes) + k][2]])
LeftOver(old, nodes) == ListOf(nodes)

\* Vec's read: try_bulk copies a block of the type's own elements whole, by
\* read_block; anything else is wound back to and read one by one.
ReadVec(t, r, old) ==
  With(BlockHead(r), LAMBDA b :
    IF b.code = "none" /\ b.val.elem = ElementTag(t.sub[1])
    THEN LET width == ElementWidth(b.val.elem) IN
         Then(TakeBlock(b, Form(0, "Fixed", b.val.elem, b.val.n), width), LAMBDA q :
           Give(q, ListOf([k \in 1 .. b.val.n |-> Element(t.sub[1], Chunks(q.val, width)[k])])))
    ELSE Then(ReadSeq(t, Rewind([b EXCEPT !.code = "none"], r.pos), old), LAMBDA q :
           Give(q, LeftOver(old, q.val))))

-----------------------------------------------------------------------------
(* Objects.  A reader's val carries the members filled, and which were.    *)

\* The count of an object whose keys have to be names, past its header.
NamedMembers(r, h) ==
  CASE KeyWidth(h) = -1 -> Fail(r, "InvalidHeader")
    [] KeyWidth(h) > 0 -> Fail(r, "UnsupportedKeyType")
    [] OTHER -> CountOf(r)
NamedObject(r) ==
  Then(HeadOf(r), LAMBDA q :
    IF Ty(q.val) = Object THEN NamedMembers(q, q.val) ELSE Fail(q, "ExpectedObject"))

KeyBytes(r) == Then(CountOf(r), LAMBDA q : Take(q, q.val))

\* The member or variant a key is for.
Resolved(t, key) ==
  With(key, LAMBDA k : With(t.declared, LAMBDA d :
    With(LookupSized(d.map, d.keys, k), LAMBDA i : Confirmed(t, i, Chars(k)))))

\* Reader::object_member: the next member, read into the one it names.
ReadMember(t, r) ==
  Then(KeyBytes(r), LAMBDA k : With(Resolved(t, k.val), LAMBDA i :
    CASE i # 0 -> Then(ReadType(t.sub[i], k, r.val.nodes[i]), LAMBDA v :
                    Give(v, [nodes |-> [r.val.nodes EXCEPT ![i] = v.val],
                             seen  |-> r.val.seen \cup {i}]))
      [] i = 0 /\ k.o.unknown -> Fail(k, "UnknownKey")
      [] OTHER -> Then(Skip(k), LAMBDA p : Give(p, r.val))))
RECURSIVE ReadMembers(_, _, _)
ReadMembers(t, r, n) ==
  IF n = 0 THEN r ELSE Then(ReadMember(t, r), LAMBDA q : ReadMembers(t, q, n - 1))

\* Reader::take_deferred: the members in front of a late tag, of the object
\* that is open here and not of one around it.
HasDeferred(r) == r.runs # <<>> /\ Last(r.runs).depth = r.depth
WithDeferred(t, r) ==
  IF ~HasDeferred(r) THEN r
  ELSE LET run == Last(r.runs) IN
       Then(ReadMembers(t, [r EXCEPT !.runs = Front(@), !.pos = run.start], run.count), LAMBDA q :
         [q EXCEPT !.pos = r.pos])

\* Reader::rest_members.
RestMembers(t, r, remaining, nodes) ==
  Then(ReadMembers(t, Give(r, [nodes |-> nodes, seen |-> {}]), remaining), LAMBDA q :
    WithDeferred(t, q))

\* Reader::read_object_rest, a level down, over the members the value has.  The
\* fields that had to be there: Fields::MASK.
ReadObjectRest(t, r, remaining, old) ==
  LET mask == IF r.o.missing THEN DOMAIN t.sub ELSE t.required IN
  Then(Leave(RestMembers(t, r, remaining, [i \in DOMAIN t.sub |-> old.sub[i][2]])), LAMBDA q :
    IF mask \subseteq q.val.seen THEN Give(q, ObjectOf(t, q.val.nodes)) ELSE Fail(q, "MissingKey"))

\* Reader::finish_internally_tagged and unknown_member: a unit variant has no
\* members of its own, so every one is foreign.
UnknownMembers(r, remaining) == Leave(RestMembers(Unit, r, remaining, <<>>))

\* FromBeveKey: what a key of the object is to the map's key type.
MapKey(t, r, h) ==
  LET of == t.sub[2]
      ints(q, n) == IF of.k = "str" THEN Fail(q, "UnsupportedKeyType")
                    ELSE IF Holds(of, n) THEN Give(q, Decimal(n)) ELSE Fail(q, "NumberOutOfRange")
      text(q) == IF of.k = "str" THEN Give(q, Chars(q.val))
                 ELSE With(ParseIntText(of.signed, Chars(q.val)), LAMBDA n :
                        IF n # <<>> /\ (n # <<>> => Holds(of, n[1])) THEN Give(q, Decimal(n[1]))
                        ELSE Fail(q, "InvalidNumber"))
  IN IF KeyWidth(h) = 0 THEN Then(StrBody(r), text)
     ELSE Then(Take(r, KeyWidth(h)), LAMBDA q : ints(q, LeInt(Sub(h), q.val)))
ReadEntry(t, r, h) ==
  Then(MapKey(t, r, h), LAMBDA k : Then(ReadType(t.sub[1], k, Default(t.sub[1])), LAMBDA v :
    Give(v, Insert(r.val, k.val, v.val))))
RECURSIVE ReadEntries(_, _, _, _)
ReadEntries(t, r, h, n) ==
  IF n = 0 THEN r ELSE Then(ReadEntry(t, r, h), LAMBDA q : ReadEntries(t, q, h, n - 1))

\* Reader::read_map and drive_map.
ReadMap(t, r) ==
  Then(HeadOf(r), LAMBDA q : With(q.val, LAMBDA h :
    CASE Ty(h) # Object -> Fail(q, "ExpectedObject")
      [] Ty(h) = Object /\ KeyWidth(h) = -1 -> Fail(q, "InvalidHeader")
      [] OTHER -> Then(CountOf(q), LAMBDA c : Nested(c, LAMBDA p :
           Then(ReadEntries(t, Give(p, <<>>), h, c.val), LAMBDA m :
             Give(m, Node("object", <<>>, m.val)))))))

-----------------------------------------------------------------------------
(* Enums.                                                                  *)

\* read_name as it is generated.
NamedVariant(t, r) ==
  With(Resolved(t, r.val), LAMBDA i :
    CASE i = 0 -> Fail(r, "UnknownVariant")
      [] i # 0 /\ t.sub[i].k = "unit" -> Give(r, VariantOf(t, i, Null))
      [] OTHER -> Fail(r, "ExpectedObject"))

\* read_payload as it is generated: over the payload that is there, if it is of
\* the same variant.
ReadPayload(t, r, old) ==
  With(Resolved(t, r.val), LAMBDA i :
    CASE i = 0 -> Fail(r, "UnknownVariant")
      [] i # 0 /\ t.sub[i].k = "unit" ->
           Then(TryNull(r), LAMBDA n :
             IF n.val THEN Give(n, VariantOf(t, i, Null)) ELSE Fail(n, "ExpectedNull"))
      [] OTHER -> Then(ReadType(t.sub[i], r, OldPayload(t, i, old)), LAMBDA v :
                    Give(v, VariantOf(t, i, v.val))))

\* Reader::read_enum.
ReadEnum(t, r, old) ==
  Then(HeadOf(r), LAMBDA q : With(q.val, LAMBDA h :
    CASE Ty(h) = String ->
           IF Bare(h) THEN Then(StrBody(q), LAMBDA n : NamedVariant(t, n)) ELSE Fail(q, "InvalidHeader")
      [] Ty(h) = Object ->
           Then(NamedMembers(q, h), LAMBDA n :
             IF n.val # 1 THEN Fail(n, "ExpectedVariant")
             ELSE Nested(n, LAMBDA p : Then(KeyBytes(p), LAMBDA k : ReadPayload(t, k, old))))
      [] OTHER -> Fail(q, "ExpectedVariant")))

\* Where the tag is, a level down, over the members before it: with none before
\* it the object goes on, and with some they are put off.
FindTag(t, r, members) ==
  LET RECURSIVE Seek(_, _)
      Seek(q, before) ==
        IF before = members THEN Fail(q, "ExpectedTag")
        ELSE Then(KeyBytes(q), LAMBDA k :
               IF Chars(k.val) # t.tag THEN Then(Skip(k), LAMBDA p : Seek(p, before + 1))
               ELSE Give(IF before = 0 THEN k
                         ELSE [k EXCEPT !.runs = Append(@, [start |-> r.pos, count |-> before,
                                                            depth |-> r.depth])],
                         members - 1 - before))
  IN Seek(r, 0)

\* tagged_object: the variant the tag names, and the members after it.
TagNamed(t, r, members) ==
  Then(FindTag(t, r, members), LAMBDA f : Then(HeadOf(f), LAMBDA h :
    CASE Ty(h.val) # String -> Fail(h, "ExpectedTag")
      [] Ty(h.val) = String /\ ~Bare(h.val) -> Fail(h, "InvalidHeader")
      [] OTHER -> Then(StrBody(h), LAMBDA n :
                    Give(n, [variant |-> Resolved(t, n.val), after |-> f.val]))))

\* read_variant as it is generated.
ReadVariant(t, r, i, after, old) ==
  CASE i = 0 -> Fail(r, "UnknownVariant")
    [] i # 0 /\ t.sub[i].k = "unit" -> Then(UnknownMembers(r, after), LAMBDA u : Give(u, Null))
    [] OTHER -> ReadObjectRest(t.sub[i], r, after, OldPayload(t, i, old))
TaggedObject(t, r, members, old) ==
  Then(Then(Enter(r), LAMBDA e : TagNamed(t, e, members)), LAMBDA n :
    Then(ReadVariant(t, n, n.val.variant, n.val.after, old), LAMBDA v :
      Give(v, VariantOf(t, n.val.variant, v.val))))

\* Reader::read_internally_tagged: a failure puts back the level and the runs.
Restored_Level(p, q) ==   \* slip: the runs stay
  IF p.code = "none" THEN p ELSE [p EXCEPT !.depth = q.depth]
Restored(p, q) ==
  IF p.code = "none" THEN p ELSE [p EXCEPT !.depth = q.depth, !.runs = SubSeq(@, 1, Len(q.runs))]
ReadTagged(t, r, old) ==
  Then(NamedObject(r), LAMBDA q :
    IF q.val = 0 THEN Fail(q, "ExpectedTag")
    ELSE Restored(TaggedObject(t, q, q.val, old), q))

-----------------------------------------------------------------------------
(* Complex and Matrix: their extensions, or what other writers spell them. *)

\* Reader::complex_form and complex_pair; Complex's read_beve.
ComplexPair(t, r, class) ==
  Then(RunAlike(t, r, 2, ElementOf(class), Null), LAMBDA p : Give(p, ListOf(p.val)))
ReadComplexAs(t, r) ==
  LET h == Peek(r) IN
  CASE r.implied # -1 ->
         Then(HeadOf(r), LAMBDA q :
           IF Ty(q.val) = Undefined THEN ComplexPair(t, q, q.val) ELSE Fail(q, "ExpectedComplex"))
    [] r.implied = -1 /\ h = -1 -> Fail(r, "UnexpectedEnd")
    [] r.implied = -1 /\ h = COMPLEX ->
         Then(HeadOf(r), LAMBDA q : Then(ComplexForm(q), LAMBDA f :
           IF f.val.kind = "One" THEN ComplexPair(t, f, f.val.elem) ELSE Fail(f, "ExpectedComplex")))
    [] r.implied = -1 /\ h # -1 /\ Ty(h) \in {GenericArray, TypedArray} -> ReadExactly(t, r, Null)
    [] OTHER -> Then(HeadOf(r), LAMBDA q : Fail(q, "ExpectedComplex"))

Committed(r, layout, extents, data) ==
  IF Shaped(layout, extents, data) THEN Give(r, MatrixNode(layout, extents, data))
  ELSE Fail(r, "InvalidMatrixShape")

\* A matrix's extents or its data, over what it has.
ReadPart(t, r, i, was) == ReadType(IF i = 2 THEN ExtentType ELSE Vec(t.sub[1]), r, was)
ReadLayout(r) ==
  Then(ReadStr(r), LAMBDA p : With({k \in 1 .. 2 : Chars(p.val) \in Spellings[k]}, LAMBDA named :
    IF named # {} THEN Give(p, Leaf("string", Layouts[Min(named)]))
    ELSE Fail(p, "InvalidMatrixLayout")))

\* The extension: a layout byte, then the two.
MatrixExtension(t, r, old) ==
  Then(Take(r, 1), LAMBDA b :
    IF b.val[1] > 1 THEN Fail(b, "InvalidMatrixLayout")
    ELSE Then(Nested(b, LAMBDA p : Then(ReadPart(t, p, 2, old.sub[2][2]), LAMBDA x :
                Then(ReadPart(t, x, 3, old.sub[3][2]), LAMBDA d : Give(d, <<x.val, d.val>>)))), LAMBDA p :
           Committed(p, Layouts[b.val[1] + 1], p.val[1], p.val[2])))

\* The object other writers spell it as.
MatrixMember(t, r, h) ==
  Then(IF KeyWidth(h) = 0 THEN StrBody(r) ELSE Then(Take(r, KeyWidth(h)), LAMBDA b : Give(b, <<>>)),
       LAMBDA k : With(SelectInSeq(MatrixKeys, LAMBDA m : m = Chars(k.val)), LAMBDA i :
    CASE i # 0 -> Then(IF i = 1 THEN ReadLayout(k) ELSE ReadPart(t, k, i, r.val.nodes[i]), LAMBDA v :
                    Give(v, [nodes |-> [r.val.nodes EXCEPT ![i] = v.val],
                             seen  |-> r.val.seen \cup {i}]))
      [] i = 0 /\ k.o.unknown -> Fail(k, "UnknownKey")
      [] OTHER -> Then(Skip(k), LAMBDA p : Give(p, r.val))))
RECURSIVE MatrixFields(_, _, _, _)
MatrixFields(t, r, h, n) ==
  IF n = 0 THEN r ELSE Then(MatrixMember(t, r, h), LAMBDA q : MatrixFields(t, q, h, n - 1))
MatrixObject(t, r, h, old) ==
  Then(CountOf(r), LAMBDA c : Nested(c, LAMBDA p :
    MatrixFields(t, Give(p, [nodes |-> [i \in 1 .. 3 |-> old.sub[i][2]], seen |-> {}]), h, c.val)))

\* Matrix's fill_beve.
ReadMatrixAs(t, r, old) ==
  LET h == Peek(r) IN
  CASE h = -1 -> Fail(r, "UnexpectedEnd")
    [] h = MATRIX -> Then(HeadOf(r), LAMBDA q : MatrixExtension(t, q, old))
    [] h # -1 /\ Ty(h) = Object ->
         Then(HeadOf(r), LAMBDA q :
           IF KeyWidth(h) = -1 THEN Fail(q, "InvalidHeader")
           ELSE Then(MatrixObject(t, q, h, old), LAMBDA p :
                  IF p.o.missing /\ p.val.seen # 1 .. 3 THEN Fail(p, "MissingKey")
                  ELSE With(p.val.nodes, LAMBDA n :
                         IF Shaped(n[1], n[2], n[3])
                         THEN Give(p, Node("object", <<>>, [i \in 1 .. 3 |-> <<old.sub[i][1], n[i]>>]))
                         ELSE Fail(p, "InvalidMatrixShape"))))
    [] OTHER -> Then(HeadOf(r), LAMBDA q : Fail(q, "ExpectedMatrix"))

-----------------------------------------------------------------------------
\* Read::read of a type, over what is there.
ReadType(t, r, old) ==
  CASE t.k = "bool"   -> ReadBool(r)
    [] t.k = "unit"   -> ReadUnit(r)
    [] t.k = "int"    -> ReadInt(t, r)
    [] t.k = "float"  -> ReadFloat(r)
    [] t.k = "str"    -> Then(ReadStr(r), LAMBDA q : Give(q, Leaf("string", Chars(q.val))))
    [] t.k = "bytes"  -> ReadBytes(r)
    [] t.k = "value"  -> ReadValue(r)
    [] t.k = "option" ->
         Then(TryNull(r), LAMBDA q :
           IF q.val THEN Give(q, Null)
           ELSE ReadType(t.sub[1], q, IF old = Null THEN Default(t.sub[1]) ELSE old))
    [] t.k = "vec"    -> ReadVec(t, r, old)
    [] t.k = "tuple"  -> ReadExactly(t, r, old)
    [] t.k = "map"    -> ReadMap(t, r)
    [] t.k = "struct" ->
         Then(NamedObject(r), LAMBDA q : Then(Enter(q), LAMBDA p : ReadObjectRest(t, p, q.val, old)))
    [] t.k = "enum"   -> ReadEnum(t, r, old)
    [] t.k = "tagged" -> ReadTagged(t, r, old)
    [] t.k = "complex" -> ReadComplexAs(t, r)
    [] t.k = "matrix" -> ReadMatrixAs(t, r, old)

\* from_slice_with and read_into_with.
ReadOver(o, t, s, old) == Then(ReadType(t, NewReader(o, s), old), Finish)
ReadFresh(o, t, s)     == ReadOver(o, t, s, Default(t))
=============================================================================
