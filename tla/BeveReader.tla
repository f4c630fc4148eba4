----------------------------- MODULE BeveReader -----------------------------
(***************************************************************************)
(* The read cursor over one BEVE document: beve/reader.rs, what its walks  *)
(* are made of.  A reader is a record; a method returns the reader it      *)
(* leaves, with the failure in code and what it found in val.  Where a     *)
(* failed read leaves the cursor is not modelled.  On it, a Value read     *)
(* from BEVE: read_body of value.rs and the functions under it.  That is   *)
(* one of two walks that say what a document holds: BeveTranscode is the   *)
(* other, and is written apart from it as the code writes it.              *)
(***************************************************************************)
EXTENDS BeveSkip, Values

\* Reader::with_options, under the read policy o: are unknown keys errors, and
\* missing ones?  implied is the installed header the next read takes, installed
\* the offset and header a rewind puts back; neither is there at -1.
Standard == [unknown |-> TRUE, missing |-> FALSE]
NewReader(o, s) ==
  [s |-> s, o |-> o, pos |-> 0, depth |-> 0, implied |-> -1, installed |-> <<-1, -1>>,
   runs |-> <<>>, code |-> "none", val |-> 0]

Fail(r, code) == [r EXCEPT !.code = code]
Give(r, v)    == [r EXCEPT !.val = v]

\* What the preamble walks find at the cursor.
Took(r, g) == IF g.code = "none" THEN [r EXCEPT !.pos = g.pos, !.val = g] ELSE Fail(r, g.code)

HeadOf(r) ==
  IF r.implied # -1 THEN Give([r EXCEPT !.implied = -1], r.implied)
  ELSE Then(Took(r, ByteAt(r.s, r.pos)), LAMBDA q : Give(q, q.val.n))

\* Reader::peek, -1 past the end.
Peek(r) == CASE r.implied # -1 -> r.implied
             [] r.implied = -1 /\ r.pos < Len(r.s) -> At(r.s, r.pos)
             [] OTHER -> -1

CountOf(r) == Then(Took(r, CountAt(r.s, r.pos)), LAMBDA q : Give(q, q.val.n))

\* Reader::have and take.
Have(r, n) == IF r.pos + n > Len(r.s) THEN Fail(r, "UnexpectedEnd") ELSE r
Take(r, n) ==
  Then(Have(r, n), LAMBDA q :
    Give([q EXCEPT !.pos = @ + n], SubSeq(q.s, q.pos + 1, q.pos + n)))

\* Reader::str_body and str_text.
StrBody(r) ==
  Then(CountOf(r), LAMBDA q : Then(Take(q, q.val), LAMBDA t :
    IF IsUtf8(t.val) THEN t ELSE Fail(t, "InvalidUtf8")))

\* Reader::enter, leave and nested: the level is left however the body ends.
Enter(r) == IF r.depth >= MaxDepth THEN Fail(r, "ExceededMaxDepth") ELSE [r EXCEPT !.depth = @ + 1]
Leave(r) == [r EXCEPT !.depth = @ - 1]
Nested(r, body(_)) ==
  IF r.depth >= MaxDepth THEN Enter(r) ELSE Leave(body(Enter(r)))

\* n reads one after another, each given what was read before it.
Repeated(r, n, acc, one(_, _)) ==
  LET RECURSIVE Rest(_, _)
      Rest(q, k) == IF k = 0 THEN q ELSE Then(one(q, q.val), LAMBDA p : Rest(p, k - 1))
  IN Rest(Give(r, acc), n)

\* The typed_head, complex_head and block walks of BevePreamble at the cursor.
TypedForm(r, h) == Took(r, TypedHead(r.s, r.pos, h))
ComplexForm(r)  == Took(r, ComplexHead(r.s, r.pos))
TakeBlock(r, f, width) ==
  Then(Took(r, Block([f EXCEPT !.pos = r.pos], width)), LAMBDA q : Take(q, q.val.n))

Chunks(bytes, width) ==
  [k \in 1 .. Len(bytes) \div width |-> SubSeq(bytes, (k - 1) * width + 1, k * width)]
BitSet(bytes, k) == (bytes[(k - 1) \div 8 + 1] \div 2 ^ ((k - 1) % 8)) % 2 = 1   \* of the kth boolean

\* Reader::skip_value over whatever is at the cursor, and validate_value: a
\* complex element's installed header stands for its two components.
Stepped(r, walk(_, _, _)) ==
  LET h == r.implied
      q == [r EXCEPT !.implied = -1]
      headed == SubSeq(r.s, 1, r.pos) \o <<h>> \o SubSeq(r.s, r.pos + 1, Len(r.s))
      back(g) == IF g.code = "none" THEN [q EXCEPT !.pos = g.pos - 1] ELSE Fail(q, g.code)
  IN CASE h = -1 -> Took(r, walk(r.s, r.pos, r.depth))
       [] h # -1 /\ Ty(h) = Undefined -> Took(q, DropBytes(r.s, r.pos, ElementWidth(h)))
       [] OTHER -> back(walk(headed, r.pos, r.depth))
Skip(r)     == Stepped(r, SkipValue)
Validate(r) == Stepped(r, ValidateValue)

\* Reader::rewind: never forward.  The installed header comes back where the
\* cursor is on its element again, and is gone anywhere else.
Rewind(r, to) ==
  IF to > r.pos THEN r
  ELSE LET kept == IF r.installed[1] = to THEN r.installed ELSE <<-1, -1>>
       IN [r EXCEPT !.pos = to, !.installed = kept, !.implied = kept[2]]

\* Reader::install and implying: the header the reads of body take, and the
\* one that was there before it put back.
Install(r, h) == [r EXCEPT !.implied = h, !.installed = <<r.pos, h>>]
Uninstalled(r, outer) == [r EXCEPT !.implied = -1, !.installed = outer.installed]

Finish(r) == IF r.pos = Len(r.s) THEN r ELSE Fail(r, "TrailingContent")

-----------------------------------------------------------------------------
(* Numbers, from their little-endian bytes.                                *)

Signed   == 1   \* CAT_SIGNED
Unsigned == 2   \* CAT_UNSIGNED

\* header::decodable_width: an f128 is measured and never decoded.
DecodableWidth(h) ==
  CASE ByteWidth(h) = 0 -> BadHeader
    [] ByteWidth(h) # 0 /\ Sub(h) = FloatCat /\ Count(h) = 4 -> Broken("UnsupportedFeature")
    [] OTHER -> Got(0, ByteWidth(h))
Decodable(r, h) == IF DecodableWidth(h).code = "none" THEN r ELSE Fail(r, DecodableWidth(h).code)

\* le_u128 and sign_extend: the most significant byte carries the sign.
LeInt(cat, bytes) ==
  LET top == bytes[Len(bytes)]
      value[k \in 1 .. Len(bytes)] ==
        IF k > 1 THEN value[k - 1] * 256 + bytes[Len(bytes) - k + 1]
        ELSE IF cat = Signed /\ top > 127 THEN top - 256 ELSE top
  IN value[Len(bytes)]

\* is_finite, of a float of this width code: its exponent is not all ones.
Finite(code, b) ==
  CASE code = 0 -> (b[2] % 128) * 2 + b[1] \div 128 # 255
    [] code = 1 -> (b[2] \div 4) % 32 # 31
    [] code = 2 -> (b[4] % 128) * 2 + b[3] \div 128 # 255
    [] code = 3 -> (b[8] % 128) * 16 + b[7] \div 16 # 2047

\* The shortest decimal of a float, one token whatever its digits are.
FloatDigits(code, b) == <<"F" \o ToString(<<code>> \o b)>>

-----------------------------------------------------------------------------
(* A Value.                                                                *)

\* header::code_for and header::number; NumericBytes::ELEMENT, -1 for none.
CodeFor(width) == CHOOSE c \in 0 .. 4 : 2 ^ c = width
CatOf(t)       == IF t.signed THEN Signed ELSE Unsigned
ElementTag(t) ==
  CASE t.k = "int" -> Number + 8 * CatOf(t) + 32 * CodeFor(t.width)
    [] t.k = "float" -> Number + 32 * 3
    [] t.k = "complex" -> ComplexElement(Number + 8 * CatOf(t.sub[1]) + 32 * CodeFor(t.sub[1].width))
    [] OTHER -> -1

\* value::read_number.
ReadNumber(r, h, bytes) ==
  LET n == LeInt(Sub(h), bytes)
      out == Fail(r, "NumberOutOfRange")
  IN CASE Sub(h) = FloatCat -> IF Finite(Count(h), bytes)
                               THEN Give(r, Leaf("float", FloatDigits(Count(h), bytes))) ELSE out
       [] Sub(h) = Unsigned -> IF n <= MaxUnsigned THEN Give(r, IntNode(n)) ELSE out
       [] Sub(h) = Signed -> IF n <= MaxSigned /\ n >= -MaxSigned - 1 THEN Give(r, IntNode(n)) ELSE out

\* A payload's numbers, each made into a node.
ReadAll(r, chunks, one(_, _)) ==
  Then(Repeated(r, Len(chunks), <<>>, LAMBDA q, nodes :
         Then(one(q, chunks[Len(nodes) + 1]), LAMBDA p : Give(p, Append(nodes, p.val)))),
       LAMBDA q : Give(q, ListOf(q.val)))

\* value::typed_items, one level down.
TypedItems(r, h) ==
  Then(TypedForm(r, h), LAMBDA q :
    With(q.val, LAMBDA f :
      CASE f.kind = "Bools" ->
             Then(Take(q, PackedBytes(f.n)), LAMBDA p :
               Give(p, ListOf([k \in 1 .. f.n |->
                                 Leaf(IF BitSet(p.val, k) THEN "true" ELSE "false", <<>>)])))
        [] f.kind = "Strings" ->
             Then(Repeated(q, f.n, <<>>, LAMBDA p, nodes :
                    Then(StrBody(p), LAMBDA s : Give(s, Append(nodes, Leaf("string", Chars(s.val)))))),
                  LAMBDA p : Give(p, ListOf(p.val)))
        [] f.kind = "Fixed" ->
             Then(IF f.n > 0 THEN Decodable(q, f.elem) ELSE q, LAMBDA d :
               Then(TakeBlock(d, f, ByteWidth(f.elem)), LAMBDA p :
                 ReadAll(p, Chunks(p.val, ByteWidth(f.elem)),
                         LAMBDA t, c : ReadNumber(t, f.elem, c))))))

\* value::read_complex.
ReadComplex(r) ==
  Then(ComplexForm(r), LAMBDA q :
    With(q.val, LAMBDA f :
      LET width == ByteWidth(f.elem)
          pair(p, z) == ReadAll(p, Chunks(z, width), LAMBDA t, c : ReadNumber(t, f.elem, c))
      IN Then(IF f.kind = "One" \/ f.n > 0 THEN Decodable(q, f.elem) ELSE q, LAMBDA d :
           Then(TakeBlock(d, f, 2 * width), LAMBDA p :
             IF f.kind = "One" THEN pair(p, p.val)
             ELSE ReadAll(p, Chunks(p.val, 2 * width), pair)))))

\* value::read_body, over read_object, read_typed_array and read_matrix.
RECURSIVE ReadBody(_, _)
ReadBody(r, h) ==
  LET value(q) == Then(HeadOf(q), LAMBDA p : ReadBody(p, p.val))
      element(q, nodes) == Then(value(q), LAMBDA p : Give(p, Append(nodes, p.val)))
      key(q) == IF KeyWidth(h) = 0 THEN Then(StrBody(q), LAMBDA p : Give(p, Chars(p.val)))
                ELSE Then(Take(q, KeyWidth(h)), LAMBDA p : Give(p, Decimal(LeInt(Sub(h), p.val))))
      member(q, members) ==
        Then(key(q), LAMBDA p : Then(value(p), LAMBDA v : Give(v, Insert(members, p.val, v.val))))
      matrix(q, byte) ==
        Then(Repeated(q, 2, <<>>, element), LAMBDA p :
          Give(p, MatrixNode(Layouts[byte + 1], p.val[1], p.val[2])))
  IN CASE h \in {NULL, FALSE8, TRUE8} ->
            Give(r, Leaf(CASE h = NULL -> "null" [] h = TRUE8 -> "true" [] OTHER -> "false", <<>>))
       [] Ty(h) = Number ->
            Then(Decodable(r, h), LAMBDA q :
              Then(Take(q, ByteWidth(h)), LAMBDA p : ReadNumber(p, h, p.val)))
       [] Ty(h) = String /\ Bare(h) ->
            Then(StrBody(r), LAMBDA q : Give(q, Leaf("string", Chars(q.val))))
       [] Ty(h) = Object /\ KeyWidth(h) # -1 ->
            Then(CountOf(r), LAMBDA q :
              Nested(q, LAMBDA p :
                Then(Repeated(p, q.val, <<>>, member), LAMBDA m :
                  Give(m, Node("object", <<>>, m.val)))))
       [] Ty(h) = TypedArray -> Nested(r, LAMBDA q : TypedItems(q, h))
       [] Ty(h) = GenericArray /\ Bare(h) ->
            Then(CountOf(r), LAMBDA q :
              Nested(q, LAMBDA p :
                Then(Repeated(p, q.val, <<>>, element), LAMBDA m : Give(m, ListOf(m.val)))))
       [] Ty(h) = Extension /\ ExtId(h) = Complex -> ReadComplex(r)
       [] Ty(h) = Extension /\ ExtId(h) = Matrix ->
            Then(Take(r, 1), LAMBDA q :
              IF q.val[1] > 1 THEN Fail(q, "InvalidMatrixLayout")
              ELSE Nested(q, LAMBDA p : matrix(p, q.val[1])))
       [] Ty(h) = Extension /\ ExtId(h) \notin {0, Complex, Matrix} -> Fail(r, "UnsupportedFeature")
       [] OTHER -> Fail(r, "InvalidHeader")

\* Value's beve::Read.
ReadValue(r) == Then(HeadOf(r), LAMBDA q : ReadBody(q, q.val))

\* from_slice::<Value>.
FromSlice(s) == Then(ReadValue(NewReader(Standard, s)), Finish)

=============================================================================
