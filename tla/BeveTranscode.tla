--------------------------- MODULE BeveTranscode ----------------------------
(***************************************************************************)
(* A BEVE document rewritten as JSON with no tree in between:              *)
(* transcode.rs.  The reader's val carries the JSON writer.                *)
(***************************************************************************)
EXTENDS BeveReader

L == INSTANCE JsonLayout

Write(r, w)  == Give(r, w)
Text(w, t)   == L!Put(w, t)
After(w)     == Text(w, <<L!Comma>>)   \* the comma a closer overwrites

\* transcode::number: what no float can be is null.
NumberText_Unsigned(h, b) ==   \* slip: no sign is extended
  IF Sub(h) # FloatCat THEN Decimal(LeInt(Unsigned, b))
  ELSE IF Finite(Count(h), b) THEN FloatDigits(Count(h), b) ELSE L!LiteralOf["null"]
NumberText(h, b) ==
  CASE Sub(h) # FloatCat -> Decimal(LeInt(Sub(h), b))
    [] Sub(h) = FloatCat /\ Finite(Count(h), b) -> FloatDigits(Count(h), b)
    [] OTHER -> L!LiteralOf["null"]

\* Items written between brackets, each from one chunk of the payload.
Items(o, w, chunks, one(_, _)) ==
  L!Close(o, FoldLeft(LAMBDA v, c : After(one(L!Item(o, v), c)), L!Open(o, w, "["), chunks), "]")

\* transcode::pair.
PairText(o, w, h, z) ==
  Items(o, w, Chunks(z, ByteWidth(h)), LAMBDA v, c : Text(v, NumberText(h, c)))

\* transcode::complex.
ComplexText(o, r, w) ==
  Then(ComplexForm(r), LAMBDA q :
    With(q.val, LAMBDA f :
      Then(IF f.kind = "One" \/ f.n > 0 THEN Decodable(q, f.elem) ELSE q, LAMBDA d :
        Then(TakeBlock(d, f, 2 * ByteWidth(f.elem)), LAMBDA p :
          Write(p, IF f.kind = "One" THEN PairText(o, w, f.elem, p.val)
                   ELSE Items(o, w, Chunks(p.val, 2 * ByteWidth(f.elem)),
                              LAMBDA v, z : PairText(o, v, f.elem, z)))))))

\* transcode::typed_array: the bracket is open before the head is read.
TypedText(o, r, w, h) ==
  Nested(r, LAMBDA n :
    Then(TypedForm(n, h), LAMBDA q :
      With(q.val, LAMBDA f :
        CASE f.kind = "Bools" ->
               Then(Take(q, PackedBytes(f.n)), LAMBDA p :
                 Write(p, Items(o, w, [k \in 1 .. f.n |-> BitSet(p.val, k)], LAMBDA v, b :
                                 Text(v, L!LiteralOf[IF b THEN "true" ELSE "false"]))))
          [] f.kind = "Strings" ->
               Then(Repeated(q, f.n, L!Open(o, w, "["), LAMBDA p, v :
                      Then(StrBody(p), LAMBDA s :
                        Write(s, After(Text(L!Item(o, v), L!Quoted(Chars(s.val))))))),
                    LAMBDA p : Write(p, L!Close(o, p.val, "]")))
          [] f.kind = "Fixed" ->
               Then(IF f.n > 0 THEN Decodable(q, f.elem) ELSE q, LAMBDA d :
                 Then(TakeBlock(d, f, ByteWidth(f.elem)), LAMBDA p :
                   Write(p, Items(o, w, Chunks(p.val, ByteWidth(f.elem)),
                                  LAMBDA v, c : Text(v, NumberText(f.elem, c)))))))))

\* transcode::body, over object, generic_array, extension and matrix.
RECURSIVE BodyText(_, _, _, _)
BodyText(o, r, w, h) ==
  LET value(q, v) == Then(HeadOf(q), LAMBDA p : BodyText(o, p, v, p.val))
      element(q, v) == Then(value(q, L!Item(o, v)), LAMBDA p : Write(p, After(p.val)))
      key(q, v) ==
        IF Sub(h) = FloatCat
        THEN Then(StrBody(q), LAMBDA p : Write(p, Text(v, L!Quoted(Chars(p.val)))))
        ELSE Then(Take(q, KeyWidth(h)), LAMBDA p :
               Write(p, Text(v, <<L!Quote>> \o NumberText(h, p.val) \o <<L!Quote>>)))
      member(q, v) ==
        Then(key(q, L!Line(o, v)), LAMBDA p :
          Then(value(p, L!PutColon(o, p.val)), LAMBDA m : Write(m, After(m.val))))
      named(v, name) == L!PutColon(o, Text(L!Line(o, v), L!Quoted(name)))
      matrix(q, byte) ==
        Then(value(q, named(After(Text(named(L!Open(o, w, "{"), LayoutKey),
                                       L!Quoted(Layouts[byte + 1]))), ExtentsKey)), LAMBDA p :
          Then(value(p, named(After(p.val), ValueKey)), LAMBDA m :
            Write(m, L!Close(o, After(m.val), "}"))))
  IN CASE h \in {NULL, FALSE8, TRUE8} ->
            Write(r, Text(w, L!LiteralOf[CASE h = NULL -> "null" [] h = TRUE8 -> "true"
                                           [] OTHER -> "false"]))
       [] Ty(h) = Number ->
            Then(Decodable(r, h), LAMBDA q :
              Then(Take(q, ByteWidth(h)), LAMBDA p : Write(p, Text(w, NumberText(h, p.val)))))
       [] Ty(h) = String /\ Bare(h) ->
            Then(StrBody(r), LAMBDA q : Write(q, Text(w, L!Quoted(Chars(q.val)))))
       [] Ty(h) = Object /\ KeyWidth(h) # -1 ->
            Then(CountOf(r), LAMBDA q : Nested(q, LAMBDA p :
              Then(Repeated(p, q.val, L!Open(o, w, "{"), member), LAMBDA m :
                Write(m, L!Close(o, m.val, "}")))))
       [] Ty(h) = TypedArray -> TypedText(o, r, w, h)
       [] Ty(h) = GenericArray /\ Bare(h) ->
            Then(CountOf(r), LAMBDA q : Nested(q, LAMBDA p :
              Then(Repeated(p, q.val, L!Open(o, w, "["), element), LAMBDA m :
                Write(m, L!Close(o, m.val, "]")))))
       [] Ty(h) = Extension /\ ExtId(h) = Complex -> ComplexText(o, r, w)
       [] Ty(h) = Extension /\ ExtId(h) = Matrix ->
            Then(Take(r, 1), LAMBDA q :
              IF q.val[1] > 1 THEN Fail(q, "InvalidMatrixLayout")
              ELSE Nested(q, LAMBDA p : matrix(p, q.val[1])))
       [] Ty(h) = Extension /\ ExtId(h) \notin {0, Complex, Matrix} -> Fail(r, "UnsupportedFeature")
       [] OTHER -> Fail(r, "InvalidHeader")

\* beve_to_json_with.
Transcode(o, s) ==
  Then(HeadOf(NewReader(Standard, s)), LAMBDA r : Then(BodyText(o, r, L!EmptyWriter, r.val), Finish))
=============================================================================
