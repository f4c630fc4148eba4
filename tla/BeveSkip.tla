------------------------------ MODULE BeveSkip ------------------------------
(***************************************************************************)
(* Stepping over a BEVE value without reading it: Reader::skip_value and   *)
(* validate_value (beve/reader.rs).  It recurses, and never resumes.       *)
(***************************************************************************)
EXTENDS BevePreamble

Stops(code, at) == [code |-> code, pos |-> at, n |-> 0]
Ended(s)        == Stops("UnexpectedEnd", Len(s))

\* str::from_utf8: a byte from 128 up stands for text that is not UTF-8.
IsUtf8(bytes) == \A k \in DOMAIN bytes : bytes[k] < 128

\* Reader::drop_bytes and skip_str, at p.
DropBytes(s, p, n) == IF p + n > Len(s) THEN Ended(s) ELSE Got(p + n, 0)
SkipStr(s, p, utf8) ==
  With(CountAt(s, p), LAMBDA n :
    IF n.code # "none" THEN Ended(s)
    ELSE Then(DropBytes(s, n.pos, n.n), LAMBDA r :
           IF utf8 /\ ~IsUtf8(SubSeq(s, n.pos + 1, r.pos)) THEN Stops("InvalidUtf8", n.pos) ELSE r))

\* A value that cannot be read fails at its header.
AtHeader(s, i, r) ==
  CASE r.code = "none" -> r
    [] r.code = "UnexpectedEnd" -> Ended(s)
    [] OTHER -> Stops(r.code, i)

\* Reader::skip_typed, and its n strings: the value at i is a typed array.
SkipBlock(s, i, f, width) ==
  Then(AtHeader(s, i, Block(f, width)), LAMBDA b : DropBytes(s, b.pos, b.n))
RECURSIVE SkipStrings(_, _, _, _)
SkipStrings(s, utf8, p, n) ==
  IF n = 0 THEN Got(p, 0)
  ELSE Then(SkipStr(s, p, utf8), LAMBDA r : SkipStrings(s, utf8, r.pos, n - 1))
SkipTyped(s, utf8, i) ==
  Then(AtHeader(s, i, TypedHead(s, i + 1, At(s, i))), LAMBDA f :
    CASE f.kind = "Bools"   -> DropBytes(s, f.pos, PackedBytes(f.n))
      [] f.kind = "Strings" -> SkipStrings(s, utf8, f.pos, f.n)
      [] f.kind = "Fixed"   -> SkipBlock(s, i, f, ByteWidth(f.elem)))

\* The key of a member: text, an integer this wide, or in an array none at -1.
SkipKey(s, utf8, i, width) ==
  CASE width = -1 -> Got(i, 0)
    [] width = 0  -> SkipStr(s, i, utf8)
    [] width > 0  -> DropBytes(s, i, width)

\* Reader::step, skip_body and skip_extension: over the value at i with d
\* containers open; and over the k values it holds, which begin at p.
RECURSIVE Skipped(_, _, _, _), SkipEach(_, _, _, _, _, _)
SkipEach(s, utf8, p, d, k, width) ==
  IF k = 0 THEN Got(p, 0)
  ELSE Then(SkipKey(s, utf8, p, width), LAMBDA r :
         Then(Skipped(s, utf8, r.pos, d), LAMBDA v : SkipEach(s, utf8, v.pos, d, k - 1, width)))
Skipped(s, utf8, i, d) ==
  LET h == At(s, i)
      p == i + 1
      within(q, k, width) ==
        IF d >= MaxDepth THEN Stops("ExceededMaxDepth", i)
        ELSE SkipEach(s, utf8, q, d + 1, k, width)
  IN IF i >= Len(s) THEN Ended(s) ELSE
     CASE h \in {NULL, FALSE8, TRUE8} -> Got(p, 0)
       [] Ty(h) = Number /\ ByteWidth(h) # 0 -> DropBytes(s, p, ByteWidth(h))
       [] Ty(h) = String /\ Bare(h) -> SkipStr(s, p, utf8)
       [] (Ty(h) = Object /\ KeyWidth(h) # -1) \/ (Ty(h) = GenericArray /\ Bare(h)) ->
            Then(AtHeader(s, i, CountAt(s, p)), LAMBDA n :
              within(n.pos, n.n, IF Ty(h) = Object THEN KeyWidth(h) ELSE -1))
       [] Ty(h) = TypedArray ->
            IF d >= MaxDepth THEN Stops("ExceededMaxDepth", i) ELSE SkipTyped(s, utf8, i)
       [] Ty(h) = Extension /\ ExtId(h) = TypeTag ->
            Then(AtHeader(s, i, SizeAt(s, p)), LAMBDA n : within(n.pos, 1, -1))
       [] Ty(h) = Extension /\ ExtId(h) = Matrix ->
            Then(DropBytes(s, p, 1), LAMBDA r : within(r.pos, 2, -1))
       [] Ty(h) = Extension /\ ExtId(h) = Complex ->
            Then(AtHeader(s, i, ComplexHead(s, p)), LAMBDA f :
              SkipBlock(s, i, f, 2 * ByteWidth(f.elem)))
       [] Ty(h) = Extension /\ ExtId(h) \notin {0, TypeTag, Matrix, Complex} ->
            Stops("UnsupportedFeature", i)
       [] OTHER -> Stops("InvalidHeader", i)

\* Reader::skip_value and validate_value, over the value at i with d containers
\* open: only the second looks at what strings are made of.
SkipValue(s, i, d)     == Skipped(s, FALSE, i, d)
ValidateValue(s, i, d) == Skipped(s, TRUE, i, d)
=============================================================================
