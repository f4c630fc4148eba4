---------------------------- MODULE BevePreamble ----------------------------
(***************************************************************************)
(* What stands in front of a BEVE payload: header bytes, compressed sizes  *)
(* and the preambles made of them (beve/header.rs, beve/reader.rs).  Every *)
(* walk over BEVE, the resumable one of BeveSplitter and the recursive one *)
(* of BeveFraming, decides its extents with these.                         *)
(*                                                                         *)
(* Bytes are numbers, and a header is taken apart as the code does it:     *)
(* bits 0-2 the type, bits 3-4 the category, bits 5-7 the width code.      *)
(* Offsets are from 0.  A result has a code, "none" when it succeeded, the *)
(* offset just past what it took, and a number.                            *)
(***************************************************************************)
EXTENDS Integers, Sequences, Stepwise

CONSTANTS
  MaxDepth,   \* reader::MAX_DEPTH, 256 in the code
  MaxUsize    \* usize::MAX: a count or an extent past it is no number

ASSUME LimitsAssumption == MaxDepth \in Nat \ {0} /\ MaxUsize \in Nat

\* The byte at offset i.
At(buf, i) == buf[i + 1]

Ty(h)    == h % 8
Sub(h)   == (h \div 8) % 4
Count(h) == h \div 32
ExtId(h) == h \div 8

NullBool     == 0
Number       == 1
String       == 2
Object       == 3
TypedArray   == 4
GenericArray == 5
Extension    == 6
Undefined    == 7

FloatCat == 0
OtherCat == 3   \* typed arrays of booleans, of strings, or aligned

NULL      == 0
FALSE8    == 8
TRUE8     == 24
DELIMITER == Extension
TypeTag   == 1   \* extension ids; the delimiter's is 0
Matrix    == 2
Complex   == 3
COMPLEX   == Extension + 8 * Complex
MATRIX    == Extension + 8 * Matrix
ALIGNED_ARRAY == TypedArray + 8 * OtherCat + 32 * 2

-----------------------------------------------------------------------------
\* The widths the width codes stand for.
WidthOf == <<1, 2, 4, 8, 16>>

\* header::byte_width, 0 where the format defines none.  Floats have two
\* two-byte forms and no one-byte form.
ByteWidth(h) ==
  CASE Sub(h) = FloatCat /\ Count(h) <= 4 -> IF Count(h) = 0 THEN 2 ELSE WidthOf[Count(h) + 1]
    [] Sub(h) \in {1, 2} /\ Count(h) <= 4 -> WidthOf[Count(h) + 1]
    [] OTHER -> 0

\* A header with another type in place of its own: header::element_of and
\* header::complex_element.
ElementOf(h)      == h - Ty(h) + Number
ComplexElement(h) == h - Ty(h) + Undefined

\* header::element_width: a complex element is two components.
ElementWidth(elem) == IF Ty(elem) = Undefined THEN 2 * ByteWidth(elem) ELSE ByteWidth(elem)

\* reader::bare_header: neither category nor width code may be set.
Bare(h) == Sub(h) = 0 /\ Count(h) = 0

\* reader::key_width, -1 for no key kind at all.  0 is the string form.
KeyWidth(h) ==
  CASE Sub(h) = FloatCat /\ Count(h) = 0 -> 0
    [] Sub(h) \in {1, 2} /\ Count(h) <= 4 -> WidthOf[Count(h) + 1]
    [] OTHER -> -1

\* reader::bool_padding: does the last byte of n booleans set a bit past them?
PaddingSet(n, byte) == n % 8 # 0 /\ byte \div (2 ^ (n % 8)) # 0

PackedBytes(n) == (n + 7) \div 8   \* n.div_ceil(8)

-----------------------------------------------------------------------------
(* Results.                                                                *)

\* What a walk over BEVE is refused for.
BeveCodes == {"UnexpectedEnd", "InvalidHeader", "InvalidPadding", "UnsupportedFeature",
              "ExceededMaxDepth", "ExpectedArray", "TrailingContent"}

Got(pos, n)  == [code |-> "none", pos |-> pos, n |-> n]
Broken(code) == [code |-> code, pos |-> 0, n |-> 0]
Short        == Broken("UnexpectedEnd")
BadHeader    == Broken("InvalidHeader")

\* Reader::head and Reader::take(1).
ByteAt(buf, p) == IF p < Len(buf) THEN Got(p + 1, At(buf, p)) ELSE Short

\* header::decode_size: the low two bits of the first byte give the width, the
\* rest is little-endian.  The bytes that would take it past every usize here
\* make it one that is.
SizeAt(buf, p) ==
  LET extra == <<0, 1, 3, 7>>[(At(buf, p) % 4) + 1]
      byte(k) == IF k <= extra THEN At(buf, p + k) ELSE 0
      value == IF \E k \in 4 .. extra : byte(k) # 0 THEN MaxUsize + 1
               ELSE At(buf, p) \div 4 + byte(1) * 64 + byte(2) * 16384 + byte(3) * 4194304
  IN
  IF p >= Len(buf) THEN Short
  ELSE IF p + 1 + extra > Len(buf) THEN Short
  ELSE Got(p + 1 + extra, value)

\* A number of things or of bytes: what usize cannot hold is not in the buffer.
Fits(n) == n <= MaxUsize

\* Reader::count.
CountAt(buf, p) == Then(SizeAt(buf, p), LAMBDA r : IF Fits(r.n) THEN r ELSE Short)

-----------------------------------------------------------------------------
(* Typed arrays and complex values.  A form says what the elements are.    *)

Form(pos, kind, elem, n) ==
  [code |-> "none", pos |-> pos, kind |-> kind, elem |-> elem, n |-> n]

\* Reader::skip_padding: a length below the element width, then that much.
PaddingAt(buf, p, width) ==
  Then(ByteAt(buf, p), LAMBDA pad :
    IF pad.n >= width THEN Broken("InvalidPadding")
    ELSE IF pad.pos + pad.n > Len(buf) THEN Short
    ELSE Got(pad.pos + pad.n, 0))

\* Reader::aligned_head, past the outer header.
AlignedHead(buf, p) ==
  Then(ByteAt(buf, p), LAMBDA inner :
    IF Ty(inner.n) # TypedArray \/ Sub(inner.n) = OtherCat \/ ByteWidth(inner.n) = 0
    THEN BadHeader
    ELSE Then(CountAt(buf, inner.pos), LAMBDA n :
           Then(PaddingAt(buf, n.pos, ByteWidth(inner.n)), LAMBDA q :
             Form(q.pos, "Fixed", inner.n, n.n))))

\* Reader::typed_preamble, past the header h.
TypedPreamble(buf, p, h) ==
  LET counted(kind) == Then(CountAt(buf, p), LAMBDA n : Form(n.pos, kind, h, n.n)) IN
  CASE Sub(h) = OtherCat /\ Count(h) = 0 -> counted("Bools")
    [] Sub(h) = OtherCat /\ Count(h) = 1 -> counted("Strings")
    [] Sub(h) = OtherCat /\ Count(h) = 2 -> AlignedHead(buf, p)
    [] Sub(h) # OtherCat /\ ByteWidth(h) # 0 -> counted("Fixed")
    [] OTHER -> BadHeader

\* Reader::typed_head: and for packed booleans the payload itself, which has
\* to be there for the padding of its last byte to be checked.
TypedHead(buf, p, h) ==
  Then(TypedPreamble(buf, p, h), LAMBDA f :
    IF f.kind # "Bools" THEN f
    ELSE IF f.pos + PackedBytes(f.n) > Len(buf) THEN Short
    ELSE IF f.n > 0 /\ PaddingSet(f.n, At(buf, f.pos + PackedBytes(f.n) - 1))
         THEN Broken("InvalidPadding")
    ELSE f)

\* Reader::aligned_pairs: exactly the class's own aligned array, of pairs.
AlignedPairs(buf, p, class) ==
  Then(ByteAt(buf, p), LAMBDA outer :
    IF outer.n # ALIGNED_ARRAY THEN BadHeader
    ELSE Then(ByteAt(buf, outer.pos), LAMBDA inner :
           IF inner.n # class - Ty(class) + TypedArray THEN BadHeader
           ELSE Then(CountAt(buf, inner.pos), LAMBDA n :
                  IF n.n % 2 # 0 THEN BadHeader
                  ELSE Then(PaddingAt(buf, n.pos, ByteWidth(class)), LAMBDA q :
                         Form(q.pos, "Run", class, n.n \div 2)))))

\* Reader::complex_head, past COMPLEX: one pair, a run, or an aligned run.
ComplexHead(buf, p) ==
  Then(ByteAt(buf, p), LAMBDA class :
    IF ByteWidth(class.n) = 0 THEN BadHeader
    ELSE CASE Ty(class.n) = 0 -> Form(class.pos, "One", class.n, 1)
           [] Ty(class.n) = 1 -> Then(CountAt(buf, class.pos), LAMBDA n :
                                   Form(n.pos, "Run", class.n, n.n))
           [] Ty(class.n) = 2 -> AlignedPairs(buf, class.pos, class.n)
           [] OTHER -> BadHeader)

\* reader::payload_len and complex_payload: the bytes behind a form of n
\* elements, each this wide.  An extent past usize is no extent.
Block(f, width) == IF Fits(f.n * width) THEN Got(f.pos, f.n * width) ELSE Short
=============================================================================
