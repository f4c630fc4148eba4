----------------------------- MODULE ArrayInto ------------------------------
(***************************************************************************)
(* read_array_into: one numeric BEVE array read from an io::Read straight  *)
(* into a Vec<T>, beve/stream/array.rs.  ArrayPayload is its loop; this    *)
(* adds the head, whose count drives the loop, the bytes, and the caller   *)
(* who reads one array after another into the same vector.                 *)
(*                                                                         *)
(* The caller's reader delivers the bytes of doc and then ends, fails or   *)
(* panics (beyond).  Every read of the code is a read_exact, so how it is  *)
(* cut into smaller reads shows nowhere.                                   *)
(***************************************************************************)
EXTENDS BevePreamble, ArrayPayload

CONSTANTS
  Documents,  \* by T::ELEMENT, the documents a vector meets first, and those it
              \* meets when it is used again
  Capacities, \* the capacities a vector can come with
  Chunk       \* CHUNK, in bytes; a megabyte in the code

ASSUME ArrayAssumption ==
  /\ Chunk \in Nat /\ Capacities \subseteq Nat
  /\ \A e \in DOMAIN Documents :
       /\ ElementWidth(e) \in Nat \ {0}
       /\ \A bytes \in Documents[e].first \cup Documents[e].again :
            bytes \in Seq(0 .. 255) /\ Len(bytes) <= MaxUsize

VARIABLES
  elem,       \* T::ELEMENT; the vector has one type
  doc,        \* the bytes the reader has to give in this call
  beyond,     \* what it does after them: "end", "Io" or "panic"
  pos,        \* Source::pos
  data,       \* the elements delivered into out, each the bytes it is made of
  result      \* how the latest call returned: "Ok", a code, "Io", "panic"; "fresh"
              \* before the first

avars == <<pvars, elem, doc, beyond, pos, data, result>>

Width == ElementWidth(elem)   \* Block::<T>::WIDTH

-----------------------------------------------------------------------------
(* array_head.  Reading past the bytes there are gives the reader's own    *)
(* answer; Failed carries it, or the code of a refusal.                    *)

Cut == IF beyond = "end" THEN Short ELSE Broken(beyond)

\* Source::exact and byte.
Exact(p, k) == IF p + k <= Len(doc) THEN Got(p + k, 0) ELSE Cut
Byte(p)     == IF p < Len(doc) THEN Got(p + 1, At(doc, p)) ELSE Cut

\* Source::size and count: the width from the first byte, then the rest.
SizeFrom(p) ==
  Then(Byte(p), LAMBDA b :
    Then(Exact(b.pos, <<0, 1, 3, 7>>[(b.n % 4) + 1]), LAMBDA r : CountAt(doc, p)))

\* Source::padding.
PaddingFrom(p, width, k) ==
  Then(Byte(p), LAMBDA pad :
    IF pad.n >= width THEN Broken("InvalidPadding")
    ELSE Then(Exact(pad.pos, pad.n), LAMBDA r : Got(r.pos, k)))

\* Source::aligned_pairs.
Pairs(p, class) ==
  Then(Byte(p), LAMBDA outer :
    IF outer.n # ALIGNED_ARRAY THEN BadHeader
    ELSE Then(Byte(outer.pos), LAMBDA inner :
           IF inner.n # class - Ty(class) + TypedArray THEN BadHeader
           ELSE Then(SizeFrom(inner.pos), LAMBDA c :
                  IF c.n % 2 # 0 THEN BadHeader
                  ELSE PaddingFrom(c.pos, ByteWidth(class), c.n \div 2))))

\* The stored element type has to be exactly T's.
Stores(stored, r) == IF stored = elem THEN r ELSE Broken("ElementTypeMismatch")

ComplexFrom(p) ==
  Then(Byte(p), LAMBDA class :
    CASE ByteWidth(class.n) = 0 \/ Ty(class.n) \notin {1, 2} -> BadHeader
      [] ByteWidth(class.n) # 0 /\ Ty(class.n) = 1 ->
           Then(SizeFrom(class.pos), LAMBDA c : Stores(ComplexElement(class.n), c))
      [] ByteWidth(class.n) # 0 /\ Ty(class.n) = 2 ->
           Then(Pairs(class.pos, class.n), LAMBDA c : Stores(ComplexElement(class.n), c)))

AlignedFrom(p) ==
  Then(Byte(p), LAMBDA inner :
    IF ByteWidth(inner.n) = 0 \/ Ty(inner.n) # TypedArray THEN BadHeader
    ELSE Then(SizeFrom(inner.pos), LAMBDA c :
           Then(PaddingFrom(c.pos, ByteWidth(inner.n), c.n), LAMBDA r :
             Stores(ElementOf(inner.n), r))))

\* Source::array_head: how many elements follow, and where.
HeadFrom(p) ==
  Then(Byte(p), LAMBDA first :
    LET h == first.n IN
    CASE h = COMPLEX -> ComplexFrom(first.pos)
      [] h # COMPLEX /\ Ty(h) # TypedArray -> Broken("ExpectedArray")
      [] Ty(h) = TypedArray /\ Sub(h) = OtherCat ->
           CASE Count(h) \in {0, 1} -> Broken("ElementTypeMismatch")
             [] Count(h) = 2        -> AlignedFrom(first.pos)
             [] OTHER               -> BadHeader
      [] Ty(h) = TypedArray /\ Sub(h) # OtherCat ->
           IF ByteWidth(h) = 0 THEN BadHeader
           ELSE Then(SizeFrom(first.pos), LAMBDA c : Stores(ElementOf(h), c)))

-----------------------------------------------------------------------------
(* The calls.                                                              *)

\* Elements number 1 to k of the payload that begins at p.
Elements(bytes, p, k) ==
  [i \in 1 .. k |-> SubSeq(bytes, p + (i - 1) * Width + 1, p + i * Width)]

AInit ==
  /\ elem \in DOMAIN Documents
  /\ per = Greater(Chunk \div Width, 1)
  /\ capacity \in Capacities /\ kept = capacity
  /\ n = 0 /\ len = 0 /\ written = 0 /\ arrived = 0 /\ phase = "idle"
  /\ doc = <<>> /\ beyond = "end" /\ pos = 0 /\ data = <<>> /\ result = "fresh"

\* read_array_into(out, reader), with this reader.
CallWith(bytes, after) ==
  /\ Clear
  /\ doc' = bytes /\ beyond' = after
  /\ pos' = 0 /\ data' = <<>>
  /\ result' = "none"
  /\ UNCHANGED elem

\* A call that cannot go on returns the error, and out was cleared; or the
\* reader's panic passes through it.
Fault(code) ==
  /\ IF code = "panic" THEN Unwinds /\ data' = data
                       ELSE Fails /\ data' = SubSeq(data, 1, len')
  /\ result' = code
  /\ UNCHANGED <<elem, doc, beyond, pos>>

ReadHead ==
  \E head \in {HeadFrom(pos)} :
    /\ phase = "head"
    /\ IF head.code # "none" THEN Fault(head.code)
       ELSE /\ Counted(head.n)
            /\ pos' = head.pos
            /\ UNCHANGED <<elem, doc, beyond, data, result>>

MakeRoom == Room /\ UNCHANGED <<elem, doc, beyond, pos, data, result>>

\* The read of one chunk.
ReadChunk ==
  LET chunk == len - arrived
      read  == Exact(pos, chunk * Width)
  IN
  /\ phase = "read"
  /\ IF read.code # "none" THEN Fault(read.code)
     ELSE /\ Arrives
          /\ pos' = read.pos
          /\ data' = data \o Elements(doc, pos, chunk)
          /\ UNCHANGED <<elem, doc, beyond, result>>

\* Source::finish: only the end of input will do.
Confirm ==
  /\ phase = "room" /\ len >= n
  /\ CASE pos < Len(doc) -> Fault("TrailingContent")
       [] pos >= Len(doc) /\ beyond # "end" -> Fault(beyond)
       [] pos >= Len(doc) /\ beyond = "end" ->
            Completes /\ result' = "Ok" /\ UNCHANGED <<elem, doc, beyond, pos, data>>

ANext ==
  \/ \E bytes \in IF result = "fresh" THEN Documents[elem].first ELSE Documents[elem].again,
        after \in {"end", "Io", "panic"} : CallWith(bytes, after)
  \/ ReadHead
  \/ MakeRoom
  \/ ReadChunk
  \/ Confirm

ASpec == AInit /\ [][ANext]_avars

-----------------------------------------------------------------------------
(* Properties.                                                             *)

\* What the walks over a slice make of the document: its head, and behind it
\* exactly the block.  Arrays of booleans and of strings hold no block.
SliceHead ==
  Then(ByteAt(doc, 0), LAMBDA first :
    CASE first.n = COMPLEX -> ComplexHead(doc, 1)
      [] Ty(first.n) = TypedArray /\ Sub(first.n) = OtherCat /\ Count(first.n) < 2 ->
           Broken("ElementTypeMismatch")
      [] Ty(first.n) = TypedArray /\ ~(Sub(first.n) = OtherCat /\ Count(first.n) < 2) ->
           TypedPreamble(doc, 1, first.n)
      [] OTHER -> Broken("ExpectedArray"))

StoredElement(f) == IF f.kind = "Fixed" THEN ElementOf(f.elem) ELSE ComplexElement(f.elem)

SliceForm ==
  Then(SliceHead, LAMBDA f :
    IF f.kind = "One" THEN BadHeader
    ELSE IF StoredElement(f) # elem THEN Broken("ElementTypeMismatch") ELSE f)

OfSlice ==
  Then(SliceForm, LAMBDA f :
    IF ~Fits(f.n * Width) \/ f.pos + f.n * Width > Len(doc) THEN Short
    ELSE IF f.pos + f.n * Width < Len(doc) THEN Broken("TrailingContent")
    ELSE f)

\* Whatever the vector held, the chunks it is read in and where the reader
\* stopped, a call that returns gives what a slice of the same bytes gives: the
\* whole array, or the same refusal and an empty vector.  A reader's own error
\* comes out only where the bytes before it were not refused.
ReadsWhatASliceHolds ==
  phase = "idle" /\ result \notin {"panic", "fresh"} =>
    \E slice \in {OfSlice} :
      CASE result = "Ok" ->
             /\ slice.code = "none" /\ len = slice.n
             /\ data = Elements(doc, slice.pos, slice.n)
        [] result = "Io" ->
             slice.code \in {"none", "UnexpectedEnd"} /\ len = 0
        [] OTHER -> result = slice.code /\ len = 0
=============================================================================
