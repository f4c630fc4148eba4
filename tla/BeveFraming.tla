---------------------------- MODULE BeveFraming -----------------------------
(***************************************************************************)
(* The reference the splitter is held to: Reader::skip_value over a whole  *)
(* stream (beve/reader.rs).  It recurses where the splitter keeps a stack, *)
(* and never resumes: the two have to agree about where every value ends,  *)
(* and on what is no value.                                                *)
(***************************************************************************)
EXTENDS BeveFeed, BeveSkip

\* Over a value whose header was installed, not read: with_implied and step.
\* A complex element's header stands for its two components.
StepInstalled(s, h) ==
  IF Ty(h) = Undefined THEN DropBytes(s, 0, ElementWidth(h)) ELSE SkipValue(<<h>> \o s, 0, 0)

-----------------------------------------------------------------------------
(* A whole stream: its items <<start, end, implied header>> in order, and  *)
(* how it stops: the code, the byte at fault, and where the item that the  *)
(* input stops inside begins, or -1.                                       *)

Whole(found, code, at, open) == [items |-> found, code |-> code, at |-> at, open |-> open]

Cut(s, found, r, open) ==
  Whole(found, r.code, r.pos, IF r.code = "UnexpectedEnd" THEN open ELSE -1)

\* Documents one after another, and delimiters between them.
FrameValues(s) ==
  LET from[i \in 0 .. Len(s), found \in Seq(Nat \X Nat \X Int)] ==
        IF i = Len(s) THEN Whole(found, "none", i, -1)
        ELSE IF At(s, i) = DELIMITER THEN from[i + 1, found]
        ELSE With(SkipValue(s, i, 0), LAMBDA v :
               IF v.code = "none" THEN from[v.pos, Append(found, <<i, v.pos, -1>>)]
               ELSE Cut(s, found, v, i))
  IN from[0, <<>>]

\* The elements of one array, each under the header the array implies.
FrameElements(s, f) ==
  LET closed(i, found) == IF i < Len(s) THEN Whole(found, "TrailingContent", i, -1)
                                        ELSE Whole(found, "none", i, -1)
      \* element k of a packed run is a bit of this byte
      bitAt(k) == f.pos + (k - 1) \div 8
      bit(k)   == (At(s, bitAt(k)) \div (2 ^ ((k - 1) % 8))) % 2
      run(k, found) ==
        IF bitAt(k) >= Len(s) THEN Cut(s, found, Ended(s), Len(s))
        ELSE IF k = f.n /\ PaddingSet(f.n, At(s, bitAt(k)))
        THEN Whole(found, "InvalidPadding", bitAt(k), -1)
        ELSE Got(bitAt(k), IF bit(k) = 1 THEN TRUE8 ELSE FALSE8)
      one(i, found) ==
        CASE f.kind = "Generic" -> SkipValue(s, i, 1)
          [] f.kind = "Strings" -> SkipStr(s, i, FALSE)
          [] f.kind \in {"Fixed", "Run"} -> DropBytes(s, i, f.elem.width)
      from[i \in 0 .. Len(s), k \in 1 .. f.n + 1, found \in Seq(Nat \X Nat \X Int)] ==
        IF k > f.n
        THEN closed(IF f.kind = "Bools" THEN f.pos + PackedBytes(f.n) ELSE i, found)
        ELSE IF f.kind = "Bools"
        THEN Then(run(k, found), LAMBDA b :
               from[i, k + 1, Append(found, <<b.pos, b.pos, b.n>>)])
        ELSE With(one(i, found), LAMBDA v :
               IF v.code = "none"
               THEN from[v.pos, k + 1, Append(found, <<i, v.pos, f.elem.implied>>)]
               ELSE Cut(s, found, v, i))
  IN from[f.pos, 1, <<>>]

FrameArray(s) ==
  IF s = <<>> THEN Whole(<<>>, "none", 0, -1)
  ELSE With(ArrayHead(s, 0), LAMBDA f :
         CASE f.code = "none"          -> FrameElements(s, f)
           [] f.code = "UnexpectedEnd" -> Cut(s, <<>>, Ended(s), 0)
           [] OTHER                    -> Whole(<<>>, f.code, 0, -1))

Frame(mode, s) == IF mode = "Array" THEN FrameArray(s) ELSE FrameValues(s)

-----------------------------------------------------------------------------
(* Properties.                                                             *)

OfStream == Frame(setup.mode, stream)

\* The stream was read to where it stops, by reaching its end or by failing,
\* and was all there when its end was declared.
ReadThrough == last.kind \in {"end", "error"} /\ (eof \/ failed) /\ ~late
TooLarge    == failed /\ reports[1].code = "DocumentTooLarge"

\* The walk can stop anywhere, inside a header, a size, a key or a payload,
\* and is resumed from there: the items, with the headers they are read under,
\* are those the recursive walk finds in the whole stream.
SameItemsHoweverChunked ==
  ReadThrough =>
    items = SelectSeq(OfStream.items, LAMBDA v : TooLarge => v[2] <= reports[1].at)

\* A matrix of which only the header arrived: framing charges its level before
\* the layout byte, skipping after it, so at the depth limit the one says
\* ExceededMaxDepth and the other UnexpectedEnd.
BareMatrix(whole) ==
  /\ reports[1].code = "ExceededMaxDepth" /\ whole.code = "UnexpectedEnd"
  /\ reports[1].at = Len(stream) - 1 /\ At(stream, reports[1].at) = MATRIX

\* And so is the failure: the same code and, where it is a byte that cannot be
\* read, at that value's header.  Running out of bytes is placed in the item
\* that is cut short.
SameRefusalHoweverChunked ==
  ReadThrough /\ ~TooLarge =>
    \E whole \in {OfStream} :
      IF ~failed THEN whole.code = "none"
      ELSE \/ BareMatrix(whole)
           \/ /\ reports[1].code = whole.code
              /\ IF whole.code = "UnexpectedEnd"
                 THEN reports[1].at \in whole.open .. Len(stream)
                 ELSE reports[1].at = whole.at

\* A value states its own extent, so it is given out at the call that has its
\* last byte: "need" means that every complete one has been.
NothingHeldBack ==
  last.kind = "need" /\ last.end = Len(stream) /\ ~eof => items = OfStream.items

\* How the bytes were cut into chunks shows nowhere: not in the items, not in
\* the failure and not in when an item comes out.
ChunkingIsInvisible == SameItemsHoweverChunked /\ SameRefusalHoweverChunked /\ NothingHeldBack

\* What is handed to the reader is one whole value, read alone: with the header
\* an element was implied to have, its bytes are stepped over exactly.
EveryItemReadsAlone ==
  \A i \in DOMAIN items :
    LET bytes == SubSeq(stream, items[i][1] + 1, items[i][2]) IN
    \E read \in {IF items[i][3] = -1 THEN SkipValue(bytes, 0, 0)
                                     ELSE StepInstalled(bytes, items[i][3])} :
       /\ read.code = "none"
       /\ read.pos = Len(bytes) + IF items[i][3] = -1 \/ Ty(items[i][3]) = Undefined THEN 0 ELSE 1

\* Taking an array apart and stepping over it whole are separate walks: every
\* element reads alone, and a stream of elements ends well exactly where the
\* array is one whole value.
ArrayIsItsElements ==
  /\ EveryItemReadsAlone
  /\ ReadThrough /\ ~TooLarge /\ setup.mode = "Array" /\ stream # <<>> =>
    LET h == At(stream, 0)
        isArray == Ty(h) \in {TypedArray, GenericArray}
                   \/ (h = COMPLEX /\ Len(stream) > 1 /\ Ty(At(stream, 1)) # 0)
    IN \E v \in {SkipValue(stream, 0, 0)} :
         ~failed <=> isArray /\ v.code = "none" /\ v.pos = Len(stream)
=============================================================================
