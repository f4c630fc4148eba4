---------------------------- MODULE BeveSplitter ----------------------------
(***************************************************************************)
(* Finding where one BEVE value ends in a partially arrived stream:        *)
(* beve/stream/split.rs.  A value states its own extent, so this is a walk *)
(* over headers that can stop anywhere and be resumed: it carries the      *)
(* containers it is inside (stack) and the payload bytes still to step     *)
(* over (pending).  The record sp is the code's Splitter.                  *)
(*                                                                         *)
(* An operator named X_Slip is X with one mistake in it: the runs check    *)
(* that a property notices.                                                *)
(***************************************************************************)
EXTENDS BevePreamble

Modes == {"Values", "Array"}

Least(a, b) == IF a <= b THEN a ELSE b

-----------------------------------------------------------------------------
(* Frames: what a container that holds values still owes.                  *)

ObjectFrame(width, left) == [kind |-> "Object", width |-> width, left |-> left, key |-> TRUE]
ValuesFrame(left)        == [kind |-> "Values", width |-> 0, left |-> left, key |-> FALSE]
StringsFrame(left)       == [kind |-> "Strings", width |-> 0, left |-> left, key |-> FALSE]

\* A preamble read: how far it reached, the payload behind it, and the frame
\* it opens, if it opens one.
Pre(pos, skip, frames) == [code |-> "none", pos |-> pos, skip |-> skip, frames |-> frames]

\* split::enter.
Enter(depth, r) == IF depth >= MaxDepth THEN Broken("ExceededMaxDepth") ELSE r

\* The typed array's arm of head.
TypedPre(f) ==
  CASE f.kind = "Bools"   -> Pre(f.pos, PackedBytes(f.n), <<>>)
    [] f.kind = "Strings" -> Pre(f.pos, 0, <<StringsFrame(f.n)>>)
    [] f.kind = "Fixed"   -> Then(Block(f, ByteWidth(f.elem)), LAMBDA b : Pre(b.pos, b.n, <<>>))

\* The extensions' arms: a tag wraps one value, a matrix is a layout byte and
\* two values, a complex value is a block.
ExtensionPre(buf, p, h, depth) ==
  CASE ExtId(h) = 0 -> BadHeader
    [] ExtId(h) = TypeTag ->
         Then(SizeAt(buf, p), LAMBDA i : Enter(depth, Pre(i.pos, 0, <<ValuesFrame(1)>>)))
    [] ExtId(h) = Matrix -> Enter(depth, Pre(p, 1, <<ValuesFrame(2)>>))
    [] ExtId(h) = Complex ->
         Then(ComplexHead(buf, p), LAMBDA f :
           Then(Block(f, 2 * ByteWidth(f.elem)), LAMBDA b : Pre(b.pos, b.n, <<>>)))
    [] OTHER -> Broken("UnsupportedFeature")

\* split::head: the preamble of the value at p, with depth containers open.
Preamble(buf, at, depth) ==
  Then(ByteAt(buf, at), LAMBDA first :
    LET h == first.n
        p == first.pos
        counted(pre(_)) == Then(CountAt(buf, p), pre)
    IN
    CASE Ty(h) = NullBool /\ h \in {NULL, FALSE8, TRUE8} -> Pre(p, 0, <<>>)
      [] Ty(h) = Number /\ ByteWidth(h) # 0 -> Pre(p, ByteWidth(h), <<>>)
      [] Ty(h) = String /\ Bare(h) -> counted(LAMBDA n : Pre(n.pos, n.n, <<>>))
      [] Ty(h) = Object /\ KeyWidth(h) # -1 ->
           counted(LAMBDA n : Enter(depth, Pre(n.pos, 0, <<ObjectFrame(KeyWidth(h), n.n)>>)))
      [] Ty(h) = GenericArray /\ Bare(h) ->
           counted(LAMBDA n : Enter(depth, Pre(n.pos, 0, <<ValuesFrame(n.n)>>)))
      [] Ty(h) = TypedArray -> Enter(depth, Then(TypedHead(buf, p, h), TypedPre))
      [] Ty(h) = Extension -> ExtensionPre(buf, p, h, depth)
      [] OTHER -> BadHeader)

-----------------------------------------------------------------------------
(* Scanner: a resumable walk over one value.                               *)

FreshScan(at, outer) ==
  [pos |-> at, pending |-> 0, stack |-> <<>>, outer |-> outer, started |-> FALSE,
   out |-> "more"]   \* what the walk has come to, within a call

\* The containers left open once those that are owed nothing are closed.
StillOpen(stack) ==
  LET owing == {k \in DOMAIN stack : stack[k].left # 0}
  IN SubSeq(stack, 1, IF owing = {} THEN 0 ELSE CHOOSE k \in owing : \A j \in owing : j <= k)

\* What a container owes once a duty of its is met: after a key its value, after
\* a value one member less and, of an object, the next key.
Met(frame) ==
  IF frame.key THEN [frame EXCEPT !.key = FALSE]
  ELSE [frame EXCEPT !.left = @ - 1, !.key = frame.kind = "Object"]

\* Scanner::taken: the duty is met the moment the walk commits to it, which for
\* a value is before the value has been walked.
Taken(s) ==
  IF s.stack = <<>> THEN [s EXCEPT !.started = TRUE]
                    ELSE [s EXCEPT !.stack[Len(s.stack)] = Met(@)]

Out(s, out) == [s EXCEPT !.out = out]

\* A string key and an element of a string array: a size and its bytes.  The
\* size is taken before it is found too large to be one.
TextDuty(s, buf) ==
  LET n == SizeAt(buf, s.pos) IN
  IF n.code # "none" THEN Out(s, "starved")
  ELSE IF ~Fits(n.n) THEN Out([s EXCEPT !.pos = n.pos], "UnexpectedEnd")
  ELSE Taken([s EXCEPT !.pos = n.pos, !.pending = n.n])

IntKeyDuty(s, buf) ==
  LET width == s.stack[Len(s.stack)].width IN
  IF Len(buf) - s.pos < width THEN Out(s, "starved")
                              ELSE Taken([s EXCEPT !.pos = @ + width])

ValueDuty(s, buf) ==
  With(Preamble(buf, s.pos, s.outer + Len(s.stack)), LAMBDA r :
    CASE r.code = "UnexpectedEnd" -> Out(s, "starved")
      [] r.code = "none" ->
           LET t == Taken([s EXCEPT !.pos = r.pos, !.pending = r.skip])
           IN [t EXCEPT !.stack = @ \o r.frames]
      [] OTHER -> Out(s, r.code))

\* Scanner::duty.
Duty(s, buf) ==
  LET top == s.stack[Len(s.stack)] IN
  IF s.stack = <<>> THEN ValueDuty(s, buf)
  ELSE CASE top.kind = "Strings" \/ (top.key /\ top.width = 0) -> TextDuty(s, buf)
         [] top.key /\ top.width # 0 -> IntKeyDuty(s, buf)
         [] OTHER -> ValueDuty(s, buf)

\* The payload bytes that have arrived are stepped over.
Passed(s, buf) ==
  LET take == Least(s.pending, Len(buf) - s.pos)
  IN [s EXCEPT !.pos = @ + take, !.pending = @ - take]

\* One turn of advance's loop.
ScanTurn(s, buf) ==
  IF s.pending > Len(buf) - s.pos THEN Out(Passed(s, buf), "starved")
  ELSE With([Passed(s, buf) EXCEPT !.stack = StillOpen(@)], LAMBDA t :
         IF t.started /\ t.stack = <<>> THEN Out(t, "item") ELSE Duty(t, buf))

\* Scanner::advance.  Every turn that goes on has moved forward.  out is "item"
\* (the value ends at pos), "starved", or the code of a failure at pos.
Advance(scan, buf) ==
  LET turn[k \in 0 .. Len(buf) + 2] ==
        IF k = 0 THEN scan
        ELSE With(turn[k - 1], LAMBDA s : IF s.out = "more" THEN ScanTurn(s, buf) ELSE s)
      end == turn[Len(buf) + 2]
  IN [scan |-> Out(end, "more"), out |-> end.out]

-----------------------------------------------------------------------------
(* The splitter.  Its answers are outcomes of StreamWindow's framer        *)
(* contract.  An element of a typed array has no header: implied is the    *)
(* one it is to be read under, -1 for none.                                *)

Elem(kind, implied, width) == [kind |-> kind, implied |-> implied, width |-> width, bit |-> 0]

NewSplitter(mode) ==
  [mode |-> mode,
   scan |-> FreshScan(0, IF mode = "Array" THEN 1 ELSE 0),
   state |-> IF mode = "Array" THEN "BeforeArray" ELSE "Between",
   cursor |-> 0, left |-> 0, elem |-> Elem("Generic", -1, 0), implied |-> -1]

Rebase_LeavesWalk(sp) ==   \* slip: the walk's position is left alone
  [sp EXCEPT !.cursor = 0]

\* Framer::rebase, once the consumed prefix was dropped.
Rebase(sp) ==
  [sp EXCEPT !.cursor = 0,
             !.scan.pos = IF @ > sp.cursor THEN @ - sp.cursor ELSE 0]

\* Framer::position.
Position(sp) == IF sp.scan.pos > sp.cursor THEN sp.scan.pos ELSE sp.cursor

Reply(sp, kind, code, s, e) ==
  [sp |-> sp, out |-> [kind |-> kind, code |-> code, cursor |-> sp.cursor, start |-> s, end |-> e]]
Again(sp)            == Reply(sp, "again", "none", 0, 0)
Need(sp, buf)        == Reply(sp, "need", "none", sp.cursor, Len(buf))
End(sp)              == Reply(sp, "end", "none", sp.cursor, sp.cursor)
Fail(sp, code)       == Reply(sp, "fail", code, Position(sp), Position(sp))
Item(sp, start, end) == Reply(sp, "item", "none", start, end)

Starves_Always(sp, buf, eof) == Need(sp, buf)   \* slip: at the end of input too

\* Bytes are waited for only while there can be some.
Starves(sp, buf, eof) == IF eof THEN Fail(sp, "UnexpectedEnd") ELSE Need(sp, buf)

Restart(sp) ==
  [sp EXCEPT !.scan = FreshScan(sp.cursor, sp.scan.outer), !.state = "InItem"]

\* Between documents: delimiters are stepped over.
Between(sp, buf, eof) ==
  LET values == {i \in sp.cursor .. Len(buf) - 1 : At(buf, i) # DELIMITER}
      here   == [sp EXCEPT !.cursor = IF values = {} THEN Len(buf)
                                      ELSE CHOOSE i \in values : \A j \in values : i <= j]
  IN
  CASE values # {} -> Again(Restart(here))
    [] values = {} /\ eof -> End(here)
    [] values = {} /\ ~eof -> Need(here, buf)

\* Walking one value: a whole document, or one element of a generic array.
InItem(sp, buf, eof) ==
  With(Advance(sp.scan, buf), LAMBDA a :
    LET here == [sp EXCEPT !.scan = a.scan]
        done == [here EXCEPT !.cursor = a.scan.pos,
                             !.state = IF sp.mode = "Array" THEN "BeforeElement" ELSE "Between",
                             !.left = IF sp.mode = "Array" THEN @ - 1 ELSE @]
    IN
    CASE a.out = "item"    -> Item(done, sp.cursor, a.scan.pos)
      [] a.out = "starved" -> Starves(here, buf, eof)
      [] OTHER             -> Fail(here, a.out))

-----------------------------------------------------------------------------
(* Array mode: the elements of one top-level array.                        *)

\* How a form's elements are laid out in the stream.
ElemOf(f) ==
  CASE f.kind = "Bools"   -> Elem("Bools", -1, 0)
    [] f.kind = "Strings" -> Elem("Strings", String, 0)
    [] f.kind = "Fixed"   -> Elem("Fixed", ElementOf(f.elem), ElementWidth(ElementOf(f.elem)))

\* A lone complex number is no array.
ComplexElems(f) ==
  IF f.kind = "One" THEN Broken("ExpectedArray")
  ELSE [f EXCEPT !.elem = Elem("Fixed", ComplexElement(f.elem), 2 * ByteWidth(f.elem))]

\* The array's header, count and element layout, from the throwaway reader.
\* A packed run's payload need not be there yet.
ArrayHead(buf, at) ==
  Then(ByteAt(buf, at), LAMBDA first :
    LET h == first.n
        p == first.pos
    IN
    CASE Ty(h) = GenericArray /\ ~Bare(h) -> BadHeader
      [] Ty(h) = GenericArray /\ Bare(h) ->
           Then(CountAt(buf, p), LAMBDA n : Form(n.pos, "Generic", Elem("Generic", -1, 0), n.n))
      [] Ty(h) = TypedArray ->
           Then(TypedPreamble(buf, p, h), LAMBDA f : [f EXCEPT !.elem = ElemOf(f)])
      [] h = COMPLEX -> Then(ComplexHead(buf, p), ComplexElems)
      [] OTHER -> Broken("ExpectedArray"))

\* State::BeforeArray: Splitter::open_array.
BeforeArray(sp, buf, eof) ==
  LET f == ArrayHead(buf, sp.cursor) IN
  CASE sp.cursor >= Len(buf) /\ eof -> End(sp)
    [] f.code = "UnexpectedEnd" /\ ~(eof /\ sp.cursor >= Len(buf)) -> Starves(sp, buf, eof)
    [] f.code = "none" ->
         Again([sp EXCEPT !.cursor = f.pos, !.left = f.n, !.elem = f.elem,
                          !.state = "BeforeElement"])
    [] f.code \notin {"UnexpectedEnd", "none"} -> Fail(sp, f.code)

\* An element that is not walked: it ends at end, the cursor moves to cursor.
Element(sp, end, cursor, implied) ==
  Item([sp EXCEPT !.cursor = cursor, !.left = @ - 1, !.implied = implied], sp.cursor, end)

FixedElement(sp, buf, eof) ==
  LET end == sp.cursor + sp.elem.width IN
  IF end > Len(buf) THEN Starves(sp, buf, eof) ELSE Element(sp, end, end, sp.elem.implied)

StringElement(sp, buf, eof) ==
  LET n == CountAt(buf, sp.cursor) IN
  IF n.code # "none" \/ n.pos + n.n > Len(buf)
  THEN Starves(sp, buf, eof)
  ELSE Element(sp, n.pos + n.n, n.pos + n.n, String)

\* A packed boolean: a bit of the byte at the cursor and no bytes of its own.
\* The cursor moves on with the eighth.  The array's padding is in the last
\* element's byte, so that is when it is checked.
BoolElement(sp, buf, eof) ==
  LET byte == At(buf, sp.cursor)
      bit  == sp.elem.bit
      next == [sp EXCEPT !.elem.bit = (bit + 1) % 8]
  IN
  IF sp.cursor >= Len(buf) THEN Starves(sp, buf, eof)
  ELSE IF sp.left = 1 /\ PaddingSet(bit + 1, byte) THEN Fail(sp, "InvalidPadding")
  ELSE Element(next, sp.cursor, IF bit = 7 THEN sp.cursor + 1 ELSE sp.cursor,
               IF (byte \div 2 ^ bit) % 2 = 1 THEN TRUE8 ELSE FALSE8)

CloseArray_KeepsByte(sp) == [sp EXCEPT !.elem.bit = 0, !.state = "Done"]   \* slip

\* Splitter::close_array: a run that ends inside a byte leaves it behind.
CloseArray(sp) ==
  [sp EXCEPT !.cursor = IF sp.elem.bit > 0 THEN @ + 1 ELSE @,
             !.elem.bit = 0, !.state = "Done"]

BeforeElement(sp, buf, eof) ==
  CASE sp.left = 0 -> Again(CloseArray(sp))
    [] sp.left # 0 /\ sp.elem.kind = "Generic" ->
         IF sp.cursor < Len(buf) THEN Again(Restart(sp)) ELSE Starves(sp, buf, eof)
    [] sp.left # 0 /\ sp.elem.kind = "Fixed"   -> FixedElement(sp, buf, eof)
    [] sp.left # 0 /\ sp.elem.kind = "Strings" -> StringElement(sp, buf, eof)
    [] sp.left # 0 /\ sp.elem.kind = "Bools"   -> BoolElement(sp, buf, eof)

Done(sp, buf, eof) ==
  CASE sp.cursor < Len(buf) -> Fail(sp, "TrailingContent")
    [] sp.cursor >= Len(buf) /\ eof -> End(sp)
    [] sp.cursor >= Len(buf) /\ ~eof -> Need(sp, buf)

-----------------------------------------------------------------------------
Turn(sp, buf, eof) ==
  CASE sp.state = "Between"       -> Between(sp, buf, eof)
    [] sp.state = "InItem"        -> InItem(sp, buf, eof)
    [] sp.state = "BeforeArray"   -> BeforeArray(sp, buf, eof)
    [] sp.state = "BeforeElement" -> BeforeElement(sp, buf, eof)
    [] sp.state = "Done"          -> Done(sp, buf, eof)

\* Framer::next.  At most three states are passed on the way to an answer.
NextItem(sp, buf, eof) ==
  LET turn[k \in 0 .. 4] ==
        IF k = 0 THEN Again([sp EXCEPT !.implied = -1])
        ELSE With(turn[k - 1], LAMBDA r :
               IF r.out.kind = "again" THEN Turn(r.sp, buf, eof) ELSE r)
  IN turn[4]
=============================================================================
