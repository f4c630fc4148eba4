---------------------------- MODULE JsonSplitter ----------------------------
(***************************************************************************)
(* Finding where one JSON value ends in a partially arrived stream:        *)
(* json/stream/split.rs.  A Splitter is the JSON Framer of a window.  It   *)
(* never parses: it keeps enough state (the record sp) to stop at any byte *)
(* and to carry on from there when more bytes turn up.                     *)
(*                                                                         *)
(* Bytes are the classes the splitter tells apart.  Offsets are from 0 as  *)
(* in the code.  The eight-bytes-at-a-time search of string bodies finds   *)
(* the same bytes as looking at each, and is not modelled.                 *)
(*                                                                         *)
(* An operator named X_Slip is X with one mistake in it: the runs check    *)
(* that a property notices.                                                *)
(***************************************************************************)
EXTENDS Integers, Sequences

CONSTANT MaxDepth   \* parser::MAX_DEPTH, 256 in the code

ASSUME MaxDepthAssumption == MaxDepth \in Nat \ {0}

Newline   == "LF"
Quote     == "'"
Backslash == "\\"
Comma     == ","
Bracket   == "["     \* of an array, and the one that closes it
Unbracket == "]"
Opens     == {"{", Bracket}
Closes    == {"}", Unbracket}
Delimiters == Opens \cup Closes \cup {Quote}
IsWs(c)       == c \in {" ", Newline}
ScalarByte(c) == c = "1"     \* digits, letters, and the signs of a number

Modes    == {"Values", "Lines", "Array"}
Comments == {"No", "Line", "Block", "BlockStar"}

\* The byte at offset i, and the least of a set of offsets or d if there is none.
At(buf, i)    == buf[i + 1]
First(set, d) == IF set = {} THEN d ELSE CHOOSE i \in set : \A j \in set : i <= j

-----------------------------------------------------------------------------
(* Comments.                                                               *)

\* Comment::begin: which comment the / at i opens.  "No" when it opens none,
\* and when the buffer stops on it.
Begin(buf, i) ==
  CASE i + 1 < Len(buf) /\ At(buf, i + 1) = "/" -> "Line"
    [] i + 1 < Len(buf) /\ At(buf, i + 1) = "*" -> "Block"
    [] OTHER -> "No"

\* Slip: the second * of **/ loses its place.
StepComment_LosesStar(comment, c) ==
  CASE comment = "Line"                 -> IF c = Newline THEN "No" ELSE "Line"
    [] comment = "BlockStar" /\ c = "/" -> "No"
    [] comment = "Block" /\ c = "*"     -> "BlockStar"
    [] OTHER                            -> "Block"

\* Comment::step, over one byte.  A newline that ends a line comment is then
\* white space, so stepping over it too changes nothing.
StepComment(comment, c) ==
  CASE comment = "Line"                 -> IF c = Newline THEN "No" ELSE "Line"
    [] comment = "BlockStar" /\ c = "/" -> "No"
    [] OTHER                            -> IF c = "*" THEN "BlockStar" ELSE "Block"

\* Take steps over buf while the scan asks for another byte and one is there.
\* Every step that asks for more has moved forward.
Scan(buf, step(_), start) ==
  LET run[k \in 0 .. Len(buf)] ==
        IF k = 0 THEN start
        ELSE LET s == run[k - 1] IN
             IF s.out = "more" /\ s.pos < Len(buf) THEN step(s) ELSE s
  IN run[Len(buf)]

-----------------------------------------------------------------------------
(* Between values: skip_ws.                                                *)

\* Slip: a / is judged by the byte that is there.
Undecided_Never(buf, i, eof) == FALSE

\* A / the buffer stops on is left until the byte after it has arrived.
Undecided(buf, i, eof) == ~eof /\ i + 1 >= Len(buf)

SkipByte(s, buf, eof, comments) ==
  LET c == At(buf, s.pos) IN
  CASE s.comment # "No" ->
         [s EXCEPT !.comment = StepComment(@, c), !.pos = @ + 1]
    [] s.comment = "No" /\ IsWs(c) ->
         [s EXCEPT !.pos = @ + 1]
    [] s.comment = "No" /\ comments /\ c = "/" /\ Begin(buf, s.pos) # "No" ->
         [s EXCEPT !.comment = Begin(buf, s.pos), !.pos = @ + 2]
    [] s.comment = "No" /\ comments /\ c = "/" /\ Undecided(buf, s.pos, eof) ->
         [s EXCEPT !.out = "starved"]
    [] OTHER ->
         [s EXCEPT !.out = "byte"]

\* Where skip_ws stops from offset i inside comment c: "byte" on a byte that
\* is not space, "starved" on an undecided /, "more" at the end of the buffer.
SkipFrom(buf, i, c, eof, comments) ==
  Scan(buf, LAMBDA s : SkipByte(s, buf, eof, comments), [pos |-> i, comment |-> c, out |-> "more"])

-----------------------------------------------------------------------------
(* Inside a value: Scanner::advance.                                       *)

FreshScan(at) ==
  [pos |-> at, depth |-> 0, inString |-> FALSE, escaped |-> FALSE,
   scalar |-> FALSE, comment |-> "No"]

StringByte(s, c) ==
  LET ends == c = Quote /\ ~s.escaped IN
  [s EXCEPT !.pos = @ + 1,
            !.escaped = c = Backslash /\ ~s.escaped,
            !.inString = ~ends,
            !.out = IF ends /\ s.depth = 0 THEN "item" ELSE "more"]

\* A byte outside strings, comments and top-level scalars.
StructuralByte(s, c) ==
  LET next == [s EXCEPT !.pos = @ + 1] IN
  CASE c = Quote -> [next EXCEPT !.inString = TRUE]
    [] c \in Opens /\ s.depth < MaxDepth -> [next EXCEPT !.depth = @ + 1]
    [] c \in Opens /\ s.depth >= MaxDepth -> [s EXCEPT !.out = "ExceededMaxDepth"]
    [] c \in Closes /\ s.depth > 0 ->
         [next EXCEPT !.depth = @ - 1, !.out = IF s.depth = 1 THEN "item" ELSE "more"]
    [] c \in Closes /\ s.depth = 0 -> [s EXCEPT !.out = "UnexpectedCharacter"]
    [] c \notin Delimiters /\ (s.depth > 0 \/ IsWs(c)) -> next
    [] c \notin Delimiters /\ s.depth = 0 /\ ScalarByte(c) -> [next EXCEPT !.scalar = TRUE]
    [] OTHER -> [s EXCEPT !.out = "UnexpectedCharacter"]

ScanByte(s, buf, comments) ==
  LET c == At(buf, s.pos)
      slash == ~s.inString /\ ~s.scalar /\ s.comment = "No" /\ comments /\ c = "/"
  IN
  CASE s.comment # "No" -> [s EXCEPT !.comment = StepComment(@, c), !.pos = @ + 1]
    [] s.inString       -> StringByte(s, c)
    [] s.scalar         -> IF ScalarByte(c) THEN [s EXCEPT !.pos = @ + 1]
                                            ELSE [s EXCEPT !.scalar = FALSE, !.out = "item"]
    [] slash /\ Begin(buf, s.pos) # "No" ->
         [s EXCEPT !.comment = Begin(buf, s.pos), !.pos = @ + 2]
    [] slash /\ s.pos + 1 >= Len(buf) -> [s EXCEPT !.out = "starved"]
    [] OTHER -> StructuralByte(s, c)

\* The search as it goes on over the buffer, and what is kept of it between two.
Searching(scan) ==
  [out |-> "more", pos |-> scan.pos, depth |-> scan.depth, inString |-> scan.inString,
   escaped |-> scan.escaped, scalar |-> scan.scalar, comment |-> scan.comment]

Kept(s) ==
  [pos |-> s.pos, depth |-> s.depth, inString |-> s.inString, escaped |-> s.escaped,
   scalar |-> s.scalar, comment |-> s.comment]

\* out is "item" (the value ends at pos), "more" or "starved" (it is still
\* open), or the code of a failure at pos.
Advance(scan, buf, comments) ==
  LET s == Scan(buf, LAMBDA t : ScanByte(t, buf, comments), Searching(scan))
  IN [scan |-> Kept(s), out |-> s.out]

\* Scanner::at_eof: only a bare scalar of a Values stream ends with the input.
AtEof(scan, mode) == IF scan.scalar /\ mode = "Values" THEN "item" ELSE "UnexpectedEnd"

-----------------------------------------------------------------------------
(* The splitter.  Its answers are outcomes of StreamWindow's framer        *)
(* contract: kind, cursor, and the extent the window checks.               *)

NewSplitter(mode, comments) ==
  [mode |-> mode, comments |-> comments,
   state |-> IF mode = "Array" THEN "BeforeOpen" ELSE "BeforeItem",
   cursor |-> 0, probe |-> 0, comment |-> "No", scan |-> FreshScan(0)]

\* Framer::rebase, once the consumed prefix was dropped.
Rebase(sp) ==
  LET back(i) == IF i > sp.cursor THEN i - sp.cursor ELSE 0 IN
  [sp EXCEPT !.cursor = 0, !.probe = back(@), !.scan.pos = back(@)]

\* Framer::position: the delimiter checks stop the cursor at the byte at
\* fault, the scan stops its own position there.
Position(sp) == IF sp.scan.pos > sp.cursor THEN sp.scan.pos ELSE sp.cursor

\* A step of next either leaves the loop with an answer or goes round again.
Reply(sp, kind, code, s, e) ==
  [sp |-> sp, out |-> [kind |-> kind, code |-> code, cursor |-> sp.cursor, start |-> s, end |-> e]]
Again(sp)            == Reply(sp, "again", "none", 0, 0)
Need_Dead(sp, buf)   == Reply(sp, "need", "none", 0, Len(buf))   \* slip: counts dead bytes
Need(sp, buf)        == Reply(sp, "need", "none", sp.cursor, Len(buf))
End(sp)              == Reply(sp, "end", "none", sp.cursor, sp.cursor)
Fail(sp, code)       == Reply(sp, "fail", code, Position(sp), Position(sp))
Item(sp, start, end) == Reply(sp, "item", "none", start, end)

\* Every state waits for bytes only while there can be some.
Starves(open, eof)        == open /\ ~eof

\* skip_ws with what its caller does next: byte(sp) on a byte that is not
\* space, and at the end of input ended(sp).  A block comment the input stops
\* inside fails where the splitter stood before.
SkipWs(sp, buf, eof, byte(_), ended(_)) ==
  LET s    == SkipFrom(buf, sp.cursor, sp.comment, eof, sp.comments)
      here == [sp EXCEPT !.cursor = s.pos, !.comment = s.comment]
  IN
  CASE s.out = "byte" -> byte(here)
    [] Starves(s.out # "byte", eof) -> Need(here, buf)
    [] s.out # "byte" /\ eof /\ s.comment \in {"Block", "BlockStar"} -> Fail(sp, "UnexpectedEnd")
    [] OTHER -> ended(here)

\* A delimiter is taken by moving the cursor past it.
Take(sp, state)  == [sp EXCEPT !.cursor = @ + 1, !.state = state]
StartItem(sp)    == [sp EXCEPT !.scan = FreshScan(sp.cursor), !.state = "InItem"]
Truncated(sp)    == Fail(sp, "UnexpectedEnd")

\* One turn of next_scanned's loop, in each state.
BeforeOpen(sp, buf, eof) ==
  SkipWs(sp, buf, eof,
    LAMBDA t : IF At(buf, t.cursor) = Bracket THEN Again(Take(t, "FirstItem"))
                                          ELSE Fail(t, "ExpectedBracket"),
    End)

FirstItem(sp, buf, eof) ==
  SkipWs(sp, buf, eof,
    LAMBDA t : Again(IF At(buf, t.cursor) = Unbracket THEN Take(t, "Done") ELSE StartItem(t)),
    Truncated)

\* Slip: the input may stop after a comma.
BeforeItem_EndsAnywhere(sp, buf, eof) ==
  SkipWs(sp, buf, eof, LAMBDA t : Again(StartItem(t)), End)

BeforeItem(sp, buf, eof) ==
  SkipWs(sp, buf, eof,
    LAMBDA t : Again(StartItem(t)),
    LAMBDA t : IF t.mode = "Values" THEN End(t) ELSE Truncated(t))

\* The value ends where the scan stands.
Finish_Stays(sp) ==   \* slip: the cursor is not moved past it
  [sp EXCEPT !.scan.scalar = FALSE,
             !.state = IF sp.mode = "Array" THEN "AfterItem" ELSE "BeforeItem"]
Finish(sp) ==
  [sp EXCEPT !.cursor = sp.scan.pos,
             !.scan.scalar = FALSE,
             !.state = IF sp.mode = "Array" THEN "AfterItem" ELSE "BeforeItem"]

InItem(sp, buf, eof) ==
  LET a     == Advance(sp.scan, buf, sp.comments)
      open  == a.out \in {"more", "starved"}
      out   == IF open /\ eof THEN AtEof(a.scan, sp.mode) ELSE a.out
      here  == [sp EXCEPT !.scan = a.scan]
  IN
  CASE Starves(open, eof) -> Need(here, buf)
    [] out = "item"  -> Item(Finish(here), sp.cursor, a.scan.pos)
    [] OTHER         -> Fail(here, out)

AfterItem(sp, buf, eof) ==
  SkipWs(sp, buf, eof,
    LAMBDA t : CASE At(buf, t.cursor) = Comma -> Again(Take(t, "BeforeItem"))
                 [] At(buf, t.cursor) = Unbracket -> Again(Take(t, "Done"))
                 [] OTHER                   -> Fail(t, "ExpectedComma"),
    Truncated)

Done(sp, buf, eof) ==
  SkipWs(sp, buf, eof, LAMBDA t : Fail(t, "TrailingContent"), End)

-----------------------------------------------------------------------------
(* Newline framing: next_line.                                             *)

\* Slip: blank lines are values.
LineHasValue_Always(buf, start, end, comments) == TRUE

\* line_has_value: is there anything in start..end but space and comments?
\* A block comment left open on the line counts as a value.
LineHasValue(buf, start, end, comments) ==
  LET s == SkipFrom(SubSeq(buf, 1, end), start, "No", TRUE, comments) IN
  s.out = "byte" \/ s.comment \in {"Block", "BlockStar"}

\* One turn of next_line's loop: find the newline, trim the line, skip it if
\* it holds no value.
Line(sp, buf, eof) ==
  LET from    == IF sp.probe > sp.cursor THEN sp.probe ELSE sp.cursor
      n       == Len(buf)
      lineEnd == First({i \in from .. n - 1 : At(buf, i) = Newline}, n)
      next    == IF lineEnd < n THEN lineEnd + 1 ELSE n
      core    == {i \in sp.cursor .. lineEnd - 1 : ~IsWs(At(buf, i))}
      start   == First(core, lineEnd)
      end     == IF core = {} THEN start ELSE 1 + CHOOSE i \in core : \A j \in core : j <= i
      here    == [sp EXCEPT !.cursor = next, !.probe = next]
  IN
  CASE Starves(lineEnd = n, eof) -> Need([sp EXCEPT !.probe = n], buf)
    [] (lineEnd < n \/ eof) /\ LineHasValue(buf, start, end, sp.comments) -> Item(here, start, end)
    [] (lineEnd < n \/ eof) /\ ~LineHasValue(buf, start, end, sp.comments) ->
         IF eof /\ next >= n THEN End(here) ELSE Again(here)

-----------------------------------------------------------------------------
\* Framer::next.
Turn(sp, buf, eof) ==
  CASE sp.mode = "Lines" -> Line(sp, buf, eof)
    [] sp.mode # "Lines" /\ sp.state = "BeforeOpen" -> BeforeOpen(sp, buf, eof)
    [] sp.mode # "Lines" /\ sp.state = "FirstItem"  -> FirstItem(sp, buf, eof)
    [] sp.mode # "Lines" /\ sp.state = "BeforeItem" -> BeforeItem(sp, buf, eof)
    [] sp.mode # "Lines" /\ sp.state = "InItem"     -> InItem(sp, buf, eof)
    [] sp.mode # "Lines" /\ sp.state = "AfterItem"  -> AfterItem(sp, buf, eof)
    [] sp.mode # "Lines" /\ sp.state = "Done"       -> Done(sp, buf, eof)

\* A line takes a byte of the buffer, and at most four states are passed on
\* the way to an item, so the loop ends within this many turns.
NextItem(sp, buf, eof) ==
  LET turn[k \in 0 .. Len(buf) + 4] ==
        IF k = 0 THEN Again(sp)
        ELSE LET r == turn[k - 1] IN
             IF r.out.kind = "again" THEN Turn(r.sp, buf, eof) ELSE r
  IN turn[Len(buf) + 4]
=============================================================================
