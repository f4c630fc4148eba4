----------------------------- MODULE JsonReader -----------------------------
(***************************************************************************)
(* A window over a JSON splitter: what Feed and Documents share.           *)
(*                                                                         *)
(* StreamWindow leaves the framer open; here it is JsonSplitter, and every *)
(* step is the window's step with the splitter's answer.  Parsing the span *)
(* that is found changes no state of the reader and is not part of it.     *)
(***************************************************************************)
EXTENDS JsonSplitter, FiniteSets

CONSTANTS
  Setups,     \* the readers to check: mode, comments, the bytes they meet and
              \* how many of them
  Limit, Chunk, MaxStream

ASSUME ReaderAssumption ==
  /\ \A s \in Setups : s.mode \in Modes /\ s.comments \in BOOLEAN /\ s.max \in Nat
  /\ Limit \in Nat /\ Chunk \in Nat \ {0} /\ MaxStream \in Nat

VARIABLES
  setup,      \* which reader this is; chosen once
  stream, buf, origin, eof, failed, inited, alloc, last, reports,   \* StreamWindow's
  sp,         \* the splitter
  items,      \* history: the values handed out, in stream offsets
  late        \* history: bytes were added after the end was declared

wvars == <<stream, buf, sp.cursor, origin, eof, failed, inited, alloc, last, reports>>
rvars == <<setup, stream, buf, origin, eof, failed, inited, alloc, last, reports, sp, items, late>>

JsonCodes == {"UnexpectedEnd", "UnexpectedCharacter", "ExceededMaxDepth",
              "ExpectedBracket", "ExpectedComma", "TrailingContent"}

Bytes == UNION {s.bytes : s \in Setups}

W == INSTANCE StreamWindow WITH cursor <- sp.cursor, Byte <- Bytes, Codes <- JsonCodes

\* What can arrive at once: up to n more of the bytes this reader meets.
Batches(n) == UNION {[1 .. k -> setup.bytes] : k \in 1 .. W!Smaller(n, setup.max - Len(stream))}

ReaderInit ==
  /\ setup \in Setups
  /\ sp = NewSplitter(setup.mode, setup.comments)
  /\ W!Init
  /\ items = <<>> /\ late = FALSE

\* Window::locate over the splitter: compacting the window rebases it.
Located == NextItem(IF W!Compacts THEN Rebase(sp) ELSE sp, W!View, eof)

\* Window::try_next.
TryNextItem ==
  \/ LET found == Located IN
     /\ ~failed
     /\ sp' = found.sp
     /\ W!TryNext(found.out)
     /\ items' = IF last'.kind = "item" THEN Append(items, <<last'.start, last'.end>>) ELSE items
     /\ UNCHANGED <<setup, late>>
  \/ /\ UNCHANGED <<setup, sp, items, late>>
     /\ W!TryNextDead

-----------------------------------------------------------------------------
(* The reference the splitter is held to: what values a whole JSON stream  *)
(* is made of, said of all its bytes at once.  Nothing here is resumable,  *)
(* there is no buffer, no cursor and no chunk.  It follows the             *)
(* documentation of Mode (json/stream/split.rs) and the slurping parser's  *)
(* idea of a string and of a comment.                                      *)

\* Past the end of any stream: what should have ended never does.
Never(s) == Len(s) + 1

-----------------------------------------------------------------------------
(* Lexical units.                                                          *)

\* The byte at j is escaped: an odd run of backslashes ends right before it.
\* i is the offset of the string's opening quote.
Escaped(s, i, j) ==
  LET run == {k \in i + 1 .. j - 1 : \A l \in k .. j - 1 : At(s, l) = Backslash}
  IN Cardinality(run) % 2 = 1

\* Just past the string opened at i.
StringEnd(s, i) ==
  First({j + 1 : j \in {k \in i + 1 .. Len(s) - 1 : At(s, k) = Quote /\ ~Escaped(s, i, k)}},
        Never(s))

\* Just past the comment opened at i, or on the newline that ends it.
IsComment(s, i) == Begin(s, i) # "No" /\ At(s, i) = "/"
CommentEnd(s, i) ==
  IF At(s, i + 1) = "/"
  THEN First({j \in i + 2 .. Len(s) - 1 : At(s, j) = Newline}, Len(s))
  ELSE First({j + 2 : j \in {k \in i + 2 .. Len(s) - 2 : At(s, k) = "*" /\ At(s, k + 1) = "/"}},
             Never(s))

\* The first offset from i that is not in white space or a comment.
Gap(s, i, comments) ==
  LET gap[j \in 0 .. Never(s)] ==
        CASE j < Len(s) /\ IsWs(At(s, j)) -> gap[j + 1]
          [] j < Len(s) /\ comments /\ IsComment(s, j) -> gap[CommentEnd(s, j)]
          [] OTHER -> j
  IN gap[i]

-----------------------------------------------------------------------------
(* One value.  It ends at "end", or the input stops inside it (code        *)
(* UnexpectedEnd), or it cannot be framed (any other code, at "end").      *)

Found(e)      == [code |-> "none", end |-> e]
Broken(c, at) == [code |-> c, end |-> at]
Runs(s, e)    == IF e = Never(s) THEN Broken("UnexpectedEnd", Len(s)) ELSE Found(e)

\* A walk of the units inside a container, from any offset at any depth.
Walk(s, comments) ==
  LET walk[j \in 0 .. Never(s)] == [d \in 0 .. MaxDepth |->
        LET c == At(s, j) IN
        IF j >= Len(s) THEN Broken("UnexpectedEnd", Len(s))
        ELSE CASE c = Quote -> walk[StringEnd(s, j)][d]
               [] comments /\ IsComment(s, j) -> walk[CommentEnd(s, j)][d]
               [] comments /\ c = "/" /\ j = Len(s) - 1 -> Broken("UnexpectedEnd", j)
               [] c \in Opens /\ d = MaxDepth -> Broken("ExceededMaxDepth", j)
               [] c \in Opens /\ d < MaxDepth -> walk[j + 1][d + 1]
               [] c \in Closes /\ d = 1 -> Found(j + 1)
               [] c \in Closes /\ d > 1 -> walk[j + 1][d - 1]
               [] OTHER -> walk[j + 1][d]]
  IN walk

\* The end of the container opened at i.
ContainerEnd(s, i, comments) == Walk(s, comments)[i][0]

\* The value that starts at i.
ValueAt(s, i, mode, comments) ==
  LET c         == At(s, i)
      scalarEnd == First({j \in i .. Len(s) - 1 : ~ScalarByte(At(s, j))}, Len(s))
  IN
  CASE c = Quote -> Runs(s, StringEnd(s, i))
    [] c \in Opens -> ContainerEnd(s, i, comments)
    [] ScalarByte(c) -> IF scalarEnd = Len(s) /\ mode = "Array"
                        THEN Broken("UnexpectedEnd", Len(s)) ELSE Found(scalarEnd)
    [] comments /\ c = "/" /\ i = Len(s) - 1 -> Broken("UnexpectedEnd", i)
    [] OTHER -> Broken("UnexpectedCharacter", i)

-----------------------------------------------------------------------------
(* A whole stream: its values in order, and how it stops.  "open" is where *)
(* a value the input stops inside begins, or -1.  "loose" says that the    *)
(* failure is a block comment between values that never closes, which has  *)
(* no byte of its own to be placed at.                                     *)

Stops(code, at, open) == [items |-> <<>>, code |-> code, at |-> at, open |-> open, loose |-> FALSE]
Loose(at)             == [Stops("UnexpectedEnd", at, -1) EXCEPT !.loose = TRUE]
Behind(found, rest)   == [rest EXCEPT !.items = found \o @]

\* The value v at g, and the rest from its end on.
FromValue(v, g, rest) ==
  IF v.code = "none" THEN Behind(<<<<g, v.end>>>>, rest)
  ELSE Stops(v.code, v.end, IF v.code = "UnexpectedCharacter" THEN -1 ELSE g)

\* The values from any offset on.
Values(s, comments) ==
  LET from[i \in 0 .. Len(s)] ==
        LET g == Gap(s, i, comments)
            v == ValueAt(s, g, "Values", comments)
        IN
        IF g = Never(s) THEN Loose(i)
        ELSE IF g = Len(s) THEN Stops("none", g, -1)
        ELSE FromValue(v, g, from[v.end])
  IN from

\* The elements of one array: "open" before the bracket, "first" and "item"
\* before an element, "after" one, "done" past the closing bracket.
Elements(s, comments) ==
  LET from[i \in 0 .. Len(s)] == [st \in {"open", "first", "item", "after", "done"} |->
        LET g == Gap(s, i, comments)
            c == At(s, g)
            v == ValueAt(s, g, "Array", comments)
        IN
        IF g = Never(s) THEN Loose(i)
        ELSE IF g = Len(s)
        THEN Stops(IF st \in {"open", "done"} THEN "none" ELSE "UnexpectedEnd", g, -1)
        ELSE CASE st = "open" /\ c = Bracket -> from[g + 1]["first"]
               [] st = "open" /\ c # Bracket -> Stops("ExpectedBracket", g, -1)
               [] st = "first" /\ c = Unbracket -> from[g + 1]["done"]
               [] st \in {"first", "item"} /\ (st = "first" => c # Unbracket) ->
                    FromValue(v, g, from[v.end]["after"])
               [] st = "after" /\ c = Comma -> from[g + 1]["item"]
               [] st = "after" /\ c = Unbracket -> from[g + 1]["done"]
               [] st = "after" /\ c \notin {Comma, Unbracket} -> Stops("ExpectedComma", g, -1)
               [] st = "done" -> Stops("TrailingContent", g, -1)]
  IN from

\* The lines that hold a value, without the space around it, from the start of
\* any line on.  A comment on a line of its own is not a value; one left open on
\* its line counts as one.
Lines(s, comments) ==
  LET from[i \in 0 .. Len(s)] ==
        LET e    == First({j \in i .. Len(s) - 1 : At(s, j) = Newline}, Len(s))
            core == {j \in i .. e - 1 : ~IsWs(At(s, j))}
            past == 1 + CHOOSE j \in core : \A k \in core : k <= j
        IN (IF Gap(SubSeq(s, 1, e), i, comments) = e THEN <<>> ELSE <<<<First(core, i), past>>>>)
           \o (IF e = Len(s) THEN <<>> ELSE from[e + 1])
  IN from

Frame(mode, s, comments) ==
  CASE mode = "Values" -> Values(s, comments)[0]
    [] mode = "Array"  -> Elements(s, comments)[0]["open"]
    [] mode = "Lines"  -> Behind(Lines(s, comments)[0], Stops("none", Len(s), -1))

-----------------------------------------------------------------------------
(* Properties.                                                             *)

Whole == Frame(setup.mode, stream, setup.comments)

\* The stream was read to where it stops, by reaching its end or by failing,
\* and was all there when its end was declared: what is added afterwards is
\* framed as if each addition were the last.
ReadThrough == last.kind \in {"end", "error"} /\ (eof \/ failed) /\ ~late
TooLarge    == failed /\ reports[1].code = "DocumentTooLarge"

\* Chunks may split a value at any byte: the values found are those of the
\* whole stream, none lost, joined, cut or invented, however the bytes came;
\* all of them, or all that lie before one the limit refused.
SameValuesHoweverChunked ==
  ReadThrough =>
    /\ Len(items) <= Len(Whole.items)
    /\ \A i \in DOMAIN items : items[i] = Whole.items[i]
    /\ \A i \in DOMAIN Whole.items :
         i <= Len(items) <=> (TooLarge => Whole.items[i][2] <= reports[1].at)

\* And so is the failure: the same code at the same byte of the stream.  A
\* block comment between values that never closes is placed somewhere in it.
SameFailureHoweverChunked ==
  ReadThrough /\ ~TooLarge =>
    IF failed
    THEN /\ reports[1].code = Whole.code
         /\ IF Whole.loose THEN reports[1].at \in Whole.at .. Len(stream)
                           ELSE reports[1].at = Whole.at
    ELSE Whole.code = "none"

\* What only the end of the stream, as far as it came, finishes: a bare scalar
\* that runs up to it, or a line without its newline.
OnlyEndFinishes(v) ==
  IF setup.mode = "Lines"
  THEN \A i \in v[1] .. Len(stream) - 1 : At(stream, i) # Newline
  ELSE v[2] = Len(stream) /\ ScalarByte(At(stream, v[1]))

\* Each value is given out at the call that has its last byte: "need" means
\* that every complete value was given out, but for one that more bytes could
\* still lengthen.
NoValueHeldBack ==
  last.kind = "need" /\ last.end = Len(stream) /\ ~eof =>
    \A i \in DOMAIN Whole.items : i <= Len(items) \/ OnlyEndFinishes(Whole.items[i])

\* How the bytes were cut into chunks or reads shows nowhere: not in the values,
\* not in the failure and not in when a value comes out.
ChunkingIsInvisible == SameValuesHoweverChunked /\ SameFailureHoweverChunked /\ NoValueHeldBack

\* The limit is on one value's extent, however its bytes arrived, and the
\* error names the value's first byte.
LimitIsOnOneValue ==
  TooLarge /\ ~late =>
    \/ \E i \in DOMAIN Whole.items :
         /\ Whole.items[i][1] = reports[1].at
         /\ Whole.items[i][2] - Whole.items[i][1] > Limit
    \/ Whole.open = reports[1].at /\ Len(stream) - Whole.open > Limit
=============================================================================
