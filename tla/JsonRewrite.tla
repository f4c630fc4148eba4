---------------------------- MODULE JsonRewrite -----------------------------
(***************************************************************************)
(* Rewriting a JSON document without reading it into anything: minify and  *)
(* prettify (json/minify.rs, json/prettify.rs), and the spans that Raw     *)
(* keeps and lays out again (json/raw.rs).                                 *)
(*                                                                         *)
(* Minify is one pass over bytes that checks nothing it does not need.     *)
(* Prettify walks with a parser and writes with the writer of JsonLayout.  *)
(* A policy o has pretty, newLinesInArrays and comments.                   *)
(***************************************************************************)
EXTENDS JsonParser

CONSTANT MinRepeat   \* white space shorter than this is not compared, 8 in the code

Out(code, idx, text) == [code |-> code, idx |-> idx, text |-> text]

-----------------------------------------------------------------------------
(* Minify.  The state is what is written and the last run of white space.  *)

Stops_NotLF(x, comments) ==      \* slip: one white byte is copied
  x \in {" ", "TAB", "^", Quote} \/ (comments /\ x = "/")
\* next_stop: white space, a control character, a string or a comment.
Stops(x, comments) == x \in White \cup Control \cup {Quote} \/ (comments /\ x = "/")
NextStop(b, i, comments) == FirstFrom(b, i, LAMBDA x : Stops(x, comments))

StringEnd_OneBackslash(b, open) ==   \* slip: the run of backslashes is not counted
  LET ends == {q \in open + 1 .. Len(b) - 1 : ByteAt(b, q) = Quote /\ ByteAt(b, q - 1) # Backslash}
  IN IF ends = {} THEN -1 ELSE Min(ends) + 1

\* string_end: a quote ends the string if an even run of backslashes is in
\* front of it.  The string's own quote stops the count.
StringEnd(b, open) ==
  LET Run(q) == CHOOSE n \in 0 .. q - open - 1 :
                  /\ \A k \in 1 .. n : ByteAt(b, q - k) = Backslash
                  /\ ByteAt(b, q - n - 1) # Backslash
      ends == {q \in open + 1 .. Len(b) - 1 : ByteAt(b, q) = Quote /\ Run(q) % 2 = 0}
  IN IF ends = {} THEN -1 ELSE Min(ends) + 1

\* repeats: is the last run of white space here again?
Repeats(b, at, prev, len) ==
  /\ len >= MinRepeat /\ at + len <= Len(b)
  /\ \A k \in 0 .. len - 1 : ByteAt(b, at + k) = ByteAt(b, prev + k)

SeamAt_Never(b, i, after) == FALSE   \* slip: two numbers run into one

\* Dropping the white space in [i, after) would run two scalars together.
SeamAt(b, i, after) ==
  i > 0 /\ after < Len(b) /\ ScalarByte(ByteAt(b, i - 1)) /\ ScalarByte(ByteAt(b, after))

\* scan: what is plain is copied, strings are copied whole, white space goes.
RECURSIVE MinifyFrom(_, _, _, _, _)
MinifyFrom(b, from, out, ws, comments) ==
  LET i      == NextStop(b, from, comments)
      copied == out \o SubSeq(b, from + 1, i)
      after  == SkipWsAt(b, IF ws.len # 0 /\ Repeats(b, i, ws.start, ws.len)
                            THEN i + ws.len ELSE i, comments)
      end    == StringEnd(b, i)
      run    == [start |-> i, len |-> after - i]
  IN CASE i = Len(b) -> Out("none", i, copied)
       [] ByteAt(b, i) = Quote /\ end = -1 -> Out("UnexpectedEnd", i + 1, copied)
       [] ByteAt(b, i) = Quote /\ end # -1 ->
            MinifyFrom(b, end, copied \o SubSeq(b, i + 1, end), ws, comments)
       [] ByteAt(b, i) \notin {Quote, "EOF"} /\ after = i ->
            IF comments /\ ByteAt(b, i) = "/" THEN Out("UnexpectedCharacter", i, copied)
            ELSE MinifyFrom(b, i + 1, Append(copied, ByteAt(b, i)), run, comments)
       [] OTHER ->
            IF SeamAt(b, i, after) THEN Out("UnexpectedCharacter", after, copied)
            ELSE MinifyFrom(b, after, copied, run, comments)

\* minify_into_with.
Minify(b, comments) == MinifyFrom(b, 0, <<>>, [start |-> 0, len |-> 0], comments)

-----------------------------------------------------------------------------
(* Prettify.  What it has written is carried in the parser's val.          *)

\* copy_token: the token as it stands.
CopyToken(p, w) ==
  Then(IF Peek(p) \in DOMAIN Literal THEN ExpectLit(p) ELSE WalkScalar(p, FALSE), LAMBDA q :
    Give(q, Put(w, SubSeq(p.bytes, p.idx + 1, q.idx))))

\* value, object and array.
RECURSIVE LayOutValue(_, _, _)
RECURSIVE LayOutMembers(_, _, _, _)
LayOutMembers(o, p, w, close) ==
  LET separated(q) ==
        Then(CommaOrClose(q, close), LAMBDA r :
          With(Put(q.val, <<Comma>>), LAMBDA v :
            IF r.val THEN LayOutMembers(o, r, v, close) ELSE Give(r, Close(o, v, close))))
      member ==
        Then(CopyToken(p, Line(o, w)), LAMBDA key :
          Then(Colon(key), LAMBDA q : LayOutValue(o, q, PutColon(o, key.val))))
  IN CASE close = "]" -> Then(LayOutValue(o, p, Item(o, w)), separated)
       [] close = "}" /\ Peek(p) = Quote -> Then(member, separated)
       [] close = "}" /\ Peek(p) = "EOF" -> Fail(p, "UnexpectedEnd")
       [] OTHER -> Fail(p, "ExpectedQuote")

LayOutValue(o, p, w) ==
  LET container(close) ==
        Nested(Step(p), LAMBDA q :
          With(Open(o, w, Peek(p)), LAMBDA v :
            With(SkipWs(q), LAMBDA r :
              IF Peek(r) = close THEN Give(Step(r), Close(o, v, close))
              ELSE LayOutMembers(o, r, v, close))))
  IN CASE Peek(p) = "{" -> container("}")
       [] Peek(p) = "[" -> container("]")
       [] OTHER -> CopyToken(p, w)

\* prettify_value_into: walk, and nothing behind the value.  w is where the
\* document goes; a refusal leaves what was written before it.
Prettify(o, b, w) ==
  With(Then(LayOutValue(o, SkipWs(NewParser(b, o.comments)), w), Finish), LAMBDA p :
    Out(p.code, p.idx, IF p.code = "none" THEN p.val.buf ELSE <<>>))

-----------------------------------------------------------------------------
(* Raw: a value kept as the text it was.                                   *)

\* span_of, for new and from_string: under the standard policy, which has no
\* comments.
RawNew(b) ==
  With(SkipWs(NewParser(b, FALSE)), LAMBDA start :
    Then(WalkValue(start, TRUE), LAMBDA end :
      Then(Finish(end), LAMBDA p : Give(p, SubSeq(b, start.idx + 1, end.idx)))))

\* Raw's Read: under a policy with comments the span is minified, if there is
\* a slash in it.
RawRead(p) ==
  With(SkipWs(p), LAMBDA start :
    Then(WalkValue(start, TRUE), LAMBDA end :
      With(SubSeq(p.bytes, start.idx + 1, end.idx), LAMBDA span :
        IF ~p.comments \/ \A k \in DOMAIN span : span[k] # "/" THEN Give(end, span)
        ELSE With(Minify(span, TRUE), LAMBDA stripped :
               IF stripped.code = "none" THEN Give(end, stripped.text)
               ELSE Fail(Move(end, start.idx), stripped.code)))))

\* lay_out's probe: what it takes, the layout walk has to take.
Probe(o, span) == Then(WalkValue(NewParser(span, o.comments), FALSE), Finish).code = "none"

\* Raw's Write, over lay_out: what cannot be laid out goes out as it is.
RawWrite(o, span, w) ==
  IF o.pretty /\ Probe(o, span) THEN Prettify(o, span, w).text ELSE w.buf \o span
=============================================================================
