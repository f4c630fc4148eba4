----------------------------- MODULE JsonTexts ------------------------------
(***************************************************************************)
(* A JSON document going through the crate's whole-document entry points,  *)
(* one after another: minify, prettify, a Raw kept and written out again,  *)
(* a Value read and written.  Each takes the text the last one left.  The  *)
(* document may be anything, and any of them may refuse it.  And the same  *)
(* document read as declared types, and written as them.                   *)
(***************************************************************************)
EXTENDS JsonTyped, JsonRewrite

CONSTANT Setups   \* documents: an opening and up to max chunks after it; the policies
                  \* they are tried under, the types they are read as and over which
                  \* values

VARIABLES
  policy,   \* O: Options
  given,    \* the setup the document was given in, 0 before
  origin,   \* history: the document as it was given, and what it reads as
  text,     \* the document as it stands
  last      \* history: the entry point called last, and how it came out

tvars == <<policy, given, origin, text, last>>

Init ==
  /\ policy = [pretty |-> FALSE, newLinesInArrays |-> FALSE, comments |-> FALSE]
  /\ given = 0
  /\ origin = [text |-> <<>>, code |-> "none", tree |-> Null]
  /\ text = <<>>
  /\ last = [by |-> "start", code |-> "none", idx |-> 0]

\* A document is handed in, under a policy.
Given ==
  /\ last.by = "start"
  /\ given' \in DOMAIN Setups
  /\ \E s \in {Setups[given']} : \E n \in 0 .. s.max :
       \E tail \in [1 .. n -> s.chunks] : \E o \in s.policies :
         \E p \in {FromStr(s.opening \o FlattenSeq(tail), o.comments)} :
           /\ policy' = o
           /\ text' = p.bytes
           /\ origin' = [text |-> p.bytes, code |-> p.code,
                         tree |-> IF p.code = "none" THEN p.val ELSE Null]
  /\ last' = [last EXCEPT !.by = "none"]

\* What an entry point says of a text, and its output.
Rewrite(by, b) ==
  CASE by = "minify"   -> Minify(b, policy.comments)
    [] by = "prettify" -> Prettify(policy, b, EmptyWriter)
    [] by = "raw"      ->
         With(IF policy.comments
              THEN Then(RawRead(SkipWs(NewParser(b, TRUE))), LAMBDA p : Give(Finish(p), p.val))
              ELSE RawNew(b), LAMBDA p :
           Out(p.code, p.idx, IF p.code = "none" THEN RawWrite(policy, p.val, EmptyWriter) ELSE <<>>))
    [] by = "value"    ->
         With(FromStr(b, policy.comments), LAMBDA p :
           Out(p.code, p.idx,
               IF p.code = "none" THEN WriteValue(policy, EmptyWriter, p.val).buf ELSE <<>>))

\* An entry point that refuses leaves the caller's document alone.
Call(by) ==
  /\ last.by # "start" /\ last.code = "none"
  /\ \E out \in {Rewrite(by, text)} :
       /\ last' = [by |-> by, code |-> out.code, idx |-> out.idx]
       /\ text' = IF out.code = "none" THEN out.text ELSE text
  /\ UNCHANGED <<policy, given, origin>>

Next == Given \/ Call("minify") \/ Call("prettify") \/ Call("raw") \/ Call("value")

Spec == Init /\ [][Next]_tvars

-----------------------------------------------------------------------------
(* The document said of its characters alone.                              *)

\* Past the quote that ends the string i is in.
RECURSIVE Closing(_, _)
Closing(b, i) == CASE ByteAt(b, i) = "EOF" -> Len(b)
                   [] ByteAt(b, i) = Quote -> i + 1
                   [] ByteAt(b, i) = Backslash -> Closing(b, IF i + 2 > Len(b) THEN i + 1 ELSE i + 2)
                   [] OTHER -> Closing(b, i + 1)

\* Its tokens: strings, runs of scalar bytes, and every other byte.
RECURSIVE Tokens(_, _)
Tokens(b, i) ==
  LET start == SkipWsAt(b, i, policy.comments)
      end   == CASE ByteAt(b, start) = Quote -> Closing(b, start + 1)
                 [] ScalarByte(ByteAt(b, start)) -> FirstFrom(b, start, LAMBDA x : ~ScalarByte(x))
                 [] OTHER -> start + 1
  IN IF start >= Len(b) THEN <<>> ELSE <<SubSeq(b, start + 1, end)>> \o Tokens(b, end)

\* A token that begins as a number does and is none, or is out of range.
IllNumber(token) ==
  /\ token[1] = "-" \/ IsDigit(token[1])
  /\ With(ScanNumber(token, 0), LAMBDA s :
       s.code # "none" \/ s.idx # Len(token) \/ FromToken(s, token).code # "none")
HasIllNumber(b) == \E k \in DOMAIN Tokens(b, 0) : IllNumber(Tokens(b, 0)[k])

-----------------------------------------------------------------------------
(* Properties.                                                             *)

\* A document that reads as a Value reads as the same one after any chain of
\* rewrites: no member, escape, number or empty container is lost or changed,
\* and every text the crate writes it also reads.  What does not read is
\* rewritten all the same, and still no token is moved: none is joined to the
\* next, split, or taken for white space or a comment.
NothingLost ==
  IF origin.code # "none" THEN Tokens(text, 0) = Tokens(origin.text, 0)
  ELSE last.by # "start" =>
         With(FromStr(text, policy.comments), LAMBDA now :
           now.code = "none" /\ now.val = origin.tree)

Compact == [policy EXCEPT !.pretty = FALSE, !.newLinesInArrays = FALSE]

\* There is one layout: the three writers of it, which lay out bytes, a kept
\* span and a tree, agree to the byte, and minify leaves what the layout walk
\* would without line breaks.
OneLayout ==
  last.code = "none" =>
    /\ last.by \in {"prettify", "value"} \/ (last.by = "raw" /\ policy.pretty /\ Probe(policy, text)) =>
         Prettify(policy, text, EmptyWriter).text = text
    /\ last.by = "minify" =>
         With(Prettify(Compact, text, EmptyWriter), LAMBDA out :
           out.code = "none" => out.text = text)

\* What the probe of a span takes, the layout walk takes: nothing is laid out
\* in part.  A span the checked walk took is stripped of comments without
\* fail, and none is left in it.
LayoutCannotFail ==
  /\ Probe(policy, text) => Prettify(policy, text, EmptyWriter).code = "none"
  /\ policy.comments /\ last.by = "raw" /\ last.code = "none" =>
       Probe([policy EXCEPT !.comments = FALSE], text)
  /\ policy.comments =>
       Then(WalkValue(NewParser(text, TRUE), TRUE), LAMBDA p : RawRead(NewParser(text, TRUE))).code
         = WalkValue(NewParser(text, TRUE), TRUE).code

\* The layouts agree, and none of them can fail half way through.
LayoutSettles == OneLayout /\ LayoutCannotFail

\* What does not read nothing else need take; what reads, everything takes.
\* Raw checks what a Value's reader checks except that numbers are numbers, so
\* but for those the two refuse the same document at the same byte.
RefusedTogether ==
  LET read == FromStr(text, policy.comments) IN
  /\ last.code # "none" => read.code # "none"
  /\ With(Rewrite("raw", text), LAMBDA raw :
       (raw.code = read.code /\ raw.idx = read.idx) \/ HasIllNumber(text))

-----------------------------------------------------------------------------
(* Declared types.                                                         *)

\* Does the tree have all there is to the document?  It has no second value of
\* a key, the escapes of a name, or a zero that is an integer under its sign.
TreeHasAll ==
  /\ origin.code = "none" /\ Backslash \notin Range(text)
  /\ <<"-", "0">> \notin Range(Tokens(text, 0))
  /\ Len(Tokens(WriteValue(Compact, EmptyWriter, origin.tree).buf, 0)) = Len(Tokens(text, 0))

\* The value q read, written and read again: it comes back, and the text is that
\* of the tree without the members left out.  Only a member that had to be there
\* and was left out is missed.
ComesBack(t, q) ==
  \A skipNull \in BOOLEAN : \A pretty \in BOOLEAN :
    LET o == [comments |-> FALSE, unknown |-> TRUE, missing |-> ~skipNull, skipNull |-> skipNull,
              pretty |-> pretty, newLinesInArrays |-> FALSE]
    IN \A written \in {WriteType(o, EmptyWriter, t, q.val)} : \A sparse \in {Sparse(o, t, q.val)} :
         /\ written = WriteValue(o, EmptyWriter, sparse)
         /\ \A again \in {ReadFresh(o, t, written.buf)} :
              \/ again.code = "none" /\ again.val = q.val
              \/ skipNull /\ again.code = "MissingKey" /\ Fit(o, t, sparse) = <<>>

\* Standard, SkipUnknown and RequireKeys.
ReadPolicies ==
  {[comments |-> policy.comments, unknown |-> u, missing |-> m] : u \in BOOLEAN, m \in BOOLEAN}
    \ {[comments |-> policy.comments, unknown |-> FALSE, missing |-> TRUE]}

\* Reading a document as a type is reading it as a Value and asking whether that
\* fits the type: wherever its tag is, whatever its members' order, and even if
\* a read was tried and failed on the way.  It leaves no level entered and no
\* member put off.  What was in the destination does not show, unless members
\* may be missing; and what has been read writes as a text that reads as it.
DeclaredIsTheTree ==
  last.by = "none" =>
    \A s \in {Setups[given]} : \A k \in DOMAIN s.types : \A o \in ReadPolicies :
      LET t == s.types[k] IN
      \A q \in {ReadFresh(o, t, text)} :
        /\ q.depth = 0 /\ q.runs = <<>>
        /\ q.code = "none" /\ o.unknown => origin.code = "none"
        /\ TreeHasAll => Fit(o, t, origin.tree) = IF q.code = "none" THEN <<q.val>> ELSE <<>>
        /\ q.code = "none" /\ ~o.unknown => ComesBack(t, q)
        /\ o.missing => \A old \in Range(s.olds) : old.type = k =>
             \A over \in {ReadOver(o, t, text, old.node)} :
               /\ over.code = q.code /\ over.idx = q.idx
               /\ q.code = "none" => over.val = q.val
=============================================================================
