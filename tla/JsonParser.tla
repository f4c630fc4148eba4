----------------------------- MODULE JsonParser -----------------------------
(***************************************************************************)
(* The parse cursor over a whole JSON document: json/parser.rs; the        *)
(* numbers it meets, num/; and a Value read with it.                       *)
(*                                                                         *)
(* A parser is a record; its methods return the parser they leave, with    *)
(* the failure in code and what was read in val.  Where a failed method    *)
(* leaves the cursor is part of what it does: it is the offset the error   *)
(* is reported at.                                                         *)
(*                                                                         *)
(* Bytes are classes.  "t", "f" and "n" stand for a whole literal where a  *)
(* value is read, "T" for one that starts as true does and goes wrong; in  *)
(* a string they are letters.  "'" is the quote, "^" a control character   *)
(* that is no white space.  \u takes HexDigits digits, and two of them     *)
(* tell the surrogates, as they do in the code.                            *)
(***************************************************************************)
EXTENDS JsonLayout

CONSTANTS
  MaxNesting,    \* parser::MAX_DEPTH, 256 in the code
  HexDigits,     \* 4 in the code
  MaxDecade,     \* the largest decimal exponent an f64 holds, 308 in the code
  MinDecade,     \* the smallest
  MinFixed,      \* dtoa::MIN_FIXED, -4 in the code
  MaxFixed       \* dtoa::MAX_FIXED_F64, 15 in the code

ASSUME ParserAssumption == MaxNesting \in Nat /\ HexDigits \in Nat \ {0, 1}

ASSUME NumbersAssumption ==
  /\ MinDecade <= MinFixed /\ MinFixed < 0 /\ 0 < MaxFixed /\ MaxFixed <= MaxDecade

\* The byte of b at offset i, "EOF" past the end.
ByteAt(b, i) == IF i < Len(b) THEN b[i + 1] ELSE "EOF"

\* The first offset from i on where Test holds, the end if there is none.
FirstFrom(b, i, Test(_)) ==
  Min({j \in i .. Len(b) - 1 : Test(b[j + 1])} \cup {Len(b)})

-----------------------------------------------------------------------------
(* The scan that every number is held to, num/atof.rs.  A refused number   *)
(* leaves the cursor in front of it.                                       *)

Scanned(idx, neg, int, frac, exp) ==
  [code |-> "none", idx |-> idx, neg |-> neg, int |-> int, frac |-> frac, exp |-> exp]
Refused(code, idx) == [Scanned(idx, FALSE, <<>>, <<>>, 0) EXCEPT !.code = code]

\* The digits from i on.
DigitsAt(b, i) == SubSeq(b, i + 1, FirstFrom(b, i, LAMBDA x : ~IsDigit(x)))

ScanInteger(b, i) ==
  LET neg == ByteAt(b, i) = "-"
      from == IF neg THEN i + 1 ELSE i
      int == DigitsAt(b, from)
  IN CASE int = <<>> -> Refused("ExpectedNumber", i)
       [] Len(int) > 1 /\ int[1] = "0" -> Refused("InvalidNumber", i)
       [] OTHER -> Scanned(from + Len(int), neg, int, <<>>, 0)

ScanFraction(b, i, s) ==
  LET frac == DigitsAt(b, s.idx + 1) IN
  CASE ByteAt(b, s.idx) # "." -> s
    [] ByteAt(b, s.idx) = "." /\ frac = <<>> -> Refused("InvalidNumber", i)
    [] OTHER -> [s EXCEPT !.idx = @ + 1 + Len(frac), !.frac = frac]

ScanExponent(b, i, s) ==
  LET sign == ByteAt(b, s.idx + 1)
      from == IF sign \in {"+", "-"} THEN s.idx + 2 ELSE s.idx + 1
      digits == DigitsAt(b, from)
      exp == NumberOf(digits)
  IN CASE ByteAt(b, s.idx) \notin {"e", "E"} -> s
       [] ByteAt(b, s.idx) \in {"e", "E"} /\ digits = <<>> -> Refused("InvalidNumber", i)
       [] OTHER -> [s EXCEPT !.idx = from + Len(digits), !.exp = IF sign = "-" THEN -exp ELSE exp]

\* atof::scan, which scan_number and read_number_str are.
ScanNumber(b, i) ==
  Then(ScanInteger(b, i), LAMBDA int :
    Then(ScanFraction(b, i, int), LAMBDA frac : ScanExponent(b, i, frac)))

-----------------------------------------------------------------------------
(* The number a Value keeps, value.rs, and its text, num/dtoa.rs.          *)
(*                                                                         *)
(* A float is its shortest decimal, which for as few digits as occur here  *)
(* is the decimal that was read: how the bits of an f64 are found is not   *)
(* modelled.  A Number is an unsigned, a negative or a float, and is named *)
(* by the text it is written as.                                           *)

Zeros(n) == [k \in 1 .. n |-> "0"]

\* dtoa::render: a magnitude d[1].d[2]d[3]... times ten to the decade.
Render(d, decade) ==
  CASE decade \in 0 .. MaxFixed /\ decade + 1 >= Len(d) -> d \o Zeros(decade + 1 - Len(d))
    [] decade \in 0 .. MaxFixed /\ decade + 1 < Len(d) ->
         SubSeq(d, 1, decade + 1) \o <<".">> \o SubSeq(d, decade + 2, Len(d))
    [] decade \in MinFixed .. -1 -> <<"0", ".">> \o Zeros(-decade - 1) \o d
    [] OTHER ->
         <<d[1]>> \o (IF Len(d) > 1 THEN <<".">> \o Tail(d) ELSE <<>>) \o <<"E">>
           \o (IF decade < 0 THEN <<"-">> ELSE <<>>)
           \o (LET e == IF decade < 0 THEN -decade ELSE decade
               IN IF e < 10 THEN <<Digits[e + 1]>> ELSE <<Digits[(e \div 10) + 1], Digits[(e % 10) + 1]>>)

FloatToken_Bare(text) == text   \* slip: a whole float looks like an integer

\* Number::float_token: text that reads back as a float.
FloatToken(text) ==
  IF \E k \in DOMAIN text : text[k] \in {".", "e", "E"} THEN text ELSE text \o <<".", "0">>

\* write_f64 under float_token.
FloatText(neg, digits, decade) ==
  (IF neg THEN <<"-">> ELSE <<>>)
    \o FloatToken(IF digits = <<>> THEN <<"0">> ELSE Render(digits, decade))

Numeral(kind, text) == [code |-> "none", kind |-> kind, text |-> text]
NoNumeral(code)     == [code |-> code, kind |-> "none", text |-> <<>>]

\* The float a number spells: a float too large is refused, one too small is 0.
FloatOf(s) ==
  LET all    == s.int \o s.frac
      marks  == {k \in DOMAIN all : all[k] # "0"}
      digits == IF marks = {} THEN <<>> ELSE SubSeq(all, Min(marks), Max(marks))
      decade == IF marks = {} THEN 0 ELSE Len(s.int) - Min(marks) + s.exp
  IN CASE decade > MaxDecade -> NoNumeral("NumberOutOfRange")
       [] decade < MinDecade -> Numeral("float", FloatText(s.neg, <<>>, 0))
       [] OTHER -> Numeral("float", FloatText(s.neg, digits, decade))

\* Number::from_token, of a number that scanned as s: an integer that fits is
\* exact; -0 is a float, an integer having no sign to keep; the rest are floats.
FromToken(s, token) ==
  LET whole == ByteAt(token, Len(s.int) + (IF s.neg THEN 1 ELSE 0)) = "EOF"
      value == NumberOf(s.int)
  IN CASE whole /\ ~s.neg /\ value <= MaxUnsigned -> Numeral("unsigned", token)
       [] whole /\ s.neg /\ value \in 1 .. MaxSigned + 1 -> Numeral("negative", token)
       [] OTHER -> FloatOf(s)

-----------------------------------------------------------------------------
(* The cursor.                                                             *)

White     == {" ", "LF", "TAB"}
Control   == {"LF", "TAB", "^"}
Literal   == [t |-> "ExpectedTrue", f |-> "ExpectedFalse", n |-> "ExpectedNull",
              T |-> "ExpectedTrue"]   \* what a literal gone wrong is refused as
Whole     == {"t", "f", "n"}
Hex       == {"0", "1", "8", "9", "C", "D"}
Letters   == {"t", "f", "n", "T", "u", "C", "D", "e", "E", "a", "b", "c", "p", "z"}

\* parser::is_ws and scalar_byte.
IsWs(x)       == x \in White
ScalarByte(x) == IsDigit(x) \/ x \in Letters \cup {"-", "+", "."}

\* with_options: O is the policy, of which reading uses comments and, for
\* declared types, whether unknown keys are errors and missing ones.  runs are
\* the members a late tag has put off.
NewParser(bytes, comments) ==
  [bytes |-> bytes, comments |-> comments, unknown |-> TRUE, missing |-> FALSE,
   idx |-> 0, depth |-> 0, runs |-> <<>>, code |-> "none", val |-> <<>>]

Peek(p)       == ByteAt(p.bytes, p.idx)
Fail(p, code) == [p EXCEPT !.code = code]
Move(p, i)    == [p EXCEPT !.idx = i]
Step(p)       == Move(p, p.idx + 1)
Give(p, v)    == [p EXCEPT !.val = v]

-----------------------------------------------------------------------------
(* White space and structure.                                              *)

\* skip_comment: past the comment at i, -1 if there is no whole one.
SkipComment(b, i) ==
  LET ends == {j \in i + 2 .. Len(b) - 2 : ByteAt(b, j) = "*" /\ ByteAt(b, j + 1) = "/"}
  IN CASE ByteAt(b, i + 1) = "/" -> FirstFrom(b, i + 2, LAMBDA x : x = "LF")
       [] ByteAt(b, i + 1) = "*" /\ ends # {} -> Min(ends) + 2
       [] OTHER -> -1

\* skip_ws_at.
RECURSIVE SkipWsAt(_, _, _)
SkipWsAt(b, i, comments) ==
  CASE IsWs(ByteAt(b, i)) -> SkipWsAt(b, i + 1, comments)
    [] ByteAt(b, i) = "/" /\ comments ->
         With(SkipComment(b, i), LAMBDA after :
           IF after = -1 THEN i ELSE SkipWsAt(b, after, comments))
    [] OTHER -> i

SkipWs(p) == Move(p, SkipWsAt(p.bytes, p.idx, p.comments))

\* expect: the end of the document is a failure of its own.
Expect(p, x, code) ==
  CASE Peek(p) = x -> Step(p)
    [] Peek(p) = "EOF" -> Fail(p, "UnexpectedEnd")
    [] OTHER -> Fail(p, code)

Colon(p) == Then(Expect(SkipWs(p), ":", "ExpectedColon"), SkipWs)

\* comma_or_close: val says whether there is another member.
CommaOrClose(p, close) ==
  With(SkipWs(p), LAMBDA q :
    CASE Peek(q) = Comma -> Give(SkipWs(Step(q)), TRUE)
      [] Peek(q) = close -> Give(Step(q), FALSE)
      [] Peek(q) = "EOF" -> Fail(q, "UnexpectedEnd")
      [] OTHER -> Fail(q, "ExpectedComma"))

\* nested, enter and leave: the level is left however the body ends.
Enter(p) ==
  IF p.depth >= MaxNesting THEN Fail(p, "ExceededMaxDepth") ELSE [p EXCEPT !.depth = @ + 1]
Leave(p) == [p EXCEPT !.depth = @ - 1]
Nested(p, body(_)) ==
  IF p.depth >= MaxNesting THEN Enter(p) ELSE Leave(body(Enter(p)))

\* A container past its opening byte, as every walk goes through one: member
\* reads one and leaves what has been read in val, being given what was read
\* before it.
Container(p, close, member(_, _)) ==
  LET RECURSIVE Members(_, _)
      Members(q, acc) ==
        Then(member(q, acc), LAMBDA r :
          Then(CommaOrClose(r, close), LAMBDA s :
            IF s.val THEN Members(s, r.val) ELSE Give(s, r.val)))
  IN Nested(p, LAMBDA q :
       With(SkipWs(q), LAMBDA r :
         IF Peek(r) = close THEN Give(Step(r), <<>>) ELSE Members(r, <<>>)))

-----------------------------------------------------------------------------
(* Strings.  A failure inside one leaves the cursor past its quote.        *)

\* scan_string: the first byte that is not plain.
ScanString(b, i) == FirstFrom(b, i, LAMBDA x : x \in {Quote, Backslash} \cup Control)

\* A character that is no class of its own is named by its digits.
Named(h) == LET name[k \in 0 .. Len(h)] == IF k = 0 THEN "U+" ELSE name[k - 1] \o h[k]
            IN name[Len(h)]

\* decode_escape and the two below: the characters an escape is and the
\* offset past it.
Decoded(idx, chars) == [code |-> "none", idx |-> idx, chars |-> chars]
BadEscape(code)     == [code |-> code, idx |-> 0, chars |-> <<>>]

ReadHex(b, i) ==
  LET h == SubSeq(b, i + 1, i + HexDigits) IN
  CASE i + HexDigits > Len(b) -> BadEscape("UnexpectedEnd")
    [] i + HexDigits <= Len(b) /\ \E k \in DOMAIN h : h[k] \notin Hex -> BadEscape("InvalidEscape")
    [] OTHER -> Decoded(i + HexDigits, h)

IsHigh(h) == h[1] = "D" /\ h[2] \in {"8", "9"}
IsLow(h)  == h[1] = "D" /\ h[2] \in {"C", "D"}

ReadUnicodeEscape(b, i) ==
  Then(ReadHex(b, i), LAMBDA hi :
    CASE IsHigh(hi.chars) ->
           IF ByteAt(b, hi.idx) # Backslash \/ ByteAt(b, hi.idx + 1) # "u"
           THEN BadEscape("InvalidSurrogate")
           ELSE Then(ReadHex(b, hi.idx + 2), LAMBDA lo :
                  IF IsLow(lo.chars) THEN Decoded(lo.idx, <<Named(hi.chars \o lo.chars)>>)
                  ELSE BadEscape("InvalidSurrogate"))
      [] IsLow(hi.chars) -> BadEscape("InvalidSurrogate")
      [] OTHER -> Decoded(hi.idx, <<Named(hi.chars)>>))

DecodeEscape(b, i) ==
  CASE ByteAt(b, i) = "EOF" -> BadEscape("UnexpectedEnd")
    [] ByteAt(b, i) \in {Quote, Backslash, "/"} -> Decoded(i + 1, <<ByteAt(b, i)>>)
    [] ByteAt(b, i) = "n" -> Decoded(i + 1, <<"LF">>)
    [] ByteAt(b, i) = "t" -> Decoded(i + 1, <<"TAB">>)
    [] ByteAt(b, i) = "u" -> ReadUnicodeEscape(b, i + 1)
    [] OTHER -> BadEscape("InvalidEscape")

\* walk_string_body: to the closing quote, an escape being two bytes unless
\* escapes are checked.
RECURSIVE WalkBody(_, _, _)
WalkBody(b, i, check) ==
  With(ScanString(b, i), LAMBDA j :
    CASE ByteAt(b, j) = Quote -> Decoded(j + 1, <<>>)
      [] ByteAt(b, j) = "EOF" -> BadEscape("UnexpectedEnd")
      [] ByteAt(b, j) = Backslash /\ check ->
           Then(DecodeEscape(b, j + 1), LAMBDA e : WalkBody(b, e.idx, check))
      [] ByteAt(b, j) = Backslash /\ ~check ->
           IF j + 2 > Len(b) THEN BadEscape("UnexpectedEnd") ELSE WalkBody(b, j + 2, check)
      [] OTHER -> BadEscape("ControlCharacterInString"))

WalkString(p, check) ==
  With(WalkBody(p.bytes, p.idx, check), LAMBDA w :
    IF w.code = "none" THEN Move(p, w.idx) ELSE Fail(p, w.code))

\* read_string_body over scan_body, unescape_into and expand_escape: the
\* characters, plain runs and escapes in turn.
RECURSIVE UnescapeInto(_, _, _)
UnescapeInto(b, i, out) ==
  With(ScanString(b, i), LAMBDA j :
    CASE ByteAt(b, j) = Quote -> Decoded(j + 1, out \o SubSeq(b, i + 1, j))
      [] ByteAt(b, j) = "EOF" -> BadEscape("UnexpectedEnd")
      [] ByteAt(b, j) = Backslash ->
           Then(DecodeEscape(b, j + 1), LAMBDA e :
             UnescapeInto(b, e.idx, out \o SubSeq(b, i + 1, j) \o e.chars))
      [] OTHER -> BadEscape("ControlCharacterInString"))

ReadStringBody(p) ==
  With(UnescapeInto(p.bytes, p.idx, <<>>), LAMBDA w :
    IF w.code = "none" THEN Give(Move(p, w.idx), w.chars) ELSE Fail(p, w.code))
ReadString(p) == Then(Expect(p, Quote, "ExpectedQuote"), ReadStringBody)

-----------------------------------------------------------------------------
(* Walking over values without reading them.                               *)

\* expect_lit, read_bool and try_null, at a byte that begins a literal.
ExpectLit(p) == IF Peek(p) \in Whole THEN Step(p) ELSE Fail(p, Literal[Peek(p)])

InNumber(x) == IsDigit(x) \/ x \in {"-", "+", ".", "e", "E"}

\* walk_scalar: a number is a run of the bytes numbers are made of.
WalkScalar(p, check) ==
  CASE Peek(p) = Quote -> WalkString(Step(p), check)
    [] Peek(p) \in DOMAIN Literal -> ExpectLit(p)
    [] Peek(p) = "-" \/ IsDigit(Peek(p)) ->
         Move(p, FirstFrom(p.bytes, p.idx, LAMBDA x : ~InNumber(x)))
    [] Peek(p) = "EOF" -> Fail(p, "UnexpectedEnd")
    [] OTHER -> Fail(p, "UnexpectedCharacter")

\* walk_value: skip_value, and with check skip_value_checked.
RECURSIVE WalkValue(_, _)
WalkValue(p, check) ==
  LET value(q) == WalkValue(q, check)
      member(q, acc) ==
        Then(Expect(q, Quote, "ExpectedQuote"), LAMBDA r :
          Then(WalkString(r, check), LAMBDA s : Then(Colon(s), value)))
      element(q, acc) == value(q)
  IN With(SkipWs(p), LAMBDA q :
       CASE Peek(q) = "{" -> Container(Step(q), "}", member)
         [] Peek(q) = "[" -> Container(Step(q), "]", element)
         [] OTHER -> WalkScalar(q, check))

Finish(p) ==
  With(SkipWs(p), LAMBDA q : IF Peek(q) = "EOF" THEN q ELSE Fail(q, "TrailingContent"))

-----------------------------------------------------------------------------
(* Value, the document that has no declared type: json::Read of value.rs.  *)
(* Its tree and how it is written are in JsonLayout.                       *)

\* Number's Read: the scan, then what it is worth, past it.
ReadNumber(p) ==
  With(ScanNumber(p.bytes, p.idx), LAMBDA s :
    IF s.code # "none" THEN Fail(p, s.code)
    ELSE With(FromToken(s, SubSeq(p.bytes, p.idx + 1, s.idx)), LAMBDA n :
           IF n.code = "none" THEN Give(Move(p, s.idx), Node(n.kind, n.text, <<>>))
           ELSE Fail(Move(p, s.idx), n.code)))

\* json::Read for Value.  read_map and read_seq hand on what a member reads.
RECURSIVE ReadValue(_)
ReadValue(p) ==
  LET member(q, acc) ==
        Then(ReadString(q), LAMBDA key :
          Then(Colon(key), LAMBDA r :
            Then(ReadValue(r), LAMBDA v : Give(v, Insert(acc, key.val, v.val)))))
      element(q, acc) ==
        Then(ReadValue(q), LAMBDA v : Give(v, Append(acc, <<<<>>, v.val>>)))
      made(q, kind) == Then(q, LAMBDA r : Give(r, Node(kind, <<>>, r.val)))
  IN With(SkipWs(p), LAMBDA q :
       CASE Peek(q) = "{" -> made(Container(Step(q), "}", member), "object")
         [] Peek(q) = "[" -> made(Container(Step(q), "]", element), "array")
         [] Peek(q) = Quote ->
              Then(ReadString(q), LAMBDA r : Give(r, Node("string", r.val, <<>>)))
         [] Peek(q) \in DOMAIN Literal ->
              Then(ExpectLit(q), LAMBDA r :
                Give(r, Node([t |-> "true", f |-> "false", n |-> "null"][Peek(q)], <<>>, <<>>)))
         [] Peek(q) = "-" \/ IsDigit(Peek(q)) -> ReadNumber(q)
         [] Peek(q) = "EOF" -> Fail(q, "UnexpectedEnd")
         [] OTHER -> Fail(q, "UnexpectedCharacter"))

\* from_str, and from_str_with for its comments.
FromStr(b, comments) == Then(ReadValue(SkipWs(NewParser(b, comments))), Finish)
=============================================================================
