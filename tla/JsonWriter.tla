----------------------------- MODULE JsonWriter -----------------------------
(***************************************************************************)
(* The JSON writer, in memory and over a sink: json/writer.rs.             *)
(*                                                                         *)
(* A writer appends to a buffer.  When an append finds no room the buffer  *)
(* grows or, if there is a sink, its front is handed to the sink.  The     *)
(* last character is kept back, because a container's closing bracket      *)
(* replaces its last comma.  The caller is any code that writes values: it *)
(* nests containers properly, and between that it may append what it       *)
(* likes, commas or none.                                                  *)
(*                                                                         *)
(* A writer is a record; its methods are operators that return the writer  *)
(* they leave.  Bytes are classes: letters, punctuation, a byte that has   *)
(* to be escaped, and the two bytes of a character that is not ASCII.      *)
(*                                                                         *)
(* An operator named X_Slip is X with one mistake in it: the runs check    *)
(* that a property notices.                                                *)
(***************************************************************************)
EXTENDS Integers, Sequences, FiniteSets, SequencesExt

CONSTANTS
  Capacities,   \* sink buffer sizes to check
  Buffers,      \* buffers handed to appending: [held |-> bytes, cap |-> capacity]
  Policies,     \* Options to check: [pretty |-> ..., newLinesInArrays |-> ...]
  Texts,        \* runs of bytes that raw() is given, each whole characters
  Strings,      \* strings that write_str() is given
  Letters,      \* bytes of them that stand for themselves
  Fixed,        \* tokens of append_fixed: [text |-> ..., max |-> bytes copied]
  Word,         \* bytes moved at once by write_str, 8 in the code
  MaxText,      \* bound on the bytes written
  Failures      \* sinks to check: [at |-> the write_all that fails, 0 for none;
                \*                  taken |-> how much of it goes through]

Comma     == "comma"
Quote     == "quote"
LineFeed  == "LF"
Blank     == "SP"
Backslash == "BS"
Object    == [open |-> "LBrace", close |-> "RBrace"]
Array     == [open |-> "LBracket", close |-> "RBracket"]
Lead      == "h"   \* the two bytes of a character that is not ASCII
Cont      == "c"
NeedsEscape(b) == b = LineFeed
Escaped(b)     == <<Backslash, "n">>   \* every short escape is two bytes

Ascii == {Comma, Quote, LineFeed, Blank, Backslash, "n",
          Object.open, Object.close, Array.open, Array.close}
Bytes == Letters \cup Ascii \cup {Lead, Cont}

\* Whole characters: what a &str holds.  Begun is a beginning of that, which
\* may stop inside a character.
Begun(s)    == \A i \in DOMAIN s : s[i] = Cont => i > 1 /\ s[i - 1] = Lead
Complete(s) == Begun(s) /\ \A i \in DOMAIN s : s[i] = Lead => i < Len(s)
                                                          /\ s[i + 1] = Cont

\* The bytes between the quotes, after each byte of the string.
Shown(b)  == IF NeedsEscape(b) THEN Escaped(b) ELSE <<b>>
Inside(s) == LET upTo[i \in 0 .. Len(s)] ==
                   IF i = 0 THEN <<>> ELSE upTo[i - 1] \o Shown(s[i])
             IN upTo
Quoted(s) == <<Quote>> \o Inside(s)[Len(s)] \o <<Quote>>

ScalarLengths == {Len(s) : s \in Texts} \cup {Len(Quoted(s)) : s \in Strings}
                   \cup {t.max : t \in Fixed}

ASSUME SizesAssumption == Capacities \subseteq Nat /\ Word \in Nat \ {0} /\ MaxText \in Nat

\* What a &str promises, what append_fixed asserts of its tokens, and that a
\* Vec holds no more than its capacity.
ASSUME TextsAssumption ==
  /\ \A s \in Texts \cup Strings : s \in Seq(Bytes) /\ Complete(s)
  /\ \A t \in Fixed : /\ t.text \in Seq(Bytes) /\ Complete(t.text)
                      /\ t.max \in Nat /\ Len(t.text) <= t.max
  /\ \A b \in Buffers : b.held \in Seq(Bytes) /\ b.cap \in Nat /\ Len(b.held) <= b.cap

\* Some scalar is the longest that is written, and it is not empty.
ASSUME LongestAssumption == \E n \in ScalarLengths : n >= 1 /\ \A m \in ScalarLengths : m <= n

ASSUME OptionsAssumption ==
  /\ \A o \in Policies : o.pretty \in BOOLEAN /\ o.newLinesInArrays \in BOOLEAN
  /\ \A f \in Failures : f.at \in Nat /\ f.taken \in Nat

Unlimited == 1000   \* usize::MAX, more than any buffer holds here

VARIABLES
  policy,   \* O: Options
  failure,  \* when the sink fails
  w,        \* the writer, and the bytes its sink has taken
  open,     \* the caller's containers, innermost last
  text,     \* history: the document so far, as it would be in memory
  held,     \* history: what the caller's buffer had in it before
  result    \* what finish returned, "string" or "refused" after into_string,
            \* "unwound" after a write that panicked, "none" before

wvars == <<policy, failure, w, open, text, held, result>>

Larger(a, b)  == IF a >= b THEN a ELSE b
Smaller(a, b) == IF a <= b THEN a ELSE b
Ends(s, b)    == s # <<>> /\ Last(s) = b
Repeat(b, n)  == [i \in 1 .. n |-> b]

\* breaks_lines: a container with its contents on lines of their own.
BreaksLines(b) == policy.pretty /\ (policy.newLinesInArrays \/ b \in {Object.open, Object.close})

-----------------------------------------------------------------------------
(* The buffer and the sink.                                                *)

NewWriter(buf, cap, threshold, sink) ==
  [buf |-> buf, cap |-> cap, limit |-> cap, threshold |-> threshold, depth |-> 0,
   textFrom |-> Len(buf), sink |-> sink, sent |-> <<>>, calls |-> 0, err |-> FALSE,
   sound |-> TRUE]   \* history: every unchecked store was inside the allocation

\* to_sink_with_capacity.
ToSink(capacity) ==
  LET cap == Larger(capacity, 1) IN NewWriter(<<>>, cap, cap, TRUE)

\* appending, and by an empty buffer new, with_capacity and from_vec.
Appending(buffer) == NewWriter(buffer.held, buffer.cap, Unlimited, FALSE)

WriteAll_Forgets(wr, bytes) ==   \* slip: the failure is not remembered
  IF wr.calls + 1 = failure.at
  THEN [wr EXCEPT !.calls = @ + 1,
                  !.sent = @ \o SubSeq(bytes, 1, Smaller(failure.taken, Len(bytes) - 1))]
  ELSE [wr EXCEPT !.calls = @ + 1, !.sent = @ \o bytes]

\* The sink is asked for nothing once it has failed.  A write that fails may
\* have put any part of it through.
WriteAll(wr, bytes) ==
  CASE wr.err -> wr
    [] ~wr.err /\ wr.calls + 1 = failure.at ->
         [wr EXCEPT !.calls = @ + 1, !.err = TRUE,
                    !.sent = @ \o SubSeq(bytes, 1, Smaller(failure.taken, Len(bytes) - 1))]
    [] OTHER -> [wr EXCEPT !.calls = @ + 1, !.sent = @ \o bytes]

Cut_KeepsNothing(buf) == Len(buf)       \* slip: the last byte goes too
\* Where drain cuts: the last byte is kept, and the whole of its character.
Cut(buf) ==
  LET starts == {i \in 0 .. Len(buf) - 1 : i = 0 \/ buf[i + 1] # Cont}
  IN CHOOSE i \in starts : \A j \in starts : j <= i

\* drain: the cut part is discarded even if the sink refuses it.
Drain(wr) ==
  LET cut == Cut(wr.buf) IN
  IF ~wr.sink \/ Len(wr.buf) < 2 \/ cut = 0 THEN wr
  ELSE [WriteAll(wr, SubSeq(wr.buf, 1, cut)) EXCEPT !.buf = SubSeq(wr.buf, cut + 1, Len(wr.buf))]

Relimit_Unclamped(wr) == [wr EXCEPT !.limit = wr.threshold]   \* slip: may pass the capacity

\* relimit: the fast path's limit.
Relimit(wr) == [wr EXCEPT !.limit = Smaller(wr.cap, wr.threshold)]

\* room and spill.  reserve may give more than it is asked for; the least is
\* what the stores have to do with.
Spill(wr, n) ==
  LET drained == Drain(wr) IN
  Relimit([drained EXCEPT !.cap = Larger(@, Len(drained.buf) + n)])
Room(wr, n) == IF Len(wr.buf) + n > wr.limit THEN Spill(wr, n) ELSE wr

\* A copy of some bytes to the end of the buffer, of which reach are stored to.
Store(wr, bytes, reach) ==
  [wr EXCEPT !.buf = @ \o bytes, !.sound = @ /\ Len(wr.buf) + reach <= wr.cap]

\* append, push and append_fixed.
AppendBytes(wr, bytes)  == Store(Room(wr, Len(bytes)), bytes, Len(bytes))
Push(wr, b)             == AppendBytes(wr, <<b>>)
AppendFixed(wr, token)  == Store(Room(wr, token.max), token.text, token.max)

StrRoom(n) == n + 2 + Word

\* write_str: whole words are stored while they last, whatever they hold, then
\* single bytes; an escape goes through append, and room is asked for again.
\* A state of its loop is the writer and the bytes of the string done with.
Escape(st, s) ==
  [wr |-> Room(AppendBytes(st.wr, Escaped(s[st.i + 1])), Len(s) - (st.i + 1) + Word),
   i  |-> st.i + 1]

Clean(st, s) == {k \in 0 .. Word : \A j \in 1 .. k : ~NeedsEscape(s[st.i + j])}
StrWord(st, s) ==
  LET k     == CHOOSE k \in Clean(st, s) : \A j \in Clean(st, s) : j <= k
      moved == [wr |-> Store(st.wr, SubSeq(s, st.i + 1, st.i + k), Word), i |-> st.i + k]
  IN IF k = Word THEN moved ELSE Escape(moved, s)

StrTurn(st, s) ==
  CASE st.i >= Len(s) -> st
    [] st.i < Len(s) /\ st.i + Word <= Len(s) -> StrWord(st, s)
    [] st.i < Len(s) /\ st.i + Word > Len(s) /\ ~NeedsEscape(s[st.i + 1]) ->
         [wr |-> Store(st.wr, <<s[st.i + 1]>>, 1), i |-> st.i + 1]
    [] OTHER -> Escape(st, s)

StrStart(wr, s) == [wr |-> Push(Room(wr, StrRoom(Len(s))), Quote), i |-> 0]
StrLoop(wr, s) ==
  LET turn[k \in 0 .. Len(s)] == IF k = 0 THEN StrStart(wr, s) ELSE StrTurn(turn[k - 1], s)
  IN turn
WriteStr(wr, s) == Push(StrLoop(wr, s)[Len(s)].wr, Quote)

\* line: only under PRETTY; INDENT is 1 here.
Line(wr) == IF policy.pretty
            THEN LET broken == Push(wr, LineFeed) IN
                 IF wr.depth = 0 THEN broken ELSE AppendBytes(broken, Repeat(Blank, wr.depth))
            ELSE wr

\* item: what goes in front of an array element.
Item(wr) == CASE policy.newLinesInArrays -> Line(wr)
              [] ~policy.newLinesInArrays /\ policy.pretty /\ Ends(wr.buf, Comma) -> Push(wr, Blank)
              [] OTHER -> wr

OpenContainer(wr, b) ==
  LET opened == Push(wr, b) IN
  IF BreaksLines(b) THEN [opened EXCEPT !.depth = @ + 1] ELSE opened

\* close, and close_over_comma: the bracket takes the comma's place.
CloseOverComma(wr, b) ==
  CASE BreaksLines(b) /\ Ends(wr.buf, Comma)  -> Push(Line([wr EXCEPT !.buf = Front(@)]), b)
    [] ~BreaksLines(b) /\ Ends(wr.buf, Comma) -> [wr EXCEPT !.buf = Append(Front(@), b)]
    [] OTHER -> Push(wr, b)
CloseContainer(wr, b) ==
  CloseOverComma(IF BreaksLines(b) THEN [wr EXCEPT !.depth = @ - 1] ELSE wr, b)

-----------------------------------------------------------------------------
(* The document, said of text alone: no buffer, no sink.                   *)

Indent(brackets) == Repeat(Blank, Cardinality({i \in DOMAIN brackets : BreaksLines(brackets[i])}))
NewLine(brackets) == IF policy.pretty THEN <<LineFeed>> \o Indent(brackets) ELSE <<>>
ClosedBy(t, b, outer) ==
  IF Ends(t, Comma)
  THEN Front(t) \o (IF BreaksLines(b) THEN NewLine(outer) ELSE <<>>) \o <<b>>
  ELSE t \o <<b>>

-----------------------------------------------------------------------------
Init ==
  /\ policy \in Policies
  /\ failure \in Failures
  /\ w \in {ToSink(capacity) : capacity \in Capacities} \cup {Appending(b) : b \in Buffers}
  /\ ~w.sink => failure.at = 0
  /\ open = <<>> /\ text = w.buf /\ held = w.buf
  /\ result = "none"

Writing(t) == result = "none" /\ Len(text) < MaxText /\ text' = t
              /\ UNCHANGED <<policy, failure, held, result>>

Raw(s)     == w' = AppendBytes(w, s) /\ Writing(text \o s) /\ UNCHANGED open
Str(s)     == w' = WriteStr(w, s) /\ Writing(text \o Quoted(s)) /\ UNCHANGED open
Token(t)   == w' = AppendFixed(w, t) /\ Writing(text \o t.text) /\ UNCHANGED open
Separate   == w' = Push(w, Comma) /\ Writing(Append(text, Comma)) /\ UNCHANGED open

\* The line a member starts on; key and write_keyed begin with it.
MemberLine ==
  /\ policy.pretty
  /\ w' = Line(w)
  /\ Writing(text \o NewLine(open))
  /\ UNCHANGED open

Element ==
  /\ policy.pretty
  /\ w' = Item(w)
  /\ Writing(text \o (CASE policy.newLinesInArrays -> NewLine(open)
                        [] ~policy.newLinesInArrays /\ Ends(text, Comma) -> <<Blank>>
                        [] OTHER -> <<>>))
  /\ UNCHANGED open

Open(b) ==
  /\ w' = OpenContainer(w, b)
  /\ Writing(Append(text, b))
  /\ open' = Append(open, b)

Close ==
  /\ open # <<>>
  /\ LET b == IF Last(open) = Object.open THEN Object.close ELSE Array.close IN
     /\ w' = CloseContainer(w, b)
     /\ Writing(ClosedBy(text, b, Front(open)))
  /\ open' = Front(open)

\* into_string: looks at the bytes the writer was handed, and at no others.
\* into_vec hands back the same buffer and looks at none.
IntoString ==
  /\ result = "none"
  /\ result' = IF Complete(SubSeq(w.buf, 1, w.textFrom)) THEN "string" ELSE "refused"
  /\ UNCHANGED <<policy, failure, w, open, text, held>>

\* append_in_place: a write that unwinds, at any point, hands the caller's
\* buffer back cut to the length it had.
Unwind ==
  /\ result = "none" /\ ~w.sink
  /\ result' = "unwound"
  /\ w' = [w EXCEPT !.buf = SubSeq(@, 1, Smaller(Len(held), Len(@)))]
  /\ UNCHANGED <<policy, failure, open, text, held>>

\* finish: the tail, and the first error there was.
Finish ==
  /\ result = "none" /\ w.sink
  /\ LET out == IF w.buf = <<>> THEN w ELSE WriteAll(w, w.buf) IN
     /\ w' = [out EXCEPT !.buf = <<>>]
     /\ result' = IF out.err THEN "error" ELSE "ok"
  /\ UNCHANGED <<policy, failure, open, text, held>>

\* key, write_seq, write_keyed and the other composite writers are sequences
\* of these.
Next ==
  \/ \E s \in Texts : Raw(s)
  \/ \E s \in Strings : Str(s)
  \/ \E t \in Fixed : Token(t)
  \/ Separate \/ MemberLine \/ Element
  \/ \E b \in {Object.open, Array.open} : Open(b)
  \/ Close
  \/ Finish \/ IntoString \/ Unwind

Spec == Init /\ [][Next]_wvars

-----------------------------------------------------------------------------
(* Properties.                                                             *)

\* Every unchecked store stays inside the allocation: the room asked for
\* covers what is stored, though draining and escaping move the buffer in
\* between, and the fast path's limit never passes the capacity.
StoresInCapacity == w.sound /\ Len(w.buf) <= w.cap /\ w.limit <= w.cap

\* Peak memory is the buffer, or the character kept back and the longest scalar
\* written after it (or indentation, where that is deeper), whether the sink
\* takes what it is given or not.
Kept    == 2   \* bytes of the longest character
Longest == CHOOSE n \in ScalarLengths : \A m \in ScalarLengths : m <= n
HeldIsBounded == w.sink => Len(w.buf) <= Larger(w.threshold, Kept + Larger(Longest, w.depth))

\* Every store and every byte held is inside what the writer allows itself.
BufferKeepsItsBounds == StoresInCapacity /\ HeldIsBounded

\* What into_string takes for text without looking is text: draining cuts
\* between characters and nothing handed in is changed.  A sink that has not
\* failed has been given whole characters.
WholeCharacters ==
  /\ result = "string" => Complete(w.buf)
  /\ result = "refused" => ~Complete(held)
  /\ w.sink /\ ~w.err => Complete(w.sent)

\* Streaming is invisible: what the sink has, followed by what is held back,
\* is the document an in-memory writer would hold.  A comma that a bracket
\* replaces has never been given to the sink.  After a failure the sink has
\* only the beginning of the document; and it is handed whole characters throughout.
\* A write that unwinds leaves the caller's bytes as they were, whatever comma
\* they end in.
StreamedIsText ==
  /\ WholeCharacters
  /\ result \in {"none", "string", "refused"} /\ ~w.err => w.sent \o w.buf = text
  /\ w.err => IsPrefix(w.sent, text)
  /\ result = "unwound" => w.buf = held

\* finish says ok exactly when the sink has the whole document: no failed
\* write goes unreported, and none is made up.
FinishTellsTheTruth ==
  /\ result = "ok" => w.sent = text
  /\ result = "error" => failure.at > 0 /\ w.sent # text
=============================================================================
