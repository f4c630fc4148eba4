---------------------------- MODULE BeveFramerProofs ----------------------------
(***************************************************************************)
(* The BEVE feed keeps the window's contract (BeveFeed), for every input,  *)
(* every way of splitting it into chunks, every capacity and every limit.  *)
(*                                                                         *)
(* The window promises StreamWindow's specification for any splitter that  *)
(* answers from the state it is handed: it moves forward, stays inside the *)
(* bytes it was shown, and names the same item again when its window is    *)
(* rebased.  Between shows that the BEVE splitter is one.  The argument    *)
(* follows src/beve/stream/split.rs from the inside out: what a header     *)
(* byte and a size are, what a preamble takes, what one step of the walk   *)
(* over a value does to its stack, and then the splitter's states and the  *)
(* loop that turns them until one answers.  The invariant BInv is that the *)
(* splitter's cursor and what its walk is owed fit the bytes it holds.     *)
(***************************************************************************)
EXTENDS BeveFeed, BevePreambleProofs, Induction, SequenceTheorems

-----------------------------------------------------------------------------
(* Preambles.                                                              *)

\* The frames of the stack, src/beve/stream/split.rs.
FrameKinds == {"Object", "Values", "Strings"}
Frames == [kind : FrameKinds, width : Nat, left : Nat, key : BOOLEAN]

\* r read a preamble from i on, in a buffer of n, or failed.
Ahead(r, i, n) ==
  /\ r.code \in Codes
  /\ r.code = "none" => r.pos \in i .. n /\ r.skip \in Nat /\ r.frames \in Seq(Frames)

\* The frames the preambles push are frames.
LEMMA FrameFacts ==
  ASSUME NEW m \in Nat
  PROVE  /\ ValuesFrame(m) \in Frames /\ StringsFrame(m) \in Frames
         /\ \A width \in Nat : ObjectFrame(width, m) \in Frames
BY DEF ValuesFrame, StringsFrame, ObjectFrame, Frames, FrameKinds

\* A preamble that was read, with a block to skip and at most one frame to push.
LEMMA PreFacts ==
  ASSUME NEW i, NEW n, NEW p \in i .. n, NEW skip \in Nat,
         NEW frames, frames = <<>> \/ \E f \in Frames : frames = <<f>>,
         NEW r, r = Pre(p, skip, frames)
  PROVE  Ahead(r, i, n)
<1>1. r.code = "none" /\ r.pos = p /\ r.skip = skip /\ r.frames = frames
  BY DEF Pre
<1>2. frames \in Seq(Frames)
  <2>1. CASE frames = <<>>
    BY <2>1
  <2>2. CASE \E f \in Frames : frames = <<f>>
    <3>1. PICK f \in Frames : frames = <<f>>
      BY <2>2
    <3> QED BY <3>1
  <2> QED BY <2>1, <2>2
<1> QED BY <1>1, <1>2 DEF Ahead, Codes

\* A failure is no preamble.
LEMMA AheadFailed ==
  ASSUME NEW r, r.code # "none", r.code \in Codes
  PROVE  \A i, n : Ahead(r, i, n)
BY DEF Ahead

\* The failures a preamble may report.
LEMMA AheadBroken ==
  ASSUME NEW code \in BeveCodes
  PROVE  \A i, n : Ahead(Broken(code), i, n) /\ Ahead(BadHeader, i, n) /\ Ahead(Short, i, n)
<1>1. Broken(code).code = code /\ code # "none" /\ code \in Codes
  BY DEF Broken, BeveCodes, Codes
<1>2. /\ BadHeader.code # "none" /\ BadHeader.code \in Codes
      /\ Short.code # "none" /\ Short.code \in Codes
  BY DEF BadHeader, Short, Broken, BeveCodes, Codes
<1> QED BY <1>1, <1>2, AheadFailed

\* A preamble read further on was read from here.
LEMMA AheadFromBefore ==
  ASSUME NEW i \in Int, NEW j \in Int, i <= j, NEW n \in Int, NEW r
  PROVE  Ahead(r, j, n) => Ahead(r, i, n)
BY DEF Ahead

\* The depth check turns a preamble that opens a container into a failure, or leaves it alone.
LEMMA EnterFacts ==
  ASSUME NEW i, NEW n, NEW depth, NEW r, Ahead(r, i, n)
  PROVE  Ahead(Enter(depth, r), i, n)
<1>1. "ExceededMaxDepth" \in BeveCodes
  BY DEF BeveCodes
<1>2. Ahead(Broken("ExceededMaxDepth"), i, n)
  BY <1>1, AheadBroken
<1> QED BY <1>2 DEF Enter

\* The payload of a form that was read.
LEMMA BlockPreFacts ==
  ASSUME NEW i, NEW n, NEW f, Formed(f, i, n), f.code = "none", NEW width \in Nat,
         NEW b, b = Block(f, width),
         NEW r, r = IF b.code = "none" THEN Pre(b.pos, b.n, <<>>) ELSE b
  PROVE  Ahead(r, i, n)
<1>1. Took(b, i, n)
  BY BlockFacts
<1>2. CASE b.code = "none"
  <2>1. b.pos \in i .. n /\ b.n \in Nat /\ r = Pre(b.pos, b.n, <<>>)
    BY <1>1, <1>2 DEF Took
  <2> QED BY <2>1, PreFacts
<1>3. CASE b.code # "none"
  BY <1>1, <1>3, AheadFailed DEF Took
<1> QED BY <1>2, <1>3

\* The preamble of a typed array: a block to skip, or a frame of strings.
LEMMA TypedPreFacts ==
  ASSUME NEW i, NEW n, NEW f, Formed(f, i, n), f.code = "none",
         f.kind \in {"Bools", "Strings", "Fixed"}, NEW r, r = TypedPre(f)
  PROVE  Ahead(r, i, n)
<1>1. f.pos \in i .. n /\ f.n \in Nat /\ f.elem \in Octets
  BY DEF Formed, Took
<1>2. CASE f.kind = "Bools"
  <2>1. PackedBytes(f.n) \in Nat
    BY <1>1, PackedFacts
  <2>2. r = Pre(f.pos, PackedBytes(f.n), <<>>)
    BY <1>2 DEF TypedPre
  <2> QED BY <1>1, <2>1, <2>2, PreFacts
<1>3. CASE f.kind = "Strings"
  <2>1. r = Pre(f.pos, 0, <<StringsFrame(f.n)>>)
    BY <1>3 DEF TypedPre
  <2>2. \E g \in Frames : <<StringsFrame(f.n)>> = <<g>>
    BY <1>1, FrameFacts
  <2> HIDE DEF StringsFrame
  <2> QED BY <1>1, <2>1, <2>2, PreFacts
<1>4. CASE f.kind = "Fixed"
  <2> DEFINE b == Block(f, ByteWidth(f.elem))
  <2>1. r = IF b.code = "none" THEN Pre(b.pos, b.n, <<>>) ELSE b
    BY <1>4 DEF TypedPre, Then
  <2>2. ByteWidth(f.elem) \in Nat
    BY <1>1, WidthFacts
  <2> QED BY <2>1, <2>2, BlockPreFacts
<1> QED BY <1>2, <1>3, <1>4

\* A preamble that holds a count and opens a frame, or is followed by that many bytes.
LEMMA CountedPreFacts ==
  ASSUME NEW data \in Datas, NEW p \in Nat, NEW m, m = CountAt(data, p), NEW width \in Nat,
         NEW depth
  PROVE  /\ m.code # "none" => Ahead(m, p + 1, Len(data))
         /\ m.code = "none" =>
              /\ Ahead(Pre(m.pos, m.n, <<>>), p + 1, Len(data))
              /\ Ahead(Enter(depth, Pre(m.pos, 0, <<ObjectFrame(width, m.n)>>)), p + 1, Len(data))
              /\ Ahead(Enter(depth, Pre(m.pos, 0, <<ValuesFrame(m.n)>>)), p + 1, Len(data))
<1>1. Took(m, p + 1, Len(data))
  BY CountFacts
<1>2. CASE m.code = "none"
  <2>1. m.pos \in p + 1 .. Len(data) /\ m.n \in Nat /\ 0 \in Nat
    BY <1>1, <1>2 DEF Took
  <2>2. ObjectFrame(width, m.n) \in Frames /\ ValuesFrame(m.n) \in Frames
    BY <2>1, FrameFacts
  <2> HIDE DEF ObjectFrame, ValuesFrame
  <2>3. Ahead(Pre(m.pos, m.n, <<>>), p + 1, Len(data))
    BY <2>1, PreFacts
  <2>4. Ahead(Pre(m.pos, 0, <<ObjectFrame(width, m.n)>>), p + 1, Len(data))
    BY <2>1, <2>2, PreFacts
  <2>5. Ahead(Pre(m.pos, 0, <<ValuesFrame(m.n)>>), p + 1, Len(data))
    BY <2>1, <2>2, PreFacts
  <2> QED BY <1>2, <2>3, <2>4, <2>5, EnterFacts
<1>3. CASE m.code # "none"
  BY <1>1, <1>3, AheadFailed DEF Took
<1> QED BY <1>2, <1>3

\* The preamble of an extension: a tag and a matrix open a frame, a complex value is a block.
LEMMA ExtensionFacts ==
  ASSUME NEW data \in Datas, NEW p \in Nat, p <= Len(data), NEW h, NEW depth,
         NEW r, r = ExtensionPre(data, p, h, depth)
  PROVE  Ahead(r, p, Len(data))
<1> DEFINE n == Len(data)
           id == ExtId(h)
           tag == SizeAt(data, p)
           tagged == IF tag.code = "none" THEN Enter(depth, Pre(tag.pos, 0, <<ValuesFrame(1)>>)) ELSE tag
           matrix == Enter(depth, Pre(p, 1, <<ValuesFrame(2)>>))
           f == ComplexHead(data, p)
           b == Block(f, 2 * ByteWidth(f.elem))
           complex == IF f.code = "none" THEN IF b.code = "none" THEN Pre(b.pos, b.n, <<>>) ELSE b
                      ELSE f
<1>1. r = CASE id = 0 -> BadHeader [] id = TypeTag -> tagged [] id = Matrix -> matrix
            [] id = Complex -> complex [] OTHER -> Broken("UnsupportedFeature")
  BY DEF ExtensionPre, Then
<1>2. r = BadHeader \/ r = tagged \/ r = matrix \/ r = complex \/ r = Broken("UnsupportedFeature")
  <2> HIDE DEF id, tagged, matrix, complex
  <2> QED BY <1>1
<1>3. Ahead(BadHeader, p, n) /\ Ahead(Broken("UnsupportedFeature"), p, n)
  <2>1. "UnsupportedFeature" \in BeveCodes
    BY DEF BeveCodes
  <2> QED BY <2>1, AheadBroken
<1>n. n = Len(data) /\ n \in Nat /\ p \in p .. n /\ p + 1 \in Int /\ p <= p + 1
  BY DataFacts
<1>v. ValuesFrame(1) \in Frames /\ ValuesFrame(2) \in Frames
  BY FrameFacts
<1>4. Ahead(matrix, p, n)
  <2> HIDE DEF n
  <2>1. Ahead(Pre(p, 1, <<ValuesFrame(2)>>), p, n)
    BY <1>n, <1>v, PreFacts
  <2> QED BY <2>1, EnterFacts
<1>5. Ahead(tagged, p, n)
  <2>1. Took(tag, p + 1, n)
    BY SizeFacts
  <2> HIDE DEF n, tag
  <2>2. CASE tag.code = "none"
    <3>1. tag.pos \in p .. n
      BY <1>n, <2>1, <2>2 DEF Took
    <3>2. Ahead(Pre(tag.pos, 0, <<ValuesFrame(1)>>), p, n)
      BY <1>v, <3>1, PreFacts
    <3> QED BY <2>2, <3>2, EnterFacts
  <2>3. CASE tag.code # "none"
    BY <2>1, <2>3, AheadFailed DEF Took
  <2> QED BY <2>2, <2>3
<1>6. Ahead(complex, p, n)
  <2>1. Formed(f, p + 1, n) /\ (f.code = "none" => f.kind \in {"One", "Run"})
    BY ComplexFacts
  <2>2. Formed(f, p, n)
    <3> HIDE DEF n, f
    <3> QED BY <1>n, <2>1, FormFromBefore
  <2> HIDE DEF n, f
  <2>3. CASE f.code = "none"
    <3>1. ByteWidth(f.elem) \in Nat
      BY <2>1, <2>3, WidthFacts DEF Formed
    <3>2. 2 * ByteWidth(f.elem) \in Nat
      BY <3>1
    <3> QED BY <2>2, <2>3, <3>2, BlockPreFacts
  <2>4. CASE f.code # "none"
    BY <2>1, <2>4, AheadFailed DEF Formed, Took
  <2> QED BY <2>3, <2>4
<1> HIDE DEF n, tagged, matrix, complex
<1> QED BY <1>2, <1>3, <1>4, <1>5, <1>6, <1>n

\* Whatever the header byte is, a preamble takes it and stays inside the buffer.
LEMMA PreambleFacts ==
  ASSUME NEW data \in Datas, NEW at \in Nat, NEW depth, NEW r, r = Preamble(data, at, depth)
  PROVE  Ahead(r, at + 1, Len(data))
<1> DEFINE first == ByteAt(data, at)
           n == Len(data)
           h == first.n
           p == first.pos
           m == CountAt(data, p)
           string == IF m.code = "none" THEN Pre(m.pos, m.n, <<>>) ELSE m
           object == IF m.code = "none" THEN Enter(depth, Pre(m.pos, 0, <<ObjectFrame(KeyWidth(h), m.n)>>)) ELSE m
           values == IF m.code = "none" THEN Enter(depth, Pre(m.pos, 0, <<ValuesFrame(m.n)>>)) ELSE m
           f == TypedHead(data, p, h)
           typed == IF f.code = "none" THEN TypedPre(f) ELSE f
           ext == ExtensionPre(data, p, h, depth)
           past == CASE Ty(h) = NullBool /\ h \in {NULL, FALSE8, TRUE8} -> Pre(p, 0, <<>>)
                     [] Ty(h) = Number /\ ByteWidth(h) # 0 -> Pre(p, ByteWidth(h), <<>>)
                     [] Ty(h) = String /\ Bare(h) -> string
                     [] Ty(h) = Object /\ KeyWidth(h) # -1 -> object
                     [] Ty(h) = GenericArray /\ Bare(h) -> values
                     [] Ty(h) = TypedArray -> Enter(depth, typed)
                     [] Ty(h) = Extension -> ext
                     [] OTHER -> BadHeader
<1>1. /\ Took(first, at + 1, n)
      /\ first.code = "none" => at < n /\ p = at + 1 /\ h \in Octets
  BY ByteAtFacts
<1>2. r = IF first.code = "none" THEN past ELSE first
  BY DEF Preamble, Then
<1>3. CASE first.code # "none"
  BY <1>1, <1>2, <1>3, AheadFailed DEF Took
<1>4. CASE first.code = "none"
  <2>1. p \in Nat /\ p = at + 1 /\ h \in Octets /\ n \in Nat /\ p \in p .. n /\ p <= n /\ n = Len(data)
    BY <1>1, <1>4, DataFacts
  <2>2. /\ r = Pre(p, 0, <<>>) \/ r = Pre(p, ByteWidth(h), <<>>) \/ r = string
           \/ (r = object /\ KeyWidth(h) # -1) \/ r = values \/ r = Enter(depth, typed)
           \/ r = ext \/ r = BadHeader
    <3> HIDE DEF string, object, values, typed, ext, h, p
    <3> QED BY <1>2, <1>4
  <2>3. ByteWidth(h) \in Nat /\ KeyWidth(h) \in Nat \cup {-1}
    BY <2>1, WidthFacts
  <2> HIDE DEF h, p, n
  <2>4. Ahead(Pre(p, 0, <<>>), p, n) /\ Ahead(Pre(p, ByteWidth(h), <<>>), p, n)
    BY <2>1, <2>3, PreFacts
  <2>5. Ahead(BadHeader, p, n)
    <3>1. "InvalidHeader" \in BeveCodes
      BY DEF BeveCodes
    <3> QED BY <3>1, AheadBroken
  <2>6. /\ Ahead(string, p + 1, n) /\ Ahead(values, p + 1, n)
        /\ KeyWidth(h) # -1 => Ahead(object, p + 1, n)
    <3>1. \A width \in Nat : 
            /\ m.code # "none" => Ahead(m, p + 1, n)
            /\ m.code = "none" =>
                 /\ Ahead(Pre(m.pos, m.n, <<>>), p + 1, n)
                 /\ Ahead(Enter(depth, Pre(m.pos, 0, <<ObjectFrame(width, m.n)>>)), p + 1, n)
                 /\ Ahead(Enter(depth, Pre(m.pos, 0, <<ValuesFrame(m.n)>>)), p + 1, n)
      BY <2>1, CountedPreFacts
    <3>2. 0 \in Nat
      OBVIOUS
    <3> HIDE DEF m
    <3>3. Ahead(string, p + 1, n) /\ Ahead(values, p + 1, n)
      BY <3>1, <3>2
    <3>4. ASSUME KeyWidth(h) # -1 PROVE Ahead(object, p + 1, n)
      <4>1. KeyWidth(h) \in Nat
        BY <2>3, <3>4
      <4> QED BY <3>1, <4>1
    <3> QED BY <3>3, <3>4
  <2>7. Ahead(Enter(depth, typed), p + 1, n)
    <3>1. /\ Formed(f, p + 1, n)
          /\ f.code = "none" => f.kind \in {"Bools", "Strings", "Fixed"}
      BY <2>1, TypedHeadFacts
    <3> HIDE DEF f
    <3>2. Ahead(typed, p + 1, n)
      <4>1. CASE f.code = "none"
        BY <3>1, <4>1, TypedPreFacts
      <4>2. CASE f.code # "none"
        BY <3>1, <4>2, AheadFailed DEF Formed, Took
      <4> QED BY <4>1, <4>2
    <3> QED BY <3>2, EnterFacts
  <2>8. Ahead(ext, p, n)
    BY <2>1, ExtensionFacts
  <2> HIDE DEF string, object, values, typed, ext, first
  <2>9. p \in Int /\ p + 1 \in Int /\ p <= p + 1 /\ n \in Int
    BY <2>1
  <2>10. Ahead(string, p, n) /\ Ahead(values, p, n) /\ (KeyWidth(h) # -1 => Ahead(object, p, n))
         /\ Ahead(Enter(depth, typed), p, n)
    BY <2>6, <2>7, <2>9, AheadFromBefore
  <2>11. Ahead(r, p, n)
    BY <2>2, <2>4, <2>5, <2>8, <2>10
  <2> QED BY <2>1, <2>11
<1> QED BY <1>3, <1>4

-----------------------------------------------------------------------------
(* The walk over one value.                                                *)

\* How a walk over one value stands: it goes on, waits for bytes, has its value, or failed.
Outs  == {"more", "starved", "item"} \cup BeveCodes
Scans == [pos : Nat, pending : Nat, stack : Seq(Frames), outer : Nat, started : BOOLEAN, out : Outs]

\* The innermost container, if there is one, is owed something.
Owed(stack) == stack # <<>> => stack[Len(stack)].left # 0

\* t is s further on in a buffer of n bytes: past s, if the walk goes on.
Onward(t, s, n) ==
  t \in Scans /\ t.pos \in s.pos .. n /\ (t.out = "more" => t.pos > s.pos)

\* The fields of a walk, one by one.
LEMMA FieldFacts ==
  ASSUME NEW s \in Scans
  PROVE  /\ s.pos \in Nat /\ s.pending \in Nat /\ s.stack \in Seq(Frames) /\ s.outer \in Nat
         /\ s.started \in BOOLEAN /\ s.out \in Outs
BY DEF Scans

\* A walk that stops keeps everything but its verdict.
LEMMA OutFacts ==
  ASSUME NEW s \in Scans, NEW out \in Outs, NEW t, t = Out(s, out)
  PROVE  /\ t \in Scans /\ t.pos = s.pos /\ t.pending = s.pending /\ t.stack = s.stack
         /\ t.started = s.started /\ t.out = out
<1>1. t \in Scans
  BY Zenon DEF Out, Scans
<1> QED BY <1>1 DEF Out, Scans

\* A frame that is owed something and is given it is a frame: nothing is counted below zero.
LEMMA MetFacts ==
  ASSUME NEW f \in Frames, f.left # 0
  PROVE  Met(f) \in Frames
<1>1. f.left \in Nat /\ f.left - 1 \in Nat /\ FALSE \in BOOLEAN /\ (f.kind = "Object") \in BOOLEAN
  BY DEF Frames
<1>2. CASE f.key
  <2>1. [f EXCEPT !.key = FALSE] \in Frames
    BY <1>1, Zenon DEF Frames
  <2> QED BY <1>2, <2>1 DEF Met
<1>3. CASE ~f.key
  <2> DEFINE g == [f EXCEPT !.left = f.left - 1, !.key = (f.kind = "Object")]
  <2>1. g \in Frames
    BY <1>1, Zenon DEF Frames
  <2>2. Met(f) = g
    BY <1>3 DEF Met
  <2> QED BY <2>1, <2>2
<1> QED BY <1>2, <1>3

\* What is left when the finished containers are popped: the innermost is owed something, or nothing is.
LEMMA OpenFacts ==
  ASSUME NEW stack \in Seq(Frames), NEW t, t = StillOpen(stack)
  PROVE  t \in Seq(Frames) /\ Owed(t)
<1> DEFINE owing == {k \in DOMAIN stack : stack[k].left # 0}
           m == IF owing = {} THEN 0 ELSE CHOOSE k \in owing : \A j \in owing : j <= k
<1>1. t = SubSeq(stack, 1, m)
  BY DEF StillOpen
<1>2. owing \subseteq 1 .. Len(stack) /\ Len(stack) \in Nat /\ \A k \in owing : stack[k].left # 0
  OBVIOUS
<1>3. m \in 0 .. Len(stack) /\ (m # 0 => stack[m].left # 0)
  <2> HIDE DEF owing
  <2>1. CASE owing = {}
    BY <1>2, <2>1
  <2>2. CASE owing # {}
    <3>0. 1 \in Nat /\ Len(stack) \in Int /\ owing \subseteq 1 .. Len(stack)
      BY <1>2
    <3>1. \E k \in owing : \A j \in owing : j <= k
      BY <2>2, <3>0, GreatestElement
    <3>2. m \in owing
      BY <2>2, <3>1
    <3> HIDE DEF m
    <3> QED BY <1>2, <3>2
  <2> QED BY <2>1, <2>2
<1> HIDE DEF m
<1>4. t \in Seq(Frames) /\ Len(t) = m /\ \A k \in 1 .. m : t[k] = stack[k]
  BY <1>1, <1>3
<1>5. t # <<>> => m # 0
  BY <1>4
<1> QED BY <1>3, <1>4, <1>5 DEF Owed

\* What the innermost container was owed is crossed off, and the walk stands where it stood.
LEMMA TakenFacts ==
  ASSUME NEW s \in Scans, Owed(s.stack), NEW t, t = Taken(s)
  PROVE  /\ t \in Scans /\ t.pos = s.pos /\ t.pending = s.pending /\ t.out = s.out
<1>f. /\ s.pos \in Nat /\ s.pending \in Nat /\ s.stack \in Seq(Frames) /\ s.started \in BOOLEAN
      /\ s.out \in Outs /\ TRUE \in BOOLEAN
  BY FieldFacts
<1>1. CASE s.stack = <<>>
  <2>1. t = [s EXCEPT !.started = TRUE]
    BY <1>1 DEF Taken
  <2>2. t \in Scans
    BY <1>f, <2>1, Zenon DEF Scans
  <2> QED BY <2>1, <2>2 DEF Scans
<1>2. CASE s.stack # <<>>
  <2> DEFINE stack == [s.stack EXCEPT ![Len(s.stack)] = Met(s.stack[Len(s.stack)])]
  <2>1. t = [s EXCEPT !.stack = stack]
    BY <1>2 DEF Taken
  <2>2. Len(s.stack) \in 1 .. Len(s.stack) /\ s.stack[Len(s.stack)] \in Frames
    BY <1>2, <1>f
  <2>3. Met(s.stack[Len(s.stack)]) \in Frames
    BY <1>2, <2>2, MetFacts DEF Owed
  <2>4. stack \in Seq(Frames)
    BY <1>f, <2>2, <2>3, ExceptSeq
  <2> HIDE DEF stack
  <2>5. t \in Scans
    BY <1>f, <2>1, <2>4, Zenon DEF Scans
  <2> QED BY <2>1, <2>5 DEF Scans
<1> QED BY <1>1, <1>2

\* A duty not met ends the walk's call where it stands, or past the size it read.
LEMMA StoppedFacts ==
  ASSUME NEW s \in Scans, NEW n \in Nat, s.pos <= n, NEW out \in Outs, out # "more"
  PROVE  Onward(Out(s, out), s, n)
<1>1. s.pos \in s.pos .. n
  BY FieldFacts
<1> QED BY <1>1, OutFacts DEF Onward

\* Owed a length and its bytes, the walk goes on past the length, waits or fails.
LEMMA TextDutyFacts ==
  ASSUME NEW data \in Datas, NEW s \in Scans, s.pos <= Len(data), s.out = "more", Owed(s.stack)
  PROVE  Onward(TextDuty(s, data), s, Len(data))
<1> DEFINE n == Len(data)
           m == SizeAt(data, s.pos)
           past == [s EXCEPT !.pos = m.pos]
           there == [s EXCEPT !.pos = m.pos, !.pending = m.n]
           t == TextDuty(s, data)
<1>1. n \in Nat /\ s.pos \in Nat
  BY DataFacts, FieldFacts
<1>2. Took(m, s.pos + 1, n)
  BY <1>1, SizeFacts
<1>3. t = IF m.code # "none" THEN Out(s, "starved")
          ELSE IF ~Fits(m.n) THEN Out(past, "UnexpectedEnd") ELSE Taken(there)
  BY DEF TextDuty
<1>o. {"starved", "UnexpectedEnd"} \subseteq Outs /\ "UnexpectedEnd" # "more"
  BY DEF Outs, BeveCodes
<1> HIDE DEF m, past, there
<1>4. CASE m.code # "none"
  <2>1. Onward(Out(s, "starved"), s, n)
    BY <1>1, <1>o, StoppedFacts
  <2> QED BY <1>3, <1>4, <2>1
<1>5. CASE m.code = "none"
  <2>1. m.pos \in s.pos + 1 .. n /\ m.n \in Nat /\ m.pos \in Nat
    BY <1>1, <1>2, <1>5 DEF Took
  <2>2. past \in Scans /\ there \in Scans
    BY <2>1, Zenon DEF Scans, past, there
  <2>3. past.pos = m.pos /\ there.pos = m.pos /\ there.stack = s.stack /\ there.out = "more"
    BY <2>2 DEF past, there, Scans
  <2>4. /\ Out(past, "UnexpectedEnd") \in Scans /\ Out(past, "UnexpectedEnd").pos = m.pos
        /\ Out(past, "UnexpectedEnd").out = "UnexpectedEnd"
    BY <1>o, <2>2, <2>3, OutFacts
  <2>5. Taken(there) \in Scans /\ Taken(there).pos = m.pos
    BY <2>2, <2>3, TakenFacts
  <2>6. m.pos \in s.pos .. n /\ m.pos > s.pos
    BY <1>1, <2>1
  <2> HIDE DEF t, n
  <2>7. t \in Scans /\ t.pos = m.pos
    BY <1>3, <1>5, <2>4, <2>5
  <2> QED BY <2>6, <2>7 DEF Onward, t, n
<1> QED BY <1>4, <1>5

\* Owed an integer key, the walk goes on past it or waits for it.
LEMMA IntKeyDutyFacts ==
  ASSUME NEW data \in Datas, NEW s \in Scans, s.pos <= Len(data), s.out = "more", Owed(s.stack),
         s.stack # <<>>, s.stack[Len(s.stack)].width # 0
  PROVE  Onward(IntKeyDuty(s, data), s, Len(data))
<1> DEFINE n == Len(data)
           width == s.stack[Len(s.stack)].width
           p == s.pos + width
           there == [s EXCEPT !.pos = p]
           t == IntKeyDuty(s, data)
<1>1. n \in Nat /\ s.pos \in Nat
  BY DataFacts, FieldFacts
<1>2. width \in Nat
  <2>1. s.stack \in Seq(Frames)
    BY FieldFacts
  <2>2. s.stack[Len(s.stack)] \in Frames
    BY <2>1
  <2> QED BY <2>2 DEF Frames
<1>3. t = IF n - s.pos < width THEN Out(s, "starved") ELSE Taken(there)
  BY DEF IntKeyDuty
<1>o. "starved" \in Outs
  BY DEF Outs
<1>w. width # 0
  OBVIOUS
<1> HIDE DEF width, n, there
<1>4. CASE n - s.pos < width
  <2>1. Onward(Out(s, "starved"), s, n)
    BY <1>1, <1>o, StoppedFacts DEF n
  <2> QED BY <1>3, <1>4, <2>1 DEF n
<1>5. CASE ~(n - s.pos < width)
  <2>1. p \in s.pos .. n /\ p > s.pos /\ p \in Nat
    BY <1>1, <1>2, <1>5, <1>w
  <2> HIDE DEF p
  <2>2. there \in Scans
    BY <2>1, Zenon DEF Scans, there
  <2>3. there.pos = p /\ there.stack = s.stack
    BY <2>2 DEF there, Scans
  <2>4. t \in Scans /\ t.pos = p
    <3>1. Taken(there) \in Scans /\ Taken(there).pos = p
      BY <2>2, <2>3, TakenFacts
    <3> HIDE DEF t
    <3> QED BY <1>3, <1>5, <3>1
  <2> HIDE DEF t
  <2>5. Onward(t, s, n)
    BY <2>1, <2>4 DEF Onward
  <2> QED BY <2>5 DEF t, n
<1> QED BY <1>4, <1>5

\* Owed a value, the walk goes on past its header, waits or fails.
LEMMA ValueDutyFacts ==
  ASSUME NEW data \in Datas, NEW s \in Scans, s.pos <= Len(data), s.out = "more", Owed(s.stack)
  PROVE  Onward(ValueDuty(s, data), s, Len(data))
<1> DEFINE n == Len(data)
           depth == s.outer + Len(s.stack)
           r == Preamble(data, s.pos, depth)
           there == [s EXCEPT !.pos = r.pos, !.pending = r.skip]
           u == Taken(there)
           stack == u.stack \o r.frames
           v == [u EXCEPT !.stack = stack]
           t == ValueDuty(s, data)
<1>1. n \in Nat /\ s.pos \in Nat /\ n = Len(data)
  BY DataFacts, FieldFacts
<1>2. Ahead(r, s.pos + 1, n)
  BY <1>1, PreambleFacts
<1>3. t = CASE r.code = "UnexpectedEnd" -> Out(s, "starved")
            [] r.code = "none" -> v
            [] OTHER -> Out(s, r.code)
  BY DEF ValueDuty, With
<1>o. "starved" \in Outs /\ BeveCodes \subseteq Outs /\ "more" \notin BeveCodes
  BY DEF Outs, BeveCodes
<1> HIDE DEF r, n
<1>4. CASE r.code = "none"
  <2>1. /\ r.pos \in s.pos + 1 .. n /\ r.skip \in Nat /\ r.pos \in Nat /\ r.frames \in Seq(Frames)
        /\ r.pos \in s.pos .. n /\ r.pos > s.pos
    BY <1>1, <1>2, <1>4 DEF Ahead
  <2>2. there \in Scans
    BY <2>1, Zenon DEF Scans
  <2>3. there.pos = r.pos /\ there.stack = s.stack
    BY <2>2 DEF Scans
  <2> HIDE DEF there
  <2>4. u \in Scans /\ u.pos = r.pos
    BY <2>2, <2>3, TakenFacts
  <2> HIDE DEF u
  <2>5. stack \in Seq(Frames)
    <3>1. u.stack \in Seq(Frames)
      BY <2>4, FieldFacts
    <3> QED BY <2>1, <3>1
  <2> HIDE DEF stack
  <2>6. v \in Scans
    BY <2>4, <2>5, Zenon DEF Scans
  <2>7. v.pos = r.pos
    BY <2>4, <2>6 DEF Scans
  <2> HIDE DEF v, t
  <2>8. t = v
    BY <1>3, <1>4
  <2>9. Onward(t, s, n)
    BY <2>1, <2>6, <2>7, <2>8 DEF Onward
  <2> QED BY <1>1, <2>9 DEF t
<1>5. CASE r.code # "none"
  <2>1. r.code \in Outs /\ r.code # "more"
    BY <1>2, <1>5, <1>o DEF Ahead, Codes
  <2>2. Onward(Out(s, r.code), s, n) /\ Onward(Out(s, "starved"), s, n)
    BY <1>1, <1>o, <2>1, StoppedFacts
  <2> HIDE DEF t, v
  <2>3. t = Out(s, r.code) \/ t = Out(s, "starved")
    BY <1>3, <1>5
  <2>4. Onward(t, s, n)
    BY <2>2, <2>3
  <2> QED BY <1>1, <2>4 DEF t
<1> QED BY <1>4, <1>5

\* Whatever is owed, a step of the walk that goes on has moved forward.
LEMMA DutyFacts ==
  ASSUME NEW data \in Datas, NEW s \in Scans, s.pos <= Len(data), s.out = "more", Owed(s.stack)
  PROVE  Onward(Duty(s, data), s, Len(data))
<1> DEFINE top == s.stack[Len(s.stack)]
<1>1. Onward(ValueDuty(s, data), s, Len(data)) /\ Onward(TextDuty(s, data), s, Len(data))
  BY ValueDutyFacts, TextDutyFacts
<1>2. CASE s.stack = <<>>
  BY <1>1, <1>2 DEF Duty
<1>3. CASE s.stack # <<>>
  <2>1. top.width # 0 => Onward(IntKeyDuty(s, data), s, Len(data))
    BY <1>3, IntKeyDutyFacts
  <2>3. Duty(s, data) =
          CASE top.kind = "Strings" \/ (top.key /\ top.width = 0) -> TextDuty(s, data)
            [] top.key /\ top.width # 0 -> IntKeyDuty(s, data)
            [] OTHER -> ValueDuty(s, data)
    BY <1>3 DEF Duty
  <2> HIDE DEF top
  <2>2. \/ Duty(s, data) = TextDuty(s, data)
        \/ Duty(s, data) = IntKeyDuty(s, data) /\ top.width # 0
        \/ Duty(s, data) = ValueDuty(s, data)
    BY <2>3
  <2> QED BY <1>1, <2>1, <2>2
<1> QED BY <1>2, <1>3

\* Skipping the pending bytes goes no further than the buffer.
LEMMA PassedFacts ==
  ASSUME NEW s \in Scans, NEW data, Len(data) \in Nat, s.pos <= Len(data), NEW t, t = Passed(s, data)
  PROVE  /\ t \in Scans /\ t.pos \in s.pos .. Len(data) /\ t.out = s.out /\ t.stack = s.stack
<1> DEFINE n == Len(data)
           take == Least(s.pending, n - s.pos)
           p == s.pos + take
           q == s.pending - take
<1>1. n \in Nat /\ s.pos \in Nat /\ s.pending \in Nat
  BY FieldFacts
<1>2. t = [s EXCEPT !.pos = p, !.pending = q]
  BY DEF Passed
<1>3. p \in s.pos .. n /\ q \in Nat /\ p \in Nat
  <2> HIDE DEF n
  <2> QED BY <1>1 DEF Least, n
<1> HIDE DEF p, q
<1>4. t \in Scans
  BY <1>2, <1>3, Zenon DEF Scans
<1> QED BY <1>2, <1>3, <1>4 DEF Scans

\* A turn of the walk moves on or ends the call (one iteration of Scanner::advance).
LEMMA ScanTurnFacts ==
  ASSUME NEW data \in Datas, NEW s \in Scans, s.pos <= Len(data), s.out = "more"
  PROVE  Onward(ScanTurn(s, data), s, Len(data))
<1> DEFINE n == Len(data)
           u == Passed(s, data)
           stack == StillOpen(u.stack)
           t == [u EXCEPT !.stack = stack]
           r == ScanTurn(s, data)
<1>1. n \in Nat /\ s.pos \in Nat /\ n = Len(data)
  BY DataFacts, FieldFacts
<1>2. u \in Scans /\ u.pos \in s.pos .. n /\ u.out = "more"
  BY <1>1, PassedFacts
<1>3. r = IF s.pending > n - s.pos THEN Out(u, "starved")
          ELSE IF t.started /\ t.stack = <<>> THEN Out(t, "item") ELSE Duty(t, data)
  BY DEF ScanTurn, With
<1> HIDE DEF u, n
<1>4. t \in Scans /\ t.pos = u.pos /\ t.out = "more" /\ Owed(t.stack)
  <2>1. u.stack \in Seq(Frames)
    BY <1>2, FieldFacts
  <2>2. stack \in Seq(Frames) /\ Owed(stack)
    BY <2>1, OpenFacts
  <2> HIDE DEF stack
  <2>3. t \in Scans
    BY <1>2, <2>2, Zenon DEF Scans
  <2> QED BY <1>2, <2>2, <2>3 DEF Scans
<1> HIDE DEF t
<1>5. Onward(Duty(t, data), t, n)
  BY <1>1, <1>2, <1>4, DutyFacts
<1>6. {"starved", "item"} \subseteq Outs
  BY DEF Outs
<1>7. Onward(Out(u, "starved"), u, n) /\ Onward(Out(t, "item"), t, n)
  BY <1>1, <1>2, <1>4, <1>6, StoppedFacts
<1> HIDE DEF r
<1>8. Onward(r, u, n) \/ Onward(r, t, n)
  BY <1>3, <1>5, <1>7
<1>9. Onward(r, s, n)
  <2>1. r \in Scans /\ r.pos \in u.pos .. n /\ (r.out = "more" => r.pos > u.pos)
    BY <1>4, <1>8 DEF Onward
  <2> QED BY <1>1, <1>2, <2>1 DEF Onward
<1> QED BY <1>1, <1>9 DEF r

\* The walk's call ends: every turn that goes on has moved on, and the bytes run out
\* first (Scanner::advance).
LEMMA AdvanceFacts ==
  ASSUME NEW data \in Datas, NEW scan \in Scans, scan.pos <= Len(data), scan.out = "more",
         NEW r, r = Advance(scan, data)
  PROVE  /\ r.scan \in Scans /\ r.scan.pos \in scan.pos .. Len(data) /\ r.scan.out = "more"
         /\ r.out \in Outs \ {"more"}
<1> DEFINE n == Len(data)
           m == n + 2
           i == scan.pos
           Step(u) == IF u.out = "more" THEN ScanTurn(u, data) ELSE u
           X == {u \in Scans : u.pos \in i .. n}
           F == [k \in 1 .. m |-> [u \in X |-> Step(u)]]
           G(h) == [k \in 0 .. m |-> IF k = 0 THEN scan ELSE Step(h[k - 1])]
           run == CHOOSE h : h = G(h)
           s == run[m]
<1>n. n \in Nat /\ m \in Nat /\ m = n + 2 /\ i \in 0 .. n
  BY DataFacts, FieldFacts
<1>1. r = [scan |-> Out(s, "more"), out |-> s.out]
  BY DEF Advance, With
<1>2. scan \in X /\ scan.pos = i /\ scan.out = "more"
  BY <1>n
<1>3. ASSUME NEW u \in X
      PROVE  Step(u) \in X /\ (Step(u).out = "more" => u.out = "more" /\ Step(u).pos > u.pos)
  <2>1. CASE u.out = "more"
    <3>1. u \in Scans /\ u.pos \in i .. n /\ u.pos <= Len(data) /\ u.pos \in Nat
      BY <1>n
    <3>2. Onward(ScanTurn(u, data), u, n)
      BY <2>1, <3>1, ScanTurnFacts
    <3> DEFINE t == ScanTurn(u, data)
    <3>3. Step(u) = t
      BY <2>1
    <3>4. t \in Scans /\ t.pos \in u.pos .. n /\ (t.out = "more" => t.pos > u.pos)
      BY <3>2 DEF Onward
    <3> HIDE DEF t, Step, n
    <3>5. t.pos \in i .. n
      BY <1>n, <3>1, <3>4
    <3> QED BY <2>1, <3>3, <3>4, <3>5
  <2>2. CASE u.out # "more"
    BY <2>2
  <2> QED BY <2>1, <2>2
<1>5. run = CHOOSE h : h = G(h)
  OBVIOUS
<1>l. n = Len(data)
  OBVIOUS
<1> HIDE DEF n, m, Step, run, i
<1>6. \E h : h = G(h)
  <2>1. F \in [1 .. m -> [X -> X]]
    BY <1>3
  <2>2. \A k \in 1 .. m : \A u \in X : F[k][u] = Step(u)
    OBVIOUS
  <2> HIDE DEF X, F
  <2>3. PICK g : IsRun(g, X, scan, m, F)
    BY <1>n, <1>2, <2>1, RunExists
  <2>4. ASSUME NEW k \in 1 .. m
        PROVE  g[k] = Step(g[k - 1])
    <3>1. k - 1 \in 0 .. m
      BY <1>n
    <3> QED BY <2>2, <2>3, <3>1 DEF IsRun
  <2>5. \A k \in 0 .. m : k # 0 => k \in 1 .. m
    OBVIOUS
  <2>6. g = G(g)
    BY <2>3, <2>4, <2>5 DEF IsRun
  <2> QED BY <2>6
<1>7. run = G(run)
  BY <1>5, <1>6
<1>8. run[0] = scan /\ \A k \in 1 .. m : run[k] = Step(run[k - 1])
  <2>1. \A k \in 0 .. m : run[k] = IF k = 0 THEN scan ELSE Step(run[k - 1])
    BY <1>7
  <2>2. 0 \in 0 .. m /\ \A k \in 1 .. m : k \in 0 .. m /\ k # 0
    BY <1>n
  <2> HIDE DEF G
  <2> QED BY <2>1, <2>2
<1> DEFINE S == {k \in 0 .. m : run[k] \in X /\ (run[k].out = "more" => run[k].pos >= i + k)}
<1>9. 0 \in S
  BY <1>n, <1>2, <1>8
<1>10. ASSUME NEW k \in 1 .. m, k - 1 \in S
       PROVE  k \in S
  <2> DEFINE u == run[k - 1]
             t == run[k]
  <2>1. u \in X /\ (u.out = "more" => u.pos >= i + (k - 1)) /\ t = Step(u) /\ k \in 0 .. m
    BY <1>8, <1>10
  <2> HIDE DEF u, t
  <2>2. t \in X /\ (t.out = "more" => u.out = "more" /\ t.pos > u.pos)
    BY <1>3, <2>1
  <2>3. u.pos \in Int /\ t.pos \in Int
    BY <2>1, <2>2
  <2>4. t.out = "more" => t.pos >= i + k
    BY <1>n, <2>1, <2>2, <2>3
  <2> HIDE DEF X
  <2> QED BY <2>1, <2>2, <2>4 DEF t
<1>11. m \in S
  <2> HIDE DEF S
  <2>1. 0 .. m \subseteq S
    BY <1>n, <1>9, <1>10, UpToInduction
  <2> QED BY <1>n, <2>1
<1>12. s \in Scans /\ s.pos \in i .. n /\ (s.out = "more" => s.pos >= i + m)
  BY <1>11
<1> HIDE DEF s
<1>13. s.out # "more" /\ s.out \in Outs
  BY <1>n, <1>12, FieldFacts
<1>o. "more" \in Outs
  BY DEF Outs
<1>14. Out(s, "more") \in Scans /\ Out(s, "more").pos = s.pos /\ Out(s, "more").out = "more"
  BY <1>o, <1>12, OutFacts
<1>15. r.scan = Out(s, "more") /\ r.out = s.out
  BY <1>1
<1> QED BY <1>l, <1>12, <1>13, <1>14, <1>15 DEF i

-----------------------------------------------------------------------------
(* The splitter.                                                           *)

\* The states of the splitter, and the elements it walks when it streams an array.
States    == {"Between", "InItem", "BeforeArray", "BeforeElement", "Done"}
ElemKinds == {"Generic", "Fixed", "Strings", "Bools"}
Elems     == [kind : ElemKinds, implied : Int, width : Nat, bit : 0 .. 7]
Splitters == [mode : Modes, scan : Scans, state : States, cursor : Nat, left : Nat,
              elem : Elems, implied : Int]

\* e can lay out the elements behind an array's head.
Laid(e) == e \in Elems /\ (e.kind = "Fixed" => e.width >= 1)

\* The splitter can be asked about a buffer of n bytes: its offsets lie in it,
\* the value it is inside of begins on one of its bytes, and is one of those
\* still owed if it is an array's; a bit is being read of a byte that is there.
Ready(s, n) ==
  /\ s \in Splitters
  /\ s.cursor <= n /\ s.scan.pos <= n /\ s.scan.out = "more"
  /\ s.state = "InItem" => s.cursor < n /\ s.cursor <= s.scan.pos /\ (s.mode = "Array" => s.left >= 1)
  /\ s.state = "Between" => s.mode = "Values"
  /\ Laid(s.elem)
  /\ s.elem.bit > 0 => s.state = "BeforeElement" /\ s.elem.kind = "Bools" /\ s.cursor < n

\* The states that are passed before an answer.
Rank == [state \in States |->
  CASE state = "BeforeArray"                -> 3
    [] state \in {"Between", "BeforeElement"} -> 2
    [] OTHER                                -> 1]

\* What next and the turns of its loop return.
Replies == [sp  : Splitters,
            out : [kind : {"again", "need", "end", "fail", "item"}, code : Codes,
                   cursor : Nat, start : Nat, end : Nat]]

\* r is what the contract lets a framer say that stood at cursor c.
Answered(r, c, n, ended) ==
  /\ r.out.kind # "again"
  /\ r.out \in W!FramerOutcomes(n, c, ended)
  /\ r.out.cursor = r.sp.cursor
  /\ r.out.kind # "fail" => Ready(r.sp, n)

\* r is what one turn of the loop may come to, from s.
Turned(r, s, n, ended) ==
  /\ r \in Replies
  /\ \/ Answered(r, s.cursor, n, ended)
     \/ /\ r.out.kind = "again"
        /\ Ready(r.sp, n)
        /\ s.cursor <= r.sp.cursor
        /\ Rank[r.sp.state] < Rank[s.state]

\* How often the splitter may turn without a byte: the order of its states.
LEMMA RankFacts ==
  /\ Rank["BeforeArray"] = 3 /\ Rank["Between"] = 2 /\ Rank["BeforeElement"] = 2
  /\ Rank["InItem"] = 1 /\ Rank["Done"] = 1
  /\ \A state \in States : Rank[state] \in 1 .. 3
BY DEF Rank, States

\* What a splitter that is ready can be relied on for.
LEMMA PartFacts ==
  ASSUME NEW n \in Nat, NEW s, Ready(s, n)
  PROVE  /\ s \in Splitters /\ s.mode \in Modes /\ s.scan \in Scans /\ s.state \in States
         /\ s.cursor \in 0 .. n /\ s.cursor \in Nat /\ s.left \in Nat
         /\ s.elem \in Elems /\ s.elem.bit \in 0 .. 7 /\ s.elem.kind \in ElemKinds
         /\ s.elem.width \in Nat /\ s.elem.implied \in Int /\ s.implied \in Int
         /\ s.scan.pos \in 0 .. n /\ s.scan.outer \in Nat
<1>1. s \in Splitters /\ s.cursor <= n /\ s.scan.pos <= n
  BY DEF Ready
<1>2. /\ s.mode \in Modes /\ s.scan \in Scans /\ s.state \in States /\ s.cursor \in Nat
      /\ s.left \in Nat /\ s.elem \in Elems /\ s.implied \in Int
  BY <1>1 DEF Splitters
<1>3. s.scan.pos \in Nat /\ s.scan.outer \in Nat
  BY <1>2, FieldFacts
<1>4. /\ s.elem.bit \in 0 .. 7 /\ s.elem.kind \in ElemKinds /\ s.elem.width \in Nat
      /\ s.elem.implied \in Int
  BY <1>2 DEF Elems
<1> QED BY <1>1, <1>2, <1>3, <1>4

\* s with other parts.
Split(s, f, state, c, m, e, i) ==
  [mode |-> s.mode, scan |-> f, state |-> state, cursor |-> c, left |-> m, elem |-> e, implied |-> i]

\* t is s with those parts, each of its kind.
Becomes(t, s, f, state, c, m, e, i) ==
  /\ t = Split(s, f, state, c, m, e, i)
  /\ s \in Splitters /\ f \in Scans /\ state \in States /\ c \in Nat /\ m \in Nat
  /\ e \in Elems /\ i \in Int

\* Those fields, one by one.
LEMMA SplitFacts ==
  ASSUME NEW t, NEW s, NEW f, NEW state, NEW c, NEW m, NEW e, NEW i, Becomes(t, s, f, state, c, m, e, i)
  PROVE  /\ t \in Splitters
         /\ t.mode = s.mode /\ t.scan = f /\ t.state = state /\ t.cursor = c /\ t.left = m
         /\ t.elem = e /\ t.implied = i
<1>1. s.mode \in Modes
  BY DEF Splitters, Becomes
<1>2. t \in Splitters
  BY <1>1, Zenon DEF Split, Splitters, Becomes
<1> QED BY <1>2 DEF Split, Becomes

\* The element a head describes is laid out as the walk over the array needs it.
LEMMA ElemFacts ==
  ASSUME NEW kind \in ElemKinds, NEW implied \in Int, NEW width \in Nat, kind = "Fixed" => width >= 1
  PROVE  /\ Laid(Elem(kind, implied, width)) /\ Elem(kind, implied, width).bit = 0
<1>1. 0 \in 0 .. 7
  OBVIOUS
<1>2. Elem(kind, implied, width) \in Elems
  BY <1>1, Zenon DEF Elem, Elems
<1> QED BY <1>2 DEF Elem, Laid

-----------------------------------------------------------------------------
(* Answers.                                                                *)

\* What the splitter's answers are made of.
LEMMA ReplyFacts ==
  ASSUME NEW t \in Splitters, NEW kind \in {"again", "need", "end", "fail", "item"},
         NEW code \in Codes, NEW a \in Nat, NEW e \in Nat, NEW r, r = Reply(t, kind, code, a, e)
  PROVE  r \in Replies
<1>1. t.cursor \in Nat
  BY DEF Splitters
<1> QED BY <1>1 DEF Reply, Replies

\* Asking for more bytes, while there can be more, is an answer of the contract.
LEMMA NeedFacts ==
  ASSUME NEW data, NEW n \in Nat, n = Len(data), NEW ended, ~ended, NEW s, s.cursor \in Nat,
         NEW t, Ready(t, n), s.cursor <= t.cursor, NEW r, r = Need(t, data)
  PROVE  Turned(r, s, n, ended)
<1>1. t.cursor \in s.cursor .. n
  BY PartFacts
<1>2. r.sp = t /\ r.out = W!Outcome("need", "none", t.cursor, t.cursor, n)
  BY DEF Need, Reply, W!Outcome
<1>3. r.out \in W!FramerOutcomes(n, s.cursor, ended)
  BY <1>1, <1>2 DEF W!FramerOutcomes
<1>4. r.out.kind = "need" /\ r.out.cursor = t.cursor
  BY <1>2 DEF W!Outcome
<1>5. r \in Replies
  <2>1. t \in Splitters /\ t.cursor \in Nat
    BY PartFacts
  <2>2. "none" \in Codes /\ r = Reply(t, "need", "none", t.cursor, n)
    BY DEF Codes, Need
  <2> QED BY <2>1, <2>2, ReplyFacts
<1> QED BY <1>2, <1>3, <1>4, <1>5 DEF Turned, Answered

\* So is the end, with the whole buffer passed.
LEMMA EndFacts ==
  ASSUME NEW n \in Nat, NEW ended, ended, NEW s, NEW t, Ready(t, n), t.cursor = n,
         NEW r, r = End(t)
  PROVE  Turned(r, s, n, ended)
<1>2. r.sp = t /\ r.out = W!Outcome("end", "none", n, n, n)
  BY DEF End, Reply, W!Outcome
<1>3. r.out \in W!FramerOutcomes(n, s.cursor, ended)
  BY <1>2 DEF W!FramerOutcomes
<1>4. r.out.kind = "end" /\ r.out.cursor = t.cursor
  BY <1>2 DEF W!Outcome
<1>5. r \in Replies
  <2>1. t \in Splitters /\ t.cursor \in Nat
    BY PartFacts
  <2>2. "none" \in Codes /\ r = Reply(t, "end", "none", t.cursor, t.cursor)
    BY DEF Codes, End
  <2> QED BY <2>1, <2>2, ReplyFacts
<1> QED BY <1>2, <1>3, <1>4, <1>5 DEF Turned, Answered

\* So is a failure at a byte the splitter has reached.
LEMMA FailFacts ==
  ASSUME NEW n \in Nat, NEW ended, NEW s, s.cursor \in Nat, NEW code \in BeveCodes,
         NEW t, Ready(t, n), s.cursor <= t.cursor, NEW r, r = Fail(t, code)
  PROVE  Turned(r, s, n, ended)
<1> DEFINE at == Position(t)
<1>1. at \in s.cursor .. n /\ t.cursor \in s.cursor .. n
  BY PartFacts DEF Position
<1>2. r.sp = t /\ r.out = W!Outcome("fail", code, t.cursor, at, at)
  BY DEF Fail, Reply, W!Outcome
<1> HIDE DEF at
<1>3. r.out \in W!FramerOutcomes(n, s.cursor, ended)
  BY <1>1, <1>2 DEF W!FramerOutcomes
<1>4. r.out.kind = "fail" /\ r.out.cursor = t.cursor
  BY <1>2 DEF W!Outcome
<1>5. r \in Replies
  <2>1. r = Reply(t, "fail", code, at, at)
    BY DEF Fail, at
  <2>2. at \in Nat /\ code \in Codes /\ t \in Splitters
    BY <1>1, PartFacts DEF Codes
  <2> QED BY <2>1, <2>2, ReplyFacts
<1> QED BY <1>2, <1>3, <1>4, <1>5 DEF Turned, Answered

\* So is a value that lies between where the splitter stood and where it stands.
LEMMA ItemFacts ==
  ASSUME NEW n \in Nat, NEW ended, NEW s, s.cursor \in Nat,
         NEW t, Ready(t, n), NEW a \in s.cursor .. n, NEW e \in a .. n, a < n, e <= t.cursor,
         NEW r, r = Item(t, a, e)
  PROVE  Turned(r, s, n, ended)
<1> DEFINE o == W!Outcome("item", "none", t.cursor, a, e)
<1>1. t.cursor \in s.cursor .. n /\ e \in s.cursor .. n
  BY PartFacts
<1>2. r.sp = t /\ r.out = o
  BY DEF Item, Reply, W!Outcome
<1>3. o.kind = "item" /\ o.cursor = t.cursor /\ o.start = a /\ o.end = e
  BY DEF W!Outcome
<1>4. o \in {W!Outcome("item", "none", d, b, f) : d \in s.cursor .. n, b \in s.cursor .. n, f \in s.cursor .. n}
  BY <1>1
<1> HIDE DEF o
<1>5. o \in W!FramerOutcomes(n, s.cursor, ended)
  BY <1>3, <1>4 DEF W!FramerOutcomes
<1>6. r \in Replies
  <2>1. t \in Splitters /\ a \in Nat /\ e \in Nat /\ "none" \in Codes
    BY DEF Ready, Codes
  <2>2. r = Reply(t, "item", "none", a, e)
    BY DEF Item
  <2> QED BY <2>1, <2>2, ReplyFacts
<1> QED BY <1>2, <1>3, <1>5, <1>6 DEF Turned, Answered

\* Going round the loop is sound when it leaves fewer states to pass.
LEMMA AgainFacts ==
  ASSUME NEW n \in Nat, NEW ended, NEW s, NEW t, Ready(t, n),
         s.cursor <= t.cursor, Rank[t.state] < Rank[s.state], NEW r, r = Again(t)
  PROVE  Turned(r, s, n, ended)
<1>1. r.sp = t /\ r.out.kind = "again"
  BY DEF Again, Reply
<1>2. r \in Replies
  <2>1. t \in Splitters /\ r = Reply(t, "again", "none", 0, 0) /\ "none" \in Codes
    BY DEF Ready, Again, Codes
  <2> QED BY <2>1, ReplyFacts
<1> QED BY <1>1, <1>2 DEF Turned

\* So is running out of bytes, whether more can come or not.
LEMMA StarvesFacts ==
  ASSUME NEW data, NEW n \in Nat, n = Len(data), NEW ended \in BOOLEAN, NEW s, s.cursor \in Nat,
         NEW t, Ready(t, n), s.cursor <= t.cursor, NEW r, r = Starves(t, data, ended)
  PROVE  Turned(r, s, n, ended)
<1>1. CASE ended
  <2>1. r = Fail(t, "UnexpectedEnd") /\ "UnexpectedEnd" \in BeveCodes
    BY <1>1 DEF Starves, BeveCodes
  <2> QED BY <2>1, FailFacts
<1>2. CASE ~ended
  <2>1. r = Need(t, data)
    BY <1>2 DEF Starves
  <2> QED BY <1>2, <2>1, NeedFacts
<1> QED BY <1>1, <1>2

-----------------------------------------------------------------------------
(* The states.                                                             *)

\* A walk begins on a byte that is there.
LEMMA RestartFacts ==
  ASSUME NEW n \in Nat, NEW s, Ready(s, n), s.elem.bit = 0, NEW c \in s.cursor .. n, c < n,
         s.mode = "Array" => s.left >= 1, NEW t, t = Restart([s EXCEPT !.cursor = c])
  PROVE  Ready(t, n) /\ t.cursor = c /\ t.state = "InItem"
<1> DEFINE f == FreshScan(c, s.scan.outer)
<1>1. /\ s \in Splitters /\ s.cursor \in Nat /\ s.scan.outer \in Nat /\ s.left \in Nat
      /\ s.elem \in Elems /\ s.implied \in Int /\ Laid(s.elem)
  BY PartFacts DEF Ready
<1>2. c \in Nat
  BY <1>1
<1>3. f \in Scans /\ f.pos = c /\ f.out = "more"
  <2>1. "more" \in Outs /\ <<>> \in Seq(Frames)
    BY DEF Outs
  <2>2. f \in Scans
    BY <1>1, <1>2, <2>1 DEF FreshScan, Scans
  <2> QED BY <2>2 DEF FreshScan
<1>4. t = Split(s, f, "InItem", c, s.left, s.elem, s.implied) /\ "InItem" \in States
  BY <1>1 DEF Restart, Split, Splitters, States
<1> HIDE DEF f
<1>5. /\ t \in Splitters
      /\ t.mode = s.mode /\ t.scan = f /\ t.state = "InItem" /\ t.cursor = c /\ t.left = s.left
      /\ t.elem = s.elem
  <2>1. Becomes(t, s, f, "InItem", c, s.left, s.elem, s.implied)
    BY <1>1, <1>2, <1>3, <1>4 DEF Becomes
  <2> QED BY <2>1, SplitFacts
<1> QED BY <1>1, <1>3, <1>5 DEF Ready

\* Between values the splitter finds the end, fails, or turns to the value in front of it.
LEMMA BetweenFacts ==
  ASSUME NEW data \in Datas, NEW ended \in BOOLEAN, NEW s, Ready(s, Len(data)), s.state = "Between"
  PROVE  Turned(Between(s, data, ended), s, Len(data), ended)
<1> DEFINE n == Len(data)
           values == {i \in s.cursor .. n - 1 : At(data, i) # DELIMITER}
           c == IF values = {} THEN n ELSE CHOOSE i \in values : \A j \in values : i <= j
           here == [s EXCEPT !.cursor = c]
           r == Between(s, data, ended)
<1>n. n = Len(data) /\ n \in Nat
  BY DataFacts
<1>1. /\ s \in Splitters /\ s.cursor \in 0 .. n /\ s.cursor \in Nat /\ s.left \in Nat /\ s.scan \in Scans
      /\ s.elem \in Elems /\ s.implied \in Int /\ s.scan.pos <= n /\ s.state \in States
  <2> HIDE DEF n
  <2> QED BY <1>n, PartFacts
<1>b. s.elem.bit = 0 /\ Laid(s.elem) /\ s.scan.out = "more" /\ s.mode = "Values"
  <2>1. s.elem.bit \in 0 .. 7
    BY <1>n, PartFacts
  <2> QED BY <2>1 DEF Ready
<1>2. values \subseteq s.cursor .. n - 1
  OBVIOUS
<1>3. r = CASE values # {} -> Again(Restart(here))
            [] values = {} /\ ended -> End(here)
            [] values = {} /\ ~ended -> Need(here, data)
  BY Zenon DEF Between
<1> HIDE DEF values, n
<1>4. c \in s.cursor .. n /\ (values # {} => c < n) /\ (values = {} => c = n)
  <2>1. CASE values = {}
    BY <1>1, <1>n, <2>1
  <2>2. CASE values # {}
    <3>1. values \subseteq Nat
      BY <1>1, <1>2
    <3>2. \E i \in values : \A j \in values : i <= j
      BY <2>2, <3>1, LeastElement
    <3>3. c \in values
      BY <2>2, <3>2
    <3> HIDE DEF c
    <3> QED BY <1>1, <1>2, <1>n, <2>2, <3>3
  <2> QED BY <2>1, <2>2
<1> HIDE DEF c
<1>5. Ready(here, n) /\ here.cursor = c
  <2>1. c \in Nat
    BY <1>1, <1>4
  <2>2. here = Split(s, s.scan, s.state, c, s.left, s.elem, s.implied)
    BY <1>1 DEF Split, Splitters
  <2> HIDE DEF here
  <2>3. /\ here \in Splitters /\ here.mode = s.mode /\ here.scan = s.scan /\ here.state = s.state
        /\ here.cursor = c /\ here.left = s.left /\ here.elem = s.elem
    <3>1. Becomes(here, s, s.scan, s.state, c, s.left, s.elem, s.implied)
      BY <1>1, <2>1, <2>2 DEF Becomes
    <3> QED BY <3>1, SplitFacts
  <2> QED BY <1>1, <1>b, <1>4, <2>3 DEF Ready
<1>6. s.cursor <= here.cursor
  BY <1>1, <1>4, <1>5
<1>7. CASE values # {}
  <2> DEFINE t == Restart(here)
  <2>1. Ready(t, n) /\ t.cursor = c /\ t.state = "InItem"
    <3>1. c \in s.cursor .. n /\ c < n
      BY <1>4, <1>7
    <3> QED BY <1>n, <1>1, <1>b, <3>1, RestartFacts
  <2>2. r = Again(t) /\ Rank[t.state] < Rank[s.state]
    BY <1>3, <1>7, <2>1, RankFacts
  <2> HIDE DEF t, r, here
  <2>3. Turned(r, s, n, ended)
    BY <1>n, <1>5, <1>6, <2>1, <2>2, AgainFacts
  <2> QED BY <1>n, <2>3 DEF r
<1>8. CASE values = {}
  <2> HIDE DEF r, here
  <2>1. Turned(r, s, n, ended)
    <3>1. CASE ended
      <4>1. r = End(here) /\ here.cursor = n
        BY <1>3, <1>4, <1>5, <1>8, <3>1
      <4> QED BY <1>n, <1>5, <3>1, <4>1, EndFacts
    <3>2. CASE ~ended
      <4>1. r = Need(here, data)
        BY <1>3, <1>8, <3>2
      <4> QED BY <1>n, <1>1, <1>5, <1>6, <3>2, <4>1, NeedFacts
    <3> QED BY <3>1, <3>2
  <2> QED BY <1>n, <2>1 DEF r
<1> QED BY <1>7, <1>8

\* Inside a value the splitter hands it out, asks for bytes or fails.
LEMMA InItemFacts ==
  ASSUME NEW data \in Datas, NEW ended \in BOOLEAN, NEW s, Ready(s, Len(data)), s.state = "InItem"
  PROVE  Turned(InItem(s, data, ended), s, Len(data), ended)
<1> DEFINE n == Len(data)
           a == Advance(s.scan, data)
           f == a.scan
           e == f.pos
           here == [s EXCEPT !.scan = f]
           state == IF s.mode = "Array" THEN "BeforeElement" ELSE "Between"
           left == IF s.mode = "Array" THEN s.left - 1 ELSE s.left
           done == [here EXCEPT !.cursor = e, !.state = state, !.left = left]
           r == InItem(s, data, ended)
<1>n. n = Len(data) /\ n \in Nat
  BY DataFacts
<1>1. /\ s \in Splitters /\ s.cursor \in 0 .. n /\ s.cursor \in Nat /\ s.left \in Nat /\ s.scan \in Scans
      /\ s.elem \in Elems /\ s.implied \in Int /\ s.state \in States /\ s.mode \in Modes
      /\ s.elem.bit \in 0 .. 7 /\ s.scan.pos \in 0 .. n
  <2> HIDE DEF n
  <2> QED BY <1>n, PartFacts
<1>2. /\ Laid(s.elem) /\ s.elem.bit = 0 /\ s.cursor < n /\ s.cursor <= s.scan.pos
      /\ s.scan.pos <= n /\ s.scan.out = "more" /\ (s.mode = "Array" => s.left >= 1)
  BY <1>1 DEF Ready
<1>3. f \in Scans /\ e \in s.scan.pos .. n /\ f.out = "more" /\ a.out \in Outs \ {"more"}
  BY <1>1, <1>2, AdvanceFacts
<1>4. r = CASE a.out = "item" -> Item(done, s.cursor, e)
            [] a.out = "starved" -> Starves(here, data, ended)
            [] OTHER -> Fail(here, a.out)
  BY DEF InItem, With, Splitters
<1>s. state \in States /\ left \in Nat /\ state # "InItem" /\ (state = "Between" => s.mode = "Values")
  BY <1>1, <1>2 DEF States, Modes
<1> HIDE DEF n, a, f, r, state, left, e
<1>h. here = Split(s, f, s.state, s.cursor, s.left, s.elem, s.implied)
  BY <1>1 DEF Split, Splitters
<1> HIDE DEF here
<1>i. /\ here \in Splitters /\ here.mode = s.mode /\ here.scan = f /\ here.state = s.state
      /\ here.cursor = s.cursor /\ here.left = s.left /\ here.elem = s.elem
      /\ here.implied = s.implied
  <2>1. Becomes(here, s, f, s.state, s.cursor, s.left, s.elem, s.implied)
    BY <1>1, <1>3, <1>h DEF Becomes
  <2> HIDE DEF done
  <2> QED BY <2>1, SplitFacts
<1>p. f.pos = e
  BY DEF e
<1>5. e \in s.cursor .. n /\ e \in Nat /\ e <= n
  BY <1>1, <1>2, <1>3, <1>n
<1>6. Ready(here, n) /\ here.cursor = s.cursor
  BY <1>1, <1>2, <1>3, <1>5, <1>p, <1>i DEF Ready
<1>7. Ready(done, n) /\ done.cursor = e
  <2>1. done \in Splitters
    BY <1>i, <1>s, <1>5, Zenon DEF Splitters
  <2>2. /\ done.mode = here.mode /\ done.scan = here.scan /\ done.state = state
        /\ done.cursor = e /\ done.left = left /\ done.elem = here.elem
    BY <1>i DEF Splitters
  <2> HIDE DEF done
  <2> QED BY <1>1, <1>2, <1>3, <1>5, <1>i, <1>p, <1>s, <2>1, <2>2 DEF Ready
<1> HIDE DEF done
<1>8. s.cursor <= here.cursor /\ s.cursor \in s.cursor .. n /\ e <= done.cursor
  BY <1>1, <1>2, <1>5, <1>6, <1>7, <1>n
<1>9. Turned(r, s, n, ended)
  <2>1. CASE a.out = "item"
    <3>1. r = Item(done, s.cursor, e)
      BY <1>4, <2>1
    <3> DEFINE c == s.cursor
    <3>2. c \in s.cursor .. n /\ e \in c .. n /\ c < n /\ r = Item(done, c, e)
      BY <1>2, <1>5, <1>8, <3>1
    <3> HIDE DEF c
    <3> QED BY <1>n, <1>1, <1>7, <1>8, <3>2, ItemFacts
  <2>2. CASE a.out = "starved"
    <3>1. r = Starves(here, data, ended)
      BY <1>4, <2>2
    <3> QED BY <1>n, <1>1, <1>6, <1>8, <3>1, StarvesFacts
  <2>3. CASE a.out # "item" /\ a.out # "starved"
    <3>1. r = Fail(here, a.out) /\ a.out \in BeveCodes
      BY <1>3, <1>4, <2>3 DEF Outs
    <3> QED BY <1>n, <1>1, <1>6, <1>8, <3>1, FailFacts
  <2> QED BY <2>1, <2>2, <2>3
<1> QED BY <1>n, <1>9 DEF r

-----------------------------------------------------------------------------
(* Array mode.                                                             *)

\* r is the head of an array, read from i on, or why there is none.
Opened(r, i, n) ==
  /\ r.code \in Codes
  /\ r.code = "none" => r.pos \in i .. n /\ r.n \in Nat /\ Laid(r.elem) /\ r.elem.bit = 0

\* The failures the head of an array may report.
LEMMA OpenedBroken ==
  ASSUME NEW code \in BeveCodes
  PROVE  \A i, n : Opened(Broken(code), i, n) /\ Opened(BadHeader, i, n)
BY DEF Broken, BadHeader, Opened, BeveCodes, Codes

\* A failure is no array.
LEMMA OpenedFailed ==
  ASSUME NEW r, r.code # "none", r.code \in Codes
  PROVE  \A i, n : Opened(r, i, n)
BY DEF Opened

\* A form with its elements' layout for its elements' header.
LEMMA LaidFacts ==
  ASSUME NEW i, NEW n, NEW f, f.pos \in i .. n, f.n \in Nat, NEW e, Laid(e), e.bit = 0,
         NEW r, r.code = "none", r.pos = f.pos, r.n = f.n, r.elem = e
  PROVE  Opened(r, i, n)
BY DEF Opened, Codes

\* The head of a typed array names an element of at least a bit.
LEMMA ElemOfFacts ==
  ASSUME NEW i, NEW n, NEW f, Formed(f, i, n), f.code = "none", f.kind \in {"Bools", "Strings", "Fixed"}
  PROVE  Laid(ElemOf(f)) /\ ElemOf(f).bit = 0
<1>1. f.elem \in Octets /\ (f.kind = "Fixed" => ByteWidth(f.elem) # 0)
  BY DEF Formed
<1>2. "Bools" \in ElemKinds /\ "Strings" \in ElemKinds /\ "Fixed" \in ElemKinds
  BY DEF ElemKinds
<1>3. CASE f.kind = "Bools"
  <2>1. ElemOf(f) = Elem("Bools", -1, 0)
    BY <1>3 DEF ElemOf
  <2>2. -1 \in Int /\ 0 \in Nat
    OBVIOUS
  <2> QED BY <1>2, <2>1, <2>2, ElemFacts
<1>4. CASE f.kind = "Strings"
  <2>1. ElemOf(f) = Elem("Strings", String, 0)
    BY <1>4 DEF ElemOf
  <2>2. String \in Int /\ 0 \in Nat
    BY DEF String
  <2> QED BY <1>2, <2>1, <2>2, ElemFacts
<1>5. CASE f.kind = "Fixed"
  <2> DEFINE e == ElementOf(f.elem)
             width == ElementWidth(e)
  <2>1. ElemOf(f) = Elem("Fixed", e, width)
    BY <1>5 DEF ElemOf
  <2>2. e \in Octets /\ width = ByteWidth(f.elem) /\ ByteWidth(f.elem) \in Nat
    BY <1>1, ElementFacts, WidthFacts
  <2> HIDE DEF e, width
  <2>3. e \in Int /\ width \in Nat /\ width >= 1
    BY <1>1, <1>5, <2>2 DEF Octets
  <2> QED BY <1>2, <2>1, <2>3, ElemFacts
<1> QED BY <1>3, <1>4, <1>5

\* ComplexElems of a form gives up on a lone number.
LEMMA ComplexElemsFacts ==
  ASSUME NEW i, NEW n, NEW f, Formed(f, i, n), f.code = "none", f.kind \in {"One", "Run"},
         NEW r, r = ComplexElems(f)
  PROVE  Opened(r, i, n)
<1>1. f.pos \in i .. n /\ f.n \in Nat /\ f.elem \in Octets /\ ByteWidth(f.elem) # 0
  BY DEF Formed, Took
<1>f. f = Form(f.pos, f.kind, f.elem, f.n)
  BY DEF Formed
<1>2. CASE f.kind = "One"
  <2>1. r = Broken("ExpectedArray") /\ "ExpectedArray" \in BeveCodes
    BY <1>2 DEF ComplexElems, BeveCodes
  <2> QED BY <2>1, OpenedBroken
<1>3. CASE f.kind = "Run"
  <2> DEFINE width == 2 * ByteWidth(f.elem)
             e == Elem("Fixed", ComplexElement(f.elem), width)
  <2>1. r = [f EXCEPT !.elem = e]
    BY <1>3 DEF ComplexElems
  <2>2. ByteWidth(f.elem) \in Nat
    BY <1>1, WidthFacts
  <2>3. width \in Nat /\ width >= 1
    BY <1>1, <2>2
  <2>4. ComplexElement(f.elem) \in Int /\ "Fixed" \in ElemKinds
    <3>1. Ty(f.elem) \in 0 .. 7 /\ f.elem \in Int
      BY <1>1, HeaderFacts DEF Octets
    <3> QED BY <3>1 DEF ComplexElement, Undefined, ElemKinds
  <2> HIDE DEF width
  <2>5. Laid(e) /\ e.bit = 0
    BY <2>3, <2>4, ElemFacts
  <2> HIDE DEF e
  <2>6. r.code = "none" /\ r.pos = f.pos /\ r.n = f.n /\ r.elem = e
    BY <1>f, <2>1 DEF Form
  <2> QED BY <1>1, <2>5, <2>6, LaidFacts
<1> QED BY <1>2, <1>3

\* Opening an array takes its header and stays inside the buffer.
LEMMA ArrayHeadFacts ==
  ASSUME NEW data \in Datas, NEW at \in Nat, NEW r, r = ArrayHead(data, at)
  PROVE  Opened(r, at + 1, Len(data))
<1> DEFINE first == ByteAt(data, at)
           n == Len(data)
           h == first.n
           p == first.pos
           m == CountAt(data, p)
           generic == IF m.code = "none" THEN Form(m.pos, "Generic", Elem("Generic", -1, 0), m.n) ELSE m
           f == TypedPreamble(data, p, h)
           e == ElemOf(f)
           typed == IF f.code = "none" THEN [f EXCEPT !.elem = e] ELSE f
           g == ComplexHead(data, p)
           complex == IF g.code = "none" THEN ComplexElems(g) ELSE g
           past == CASE Ty(h) = GenericArray /\ ~Bare(h) -> BadHeader
                     [] Ty(h) = GenericArray /\ Bare(h) -> generic
                     [] Ty(h) = TypedArray -> typed
                     [] h = COMPLEX -> complex
                     [] OTHER -> Broken("ExpectedArray")
<1>1. /\ Took(first, at + 1, n)
      /\ first.code = "none" => at < n /\ p = at + 1 /\ h \in Octets
  BY ByteAtFacts
<1>2. r = IF first.code = "none" THEN past ELSE first
  BY DEF ArrayHead, Then
<1>n. n = Len(data) /\ n \in Nat
  BY DataFacts
<1>3. CASE first.code # "none"
  BY <1>1, <1>2, <1>3, OpenedFailed DEF Took
<1>4. CASE first.code = "none"
  <2>1. p \in Nat /\ p = at + 1 /\ h \in Octets /\ p <= n
    BY <1>1, <1>4, <1>n
  <2>2. r = BadHeader \/ r = generic \/ r = typed \/ r = complex \/ r = Broken("ExpectedArray")
    <3> HIDE DEF generic, typed, complex, h, p
    <3> QED BY <1>2, <1>4
  <2> HIDE DEF h, p, n
  <2>3. \A i : Opened(BadHeader, i, n) /\ Opened(Broken("ExpectedArray"), i, n)
    <3>1. "ExpectedArray" \in BeveCodes
      BY DEF BeveCodes
    <3> QED BY <3>1, OpenedBroken
  <2>4. Opened(generic, p + 1, n)
    <3>1. Took(m, p + 1, n)
      BY <1>n, <2>1, CountFacts
    <3> HIDE DEF m
    <3>2. CASE m.code = "none"
      <4> DEFINE l == Elem("Generic", -1, 0)
      <4>1. "Generic" \in ElemKinds /\ -1 \in Int /\ 0 \in Nat /\ "Generic" # "Fixed"
        BY DEF ElemKinds
      <4>2. Laid(l) /\ l.bit = 0
        BY <4>1, ElemFacts
      <4>3. m.pos \in p + 1 .. n /\ m.n \in Nat
        BY <3>1, <3>2 DEF Took
      <4> HIDE DEF l
      <4>4. generic = Form(m.pos, "Generic", l, m.n)
        BY <3>2 DEF l
      <4>5. generic.code = "none" /\ generic.pos = m.pos /\ generic.n = m.n /\ generic.elem = l
        BY <4>4 DEF Form
      <4> HIDE DEF generic
      <4> QED BY <4>2, <4>3, <4>5, LaidFacts
    <3>3. CASE m.code # "none"
      BY <3>1, <3>3, OpenedFailed DEF Took
    <3> QED BY <3>2, <3>3
  <2>5. Opened(typed, p + 1, n)
    <3>1. Formed(f, p + 1, n) /\ (f.code = "none" => f.kind \in {"Bools", "Strings", "Fixed"})
      BY <1>n, <2>1, TypedPreambleFacts
    <3> HIDE DEF f
    <3>2. CASE f.code = "none"
      <4>1. Laid(e) /\ e.bit = 0
        BY <3>1, <3>2, ElemOfFacts
      <4>2. f.pos \in p + 1 .. n /\ f.n \in Nat /\ f = Form(f.pos, f.kind, f.elem, f.n)
        BY <3>1, <3>2 DEF Formed, Took
      <4> HIDE DEF e
      <4>3. typed = [f EXCEPT !.elem = e]
        BY <3>2
      <4>4. typed.code = "none" /\ typed.pos = f.pos /\ typed.n = f.n /\ typed.elem = e
        BY <4>2, <4>3 DEF Form
      <4> HIDE DEF typed
      <4> QED BY <4>1, <4>2, <4>4, LaidFacts
    <3>3. CASE f.code # "none"
      BY <3>1, <3>3, OpenedFailed DEF Formed, Took
    <3> QED BY <3>2, <3>3
  <2>6. Opened(complex, p + 1, n)
    <3>1. Formed(g, p + 1, n) /\ (g.code = "none" => g.kind \in {"One", "Run"})
      BY <1>n, <2>1, ComplexFacts
    <3> HIDE DEF g
    <3>2. CASE g.code = "none"
      BY <3>1, <3>2, ComplexElemsFacts
    <3>3. CASE g.code # "none"
      BY <3>1, <3>3, OpenedFailed DEF Formed, Took
    <3> QED BY <3>2, <3>3
  <2> HIDE DEF generic, typed, complex
  <2>7. Opened(r, p + 1, n)
    BY <2>2, <2>3, <2>4, <2>5, <2>6
  <2>8. p + 1 .. n \subseteq at + 1 .. n
    BY <1>n, <2>1
  <2>9. Opened(r, at + 1, n)
    BY <2>7, <2>8 DEF Opened
  <2> QED BY <1>n, <2>9
<1> QED BY <1>3, <1>4

\* In front of an array the splitter opens it, asks for its head or fails.
LEMMA BeforeArrayFacts ==
  ASSUME NEW data \in Datas, NEW ended \in BOOLEAN, NEW s, Ready(s, Len(data)), s.state = "BeforeArray"
  PROVE  Turned(BeforeArray(s, data, ended), s, Len(data), ended)
<1> DEFINE n == Len(data)
           f == ArrayHead(data, s.cursor)
           t == [s EXCEPT !.cursor = f.pos, !.left = f.n, !.elem = f.elem, !.state = "BeforeElement"]
           r == BeforeArray(s, data, ended)
<1>n. n = Len(data) /\ n \in Nat
  BY DataFacts
<1>1. /\ s \in Splitters /\ s.cursor \in 0 .. n /\ s.cursor \in Nat /\ s.left \in Nat /\ s.scan \in Scans
      /\ s.elem \in Elems /\ s.implied \in Int
  <2> HIDE DEF n
  <2> QED BY <1>n, PartFacts
<1>2. Opened(f, s.cursor + 1, n)
  BY <1>1, ArrayHeadFacts
<1>3. r = CASE s.cursor >= n /\ ended -> End(s)
            [] f.code = "UnexpectedEnd" /\ ~(ended /\ s.cursor >= n) -> Starves(s, data, ended)
            [] f.code = "none" -> Again(t)
            [] f.code \notin {"UnexpectedEnd", "none"} -> Fail(s, f.code)
  BY DEF BeforeArray
<1> HIDE DEF f, r
<1>4. \/ ended /\ s.cursor >= n /\ r = End(s)
      \/ r = Starves(s, data, ended)
      \/ f.code = "none" /\ r = Again(t)
      \/ f.code \notin {"UnexpectedEnd", "none"} /\ r = Fail(s, f.code)
  <2> HIDE DEF t, n
  <2> QED BY <1>1, <1>3, <1>n
<1> HIDE DEF n
<1>5. Ready(s, n) /\ s.scan.pos <= n /\ s.scan.out = "more"
  BY <1>n DEF Ready
<1>6. ASSUME ended, s.cursor >= n, r = End(s) PROVE Turned(r, s, n, ended)
  <2>1. s.cursor = n
    BY <1>1, <1>6, <1>n
  <2> QED BY <1>n, <1>5, <1>6, <2>1, EndFacts
<1>7. ASSUME r = Starves(s, data, ended) PROVE Turned(r, s, n, ended)
  <2>1. s.cursor <= s.cursor
    BY <1>1
  <2> QED BY <1>n, <1>1, <1>5, <1>7, <2>1, StarvesFacts
<1>8. ASSUME f.code \notin {"UnexpectedEnd", "none"}, r = Fail(s, f.code) PROVE Turned(r, s, n, ended)
  <2>1. f.code \in BeveCodes /\ s.cursor <= s.cursor
    BY <1>1, <1>2, <1>8 DEF Opened, Codes
  <2> QED BY <1>n, <1>1, <1>5, <1>8, <2>1, FailFacts
<1>9. ASSUME f.code = "none", r = Again(t) PROVE Turned(r, s, n, ended)
  <2>1. f.pos \in s.cursor + 1 .. n /\ f.n \in Nat /\ Laid(f.elem) /\ f.elem.bit = 0
    BY <1>2, <1>9 DEF Opened
  <2>2. f.pos \in Nat /\ f.elem \in Elems /\ "BeforeElement" \in States
    BY <1>1, <1>n, <2>1 DEF Laid, States
  <2>3. t \in Splitters
    BY <1>1, <2>1, <2>2, Zenon DEF Splitters
  <2>4. /\ t.mode = s.mode /\ t.scan = s.scan /\ t.state = "BeforeElement" /\ t.cursor = f.pos
        /\ t.left = f.n /\ t.elem = f.elem
    BY <1>1 DEF Splitters
  <2> HIDE DEF t
  <2>5. Ready(t, n)
    BY <1>1, <1>5, <1>n, <2>1, <2>3, <2>4 DEF Ready
  <2>6. s.cursor <= t.cursor
    BY <1>1, <1>n, <2>1, <2>4
  <2>7. Rank[t.state] < Rank[s.state]
    BY <2>4, RankFacts
  <2> QED BY <1>n, <1>9, <2>5, <2>6, <2>7, AgainFacts
<1>10. Turned(r, s, n, ended)
  BY <1>4, <1>6, <1>7, <1>8, <1>9
<1> QED BY <1>n, <1>10 DEF r

\* An element that is not walked is given out, and the cursor moves on.
LEMMA ElementsFacts ==
  ASSUME NEW n \in Nat, NEW ended, NEW s, Ready(s, n), s.state = "BeforeElement", s.left # 0, s.cursor < n,
         NEW b \in 0 .. 7, NEW u, u = [s EXCEPT !.elem.bit = b],
         NEW c \in s.cursor .. n, NEW e \in s.cursor .. n, e <= c, b > 0 => s.elem.kind = "Bools" /\ c < n,
         NEW implied \in Int, NEW r, r = Element(u, e, c, implied)
  PROVE  Turned(r, s, n, ended)
<1> DEFINE l == [s.elem EXCEPT !.bit = b]
           m == s.left - 1
           t == [s EXCEPT !.cursor = c, !.left = m, !.implied = implied, !.elem = l]
<1>1. /\ s \in Splitters /\ s.cursor \in 0 .. n /\ s.cursor \in Nat /\ s.left \in Nat /\ s.scan \in Scans
      /\ s.elem \in Elems /\ s.state \in States
  BY PartFacts
<1>2. Laid(s.elem) /\ s.scan.pos <= n /\ s.scan.out = "more"
  BY DEF Ready
<1>3. l \in Elems /\ l.bit = b /\ l.kind = s.elem.kind /\ l.width = s.elem.width
  <2>1. l \in Elems
    BY <1>1, Zenon DEF Elems
  <2> QED BY <1>1, <2>1 DEF Elems
<1>4. m \in Nat /\ c \in Nat
  BY <1>1
<1>5. r = Item(t, s.cursor, e)
  <2>1. u.cursor = s.cursor /\ u = [s EXCEPT !.elem = l]
    BY <1>1 DEF Splitters
  <2>2. t = [u EXCEPT !.cursor = c, !.left = @ - 1, !.implied = implied]
    BY <1>1, <2>1 DEF Splitters
  <2> HIDE DEF t
  <2> QED BY <2>1, <2>2 DEF Element
<1> HIDE DEF l, m
<1>6. t \in Splitters
  BY <1>1, <1>3, <1>4, Zenon DEF Splitters
<1>7. /\ t.mode = s.mode /\ t.scan = s.scan /\ t.state = "BeforeElement" /\ t.cursor = c
      /\ t.left = m /\ t.elem = l
  BY <1>1 DEF Splitters
<1> HIDE DEF t
<1>8. Ready(t, n)
  <2>1. Laid(l)
    BY <1>2, <1>3 DEF Laid
  <2> QED BY <1>1, <1>2, <1>3, <1>4, <1>6, <1>7, <2>1 DEF Ready
<1>9. s.cursor \in s.cursor .. n /\ e <= t.cursor
  BY <1>1, <1>7
<1> DEFINE a == s.cursor
<1>10. a \in s.cursor .. n /\ e \in a .. n /\ a < n /\ r = Item(t, a, e)
  BY <1>5, <1>9
<1> HIDE DEF a
<1> QED BY <1>1, <1>8, <1>9, <1>10, ItemFacts

\* No bit is being read of elements that are not packed booleans.
LEMMA WholeFacts ==
  ASSUME NEW n \in Nat, NEW s, Ready(s, n), s.elem.kind # "Bools"
  PROVE  s.elem.bit = 0 /\ s = [s EXCEPT !.elem.bit = 0]
<1>1. s \in Splitters /\ s.elem \in Elems /\ s.elem.bit \in 0 .. 7
  BY PartFacts
<1>2. s.elem.bit = 0
  BY <1>1 DEF Ready
<1>3. [s.elem EXCEPT !.bit = 0] = s.elem
  BY <1>1, <1>2 DEF Elems
<1> QED BY <1>1, <1>2, <1>3 DEF Splitters

\* An element of a fixed width is handed out whole, or the rest of it is asked for.
LEMMA FixedFacts ==
  ASSUME NEW data, NEW n \in Nat, n = Len(data), NEW ended \in BOOLEAN, NEW s, Ready(s, n),
         s.state = "BeforeElement", s.left # 0, s.elem.kind = "Fixed", NEW r, r = FixedElement(s, data, ended)
  PROVE  Turned(r, s, n, ended)
<1> DEFINE e == s.cursor + s.elem.width
           i == s.elem.implied
<1>1. s.cursor \in 0 .. n /\ s.cursor \in Nat /\ s.elem.width \in Nat /\ i \in Int
  BY PartFacts
<1>2. s.elem.width >= 1
  BY DEF Ready, Laid
<1>3. r = IF e > n THEN Starves(s, data, ended) ELSE Element(s, e, e, i)
  BY DEF FixedElement
<1>4. e \in Nat /\ e > s.cursor
  BY <1>1, <1>2
<1> HIDE DEF e, i
<1>5. CASE e > n
  BY <1>1, <1>3, <1>5, StarvesFacts
<1>6. CASE ~(e > n)
  <2>1. e \in s.cursor .. n /\ s.cursor < n /\ e <= e
    BY <1>1, <1>4, <1>6
  <2>2. s = [s EXCEPT !.elem.bit = 0] /\ 0 \in 0 .. 7
    BY WholeFacts
  <2> DEFINE b == 0
  <2>3. b \in 0 .. 7 /\ s = [s EXCEPT !.elem.bit = b] /\ (b > 0 => s.elem.kind = "Bools" /\ e < n)
    BY <2>2
  <2> HIDE DEF b
  <2>4. r = Element(s, e, e, i)
    BY <1>3, <1>6
  <2> QED BY <1>1, <2>1, <2>3, <2>4, ElementsFacts
<1> QED BY <1>5, <1>6

\* A string of a typed array is handed out with its length, or the rest of it is asked for.
LEMMA StringFacts ==
  ASSUME NEW data \in Datas, NEW n \in Nat, n = Len(data), NEW ended \in BOOLEAN, NEW s, Ready(s, n),
         s.state = "BeforeElement", s.left # 0, s.elem.kind = "Strings", NEW r, r = StringElement(s, data, ended)
  PROVE  Turned(r, s, n, ended)
<1> DEFINE m == CountAt(data, s.cursor)
           e == m.pos + m.n
           i == String
<1>1. s.cursor \in 0 .. n /\ s.cursor \in Nat /\ i \in Int
  BY PartFacts DEF String
<1>2. Took(m, s.cursor + 1, n)
  BY <1>1, CountFacts
<1>3. r = IF m.code # "none" \/ e > n THEN Starves(s, data, ended) ELSE Element(s, e, e, i)
  BY DEF StringElement
<1>4. m.code = "none" => e \in Nat /\ e > s.cursor
  BY <1>1, <1>2 DEF Took
<1> HIDE DEF m, e, i
<1>5. CASE m.code # "none" \/ e > n
  BY <1>1, <1>3, <1>5, StarvesFacts
<1>6. CASE ~(m.code # "none" \/ e > n)
  <2>1. e \in s.cursor .. n /\ s.cursor < n /\ e <= e
    BY <1>1, <1>4, <1>6
  <2>2. s = [s EXCEPT !.elem.bit = 0] /\ 0 \in 0 .. 7
    BY WholeFacts
  <2> DEFINE b == 0
  <2>3. b \in 0 .. 7 /\ s = [s EXCEPT !.elem.bit = b] /\ (b > 0 => s.elem.kind = "Bools" /\ e < n)
    BY <2>2
  <2> HIDE DEF b
  <2>4. r = Element(s, e, e, i)
    BY <1>3, <1>6
  <2> QED BY <1>1, <2>1, <2>3, <2>4, ElementsFacts
<1> QED BY <1>5, <1>6

\* A packed boolean is handed out of its byte, and the byte is left after its eighth.
LEMMA BoolFacts ==
  ASSUME NEW data, NEW n \in Nat, n = Len(data), NEW ended \in BOOLEAN, NEW s, Ready(s, n),
         s.state = "BeforeElement", s.left # 0, s.elem.kind = "Bools", NEW r, r = BoolElement(s, data, ended)
  PROVE  Turned(r, s, n, ended)
<1> DEFINE bit == s.elem.bit
           byte == At(data, s.cursor)
           padded == s.left = 1 /\ PaddingSet(bit + 1, byte)
           b == (bit + 1) % 8
           u == [s EXCEPT !.elem.bit = b]
           c == IF bit = 7 THEN s.cursor + 1 ELSE s.cursor
           i == IF (byte \div 2 ^ bit) % 2 = 1 THEN TRUE8 ELSE FALSE8
           a == s.cursor
<1>1. s.cursor \in 0 .. n /\ s.cursor \in Nat /\ bit \in 0 .. 7
  BY PartFacts
<1>2. r = IF s.cursor >= n THEN Starves(s, data, ended)
          ELSE IF padded THEN Fail(s, "InvalidPadding")
          ELSE Element(u, a, c, i)
  BY DEF BoolElement
<1>3. i \in Int
  BY DEF TRUE8, FALSE8
<1>4. b \in 0 .. 7 /\ (b > 0 => bit # 7)
  BY <1>1
<1> HIDE DEF bit, byte, padded, b, i
<1>5. CASE s.cursor >= n
  BY <1>1, <1>2, <1>5, StarvesFacts
<1>6. CASE ~(s.cursor >= n) /\ padded
  <2>1. r = Fail(s, "InvalidPadding") /\ "InvalidPadding" \in BeveCodes /\ s.cursor <= s.cursor
    BY <1>1, <1>2, <1>6 DEF BeveCodes
  <2> QED BY <1>1, <2>1, FailFacts
<1>7. CASE ~(s.cursor >= n) /\ ~padded
  <2>1. /\ s.cursor < n /\ c \in s.cursor .. n /\ a \in s.cursor .. n /\ a <= c
        /\ b > 0 => s.elem.kind = "Bools" /\ c < n
    BY <1>1, <1>4, <1>7
  <2>2. r = Element(u, a, c, i)
    BY <1>2, <1>7
  <2> HIDE DEF a, c
  <2> QED BY <1>1, <1>3, <1>4, <2>1, <2>2, ElementsFacts
<1> QED BY <1>5, <1>6, <1>7

\* A closed array leaves the byte of its last bit behind.
LEMMA CloseFacts ==
  ASSUME NEW n \in Nat, NEW s, Ready(s, n), s.state = "BeforeElement", NEW t, t = CloseArray(s)
  PROVE  Ready(t, n) /\ s.cursor <= t.cursor /\ t.state = "Done"
<1> DEFINE c == IF s.elem.bit > 0 THEN s.cursor + 1 ELSE s.cursor
           l == [s.elem EXCEPT !.bit = 0]
<1>1. /\ s \in Splitters /\ s.cursor \in 0 .. n /\ s.cursor \in Nat /\ s.left \in Nat /\ s.scan \in Scans
      /\ s.elem \in Elems /\ s.elem.bit \in 0 .. 7
  BY PartFacts
<1>2. Laid(s.elem) /\ s.scan.pos <= n /\ s.scan.out = "more" /\ (s.elem.bit > 0 => s.cursor < n)
  BY DEF Ready
<1>3. l \in Elems /\ l.bit = 0 /\ l.kind = s.elem.kind /\ l.width = s.elem.width
  <2>1. 0 \in 0 .. 7
    OBVIOUS
  <2>2. l \in Elems
    BY <1>1, <2>1, Zenon DEF Elems
  <2> QED BY <1>1, <2>2 DEF Elems
<1>4. c \in s.cursor .. n /\ c \in Nat /\ "Done" \in States
  BY <1>1, <1>2 DEF States
<1>5. t = [s EXCEPT !.cursor = c, !.elem = l, !.state = "Done"]
  BY <1>1 DEF CloseArray, Splitters
<1> HIDE DEF c, l
<1>6. t \in Splitters
  BY <1>1, <1>3, <1>4, <1>5, Zenon DEF Splitters
<1>7. t.mode = s.mode /\ t.scan = s.scan /\ t.state = "Done" /\ t.cursor = c /\ t.left = s.left /\ t.elem = l
  BY <1>1, <1>5 DEF Splitters
<1>8. Laid(l)
  BY <1>2, <1>3 DEF Laid
<1> QED BY <1>1, <1>2, <1>3, <1>4, <1>6, <1>7, <1>8 DEF Ready

\* In front of an element the splitter hands it out, asks for bytes, walks into it or closes the array.
LEMMA BeforeElementFacts ==
  ASSUME NEW data \in Datas, NEW ended \in BOOLEAN, NEW s, Ready(s, Len(data)), s.state = "BeforeElement"
  PROVE  Turned(BeforeElement(s, data, ended), s, Len(data), ended)
<1> DEFINE n == Len(data)
           r == BeforeElement(s, data, ended)
<1>n. n = Len(data) /\ n \in Nat
  BY DataFacts
<1>1. /\ s \in Splitters /\ s.cursor \in 0 .. n /\ s.cursor \in Nat /\ s.left \in Nat
      /\ s.elem.kind \in ElemKinds /\ s.elem.bit \in 0 .. 7
  <2> HIDE DEF n
  <2> QED BY <1>n, PartFacts
<1> HIDE DEF n
<1>2. Ready(s, n)
  BY <1>n
<1>3. CASE s.left = 0
  <2> DEFINE t == CloseArray(s)
  <2>1. r = Again(t)
    BY <1>3 DEF BeforeElement
  <2>2. Ready(t, n) /\ s.cursor <= t.cursor /\ t.state = "Done"
    BY <1>2, <1>n, CloseFacts
  <2>3. Rank[t.state] < Rank[s.state]
    BY <2>2, RankFacts
  <2> HIDE DEF t, r
  <2>4. Turned(r, s, n, ended)
    BY <1>n, <2>1, <2>2, <2>3, AgainFacts
  <2> QED BY <1>n, <2>4 DEF r
<1>4. CASE s.left # 0 /\ s.elem.kind = "Generic"
  <2> DEFINE u == [s EXCEPT !.cursor = s.cursor]
             t == Restart(u)
  <2>1. r = IF s.cursor < n THEN Again(Restart(s)) ELSE Starves(s, data, ended)
    BY <1>4, <1>n DEF BeforeElement
  <2>2. u = s
    BY <1>1 DEF Splitters
  <2>3. CASE s.cursor < n
    <3>1. r = Again(t)
      BY <2>1, <2>2, <2>3
    <3>2. s.elem.bit = 0 /\ s.cursor \in s.cursor .. n /\ (s.mode = "Array" => s.left >= 1)
      BY <1>1, <1>2, <1>4, <1>n DEF Ready
    <3>3. Ready(t, n) /\ t.cursor = s.cursor /\ t.state = "InItem"
      <4> DEFINE c == s.cursor
      <4>1. t = Restart([s EXCEPT !.cursor = c]) /\ c \in s.cursor .. n /\ c < n
        BY <2>3, <3>2
      <4> HIDE DEF c, t
      <4>2. Ready(t, n) /\ t.cursor = c /\ t.state = "InItem"
        BY <1>2, <1>n, <3>2, <4>1, RestartFacts
      <4> QED BY <4>2 DEF c
    <3>4. Rank[t.state] < Rank[s.state] /\ s.cursor <= t.cursor
      BY <1>1, <3>3, RankFacts
    <3> HIDE DEF t, r
    <3>5. Turned(r, s, n, ended)
      BY <1>n, <3>1, <3>3, <3>4, AgainFacts
    <3> QED BY <1>n, <3>5 DEF r
  <2>4. CASE ~(s.cursor < n)
    <3>1. r = Starves(s, data, ended) /\ s.cursor <= s.cursor
      BY <1>1, <2>1, <2>4
    <3> HIDE DEF r
    <3>2. Turned(r, s, n, ended)
      BY <1>1, <1>2, <1>n, <3>1, StarvesFacts
    <3> QED BY <1>n, <3>2 DEF r
  <2> QED BY <2>3, <2>4
<1>5. CASE s.left # 0 /\ s.elem.kind = "Fixed"
  <2>1. r = FixedElement(s, data, ended)
    BY <1>5 DEF BeforeElement
  <2> QED BY <1>2, <1>5, <1>n, <2>1, FixedFacts
<1>6. CASE s.left # 0 /\ s.elem.kind = "Strings"
  <2>1. r = StringElement(s, data, ended)
    BY <1>6 DEF BeforeElement
  <2> QED BY <1>2, <1>6, <1>n, <2>1, StringFacts
<1>7. CASE s.left # 0 /\ s.elem.kind = "Bools"
  <2>1. r = BoolElement(s, data, ended)
    BY <1>7 DEF BeforeElement
  <2> QED BY <1>2, <1>7, <1>n, <2>1, BoolFacts
<1> QED BY <1>1, <1>3, <1>4, <1>5, <1>6, <1>7 DEF ElemKinds

\* Past the array the splitter finds the end of the input, or refuses what follows.
LEMMA DoneFacts ==
  ASSUME NEW data \in Datas, NEW ended \in BOOLEAN, NEW s, Ready(s, Len(data)), s.state = "Done"
  PROVE  Turned(Done(s, data, ended), s, Len(data), ended)
<1> DEFINE n == Len(data)
           r == Done(s, data, ended)
<1>n. n = Len(data) /\ n \in Nat
  BY DataFacts
<1>1. s.cursor \in 0 .. n /\ s.cursor \in Nat
  <2> HIDE DEF n
  <2> QED BY <1>n, PartFacts
<1>2. r = CASE s.cursor < n -> Fail(s, "TrailingContent")
            [] s.cursor >= n /\ ended -> End(s)
            [] s.cursor >= n /\ ~ended -> Need(s, data)
  BY DEF Done
<1> HIDE DEF n, r
<1>3. Ready(s, n) /\ s.cursor <= s.cursor
  BY <1>1, <1>n
<1>4. Turned(r, s, n, ended)
  <2>1. CASE s.cursor < n
    <3>1. r = Fail(s, "TrailingContent") /\ "TrailingContent" \in BeveCodes
      BY <1>1, <1>2, <1>n, <2>1 DEF BeveCodes
    <3> QED BY <1>1, <1>3, <1>n, <3>1, FailFacts
  <2>2. CASE ~(s.cursor < n) /\ ended
    <3>1. r = End(s) /\ s.cursor = n
      BY <1>1, <1>2, <1>n, <2>2
    <3> QED BY <1>3, <1>n, <2>2, <3>1, EndFacts
  <2>3. CASE ~(s.cursor < n) /\ ~ended
    <3>1. r = Need(s, data)
      BY <1>1, <1>2, <1>n, <2>3
    <3> QED BY <1>1, <1>3, <1>n, <2>3, <3>1, NeedFacts
  <2> QED BY <2>1, <2>2, <2>3
<1> QED BY <1>4, <1>n DEF r

-----------------------------------------------------------------------------
(* The loop.                                                               *)

\* Whatever the state, a turn of the loop is sound (Framer::next, one iteration).
LEMMA TurnFacts ==
  ASSUME NEW data \in Datas, NEW ended \in BOOLEAN, NEW s, Ready(s, Len(data))
  PROVE  Turned(Turn(s, data, ended), s, Len(data), ended)
<1>1. s.state \in States
  BY DEF Ready, Splitters
<1>2. CASE s.state = "Between"
  BY <1>2, BetweenFacts DEF Turn
<1>3. CASE s.state = "InItem"
  BY <1>3, InItemFacts DEF Turn
<1>4. CASE s.state = "BeforeArray"
  BY <1>4, BeforeArrayFacts DEF Turn
<1>5. CASE s.state = "BeforeElement"
  BY <1>5, BeforeElementFacts DEF Turn
<1>6. CASE s.state = "Done"
  BY <1>6, DoneFacts DEF Turn
<1> QED BY <1>1, <1>2, <1>3, <1>4, <1>5, <1>6 DEF States

\* r is where the loop stands after k turns from s.
Looping(r, k, s, n, ended) ==
  \/ Answered(r, s.cursor, n, ended)
  \/ /\ r.out.kind = "again"
     /\ Ready(r.sp, n)
     /\ s.cursor <= r.sp.cursor
     /\ Rank[r.sp.state] <= 3 - k

\* The contract is closed under a cursor that moved on before the answer.
LEMMA LaterFacts ==
  ASSUME NEW n \in Nat, NEW ended \in BOOLEAN, NEW c \in Nat, NEW d \in c .. n,
         NEW r, Answered(r, d, n, ended)
  PROVE  Answered(r, c, n, ended)
<1>1. d .. n \subseteq c .. n
  OBVIOUS
<1>2. r.out \in W!FramerOutcomes(n, c, ended)
  BY <1>1 DEF Answered, W!FramerOutcomes
<1> QED BY <1>2 DEF Answered

\* The loop ends on an answer of the framer contract, for every buffer, state and end
\* (Framer::next).
LEMMA NextFacts ==
  ASSUME NEW data \in Datas, NEW ended \in BOOLEAN, NEW s, Ready(s, Len(data))
  PROVE  Answered(NextItem(s, data, ended), s.cursor, Len(data), ended)
<1> DEFINE n == Len(data)
           m == 4
           s0 == [s EXCEPT !.implied = -1]
           first == Again(s0)
           Step(r) == IF r.out.kind = "again" THEN Turn(r.sp, data, ended) ELSE r
           Sound(r) == \/ Answered(r, s.cursor, n, ended)
                       \/ r.out.kind = "again" /\ Ready(r.sp, n) /\ s.cursor <= r.sp.cursor
           X == {r \in Replies : Sound(r)}
           F == [k \in 1 .. m |-> [r \in X |-> Step(r)]]
           G(h) == [k \in 0 .. m |-> IF k = 0 THEN first ELSE Step(h[k - 1])]
           turn == CHOOSE h : h = G(h)
<1>1. NextItem(s, data, ended) = turn[m]
  BY DEF NextItem, With
<1>n. n \in Nat /\ m \in Nat /\ m = 4
  BY DataFacts
<1>s. s \in Splitters /\ s.cursor \in 0 .. n /\ Ready(s, n) /\ n = Len(data)
  BY DEF Ready, Splitters
<1>t. Ready(s0, n) /\ s0.cursor = s.cursor /\ s0.state = s.state
  <2>1. -1 \in Int
    OBVIOUS
  <2>2. s0 \in Splitters
    BY <1>s, <2>1, Zenon DEF Splitters
  <2>3. /\ s0.cursor = s.cursor /\ s0.state = s.state /\ s0.mode = s.mode /\ s0.scan = s.scan
        /\ s0.left = s.left /\ s0.elem = s.elem
    BY <1>s DEF Splitters
  <2> HIDE DEF s0, n
  <2> QED BY <1>s, <2>2, <2>3 DEF Ready
<1> HIDE DEF s0
<1>2. first \in X /\ first.out.kind = "again" /\ first.sp = s0
  <2>1. first.out.kind = "again" /\ first.sp = s0 /\ first = Reply(s0, "again", "none", 0, 0)
    BY DEF Again, Reply
  <2>2. first \in Replies
    <3>1. s0 \in Splitters /\ "none" \in Codes
      BY <1>t DEF Ready, Codes
    <3> QED BY <2>1, <3>1, ReplyFacts
  <2>3. s.cursor <= s0.cursor
    BY <1>s, <1>t
  <2> HIDE DEF first, n
  <2> QED BY <1>s, <1>n, <1>t, <2>1, <2>2, <2>3
<1>3. ASSUME NEW r \in X
      PROVE  /\ Step(r) \in X
             /\ Answered(r, s.cursor, n, ended) => Step(r) = r
             /\ \/ Answered(Step(r), s.cursor, n, ended)
                \/ /\ Step(r).out.kind = "again" /\ Ready(Step(r).sp, n)
                   /\ s.cursor <= Step(r).sp.cursor
                   /\ Rank[Step(r).sp.state] < Rank[r.sp.state]
  <2>1. CASE Answered(r, s.cursor, n, ended)
    <3>1. Step(r) = r
      BY <2>1 DEF Answered
    <3> QED BY <2>1, <3>1
  <2>2. CASE r.out.kind = "again" /\ Ready(r.sp, n) /\ s.cursor <= r.sp.cursor
    <3> DEFINE t == Turn(r.sp, data, ended)
    <3>1. Step(r) = t
      BY <2>2
    <3>2. Turned(t, r.sp, n, ended)
      BY <2>2, TurnFacts
    <3>3. r.sp.cursor \in s.cursor .. n /\ s.cursor \in Nat
      BY <2>2 DEF Ready, Splitters
    <3>4. t \in Replies
      BY <3>2 DEF Turned
    <3>5. ~Answered(r, s.cursor, n, ended)
      BY <2>2 DEF Answered
    <3> HIDE DEF t, n, Step
    <3>6. \/ Answered(t, s.cursor, n, ended)
          \/ /\ t.out.kind = "again" /\ Ready(t.sp, n)
             /\ s.cursor <= t.sp.cursor
             /\ Rank[t.sp.state] < Rank[r.sp.state]
      <4>1. CASE Answered(t, r.sp.cursor, n, ended)
        BY <1>n, <3>3, <4>1, LaterFacts
      <4>2. CASE /\ t.out.kind = "again" /\ Ready(t.sp, n)
                 /\ r.sp.cursor <= t.sp.cursor
                 /\ Rank[t.sp.state] < Rank[r.sp.state]
        <5>1. t.sp.cursor \in Nat
          BY <4>2 DEF Ready, Splitters
        <5> QED BY <1>n, <3>3, <4>2, <5>1
      <4> QED BY <3>2, <4>1, <4>2 DEF Turned
    <3> QED BY <3>1, <3>4, <3>5, <3>6
  <2> QED BY <2>1, <2>2
<1>5. turn = CHOOSE h : h = G(h)
  OBVIOUS
<1> HIDE DEF n, m, first, Step, turn
<1>6. \E h : h = G(h)
  <2>1. F \in [1 .. m -> [X -> X]]
    BY <1>3
  <2>2. \A k \in 1 .. m : \A r \in X : F[k][r] = Step(r)
    OBVIOUS
  <2> HIDE DEF X, F
  <2>3. PICK g : IsRun(g, X, first, m, F)
    BY <1>n, <1>2, <2>1, RunExists
  <2>4. ASSUME NEW k \in 1 .. m
        PROVE  g[k] = Step(g[k - 1])
    <3>1. k - 1 \in 0 .. m
      BY <1>n
    <3> QED BY <2>2, <2>3, <3>1 DEF IsRun
  <2>5. \A k \in 0 .. m : k # 0 => k \in 1 .. m
    BY <1>n
  <2>6. g = G(g)
    BY <2>3, <2>4, <2>5 DEF IsRun
  <2> QED BY <2>6
<1>7. turn = G(turn)
  BY <1>5, <1>6
<1>8. turn[0] = first /\ \A k \in 1 .. m : turn[k] = Step(turn[k - 1])
  <2>1. \A k \in 0 .. m : turn[k] = IF k = 0 THEN first ELSE Step(turn[k - 1])
    BY <1>7
  <2>2. 0 \in 0 .. m /\ \A k \in 1 .. m : k \in 0 .. m /\ k # 0
    BY <1>n
  <2> HIDE DEF G
  <2> QED BY <2>1, <2>2
<1> DEFINE S == {k \in 0 .. m : turn[k] \in X /\ Looping(turn[k], k, s, n, ended)}
<1>9. 0 \in S
  <2>1. Rank[s0.state] \in 1 .. 3 /\ s.cursor <= s0.cursor
    BY <1>s, <1>t, RankFacts DEF Splitters
  <2>2. Looping(first, 0, s, n, ended)
    BY <1>n, <1>t, <1>2, <2>1 DEF Looping
  <2> HIDE DEF X
  <2> QED BY <1>n, <1>2, <1>8, <2>2
<1>10. ASSUME NEW k \in 1 .. m, k - 1 \in S
       PROVE  k \in S
  <2> DEFINE r == turn[k - 1]
             t == turn[k]
  <2>1. r \in X /\ Looping(r, k - 1, s, n, ended) /\ t = Step(r) /\ k \in 0 .. m
    BY <1>8, <1>10
  <2> HIDE DEF r, t, X
  <2>2. t \in X
    BY <1>3, <2>1
  <2>3. Looping(t, k, s, n, ended)
    <3>1. CASE Answered(t, s.cursor, n, ended)
      BY <3>1 DEF Looping
    <3>2. CASE ~Answered(t, s.cursor, n, ended)
      <4>1. /\ t.out.kind = "again" /\ Ready(t.sp, n) /\ s.cursor <= t.sp.cursor
            /\ Rank[t.sp.state] < Rank[r.sp.state] /\ ~Answered(r, s.cursor, n, ended)
        BY <1>3, <2>1, <3>2
      <4>2. Rank[r.sp.state] <= 3 - (k - 1) /\ Ready(r.sp, n)
        BY <2>1, <4>1 DEF Looping
      <4>3. Rank[t.sp.state] \in Int /\ Rank[r.sp.state] \in Int
        <5>1. t.sp.state \in States /\ r.sp.state \in States
          BY <4>1, <4>2 DEF Ready, Splitters
        <5> QED BY <5>1, RankFacts
      <4>4. Rank[t.sp.state] <= 3 - k
        <5> DEFINE a == Rank[t.sp.state]
                   b == Rank[r.sp.state]
        <5>1. a \in Int /\ b \in Int /\ a < b /\ b <= 3 - (k - 1)
          BY <4>1, <4>2, <4>3
        <5> HIDE DEF a, b
        <5>2. a <= 3 - k
          BY <1>n, <5>1
        <5> QED BY <5>2 DEF a
      <4> QED BY <4>1, <4>4 DEF Looping
    <3> QED BY <3>1, <3>2
  <2> QED BY <2>1, <2>2, <2>3 DEF t
<1>11. m \in S
  <2> HIDE DEF S
  <2>1. 0 .. m \subseteq S
    BY <1>n, <1>9, <1>10, UpToInduction
  <2> QED BY <1>n, <2>1
<1>12. Looping(turn[m], m, s, n, ended)
  BY <1>11
<1>13. Answered(turn[m], s.cursor, n, ended)
  <2>1. SUFFICES ASSUME Ready(turn[m].sp, n), Rank[turn[m].sp.state] <= 3 - m
                 PROVE  FALSE
    BY <1>12 DEF Looping
  <2>2. turn[m].sp.state \in States
    BY <2>1 DEF Ready, Splitters
  <2> QED BY <1>n, <2>1, <2>2, RankFacts
<1> QED BY <1>1, <1>13 DEF n

-----------------------------------------------------------------------------
(* The window over the splitter.                                           *)

\* What a feed keeps: its framer can be asked about its buffer.
BInv ==
  /\ setup \in Setups
  /\ stream \in Seq(Bytes) /\ buf \in Seq(Bytes)
  /\ eof \in BOOLEAN /\ failed \in BOOLEAN
  /\ ~failed => Ready(sp, Len(buf))

\* What a feed meets are bytes.
LEMMA BytesFacts ==
  /\ Bytes \subseteq Octets /\ \A s \in Setups : Meets(s) \subseteq Bytes
  /\ \A b \in Seq(Bytes) : b \in Datas
<1>1. \A s \in Setups : Meets(s) \subseteq Octets
  <2> TAKE s \in Setups
  <2>1. s.bytes \subseteq Octets /\ s.opening \in Seq(Octets)
    BY FeedAssumption DEF Octets
  <2>2. \A i \in DOMAIN s.opening : s.opening[i] \in Octets
    BY <2>1
  <2> QED BY <2>1, <2>2 DEF Meets
<1>2. Bytes \subseteq Octets /\ \A s \in Setups : Meets(s) \subseteq Bytes
  BY <1>1 DEF Bytes
<1>3. \A b \in Seq(Bytes) : b \in Datas
  <2> TAKE b \in Seq(Bytes)
  <2>1. \A i \in 1 .. Len(b) : b[i] \in Octets
    BY <1>2
  <2>2. b \in [1 .. Len(b) -> Octets] /\ Len(b) \in Nat
    BY <2>1
  <2> QED BY <2>2 DEF Datas
<1> QED BY <1>2, <1>3

\* A new splitter is ready, on an empty buffer (Splitter::new).
LEMMA InitReady == FeedInit => BInv
<1> SUFFICES ASSUME FeedInit PROVE BInv
  OBVIOUS
<1> DEFINE mode == setup.mode
           f == FreshScan(0, IF mode = "Array" THEN 1 ELSE 0)
           state == IF mode = "Array" THEN "BeforeArray" ELSE "Between"
           e == Elem("Generic", -1, 0)
<1>1. setup \in Setups /\ mode \in Modes
  BY FeedAssumption DEF FeedInit
<1>2. sp = [mode |-> mode, scan |-> f, state |-> state, cursor |-> 0, left |-> 0, elem |-> e, implied |-> -1]
  BY DEF FeedInit, NewSplitter
<1>3. f \in Scans /\ f.pos = 0 /\ f.out = "more"
  <2>1. "more" \in Outs /\ <<>> \in Seq(Frames)
    BY DEF Outs
  <2>2. f \in Scans
    BY <2>1 DEF FreshScan, Scans
  <2> QED BY <2>2 DEF FreshScan
<1>4. state \in States /\ state # "InItem" /\ (state = "Between" => mode = "Values")
  BY <1>1 DEF States, Modes
<1>5. Laid(e) /\ e.bit = 0
  <2>1. "Generic" \in ElemKinds /\ -1 \in Int /\ 0 \in Nat /\ "Generic" # "Fixed"
    BY DEF ElemKinds
  <2> QED BY <2>1, ElemFacts
<1>6. e \in Elems /\ 0 \in Nat /\ -1 \in Int
  BY <1>5 DEF Laid
<1> HIDE DEF mode, f, state, e
<1>7. sp \in Splitters
  BY <1>1, <1>2, <1>3, <1>4, <1>6, Zenon DEF Splitters
<1>8. Ready(sp, 0)
  BY <1>2, <1>3, <1>4, <1>5, <1>7 DEF Ready
<1>9. stream = <<>> /\ buf = <<>> /\ eof = FALSE /\ failed = FALSE
  BY DEF FeedInit, W!Init
<1>10. stream \in Seq(Bytes) /\ buf \in Seq(Bytes) /\ Len(buf) = 0
  BY <1>9
<1> QED BY <1>1, <1>8, <1>9, <1>10 DEF BInv

\* Dropping the dead bytes leaves a splitter ready for what is left.
LEMMA RebaseFacts ==
  ASSUME NEW n \in Nat, Ready(sp, n)
  PROVE  Ready(Rebase(sp), n - sp.cursor) /\ Rebase(sp).cursor = 0
<1> DEFINE c == sp.cursor
           q == IF sp.scan.pos > c THEN sp.scan.pos - c ELSE 0
           f == [sp.scan EXCEPT !.pos = q]
           t == [sp EXCEPT !.cursor = 0, !.scan = f]
<1>1. /\ sp \in Splitters /\ c \in 0 .. n /\ sp.scan \in Scans /\ sp.scan.pos \in 0 .. n
      /\ sp.elem.bit \in 0 .. 7
  BY PartFacts
<1>2. /\ sp.state = "InItem" => c < n /\ c <= sp.scan.pos /\ (sp.mode = "Array" => sp.left >= 1)
      /\ Laid(sp.elem) /\ sp.scan.out = "more" /\ (sp.state = "Between" => sp.mode = "Values")
      /\ sp.elem.bit > 0 => sp.state = "BeforeElement" /\ sp.elem.kind = "Bools" /\ c < n
  BY DEF Ready
<1>3. Rebase(sp) = t
  BY <1>1 DEF Rebase, Splitters
<1>4. q \in 0 .. n - c /\ 0 <= n - c /\ n - c \in Nat /\ q \in Nat
  BY <1>1
<1> HIDE DEF q
<1>5. f \in Scans /\ f.pos = q /\ f.out = "more"
  <2>1. f \in Scans
    BY <1>1, <1>4, Zenon DEF Scans
  <2> QED BY <1>1, <1>2, <2>1 DEF Scans
<1>6. 0 \in Nat
  OBVIOUS
<1> HIDE DEF f
<1>7. t \in Splitters
  BY <1>1, <1>5, <1>6, Zenon DEF Splitters
<1>8. /\ t.cursor = 0 /\ t.scan = f /\ t.state = sp.state /\ t.mode = sp.mode /\ t.left = sp.left
      /\ t.elem = sp.elem
  BY <1>1 DEF Splitters
<1> HIDE DEF t
<1>9. Ready(t, n - c)
  BY <1>1, <1>2, <1>4, <1>5, <1>7, <1>8 DEF Ready
<1> QED BY <1>3, <1>8, <1>9 DEF c

\* What the window shows the framer, and where the framer then stands.
LEMMA ViewFacts ==
  ASSUME BInv, ~failed, NEW s, s = IF W!Compacts THEN Rebase(sp) ELSE sp
  PROVE  /\ W!View \in Seq(Bytes) /\ Len(W!View) \in Nat
         /\ Ready(s, Len(W!View)) /\ s.cursor = W!ViewCursor /\ W!ViewCursor \in Nat
<1>1. buf \in Seq(Bytes) /\ Ready(sp, Len(buf)) /\ Len(buf) \in Nat
  BY DEF BInv
<1>2. sp.cursor \in 0 .. Len(buf)
  BY <1>1, PartFacts
<1>3. CASE W!Compacts
  <2>1. W!View = SubSeq(buf, sp.cursor + 1, Len(buf)) /\ W!ViewCursor = 0 /\ s = Rebase(sp)
    BY <1>3 DEF W!View, W!ViewCursor
  <2>2. W!View \in Seq(Bytes) /\ Len(W!View) = Len(buf) - sp.cursor
    BY <1>1, <1>2, <2>1
  <2>3. Ready(s, Len(buf) - sp.cursor) /\ s.cursor = 0
    BY <1>1, <2>1, RebaseFacts
  <2> QED BY <1>1, <1>2, <2>1, <2>2, <2>3
<1>4. CASE ~W!Compacts
  <2>1. W!View = buf /\ W!ViewCursor = sp.cursor /\ s = sp
    BY <1>4 DEF W!View, W!ViewCursor
  <2> QED BY <1>1, <1>2, <2>1
<1> QED BY <1>3, <1>4

\* The splitter's answer is one the contract allows.
LEMMA LocatedFacts ==
  ASSUME BInv, ~failed
  PROVE  Answered(Located, W!ViewCursor, Len(W!View), eof)
<1> DEFINE s == IF W!Compacts THEN Rebase(sp) ELSE sp
           v == W!View
<1>1. v \in Seq(Bytes) /\ Ready(s, Len(v)) /\ s.cursor = W!ViewCursor
  BY ViewFacts
<1>2. eof \in BOOLEAN /\ Located = NextItem(s, v, eof)
  BY DEF BInv, Located
<1> HIDE DEF s, v
<1>3. v \in Datas
  BY <1>1, BytesFacts
<1>4. Answered(NextItem(s, v, eof), s.cursor, Len(v), eof)
  BY <1>1, <1>2, <1>3, NextFacts
<1> QED BY <1>1, <1>2, <1>4 DEF v

\* Asking for a value is a step of the window, and leaves a splitter that can
\* be asked again.
LEMMA TryFacts ==
  ASSUME BInv, NextValue
  PROVE  /\ BInv'
         /\ \/ \E out \in W!FramerOutcomes(Len(W!View), W!ViewCursor, eof) : W!TryNext(out)
            \/ W!TryNextDead
<1>1. CASE /\ ~failed /\ sp' = Located.sp /\ W!TryNext(Located.out)
           /\ UNCHANGED <<setup, late>>
  <2> DEFINE out == Located.out
             n == Len(W!View)
  <2>1. Answered(Located, W!ViewCursor, n, eof)
    BY <1>1, LocatedFacts
  <2>2. out \in W!FramerOutcomes(n, W!ViewCursor, eof) /\ (out.kind # "fail" => Ready(sp', n))
    BY <1>1, <2>1 DEF Answered
  <2>3. W!View \in Seq(Bytes)
    BY <1>1, ViewFacts
  <2>4. /\ stream' = stream /\ eof' = eof /\ setup' = setup /\ failed' \in BOOLEAN
        /\ ~failed' => buf' = W!View /\ out.kind # "fail"
        /\ failed' => buf' = <<>>
    BY <1>1 DEF W!TryNext
  <2> HIDE DEF out
  <2>5. BInv'
    <3>1. buf' \in Seq(Bytes)
      <4>1. <<>> \in Seq(Bytes)
        OBVIOUS
      <4>2. CASE failed'
        BY <2>4, <4>1, <4>2
      <4>3. CASE ~failed'
        BY <2>3, <2>4, <4>3
      <4> QED BY <4>2, <4>3
    <3>2. ~failed' => Ready(sp', Len(buf'))
      BY <2>2, <2>4
    <3> QED BY <2>4, <3>1, <3>2 DEF BInv
  <2>6. \E o \in W!FramerOutcomes(Len(W!View), W!ViewCursor, eof) : W!TryNext(o)
    BY <1>1, <2>2 DEF out
  <2> QED BY <2>5, <2>6
<1>2. CASE UNCHANGED <<setup, sp, items, late>> /\ W!TryNextDead
  BY <1>2 DEF W!TryNextDead, BInv
<1> QED BY <1>1, <1>2 DEF NextValue

\* What arrives at once is bytes of the stream.
LEMMA BatchFacts ==
  ASSUME BInv, NEW bytes \in Batches(Chunk), Len(stream) + Len(bytes) <= MaxStream
  PROVE  /\ bytes \in Seq(Bytes) /\ bytes \in W!BytesUpTo(MaxStream - Len(stream))
         /\ stream \o bytes \in Seq(Bytes) /\ buf \o bytes \in Seq(Bytes)
<1>1. PICK m \in 1 .. W!Smaller(Chunk, setup.max - Len(stream)) : bytes \in [1 .. m -> Meets(setup)]
  BY DEF Batches
<1>2. m \in Nat /\ Meets(setup) \subseteq Bytes /\ stream \in Seq(Bytes) /\ buf \in Seq(Bytes)
  BY <1>1, BytesFacts DEF BInv
<1>3. bytes \in [1 .. m -> Bytes]
  BY <1>1, <1>2
<1>4. bytes \in Seq(Bytes) /\ Len(bytes) = m
  BY <1>2, <1>3
<1>5. m \in 0 .. MaxStream - Len(stream)
  BY <1>2, <1>4, FeedAssumption
<1>6. bytes \in W!BytesUpTo(MaxStream - Len(stream))
  BY <1>3, <1>5 DEF W!BytesUpTo
<1>7. stream \o bytes \in Seq(Bytes) /\ buf \o bytes \in Seq(Bytes)
  BY <1>2, <1>4
<1> QED BY <1>4, <1>6, <1>7

\* More bytes behind those there are leave the splitter ready.
LEMMA GrowthFacts ==
  ASSUME BInv, ~failed, NEW bytes \in Seq(Bytes), buf' = buf \o bytes, sp' = sp
  PROVE  Ready(sp', Len(buf'))
<1>1. Len(buf') = Len(buf) + Len(bytes) /\ Len(buf) \in Nat /\ Len(bytes) \in Nat /\ Ready(sp, Len(buf))
  BY DEF BInv
<1>2. sp.cursor \in Nat /\ sp.scan.pos \in Nat /\ sp.elem.bit \in 0 .. 7
  BY <1>1, PartFacts
<1> QED BY <1>1, <1>2 DEF Ready

\* Every step of a feed keeps its splitter ready and is a step of the window.
LEMMA FeedStep ==
  ASSUME BInv, [BeveNext]_bvars
  PROVE  BInv' /\ [WindowStep]_(W!vars) /\ [W!Next]_(W!vars)
<1>1. ASSUME NEW bytes \in Batches(Chunk), Push(bytes)
      PROVE  BInv' /\ WindowStep /\ W!Next
  <2>1. W!Extend(bytes) /\ UNCHANGED <<setup, sp>>
    BY <1>1 DEF Push
  <2>2. /\ ~failed /\ failed' = failed /\ eof' = eof
        /\ stream' = stream \o bytes /\ buf' = buf \o bytes
        /\ Len(stream) + Len(bytes) <= MaxStream
    BY <2>1 DEF W!Extend
  <2>3. /\ bytes \in Seq(Bytes) /\ bytes \in W!BytesUpTo(MaxStream - Len(stream))
        /\ stream' \in Seq(Bytes) /\ buf' \in Seq(Bytes)
    BY <1>1, <2>2, BatchFacts
  <2>4. Ready(sp', Len(buf'))
    BY <2>1, <2>2, <2>3, GrowthFacts
  <2>5. BInv'
    BY <2>1, <2>2, <2>3, <2>4 DEF BInv
  <2>6. WindowStep
    BY <1>1, <2>1 DEF WindowStep
  <2>7. W!Next
    BY <2>1, <2>3 DEF W!Next
  <2> QED BY <2>5, <2>6, <2>7
<1>2. ASSUME FeedEnd
      PROVE  BInv' /\ WindowStep /\ W!Next
  <2>1. W!SetEof /\ UNCHANGED <<setup, sp>>
    BY <1>2 DEF FeedEnd
  <2>2. eof' = TRUE /\ UNCHANGED <<stream, buf, failed>>
    BY <2>1 DEF W!SetEof
  <2> QED BY <2>1, <2>2 DEF BInv, WindowStep, W!Next
<1>3. ASSUME NextValue
      PROVE  BInv' /\ WindowStep /\ W!Next
  BY <1>3, TryFacts DEF WindowStep, W!Next
<1>4. ASSUME UNCHANGED bvars
      PROVE  BInv' /\ UNCHANGED W!vars
  BY <1>4 DEF bvars, W!vars, BInv
<1> QED BY <1>1, <1>2, <1>3, <1>4 DEF BeveNext

\* A BEVE feed is a window that is fed and never fills itself: whatever the
\* bytes, the chunks and the calls, its splitter keeps the framer contract
\* (beve/stream/split.rs, Framer::next).
THEOREM BeveFeedIsWindow == BeveSpec => BeveImplementsWindow
<1>1. FeedInit => W!Init
  BY DEF FeedInit
<1> QED BY <1>1, InitReady, FeedStep, PTL DEF BeveSpec, BeveImplementsWindow

\* So it is one of StreamWindow's behaviours, of which its theorems hold.
THEOREM BeveFeedIsSpec == BeveSpec => W!Spec
<1>1. FeedInit => W!Init
  BY DEF FeedInit
<1> QED BY <1>1, InitReady, FeedStep, PTL DEF BeveSpec, W!Spec

\* Whatever arrived and was asked, the walk's and the array's offsets lie in the
\* buffer, no element is owed that was given out, and a bit is read only of a
\* byte that is there.
THEOREM BeveStaysReady == BeveSpec => []BInv
BY InitReady, FeedStep, PTL DEF BeveSpec

================================================================================
