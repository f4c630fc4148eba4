--------------------------- MODULE JsonWriterProofs ---------------------------
(***************************************************************************)
(* Proofs about JsonWriter, for every value of its constants.              *)
(*                                                                         *)
(* The invariant says where a writer stands: what the sink has is where    *)
(* the text begins, what is held is where it ends, and until the sink      *)
(* fails nothing is missing between.  Draining moves the boundary and      *)
(* appending moves the end.  The last byte of the text is always held, so  *)
(* a bracket that replaces a comma can be put in its place; the boundary   *)
(* is always between two characters.                                       *)
(*                                                                         *)
(* An operator of the writer gets a lemma that says what it does to a      *)
(* writer that stands at text t (Good); an action one that says it keeps   *)
(* the document (Doc).                                                     *)
(***************************************************************************)
EXTENDS JsonWriter, Induction, SequenceTheorems

-----------------------------------------------------------------------------
(* What a writer's record holds.                                           *)

\* The types of its fields.
Writers == [buf : Seq(Bytes), cap : Nat, limit : Nat, threshold : Nat, depth : Nat,
            textFrom : Nat, sink : BOOLEAN, sent : Seq(Bytes), calls : Nat,
            err : BOOLEAN, sound : BOOLEAN]

\* No store has left the allocation, and the fast path's limit is inside it.
Fits(wr) == /\ wr.sound
            /\ Len(wr.buf) <= wr.cap
            /\ wr.limit <= wr.cap
            /\ wr.sink => wr.limit <= wr.threshold

\* The sink has the front of text t and the buffer its back; bytes are missing
\* between them only after the sink failed.  The buffer of a document that has
\* begun is never empty: its last byte is kept back.
Lengths(wr, t)     == /\ Len(wr.sent) + Len(wr.buf) <= Len(t)
                      /\ ~wr.err => Len(wr.sent) + Len(wr.buf) = Len(t)
                      /\ Len(wr.buf) = 0 => Len(t) = 0 /\ ~wr.err
\* What the sink has is where the text begins.
SentIsFront(wr, t) == \A i \in 1 .. Len(wr.sent) : wr.sent[i] = t[i]
\* What is held is where the text ends.
BufIsBack(wr, t)   == \A i \in 1 .. Len(wr.buf) : wr.buf[i] = t[Len(t) - Len(wr.buf) + i]
\* A sink's document was cut between characters.
Divided(wr, t)     == wr.sink => Begun(t) /\ (Len(wr.buf) > 0 => wr.buf[1] # Cont)
\* A writer in memory has nowhere to fail.
InMemory(wr)       == ~wr.sink => ~wr.err /\ Len(wr.sent) = 0

\* The writer stands where text t says, whatever has gone to the sink so far.
Good(wr, t) == /\ wr \in Writers /\ t \in Seq(Bytes)
               /\ Fits(wr)
               /\ Lengths(wr, t) /\ SentIsFront(wr, t) /\ BufIsBack(wr, t)
               /\ Divided(wr, t) /\ InMemory(wr)
               /\ wr.err => failure.at > 0

\* What draining, growing and storing leave alone.
Kin(a, b) == /\ a.sink = b.sink /\ a.threshold = b.threshold
             /\ a.depth = b.depth /\ a.textFrom = b.textFrom

\* The part of a sequence from m to n.
LEMMA SubSeqFacts ==
  ASSUME NEW S, NEW s \in Seq(S), NEW m \in Nat, NEW n \in Nat, m >= 1, m <= n + 1, n <= Len(s)
  PROVE  /\ SubSeq(s, m, n) \in Seq(S)
         /\ Len(SubSeq(s, m, n)) = n - m + 1
         /\ \A i \in 1 .. n - m + 1 : SubSeq(s, m, n)[i] = s[m + i - 1]
<1>1. CASE n - m + 1 = 0
  <2>1. SubSeq(s, m, n) = <<>>
    BY <1>1
  <2> QED BY <1>1, <2>1
<1>2. CASE n - m + 1 > 0
  OBVIOUS
<1> QED BY <1>1, <1>2

\* The elements of a concatenation.
LEMMA ConcatFacts ==
  ASSUME NEW S, NEW s \in Seq(S), NEW t \in Seq(S)
  PROVE  /\ s \o t \in Seq(S)
         /\ Len(s \o t) = Len(s) + Len(t)
         /\ \A i \in 1 .. Len(s) : (s \o t)[i] = s[i]
         /\ \A i \in 1 .. Len(t) : (s \o t)[Len(s) + i] = t[i]
OBVIOUS

\* Punctuation is no part of a longer character.
LEMMA AsciiBytes ==
  ASSUME NEW b \in Ascii
  PROVE  b \in Bytes /\ b # Cont /\ b # Lead
BY DEF Ascii, Bytes, Comma, Quote, LineFeed, Blank, Backslash, Object, Array, Cont, Lead

\* drain cuts at the start of the last character held: everything after it
\* continues that character.
LEMMA CutIsAStart ==
  ASSUME NEW buf \in Seq(Bytes), Len(buf) >= 1
  PROVE  /\ Cut(buf) \in 0 .. Len(buf) - 1
         /\ Cut(buf) = 0 \/ buf[Cut(buf) + 1] # Cont
         /\ \A i \in Cut(buf) + 1 .. Len(buf) - 1 : buf[i + 1] = Cont
<1> DEFINE starts == {i \in 0 .. Len(buf) - 1 : i = 0 \/ buf[i + 1] # Cont}
           mirror == {Len(buf) - i : i \in starts}
<1>1. \E i \in starts : \A j \in starts : j <= i
  <2>1. mirror \subseteq Nat /\ mirror # {}
    <3>1. 0 \in starts
      OBVIOUS
    <3> QED BY <3>1
  <2>2. PICK n \in mirror : \A m \in mirror : n <= m
    BY <2>1, LeastElement
  <2>3. PICK i \in starts : n = Len(buf) - i
    OBVIOUS
  <2>4. ASSUME NEW j \in starts PROVE j <= i
    <3>1. Len(buf) - j \in mirror
      OBVIOUS
    <3>2. n <= Len(buf) - j
      BY <2>2, <3>1
    <3>3. i \in Nat /\ j \in Nat
      OBVIOUS
    <3> HIDE DEF mirror, starts
    <3> QED BY <2>3, <3>2, <3>3
  <2> QED BY <2>4
<1>2. Cut(buf) \in starts /\ \A j \in starts : j <= Cut(buf)
  BY <1>1 DEF Cut
<1> HIDE DEF mirror
<1> QED
  BY <1>2

\* The types of the fields, one by one.
LEMMA WriterTypes ==
  ASSUME NEW wr \in Writers
  PROVE  /\ wr.buf \in Seq(Bytes) /\ wr.sent \in Seq(Bytes)
         /\ wr.cap \in Nat /\ wr.limit \in Nat /\ wr.threshold \in Nat /\ wr.depth \in Nat
         /\ wr.textFrom \in Nat /\ wr.calls \in Nat
         /\ wr.sink \in BOOLEAN /\ wr.err \in BOOLEAN /\ wr.sound \in BOOLEAN
         /\ Len(wr.buf) \in Nat /\ Len(wr.sent) \in Nat
BY DEF Writers

\* Handing bytes to the sink changes nothing else of the writer.
Alike(a, b) == /\ a.buf = b.buf /\ a.cap = b.cap /\ a.limit = b.limit
               /\ a.threshold = b.threshold /\ a.depth = b.depth
               /\ a.textFrom = b.textFrom /\ a.sink = b.sink /\ a.sound = b.sound

\* The run's sink failure is made of numbers.
FailureOK == failure.at \in Nat /\ failure.taken \in Nat

\* out is wr after it handed over bytes: all of them, or the sink has failed
\* and has a proper beginning of them.  A sink that failed before gets nothing.
Handed(out, wr, bytes) ==
  /\ Alike(out, wr)
  /\ wr.err => out.err /\ out.sent = wr.sent
  /\ out.err /\ ~wr.err => failure.at > 0 /\ Len(out.sent) < Len(wr.sent) + Len(bytes)
  /\ ~out.err => out.sent = wr.sent \o bytes
  /\ Len(wr.sent) <= Len(out.sent) /\ Len(out.sent) <= Len(wr.sent) + Len(bytes)
  /\ \A i \in 1 .. Len(wr.sent) : out.sent[i] = wr.sent[i]
  /\ \A i \in Len(wr.sent) + 1 .. Len(out.sent) : out.sent[i] = bytes[i - Len(wr.sent)]

\* write_all hands over all, or part of it and remembers the failure.
LEMMA WriteAllFacts ==
  ASSUME NEW wr \in Writers, NEW bytes \in Seq(Bytes), Len(bytes) >= 1, FailureOK,
         NEW out, out = WriteAll(wr, bytes)
  PROVE  out \in Writers /\ Handed(out, wr, bytes)
<1> DEFINE m == Smaller(failure.taken, Len(bytes) - 1)
           part == SubSeq(bytes, 1, m)
<1>0. wr.calls + 1 \in Nat /\ wr.sent \in Seq(Bytes)
  BY WriterTypes
<1>1. m \in 0 .. Len(bytes) - 1
  BY DEF FailureOK, Smaller
<1>2. part \in Seq(Bytes) /\ Len(part) = m /\ \A i \in 1 .. m : part[i] = bytes[i]
  BY <1>1, SubSeqFacts
<1>3. CASE wr.err
  <2>1. out = wr
    BY <1>3 DEF WriteAll
  <2> QED BY <1>0, <1>3, <2>1 DEF Alike, Handed
<1>4. CASE ~wr.err /\ wr.calls + 1 = failure.at
  <2> DEFINE sent == wr.sent \o part
  <2>1. out = [wr EXCEPT !.calls = wr.calls + 1, !.err = TRUE, !.sent = sent]
    BY <1>4 DEF WriteAll
  <2>3. /\ sent \in Seq(Bytes)
        /\ Len(sent) = Len(wr.sent) + m
        /\ \A i \in 1 .. Len(wr.sent) : sent[i] = wr.sent[i]
        /\ \A i \in 1 .. m : sent[Len(wr.sent) + i] = bytes[i]
    BY <1>0, <1>2, ConcatFacts
  <2>4. \A i \in Len(wr.sent) + 1 .. Len(sent) : sent[i] = bytes[i - Len(wr.sent)]
    <3> TAKE i \in Len(wr.sent) + 1 .. Len(sent)
    <3>1. i - Len(wr.sent) \in 1 .. m /\ i = Len(wr.sent) + (i - Len(wr.sent))
      BY <1>0, <1>1, <2>3
    <3> QED BY <2>3, <3>1
  <2> HIDE DEF sent, m
  <2>5. out \in Writers
    BY <1>0, <2>1, <2>3, Zenon DEF Writers
  <2>6. out.err /\ out.sent = sent /\ Alike(out, wr)
    BY <2>1 DEF Writers, Alike
  <2>7. failure.at > 0
    BY <1>4, WriterTypes
  <2> QED BY <1>0, <1>1, <1>4, <2>3, <2>4, <2>5, <2>6, <2>7 DEF Handed
<1>5. CASE ~wr.err /\ wr.calls + 1 # failure.at
  <2> DEFINE sent == wr.sent \o bytes
  <2>1. out = [wr EXCEPT !.calls = wr.calls + 1, !.sent = sent]
    BY <1>5 DEF WriteAll
  <2>3. /\ sent \in Seq(Bytes)
        /\ Len(sent) = Len(wr.sent) + Len(bytes)
        /\ \A i \in 1 .. Len(wr.sent) : sent[i] = wr.sent[i]
        /\ \A i \in 1 .. Len(bytes) : sent[Len(wr.sent) + i] = bytes[i]
    BY <1>0, ConcatFacts
  <2>4. \A i \in Len(wr.sent) + 1 .. Len(sent) : sent[i] = bytes[i - Len(wr.sent)]
    <3> TAKE i \in Len(wr.sent) + 1 .. Len(sent)
    <3>1. i - Len(wr.sent) \in 1 .. Len(bytes) /\ i = Len(wr.sent) + (i - Len(wr.sent))
      BY <1>0, <2>3
    <3> QED BY <2>3, <3>1
  <2>5. out.sent = wr.sent \o bytes /\ out.err = wr.err /\ Alike(out, wr)
    BY <2>1 DEF Writers, Alike
  <2> HIDE DEF sent
  <2>6. out \in Writers
    BY <1>0, <2>1, <2>3, Zenon DEF Writers
  <2>7. out.sent = sent
    BY <2>5 DEF sent
  <2> QED BY <1>0, <1>5, <2>3, <2>4, <2>5, <2>6, <2>7 DEF Handed
<1> QED BY <1>3, <1>4, <1>5

\* The types of a writer that stands where its text says.
LEMMA GoodTypes ==
  ASSUME NEW wr, NEW t, Good(wr, t)
  PROVE  /\ wr \in Writers /\ t \in Seq(Bytes) /\ Len(t) \in Nat
         /\ wr.buf \in Seq(Bytes) /\ wr.sent \in Seq(Bytes)
         /\ wr.cap \in Nat /\ wr.limit \in Nat /\ wr.threshold \in Nat /\ wr.depth \in Nat
         /\ wr.textFrom \in Nat /\ wr.calls \in Nat
         /\ wr.sink \in BOOLEAN /\ wr.err \in BOOLEAN /\ wr.sound \in BOOLEAN
         /\ Len(wr.buf) \in Nat /\ Len(wr.sent) \in Nat
<1>1. wr \in Writers /\ t \in Seq(Bytes)
  BY DEF Good
<1> QED BY <1>1, WriterTypes

\* In front of a continuation byte is its lead.
LEMMA ContFollowsLead ==
  ASSUME NEW t, Begun(t), NEW p \in DOMAIN t, NEW q, q = p - 1, t[p] = Cont
  PROVE  t[q] = Lead
BY DEF Begun

\* drain moves bytes to the sink and none out of place; at most one character
\* is kept.
LEMMA DrainFacts ==
  ASSUME NEW wr, NEW t, Good(wr, t), FailureOK, NEW d, d = Drain(wr)
  PROVE  /\ Good(d, t) /\ Kin(d, wr)
         /\ d.cap = wr.cap /\ d.limit = wr.limit
         /\ Len(d.buf) <= Len(wr.buf)
         /\ wr.sink => Len(d.buf) <= Kept
<1> DEFINE n == Len(wr.buf)
           cut == Cut(wr.buf)
<1>0. /\ wr \in Writers /\ t \in Seq(Bytes) /\ wr.buf \in Seq(Bytes) /\ wr.sent \in Seq(Bytes)
      /\ n \in Nat /\ Len(wr.sent) \in Nat /\ Len(t) \in Nat
      /\ wr.err \in BOOLEAN /\ wr.sink \in BOOLEAN
  BY GoodTypes
<1>n. n = Len(wr.buf)
  OBVIOUS
<1>z. n \in Nat /\ Len(wr.sent) \in Nat /\ Len(t) \in Nat
  BY <1>0
<1>l. /\ Len(wr.sent) + n <= Len(t)
      /\ ~wr.err => Len(wr.sent) + n = Len(t)
  BY DEF Good, Lengths
<1>s. \A i \in 1 .. Len(wr.sent) : wr.sent[i] = t[i]
  BY DEF Good, SentIsFront
<1>b. \A i \in 1 .. n : wr.buf[i] = t[Len(t) - n + i]
  BY DEF Good, BufIsBack
<1>1. ASSUME wr.sink, n >= 2
      PROVE  /\ cut \in 0 .. n - 1
             /\ cut > 0 => wr.buf[cut + 1] # Cont
             /\ n - cut <= Kept
  <2>1. /\ cut \in 0 .. n - 1
        /\ cut = 0 \/ wr.buf[cut + 1] # Cont
        /\ \A i \in cut + 1 .. n - 1 : wr.buf[i + 1] = Cont
    BY <1>0, <1>1, CutIsAStart
  <2> HIDE DEF cut, n
  <2>2. ASSUME n - cut > 2
        PROVE  FALSE
    <3>1. cut + 1 \in cut + 1 .. n - 1 /\ cut + 2 \in cut + 1 .. n - 1
      BY <1>0, <2>1, <2>2
    <3>2. wr.buf[cut + 2] = Cont /\ wr.buf[cut + 3] = Cont
      <4>1. cut + 1 + 1 = cut + 2 /\ cut + 2 + 1 = cut + 3
        BY <1>0, <2>1
      <4> QED BY <2>1, <3>1, <4>1
    <3>3. Begun(t)
      BY <1>1 DEF Good, Divided
    <3>4. t[Len(t) - n + (cut + 2)] = Cont /\ t[Len(t) - n + (cut + 3)] = Cont
      <4>1. cut + 2 \in 1 .. n /\ cut + 3 \in 1 .. n
        BY <1>0, <2>1, <2>2
      <4> QED BY <1>b, <3>2, <4>1
    <3>5. /\ Len(t) - n + (cut + 3) \in DOMAIN t
          /\ Len(t) - n + (cut + 2) = (Len(t) - n + (cut + 3)) - 1
      BY <1>0, <1>l, <2>1, <2>2
    <3>6. t[Len(t) - n + (cut + 2)] = Lead
      BY <3>3, <3>4, <3>5, ContFollowsLead
    <3> QED BY <3>4, <3>6 DEF Lead, Cont
  <2> QED BY <1>0, <2>1, <2>2 DEF Kept
<1>2. CASE ~wr.sink \/ n < 2 \/ cut = 0
  <2>1. d = wr
    BY <1>2 DEF Drain
  <2>2. wr.sink => n <= Kept
    <3> HIDE DEF n, cut
    <3> QED BY <1>0, <1>1, <1>2 DEF Kept
  <2> QED BY <1>0, <2>1, <2>2 DEF Kin
<1>3. CASE wr.sink /\ n >= 2 /\ cut # 0
  <2> DEFINE front == SubSeq(wr.buf, 1, cut)
             rest  == SubSeq(wr.buf, cut + 1, n)
             out   == WriteAll(wr, front)
  <2>4. d = [out EXCEPT !.buf = rest]
    BY <1>3 DEF Drain
  <2> HIDE DEF n, cut
  <2>1. cut \in 1 .. n - 1 /\ wr.buf[cut + 1] # Cont /\ n - cut <= Kept
    BY <1>0, <1>1, <1>3
  <2>c. cut \in 1 .. n - 1
    BY <2>1
  <2>2. front \in Seq(Bytes) /\ Len(front) = cut /\ \A i \in 1 .. cut : front[i] = wr.buf[i]
    BY <1>0, <1>n, <2>1, SubSeqFacts
  <2>3. /\ rest \in Seq(Bytes) /\ Len(rest) = n - cut
        /\ \A i \in 1 .. n - cut : rest[i] = wr.buf[cut + i]
    <3>1. n - (cut + 1) + 1 = n - cut /\ \A i \in 1 .. n - cut : cut + 1 + i - 1 = cut + i
      BY <1>0, <2>1
    <3>2. cut + 1 \in Nat /\ cut + 1 >= 1 /\ cut + 1 <= n + 1
      BY <1>0, <2>1
    <3>3. /\ rest \in Seq(Bytes)
          /\ Len(rest) = n - (cut + 1) + 1
          /\ \A i \in 1 .. n - (cut + 1) + 1 : rest[i] = wr.buf[cut + 1 + i - 1]
      BY <1>0, <1>n, <3>2, SubSeqFacts
    <3> HIDE DEF rest
    <3> QED BY <3>1, <3>3
  <2> HIDE DEF rest, front
  <2>5. /\ out \in Writers
        /\ Alike(out, wr)
        /\ wr.err => out.err /\ out.sent = wr.sent
        /\ out.err /\ ~wr.err => failure.at > 0 /\ Len(out.sent) < Len(wr.sent) + Len(front)
        /\ ~out.err => out.sent = wr.sent \o front
        /\ Len(wr.sent) <= Len(out.sent) /\ Len(out.sent) <= Len(wr.sent) + Len(front)
        /\ \A i \in 1 .. Len(wr.sent) : out.sent[i] = wr.sent[i]
        /\ \A i \in Len(wr.sent) + 1 .. Len(out.sent) : out.sent[i] = front[i - Len(wr.sent)]
    <3>1. Len(front) >= 1
      BY <2>1, <2>2
    <3>2. out = WriteAll(wr, front)
      OBVIOUS
    <3>3. wr \in Writers /\ front \in Seq(Bytes)
      BY <1>0, <2>2
    <3> HIDE DEF out
    <3>4. out \in Writers /\ Handed(out, wr, front)
      BY <3>1, <3>2, <3>3, WriteAllFacts
    <3> QED BY <3>4 DEF Handed
  <2> HIDE DEF out
  <2>6. d \in Writers
    BY <2>3, <2>4, <2>5, Zenon DEF Writers
  <2>7. /\ d.buf = rest /\ d.sent = out.sent /\ d.err = out.err /\ d.sound = wr.sound
        /\ d.cap = wr.cap /\ d.limit = wr.limit /\ Kin(d, wr)
    BY <2>4, <2>5 DEF Writers, Alike, Kin
  <2>8. Len(out.sent) \in Nat /\ out.err \in BOOLEAN
    BY <2>5, WriterTypes
  <2>9. d.sink = wr.sink
    BY <2>7 DEF Kin
  <2>10. Lengths(d, t)
    <3>1. ~out.err => ~wr.err /\ Len(out.sent) = Len(wr.sent) + cut
      BY <1>0, <2>2, <2>5, ConcatFacts
    <3>2. Len(out.sent) + (n - cut) <= Len(t)
      BY <1>0, <1>l, <2>1, <2>2, <2>5, <2>8
    <3>3. ~out.err => Len(out.sent) + (n - cut) = Len(t)
      <4>1. ASSUME ~out.err
            PROVE  Len(out.sent) = Len(wr.sent) + cut /\ Len(wr.sent) + n = Len(t)
        BY <1>l, <3>1, <4>1
      <4> QED BY <1>z, <2>c, <2>8, <4>1
    <3>4. n - cut > 0
      BY <1>0, <2>1
    <3> QED BY <2>3, <2>7, <3>2, <3>3, <3>4 DEF Lengths
  <2>11. SentIsFront(d, t)
    <3> SUFFICES ASSUME NEW i \in 1 .. Len(out.sent)
                 PROVE  out.sent[i] = t[i]
      BY <2>7 DEF SentIsFront
    <3>1. CASE i <= Len(wr.sent)
      <4>1. i \in 1 .. Len(wr.sent)
        BY <1>0, <2>8, <3>1
      <4> QED BY <1>s, <2>5, <4>1
    <3>2. CASE i > Len(wr.sent)
      <4>1. ~wr.err
        BY <1>0, <2>5, <3>2
      <4>n. Len(wr.sent) + n = Len(t)
        BY <1>l, <4>1
      <4>2. i - Len(wr.sent) \in 1 .. cut /\ i \in Len(wr.sent) + 1 .. Len(out.sent)
        BY <1>0, <2>1, <2>2, <2>5, <2>8, <3>2
      <4>3. out.sent[i] = wr.buf[i - Len(wr.sent)]
        BY <2>2, <2>5, <4>2
      <4>4. Len(t) - n + (i - Len(wr.sent)) = i /\ i - Len(wr.sent) \in 1 .. n
        BY <1>z, <2>c, <4>n, <4>2
      <4> QED BY <1>b, <4>3, <4>4
    <3> QED BY <1>0, <2>8, <3>1, <3>2
  <2>12. BufIsBack(d, t)
    <3> SUFFICES ASSUME NEW i \in 1 .. n - cut
                 PROVE  rest[i] = t[Len(t) - (n - cut) + i]
      BY <2>3, <2>7 DEF BufIsBack
    <3>1. cut + i \in 1 .. n /\ Len(t) - (n - cut) + i = Len(t) - n + (cut + i)
      BY <1>0, <2>1
    <3> QED BY <1>b, <2>3, <3>1
  <2>13. Divided(d, t)
    <3>1. rest[1] # Cont
      <4>1. 1 \in 1 .. n - cut
        BY <1>0, <2>1
      <4> QED BY <2>1, <2>3, <4>1
    <3> QED BY <2>7, <2>9, <3>1 DEF Good, Divided
  <2>14. InMemory(d)
    BY <1>3, <2>9 DEF InMemory
  <2>15. Fits(d)
    <3>1. Len(rest) <= wr.cap
      BY <1>0, <1>n, <2>1, <2>3, GoodTypes DEF Good, Fits
    <3> QED BY <2>7, <3>1 DEF Good, Fits, Kin
  <2>16. d.err => failure.at > 0
    BY <2>5, <2>7 DEF Good
  <2>17. Good(d, t)
    BY <1>0, <2>6, <2>10, <2>11, <2>12, <2>13, <2>14, <2>15, <2>16 DEF Good
  <2>18. Len(d.buf) <= n /\ Len(d.buf) <= Kept
    <3>1. Len(d.buf) = n - cut
      BY <2>3, <2>7
    <3>2. n - cut <= n
      BY <1>z, <2>c
    <3>3. n - cut <= Kept
      BY <2>1
    <3> QED BY <3>1, <3>2, <3>3
  <2> QED BY <1>n, <2>7, <2>17, <2>18
<1> QED BY <1>0, <1>2, <1>3

\* Growing the allocation and setting the limit again loses nothing.
LEMMA ResizedFacts ==
  ASSUME NEW d, NEW t, Good(d, t), NEW c \in Nat, d.cap <= c, NEW e,
         e = Relimit([d EXCEPT !.cap = c])
  PROVE  Good(e, t) /\ Kin(e, d) /\ e.buf = d.buf /\ e.cap = c
<1> DEFINE l == Smaller(c, d.threshold)
<1>1. d \in Writers /\ d.threshold \in Nat /\ d.cap \in Nat
  BY GoodTypes
<1>2. l \in Nat /\ l <= c /\ l <= d.threshold
  BY <1>1 DEF Smaller
<1> DEFINE x == [d EXCEPT !.cap = c]
<1>3. x \in Writers
  BY <1>1, Zenon DEF Writers
<1>y. /\ x.cap = c /\ x.buf = d.buf /\ x.sent = d.sent /\ x.err = d.err
      /\ x.sound = d.sound /\ x.sink = d.sink /\ x.threshold = d.threshold /\ Kin(x, d)
  BY <1>1 DEF Writers, Kin
<1>w. e = Relimit(x)
  OBVIOUS
<1> HIDE DEF x
<1>x. e = [x EXCEPT !.limit = l]
  BY <1>w, <1>y DEF Relimit
<1> HIDE DEF l
<1>4. e \in Writers
  BY <1>2, <1>3, <1>x, Zenon DEF Writers
<1>5. /\ e.cap = c /\ e.limit = l /\ e.buf = d.buf /\ e.sent = d.sent /\ e.err = d.err
      /\ e.sound = d.sound /\ e.sink = d.sink /\ e.threshold = d.threshold /\ Kin(e, d)
  BY <1>3, <1>x, <1>y DEF Writers, Kin
<1>6. Len(d.buf) <= c
  BY <1>1, GoodTypes DEF Good, Fits
<1>7. Fits(e)
  BY <1>2, <1>5, <1>6 DEF Good, Fits
<1>8. Lengths(e, t) /\ SentIsFront(e, t) /\ BufIsBack(e, t) /\ Divided(e, t) /\ InMemory(e)
  BY <1>5, Zenon DEF Good, Lengths, SentIsFront, BufIsBack, Divided, InMemory
<1> QED BY <1>4, <1>5, <1>7, <1>8 DEF Good

\* r is wr with room for n more bytes: it fits the sink's buffer, or only the
\* character kept back is in front of it.
Roomy(r, wr, n) ==
  /\ Kin(r, wr)
  /\ Len(r.buf) <= Len(wr.buf) /\ wr.cap <= r.cap
  /\ Len(r.buf) + n <= r.cap
  /\ wr.sink => Len(r.buf) + n <= wr.threshold \/ Len(r.buf) <= Kept

\* room makes room, and loses nothing.
LEMMA RoomFacts ==
  ASSUME NEW wr, NEW t, Good(wr, t), FailureOK, NEW n \in Nat, NEW r, r = Room(wr, n)
  PROVE  Good(r, t) /\ Roomy(r, wr, n)
<1>0. /\ wr.cap \in Nat /\ wr.limit \in Nat /\ wr.threshold \in Nat /\ Len(wr.buf) \in Nat
  BY GoodTypes
<1>1. CASE Len(wr.buf) + n > wr.limit
  <2> DEFINE d == Drain(wr)
             c == Larger(d.cap, Len(d.buf) + n)
  <2>1. Good(d, t) /\ Kin(d, wr) /\ d.cap = wr.cap /\ Len(d.buf) <= Len(wr.buf)
    BY DrainFacts
  <2>2. wr.sink => Len(d.buf) <= Kept
    BY DrainFacts
  <2>3. r = Relimit([d EXCEPT !.cap = c])
    BY <1>1 DEF Room, Spill
  <2> HIDE DEF d
  <2>4. d.cap \in Nat /\ Len(d.buf) \in Nat /\ d \in Writers
    BY <2>1, GoodTypes
  <2>5. c \in Nat /\ d.cap <= c /\ Len(d.buf) + n <= c
    BY <2>4 DEF Larger
  <2> HIDE DEF c
  <2>8. Good(r, t) /\ Kin(r, d) /\ r.buf = d.buf /\ r.cap = c
    <3>1. Good(d, t)
      BY <2>1
    <3>2. c \in Nat /\ d.cap <= c
      BY <2>5
    <3> QED BY <2>3, <3>1, <3>2, ResizedFacts
  <2>9. Kin(r, wr)
    BY <2>1, <2>8 DEF Kin
  <2> QED BY <2>1, <2>2, <2>5, <2>8, <2>9 DEF Roomy
<1>2. CASE Len(wr.buf) + n <= wr.limit
  <2>1. r = wr
    BY <1>0, <1>2 DEF Room
  <2>2. wr.limit <= wr.cap /\ (wr.sink => wr.limit <= wr.threshold)
    BY DEF Good, Fits
  <2>3. Len(wr.buf) + n <= wr.cap
    BY <1>0, <1>2, <2>2
  <2>4. wr.sink => Len(wr.buf) + n <= wr.threshold
    <3> SUFFICES ASSUME wr.sink PROVE Len(wr.buf) + n <= wr.threshold
      OBVIOUS
    <3>1. wr.limit <= wr.threshold
      BY <2>2
    <3> QED BY <1>0, <1>2, <3>1
  <2> QED BY <1>0, <2>1, <2>3, <2>4 DEF Roomy, Kin
<1> QED BY <1>0, <1>1, <1>2

\* st is wr with bytes at the end of its buffer.
Stored(st, wr, bytes) ==
  /\ Kin(st, wr) /\ st.cap = wr.cap
  /\ st.buf = wr.buf \o bytes /\ Len(st.buf) = Len(wr.buf) + Len(bytes)

\* There is room for the bytes and for all that the copy stores to, and they
\* leave the text a beginning of whole characters.
Storable(wr, t, bytes, reach) ==
  /\ bytes \in Seq(Bytes) /\ reach \in Nat /\ Len(bytes) <= reach
  /\ Len(wr.buf) + reach <= wr.cap
  /\ wr.sink => Begun(t \o bytes)

\* A copy of that many bytes stays in the allocation and continues the text.
LEMMA StoreFacts ==
  ASSUME NEW wr, NEW t, Good(wr, t), NEW bytes, NEW reach, Storable(wr, t, bytes, reach),
         NEW st, st = Store(wr, bytes, reach)
  PROVE  Good(st, t \o bytes) /\ Stored(st, wr, bytes)
<1> DEFINE b == wr.buf \o bytes
           u == t \o bytes
           k == Len(bytes)
           n == Len(wr.buf)
           m == Len(wr.sent)
           h == Len(t)
<1>0. /\ wr \in Writers /\ t \in Seq(Bytes) /\ wr.buf \in Seq(Bytes)
      /\ wr.sound \in BOOLEAN /\ bytes \in Seq(Bytes)
  BY GoodTypes DEF Storable
<1>r. reach \in Nat /\ k <= reach /\ n + reach <= wr.cap
  BY DEF Storable
<1>z. k \in Nat /\ n \in Nat /\ m \in Nat /\ h \in Nat /\ wr.cap \in Nat
  BY <1>0, GoodTypes
<1>1. /\ b \in Seq(Bytes) /\ Len(b) = n + k
      /\ \A i \in 1 .. n : b[i] = wr.buf[i]
      /\ \A i \in 1 .. k : b[n + i] = bytes[i]
  BY <1>0, ConcatFacts
<1>2. /\ u \in Seq(Bytes) /\ Len(u) = h + k
      /\ \A i \in 1 .. h : u[i] = t[i]
      /\ \A i \in 1 .. k : u[h + i] = bytes[i]
  BY <1>0, ConcatFacts
<1>q. Len(b) = n + k /\ Len(u) = h + k
  BY <1>1, <1>2
<1>l. m + n <= h /\ (~wr.err => m + n = h) /\ (n = 0 => h = 0 /\ ~wr.err)
  BY DEF Good, Lengths
<1>s. \A i \in 1 .. m : wr.sent[i] = t[i]
  BY DEF Good, SentIsFront
<1>b. \A i \in 1 .. n : wr.buf[i] = t[h - n + i]
  BY DEF Good, BufIsBack
<1>k. k = Len(bytes) /\ n = Len(wr.buf) /\ m = Len(wr.sent) /\ h = Len(t)
  OBVIOUS
<1>3. wr.sound /\ (wr.sound /\ Len(wr.buf) + reach <= wr.cap) = TRUE
  BY <1>r DEF Good, Fits
<1>4. st = [wr EXCEPT !.buf = b, !.sound = TRUE]
  BY <1>3, Zenon DEF Store
<1>5. st.buf = wr.buf \o bytes
  BY <1>0, <1>4 DEF Writers
<1> HIDE DEF k, n, m, h, b, u
<1>6. st \in Writers
  BY <1>0, <1>1, <1>4, Zenon DEF Writers
<1>7. /\ st.buf = b /\ st.sound /\ st.sent = wr.sent /\ st.err = wr.err /\ st.cap = wr.cap
      /\ st.limit = wr.limit /\ st.sink = wr.sink /\ st.threshold = wr.threshold /\ Kin(st, wr)
  BY <1>0, <1>4 DEF Writers, Kin
<1>8. Fits(st)
  <2>1. n + k <= wr.cap
    BY <1>z, <1>r
  <2>2. Len(b) <= wr.cap
    BY <1>q, <2>1
  <2> QED BY <1>7, <2>2 DEF Good, Fits
<1>9. Lengths(st, u)
  <2>1. m + (n + k) <= h + k
    BY <1>l, <1>z
  <2>2. ~wr.err => m + (n + k) = h + k
    <3> SUFFICES ASSUME ~wr.err PROVE m + (n + k) = h + k
      OBVIOUS
    <3>1. m + n = h
      BY <1>l
    <3> QED BY <1>z, <3>1
  <2>3. n + k = 0 => h + k = 0 /\ ~wr.err
    <3> SUFFICES ASSUME n + k = 0 PROVE h + k = 0 /\ ~wr.err
      OBVIOUS
    <3>1. n = 0 /\ k = 0
      BY <1>z
    <3>2. h = 0 /\ ~wr.err
      BY <1>l, <3>1
    <3> QED BY <3>1, <3>2
  <2> QED BY <1>7, <1>q, <1>k, <2>1, <2>2, <2>3, Zenon DEF Lengths
<1>10. SentIsFront(st, u)
  <2> SUFFICES ASSUME NEW i \in 1 .. m
               PROVE  wr.sent[i] = u[i]
    BY <1>7, <1>k DEF SentIsFront
  <2>1. i \in 1 .. h
    BY <1>z, <1>l
  <2> QED BY <1>2, <1>s, <2>1
<1>11. BufIsBack(st, u)
  <2> SUFFICES ASSUME NEW i \in 1 .. n + k
               PROVE  b[i] = u[(h + k) - (n + k) + i]
    BY <1>7, <1>q DEF BufIsBack
  <2>1. CASE i <= n
    <3>1. i \in 1 .. n /\ h - n + i \in 1 .. h /\ (h + k) - (n + k) + i = h - n + i
      BY <1>l, <1>z, <2>1
    <3> QED BY <1>1, <1>2, <1>b, <3>1
  <2>2. CASE i > n
    <3>1. i - n \in 1 .. k /\ n + (i - n) = i /\ (h + k) - (n + k) + i = h + (i - n)
      BY <1>z, <2>2
    <3> QED BY <1>1, <1>2, <3>1
  <2> QED BY <1>z, <2>1, <2>2
<1>12. Divided(st, u)
  <2> SUFFICES ASSUME wr.sink
               PROVE  Begun(u) /\ (n + k > 0 => b[1] # Cont)
    BY <1>7, <1>q DEF Divided
  <2>1. Begun(u)
    BY DEF u, Storable
  <2>2. ASSUME n > 0
        PROVE  b[1] # Cont
    <3>1. wr.buf[1] # Cont
      BY <1>k, <2>2 DEF Good, Divided
    <3>2. 1 \in 1 .. n
      BY <1>z, <2>2
    <3> QED BY <1>1, <3>1, <3>2
  <2>3. ASSUME n = 0, n + k > 0
        PROVE  b[1] # Cont
    <3>1. h = 0
      BY <1>l, <2>3
    <3>2. 1 \in 1 .. k /\ 1 \in 1 .. h + k /\ n + 1 = 1 /\ h + 1 = 1
      BY <1>z, <2>3, <3>1
    <3>3. b[1] = bytes[1] /\ u[1] = bytes[1]
      BY <1>1, <1>2, <3>2
    <3>4. u[1] # Cont
      <4>1. 1 \in DOMAIN u
        BY <1>2, <3>2
      <4>2. u[1] = Cont => 1 > 1
        BY <2>1, <4>1, Zenon DEF Begun
      <4> QED BY <4>2
    <3> QED BY <3>3, <3>4
  <2> QED BY <1>z, <2>1, <2>2, <2>3
<1>13. InMemory(st)
  BY <1>7 DEF Good, InMemory
<1>14. st.err => failure.at > 0
  BY <1>7 DEF Good
<1>15. Good(st, u)
  BY <1>2, <1>6, <1>8, <1>9, <1>10, <1>11, <1>12, <1>13, <1>14 DEF Good
<1>16. Stored(st, wr, bytes)
  BY <1>q, <1>5, <1>7, <1>k DEF Stored
<1> QED BY <1>15, <1>16 DEF u

\* a is wr after at most n more bytes.
Appended(a, wr, n) ==
  /\ Kin(a, wr)
  /\ wr.cap <= a.cap /\ Len(a.buf) <= Len(wr.buf) + n
  /\ wr.sink => Len(a.buf) <= wr.threshold \/ Len(a.buf) <= Kept + n

\* The bytes an append can be given.
Appendable(wr, t, bytes, reach) ==
  /\ bytes \in Seq(Bytes) /\ reach \in Nat /\ Len(bytes) <= reach
  /\ wr.sink => Begun(t \o bytes)

\* Making room for what is stored, then storing it, continues the text.
LEMMA PutFacts ==
  ASSUME NEW wr, NEW t, Good(wr, t), FailureOK, NEW bytes, NEW reach,
         Appendable(wr, t, bytes, reach),
         NEW a, a = Store(Room(wr, reach), bytes, reach)
  PROVE  Good(a, t \o bytes) /\ Appended(a, wr, reach)
<1> DEFINE r == Room(wr, reach)
<1>1. bytes \in Seq(Bytes) /\ reach \in Nat /\ Len(bytes) <= reach /\ Len(bytes) \in Nat
  BY DEF Appendable
<1>r. r = Room(wr, reach)
  OBVIOUS
<1>a. a = Store(r, bytes, reach)
  OBVIOUS
<1> HIDE DEF r
<1>2. Good(r, t) /\ Roomy(r, wr, reach)
  BY <1>1, <1>r, RoomFacts
<1>3. Storable(r, t, bytes, reach)
  BY <1>1, <1>2 DEF Storable, Roomy, Appendable, Kin
<1>4. Good(a, t \o bytes) /\ Stored(a, r, bytes)
  BY <1>2, <1>3, <1>a, StoreFacts
<1>5. Appended(a, wr, reach)
  <2> DEFINE n == Len(r.buf)
             l == Len(bytes)
             k == Len(wr.buf)
             m == Len(a.buf)
  <2>1. /\ n \in Nat /\ l \in Nat /\ k \in Nat /\ wr.threshold \in Nat /\ r.cap \in Nat
        /\ l <= reach /\ reach \in Nat
    BY <1>1, <1>2, GoodTypes
  <2>2. m = n + l /\ a.cap = r.cap /\ Kin(a, r)
    BY <1>4 DEF Stored
  <2>3. n <= k /\ wr.cap <= r.cap /\ Kin(r, wr)
        /\ (wr.sink => n + reach <= wr.threshold \/ n <= Kept)
    BY <1>2 DEF Roomy
  <2>4. Kin(a, wr)
    BY <2>2, <2>3 DEF Kin
  <2> HIDE DEF n, l, k, m
  <2>5. m <= k + reach
    BY <2>1, <2>2, <2>3
  <2>6. wr.sink => m <= wr.threshold \/ m <= Kept + reach
    <3> SUFFICES ASSUME wr.sink PROVE m <= wr.threshold \/ m <= Kept + reach
      OBVIOUS
    <3>1. n + reach <= wr.threshold \/ n <= Kept
      BY <2>3
    <3>2. m = n + l
      BY <2>2
    <3> QED BY <2>1, <3>1, <3>2 DEF Kept
  <2> QED BY <2>2, <2>3, <2>4, <2>5, <2>6 DEF m, k, Appended
<1> QED BY <1>4, <1>5

-----------------------------------------------------------------------------
(* Characters, and the bytes between a string's quotes.                    *)

\* A beginning of whole characters and another one.
LEMMA BegunConcat ==
  ASSUME NEW s \in Seq(Bytes), NEW t \in Seq(Bytes), Begun(s), Begun(t)
  PROVE  Begun(s \o t)
<1> DEFINE u == s \o t
           m == Len(s)
           n == Len(t)
<1>1. /\ u \in Seq(Bytes) /\ Len(u) = m + n /\ m \in Nat /\ n \in Nat
      /\ \A i \in 1 .. m : u[i] = s[i]
      /\ \A i \in 1 .. n : u[m + i] = t[i]
  BY ConcatFacts
<1>2. \A i \in 1 .. m : s[i] = Cont => i > 1 /\ s[i - 1] = Lead
  <2>1. DOMAIN s = 1 .. m
    OBVIOUS
  <2> QED BY <2>1, Zenon DEF Begun
<1>3. \A i \in 1 .. n : t[i] = Cont => i > 1 /\ t[i - 1] = Lead
  <2>1. DOMAIN t = 1 .. n
    OBVIOUS
  <2> QED BY <2>1, Zenon DEF Begun
<1> HIDE DEF u, m, n
<1>4. ASSUME NEW i \in 1 .. m + n, u[i] = Cont
      PROVE  i > 1 /\ u[i - 1] = Lead
  <2>1. CASE i <= m
    <3>1. i \in 1 .. m
      BY <1>1, <2>1
    <3>2. i > 1 /\ s[i - 1] = Lead
      BY <1>1, <1>2, <1>4, <3>1
    <3>3. i - 1 \in 1 .. m
      BY <1>1, <3>1, <3>2
    <3> QED BY <1>1, <3>2, <3>3
  <2>2. CASE i > m
    <3>1. i - m \in 1 .. n /\ m + (i - m) = i
      BY <1>1, <2>2
    <3>2. i - m > 1 /\ t[i - m - 1] = Lead
      BY <1>1, <1>3, <1>4, <3>1
    <3>3. i - m - 1 \in 1 .. n /\ m + (i - m - 1) = i - 1 /\ i > 1
      BY <1>1, <3>1, <3>2
    <3> QED BY <1>1, <3>2, <3>3
  <2> QED BY <1>1, <2>1, <2>2
<1>5. DOMAIN u = 1 .. m + n
  BY <1>1
<1>6. Begun(u)
  BY <1>4, <1>5 DEF Begun
<1> QED BY <1>6 DEF u

\* Whole characters after whole characters.
LEMMA CompleteConcat ==
  ASSUME NEW s \in Seq(Bytes), NEW t \in Seq(Bytes), Complete(s), Complete(t)
  PROVE  Complete(s \o t)
<1> DEFINE u == s \o t
           m == Len(s)
           n == Len(t)
<1>1. /\ u \in Seq(Bytes) /\ Len(u) = m + n /\ m \in Nat /\ n \in Nat
      /\ \A i \in 1 .. m : u[i] = s[i]
      /\ \A i \in 1 .. n : u[m + i] = t[i]
  BY ConcatFacts
<1>2. \A i \in 1 .. m : s[i] = Lead => i < m /\ s[i + 1] = Cont
  <2>1. DOMAIN s = 1 .. m
    OBVIOUS
  <2> QED BY <2>1, Zenon DEF Complete
<1>3. \A i \in 1 .. n : t[i] = Lead => i < n /\ t[i + 1] = Cont
  <2>1. DOMAIN t = 1 .. n
    OBVIOUS
  <2> QED BY <2>1, Zenon DEF Complete
<1>b. Begun(u)
  BY BegunConcat DEF Complete
<1> HIDE DEF u, m, n
<1>4. ASSUME NEW i \in 1 .. m + n, u[i] = Lead
      PROVE  i < m + n /\ u[i + 1] = Cont
  <2>1. CASE i <= m
    <3>1. i \in 1 .. m
      BY <1>1, <2>1
    <3>2. i < m /\ s[i + 1] = Cont
      BY <1>1, <1>2, <1>4, <3>1
    <3>3. i + 1 \in 1 .. m
      BY <1>1, <3>1, <3>2
    <3> QED BY <1>1, <3>2, <3>3
  <2>2. CASE i > m
    <3>1. i - m \in 1 .. n /\ m + (i - m) = i
      BY <1>1, <2>2
    <3>2. i - m < n /\ t[i - m + 1] = Cont
      BY <1>1, <1>3, <1>4, <3>1
    <3>3. i - m + 1 \in 1 .. n /\ m + (i - m + 1) = i + 1 /\ i < m + n
      BY <1>1, <3>1, <3>2
    <3> QED BY <1>1, <3>2, <3>3
  <2> QED BY <1>1, <2>1, <2>2
<1>5. DOMAIN u = 1 .. Len(u)
  BY <1>1
<1>6. Complete(u)
  BY <1>1, <1>4, <1>5, <1>b DEF Complete
<1> QED BY <1>6 DEF u

\* What a byte of a string turns into.
LEMMA ShownFacts ==
  ASSUME NEW b \in Bytes
  PROVE  /\ Shown(b) \in Seq(Bytes) /\ Len(Shown(b)) >= 1
         /\ NeedsEscape(b) => Shown(b) = Escaped(b) /\ Len(Shown(b)) = 2
         /\ ~NeedsEscape(b) => Shown(b) = <<b>>
<1>1. CASE NeedsEscape(b)
  <2>1. Shown(b) = Escaped(b)
    BY <1>1 DEF Shown
  <2>2. Escaped(b) \in Seq(Bytes) /\ Len(Escaped(b)) = 2
    <3> DEFINE x == Backslash
               y == "n"
    <3>1. Escaped(b) = <<x, y>>
      BY DEF Escaped
    <3>2. x \in Bytes /\ y \in Bytes
      BY AsciiBytes DEF Ascii
    <3> HIDE DEF x, y
    <3> QED BY <3>1, <3>2
  <2> QED BY <1>1, <2>1, <2>2
<1>2. CASE ~NeedsEscape(b)
  <2>1. Shown(b) = <<b>>
    BY <1>2 DEF Shown
  <2> QED BY <1>2, <2>1
<1> QED BY <1>1, <1>2

\* Inside adds what each byte turns into; the recursion is well defined.
LEMMA InsideRecursion ==
  ASSUME NEW s \in Seq(Bytes)
  PROVE  /\ Inside(s)[0] = <<>>
         /\ \A i \in 1 .. Len(s) : Inside(s)[i] = Inside(s)[i - 1] \o Shown(s[i])
         /\ \A i \in 0 .. Len(s) : Inside(s)[i] \in Seq(Bytes)
<1> DEFINE n == Len(s)
           X == Seq(Bytes)
           F == [i \in 1 .. n |-> [x \in X |-> x \o Shown(s[i])]]
           G(u) == [i \in 0 .. n |-> IF i = 0 THEN <<>> ELSE u[i - 1] \o Shown(s[i])]
<1>n. n \in Nat
  OBVIOUS
<1>1. Inside(s) = CHOOSE u : u = G(u)
  BY DEF Inside
<1>2. \E u : u = G(u)
  <2>1. <<>> \in X
    OBVIOUS
  <2>2. F \in [1 .. n -> [X -> X]]
    <3>1. \A i \in 1 .. n : Shown(s[i]) \in X
      BY ShownFacts
    <3> QED BY <3>1
  <2>3. \A i \in 1 .. n : \A x \in X : F[i][x] = x \o Shown(s[i])
    OBVIOUS
  <2> HIDE DEF X, F, n
  <2> DEFINE a == <<>>
  <2>a. a \in X
    BY <2>1
  <2>b. a = <<>>
    OBVIOUS
  <2> HIDE DEF a
  <2>3a. \E g \in [0 .. n -> X] : g[0] = a /\ \A k \in 1 .. n : g[k] = F[k][g[k - 1]]
    BY <1>n, <2>a, <2>2, RecursionExists
  <2>4. PICK g \in [0 .. n -> X] : g[0] = <<>> /\ \A k \in 1 .. n : g[k] = F[k][g[k - 1]]
    BY <2>b, <2>3a, Zenon
  <2>5. \A k \in 1 .. n : g[k] = g[k - 1] \o Shown(s[k])
    <3> TAKE k \in 1 .. n
    <3>1. g[k - 1] \in X
      <4>1. k - 1 \in 0 .. n
        BY <1>n
      <4> QED BY <2>4, <4>1
    <3> QED BY <2>3, <2>4, <3>1
  <2>6. g = G(g)
    <3>1. \A k \in 0 .. n : k # 0 => k \in 1 .. n
      BY <1>n
    <3> QED BY <2>4, <2>5, <3>1
  <2> QED BY <2>6
<1> DEFINE u == Inside(s)
<1>3. u = G(u)
  BY <1>1, <1>2
<1> HIDE DEF u
<1>4. /\ u[0] = <<>>
      /\ \A i \in 1 .. n : u[i] = u[i - 1] \o Shown(s[i])
  <2>1. \A i \in 0 .. n : u[i] = IF i = 0 THEN <<>> ELSE u[i - 1] \o Shown(s[i])
    BY <1>3
  <2>2. 0 \in 0 .. n /\ \A i \in 1 .. n : i \in 0 .. n /\ i # 0
    BY <1>n
  <2> HIDE DEF n, G
  <2> QED BY <2>1, <2>2
<1>5. \A i \in 0 .. n : u[i] \in X
  <2> DEFINE S == {i \in 0 .. n : u[i] \in X}
  <2>1. 0 \in S
    <3>1. <<>> \in X /\ 0 \in 0 .. n
      BY <1>n
    <3> QED BY <1>4, <3>1, Zenon
  <2>2. ASSUME NEW i \in 1 .. n, i - 1 \in S
        PROVE  i \in S
    <3>1. Shown(s[i]) \in X
      BY ShownFacts
    <3>2. u[i - 1] \in X
      BY <2>2
    <3>3. u[i - 1] \o Shown(s[i]) \in X
      BY <3>1, <3>2, ConcatFacts
    <3>4. u[i] = u[i - 1] \o Shown(s[i])
      BY <1>4, <2>2
    <3>5. i \in 0 .. n
      BY <1>n
    <3> QED BY <3>3, <3>4, <3>5, Zenon
  <2>3. 0 .. n \subseteq S
    <3> HIDE DEF S, n
    <3> QED BY <1>n, <2>1, <2>2, UpToInduction
  <2> QED BY <2>3
<1> QED BY <1>4, <1>5 DEF u

\* A beginning that is whole but for its last byte.
Middle(x) == Begun(x) /\ \A p \in 1 .. Len(x) - 1 : x[p] = Lead => x[p + 1] = Cont
\* It stops inside a character.
EndsInLead(x) == Len(x) >= 1 /\ x[Len(x)] = Lead

\* z begins and ends the way byte b does, and has no character inside.
Plain(z, b) == /\ Len(z) >= 1
               /\ z[1] = Cont <=> b = Cont
               /\ \A j \in 2 .. Len(z) : z[j] # Cont
               /\ \A j \in 1 .. Len(z) - 1 : z[j] # Lead
               /\ z[Len(z)] = Lead <=> b = Lead

\* An escape is ASCII; any other byte is itself.
LEMMA ShownIsPlain ==
  ASSUME NEW b \in Bytes
  PROVE  Plain(Shown(b), b)
<1>1. CASE NeedsEscape(b)
  <2> DEFINE x == Backslash
             y == "n"
  <2>1. Shown(b) = <<x, y>>
    BY <1>1 DEF Shown, Escaped
  <2>2. x # Cont /\ x # Lead /\ y # Cont /\ y # Lead /\ b # Cont /\ b # Lead
    BY <1>1, AsciiBytes DEF NeedsEscape, Ascii, Cont, Lead, LineFeed
  <2> HIDE DEF x, y
  <2> QED BY <2>1, <2>2 DEF Plain
<1>2. CASE ~NeedsEscape(b)
  <2>1. Shown(b) = <<b>>
    BY <1>2 DEF Shown
  <2> QED BY <2>1 DEF Plain
<1> QED BY <1>1, <1>2

\* A byte that may follow keeps the beginning whole.
LEMMA MiddleConcat ==
  ASSUME NEW x \in Seq(Bytes), Middle(x), NEW z \in Seq(Bytes), NEW b, Plain(z, b),
         b = Cont <=> EndsInLead(x),
         NEW y, y = x \o z
  PROVE  Middle(y) /\ Len(y) >= 1 /\ (EndsInLead(y) <=> b = Lead)
<1> DEFINE m == Len(x)
           n == Len(z)
<1>1. /\ y \in Seq(Bytes) /\ Len(y) = m + n /\ m \in Nat /\ n \in Nat /\ n >= 1
      /\ \A i \in 1 .. m : y[i] = x[i]
      /\ \A i \in 1 .. n : y[m + i] = z[i]
  BY ConcatFacts DEF Plain
<1>2. /\ DOMAIN y = 1 .. m + n
      /\ \A i \in 1 .. m : x[i] = Cont => i > 1 /\ x[i - 1] = Lead
      /\ \A p \in 1 .. m - 1 : x[p] = Lead => x[p + 1] = Cont
  <2>1. DOMAIN y = 1 .. m + n /\ DOMAIN x = 1 .. m
    BY <1>1
  <2> QED BY <2>1, Zenon DEF Middle, Begun
<1>3. /\ z[1] = Cont <=> b = Cont
      /\ \A j \in 2 .. n : z[j] # Cont
      /\ \A j \in 1 .. n - 1 : z[j] # Lead
      /\ z[n] = Lead <=> b = Lead
      /\ b = Cont <=> m >= 1 /\ x[m] = Lead
  BY DEF Plain, EndsInLead
<1>m. m = Len(x)
  OBVIOUS
<1> HIDE DEF m, n
<1>4. ASSUME NEW i \in 1 .. m + n, y[i] = Cont
      PROVE  i > 1 /\ y[i - 1] = Lead
  <2>1. CASE i <= m
    <3>1. i \in 1 .. m
      BY <1>1, <2>1
    <3>2. i > 1 /\ x[i - 1] = Lead
      BY <1>1, <1>2, <1>4, <3>1
    <3>3. i - 1 \in 1 .. m
      BY <1>1, <3>1, <3>2
    <3> QED BY <1>1, <3>2, <3>3
  <2>2. CASE i > m
    <3>1. i - m \in 1 .. n /\ m + (i - m) = i
      BY <1>1, <2>2
    <3>2. z[i - m] = Cont
      BY <1>1, <1>4, <3>1
    <3>3. i - m = 1
      BY <1>3, <3>1, <3>2
    <3>4. m >= 1 /\ x[m] = Lead
      BY <1>3, <3>2, <3>3
    <3>5. m \in 1 .. m /\ i - 1 = m /\ i > 1
      BY <1>1, <3>3, <3>4
    <3> QED BY <1>1, <3>4, <3>5
  <2> QED BY <1>1, <2>1, <2>2
<1>5. ASSUME NEW i \in 1 .. (m + n) - 1, y[i] = Lead
      PROVE  y[i + 1] = Cont
  <2>1. CASE i < m
    <3>1. i \in 1 .. m - 1 /\ i \in 1 .. m /\ i + 1 \in 1 .. m
      BY <1>1, <2>1
    <3> QED BY <1>1, <1>2, <1>5, <3>1
  <2>2. CASE i = m
    <3>1. m \in 1 .. m /\ 1 \in 1 .. n /\ m >= 1 /\ i + 1 = m + 1
      BY <1>1, <2>2
    <3>2. x[m] = Lead
      BY <1>1, <1>5, <2>2, <3>1
    <3>3. z[1] = Cont
      BY <1>3, <3>1, <3>2
    <3> QED BY <1>1, <3>1, <3>3
  <2>3. CASE i > m
    <3>1. i - m \in 1 .. n - 1 /\ i - m \in 1 .. n /\ m + (i - m) = i
      BY <1>1, <2>3
    <3> QED BY <1>1, <1>3, <1>5, <3>1
  <2> QED BY <1>1, <2>1, <2>2, <2>3
<1>6. Middle(y)
  BY <1>1, <1>2, <1>4, <1>5 DEF Middle, Begun
<1>7. Len(y) >= 1 /\ y[Len(y)] = z[n]
  <2>1. m + n >= 1 /\ n \in 1 .. n
    BY <1>1
  <2> QED BY <1>1, <2>1
<1> QED BY <1>3, <1>6, <1>7 DEF EndsInLead

\* Escaping keeps characters whole, at every byte on the way.
LEMMA InsideFacts ==
  ASSUME NEW s \in Seq(Bytes), Complete(s)
  PROVE  /\ \A i \in 0 .. Len(s) : Begun(Inside(s)[i])
         /\ Complete(Inside(s)[Len(s)])
<1> DEFINE n == Len(s)
           u == Inside(s)
           P(i) == /\ Middle(u[i])
                   /\ i >= 1 => Len(u[i]) >= 1 /\ (EndsInLead(u[i]) <=> s[i] = Lead)
           S == {i \in 0 .. n : P(i)}
<1>1. /\ n \in Nat
      /\ u[0] = <<>>
      /\ \A i \in 1 .. n : u[i] = u[i - 1] \o Shown(s[i])
      /\ \A i \in 0 .. n : u[i] \in Seq(Bytes)
  <2>1. n \in Nat
    OBVIOUS
  <2> QED BY <2>1, InsideRecursion, Zenon
<1>2. /\ DOMAIN s = 1 .. n
      /\ \A i \in 1 .. n : s[i] \in Bytes
      /\ \A i \in 1 .. n : s[i] = Cont => i > 1 /\ s[i - 1] = Lead
      /\ \A i \in 1 .. n : s[i] = Lead => i < n /\ s[i + 1] = Cont
  <2>1. DOMAIN s = 1 .. n /\ \A i \in 1 .. n : s[i] \in Bytes
    OBVIOUS
  <2> QED BY <2>1, Zenon DEF Complete, Begun
<1> HIDE DEF u
<1>e. Len(u[0]) = 0 /\ Middle(u[0])
  BY <1>1 DEF Middle, Begun
<1>3. 0 \in S
  BY <1>1, <1>e
<1>4. ASSUME NEW i \in 1 .. n, i - 1 \in S
      PROVE  i \in S
  <2> DEFINE x == u[i - 1]
             z == Shown(s[i])
  <2>1. i - 1 \in 0 .. n /\ i \in 0 .. n /\ (i > 1 => i - 1 >= 1)
    BY <1>1
  <2>2. x \in Seq(Bytes) /\ z \in Seq(Bytes) /\ Middle(x) /\ Plain(z, s[i]) /\ u[i] = x \o z
    BY <1>1, <1>2, <1>4, <2>1, ShownFacts, ShownIsPlain
  <2>3. s[i] = Cont <=> EndsInLead(x)
    <3>1. CASE i = 1
      <4>1. Len(x) = 0
        BY <1>e, <3>1
      <4>2. s[i] # Cont
        BY <1>2, <3>1
      <4> QED BY <4>1, <4>2 DEF EndsInLead
    <3>2. CASE i > 1
      <4>1. EndsInLead(x) <=> s[i - 1] = Lead
        BY <1>4, <2>1, <3>2
      <4>2. i - 1 \in 1 .. n /\ (i - 1) + 1 = i
        BY <1>1, <3>2
      <4>3. s[i - 1] = Lead => s[i] = Cont
        BY <1>2, <4>2
      <4>4. s[i] = Cont => s[i - 1] = Lead
        BY <1>2
      <4> QED BY <4>1, <4>3, <4>4
    <3> QED BY <1>1, <3>1, <3>2
  <2> HIDE DEF x, z
  <2>4. Middle(u[i]) /\ Len(u[i]) >= 1 /\ (EndsInLead(u[i]) <=> s[i] = Lead)
    BY <2>2, <2>3, MiddleConcat
  <2> QED BY <2>1, <2>4
<1>5. 0 .. n \subseteq S
  <2> HIDE DEF S, n
  <2> QED BY <1>1, <1>3, <1>4, UpToInduction
<1>6. \A i \in 0 .. n : P(i)
  BY <1>5
<1>7. Complete(u[n])
  <2>1. n \in 0 .. n /\ u[n] \in Seq(Bytes) /\ Len(u[n]) \in Nat
    BY <1>1
  <2>2. Middle(u[n])
    BY <1>6, <2>1
  <2>3. ~EndsInLead(u[n])
    <3>1. CASE n = 0
      BY <1>e, <3>1 DEF EndsInLead
    <3>2. CASE n >= 1
      <4>1. n \in 1 .. n /\ s[n] # Lead
        BY <1>1, <1>2, <3>2
      <4> QED BY <1>6, <2>1, <3>2, <4>1
    <3> QED BY <1>1, <3>1, <3>2
  <2> DEFINE x == u[n]
  <2>4. x \in Seq(Bytes) /\ Len(x) \in Nat /\ Begun(x)
        /\ (\A p \in 1 .. Len(x) - 1 : x[p] = Lead => x[p + 1] = Cont)
        /\ ~(Len(x) >= 1 /\ x[Len(x)] = Lead)
    BY <2>1, <2>2, <2>3 DEF Middle, EndsInLead
  <2> HIDE DEF x
  <2>5. ASSUME NEW p \in 1 .. Len(x), x[p] = Lead
        PROVE  p < Len(x) /\ x[p + 1] = Cont
    <3>1. p # Len(x)
      BY <2>4, <2>5
    <3>2. p \in 1 .. Len(x) - 1 /\ p < Len(x)
      BY <2>4, <3>1
    <3> QED BY <2>4, <2>5, <3>2
  <2>6. DOMAIN x = 1 .. Len(x)
    BY <2>4
  <2>7. Complete(x)
    BY <2>4, <2>5, <2>6 DEF Complete
  <2> QED BY <2>7 DEF x
<1> QED
  <2> HIDE DEF P
  <2>1. \A i \in 0 .. n : Begun(u[i])
    BY <1>6 DEF P, Middle
  <2> QED BY <1>7, <2>1 DEF u

\* A run without escapes is copied as it is.
LEMMA CleanRun ==
  ASSUME NEW s \in Seq(Bytes), NEW i \in Nat, NEW k \in Nat, i + k <= Len(s),
         \A j \in 1 .. k : ~NeedsEscape(s[i + j])
  PROVE  Inside(s)[i + k] = Inside(s)[i] \o SubSeq(s, i + 1, i + k)
<1> DEFINE n == Len(s)
           u == Inside(s)
           S == {j \in 0 .. k : u[i + j] = u[i] \o SubSeq(s, i + 1, i + j)}
<1>1. /\ n \in Nat
      /\ \A j \in 1 .. n : u[j] = u[j - 1] \o Shown(s[j])
      /\ \A j \in 0 .. n : u[j] \in Seq(Bytes)
  <2>1. n \in Nat
    OBVIOUS
  <2> QED BY <2>1, InsideRecursion, Zenon
<1>n. n = Len(s)
  OBVIOUS
<1>2. u[i] \in Seq(Bytes)
  BY <1>1
<1> HIDE DEF u
<1>3. 0 \in S
  <2>1. SubSeq(s, i + 1, i + 0) = <<>>
    BY SubSeqEmpty
  <2>2. u[i] \o <<>> = u[i]
    BY <1>2, ConcatEmptySeq
  <2>3. i + 0 = i /\ 0 \in 0 .. k
    OBVIOUS
  <2> QED BY <2>1, <2>2, <2>3
<1>4. ASSUME NEW j \in 1 .. k, j - 1 \in S
      PROVE  j \in S
  <2>1. /\ i + j \in 1 .. n /\ (i + j) - 1 = i + (j - 1) /\ j \in 0 .. k /\ j - 1 \in Nat
        /\ i + 1 \in 1 .. n /\ i + j \in i + 1 .. n
    BY <1>1
  <2>2. Shown(s[i + j]) = <<s[i + j]>> /\ s[i + j] \in Bytes
    <3>1. ~NeedsEscape(s[i + j])
      OBVIOUS
    <3>2. s[i + j] \in Bytes
      BY <1>n, <2>1, ElementOfSeq
    <3> QED BY <3>1, <3>2, ShownFacts
  <2>3. u[i + j] = (u[i] \o SubSeq(s, i + 1, i + (j - 1))) \o <<s[i + j]>>
    BY <1>1, <1>4, <2>1, <2>2
  <2>4. SubSeq(s, i + 1, i + j) = SubSeq(s, i + 1, i + (j - 1)) \o <<s[i + j]>>
    BY <1>n, <2>1, SubSeqRecursiveSecond
  <2>5. SubSeq(s, i + 1, i + (j - 1)) \in Seq(Bytes)
    <3>1. i + (j - 1) \in Nat /\ i + 1 >= 1 /\ i + 1 <= i + (j - 1) + 1 /\ i + (j - 1) <= n
          /\ i + 1 \in Nat
      BY <1>1, <2>1
    <3> QED BY <1>n, <3>1, SubSeqFacts
  <2>6. <<s[i + j]>> \in Seq(Bytes)
    BY <2>2
  <2>7. u[i + j] = u[i] \o SubSeq(s, i + 1, i + j)
    <3> DEFINE x == u[i]
               y == SubSeq(s, i + 1, i + (j - 1))
               z == <<s[i + j]>>
    <3>1. x \in Seq(Bytes) /\ y \in Seq(Bytes) /\ z \in Seq(Bytes)
      BY <1>2, <2>5, <2>6
    <3>2. u[i + j] = (x \o y) \o z /\ SubSeq(s, i + 1, i + j) = y \o z
      BY <2>3, <2>4
    <3>3. (x \o y) \o z = x \o (y \o z)
      <4> HIDE DEF x, y, z
      <4> QED BY <3>1, ConcatAssociative
    <3> QED BY <3>2, <3>3, Zenon
  <2> QED BY <2>1, <2>7, Zenon
<1>5. 0 .. k \subseteq S
  <2> HIDE DEF S, n
  <2> QED BY <1>3, <1>4, UpToInduction
<1>6. k \in 0 .. k
  OBVIOUS
<1>7. u[i + k] = u[i] \o SubSeq(s, i + 1, i + k)
  BY <1>5, <1>6, Zenon
<1> QED BY <1>7 DEF u

-----------------------------------------------------------------------------
(* write_str.                                                              *)

\* The text when i bytes of string s are done.
SoFar(t, s, i) == t \o (<<Quote>> \o Inside(s)[i])

\* It is a beginning of whole characters throughout.
LEMMA SoFarFacts ==
  ASSUME NEW t \in Seq(Bytes), NEW s \in Seq(Bytes), Complete(s), NEW i \in 0 .. Len(s)
  PROVE  /\ SoFar(t, s, i) \in Seq(Bytes)
         /\ Begun(t) => Begun(SoFar(t, s, i))
<1> DEFINE q == <<Quote>>
           x == Inside(s)[i]
<1>1. q \in Seq(Bytes) /\ Begun(q)
  <2>1. Quote \in Bytes /\ Quote # Cont
    BY AsciiBytes DEF Ascii
  <2> QED BY <2>1 DEF Begun
<1>2. x \in Seq(Bytes) /\ Begun(x)
  BY InsideRecursion, InsideFacts
<1>3. SoFar(t, s, i) = t \o (q \o x)
  BY DEF SoFar
<1> HIDE DEF q, x
<1>4. q \o x \in Seq(Bytes) /\ Begun(q \o x)
  BY <1>1, <1>2, ConcatFacts, BegunConcat
<1> DEFINE y == q \o x
<1>5. y \in Seq(Bytes) /\ Begun(y) /\ SoFar(t, s, i) = t \o y
  BY <1>3, <1>4
<1> HIDE DEF y
<1> QED BY <1>5, ConcatFacts, BegunConcat

\* The two ways to concatenate three sequences are one.
Joins(x, y, z) == (x \o y) \o z = x \o (y \o z)

\* Concatenation is associative.
LEMMA ConcatJoins ==
  ASSUME NEW x \in Seq(Bytes), NEW y \in Seq(Bytes), NEW z \in Seq(Bytes)
  PROVE  Joins(x, y, z)
BY ConcatAssociative DEF Joins

\* Between bytes i and j of the string the output grows by b.
Follows(s, i, j, b)    == Inside(s)[j] = Inside(s)[i] \o b
\* So does the text.
Extends(t, s, i, j, b) == SoFar(t, s, j) = SoFar(t, s, i) \o b

\* The text grows by what the output grows.
LEMMA SoFarNext ==
  ASSUME NEW t \in Seq(Bytes), NEW s \in Seq(Bytes), NEW i \in 0 .. Len(s), NEW j,
         NEW b \in Seq(Bytes), Follows(s, i, j, b)
  PROVE  Extends(t, s, i, j, b)
<1> DEFINE q == <<Quote>>
           x == Inside(s)[i]
<1>1. q \in Seq(Bytes)
  <2>1. Quote \in Bytes
    BY AsciiBytes DEF Ascii
  <2> QED BY <2>1
<1>2. x \in Seq(Bytes)
  BY InsideRecursion
<1>3. SoFar(t, s, i) = t \o (q \o x) /\ SoFar(t, s, j) = t \o (q \o (x \o b))
  BY Zenon DEF SoFar, Follows
<1> HIDE DEF q, x
<1> DEFINE y == q \o x
<1>4. y \in Seq(Bytes)
  BY <1>1, <1>2, ConcatFacts
<1>5. Joins(q, x, b)
  BY <1>1, <1>2, ConcatJoins
<1>6. Joins(t, y, b)
  <2> HIDE DEF y
  <2> QED BY <1>4, ConcatJoins
<1> QED BY <1>3, <1>5, <1>6, Zenon DEF Joins, Extends

\* A state of write_str's loop: the writer stands at byte i, and the room that
\* was made covers the rest of the string and a word stored over its end.
Turning(st, wr, t, s) ==
  /\ st \in [wr : Writers, i : 0 .. Len(s)]
  /\ Good(st.wr, SoFar(t, s, st.i))
  /\ Kin(st.wr, wr)
  /\ Len(st.wr.buf) + (Len(s) - st.i) + Word <= st.wr.cap

\* The strings write_str is given, and the text in front of them.
StrInput(wr, t, s) == /\ s \in Seq(Bytes) /\ Complete(s) /\ t \in Seq(Bytes)
                      /\ wr.sink => Begun(t)

\* Bytes that need no escape are copied, a word at a time or one by one.
LEMMA CopyFacts ==
  ASSUME NEW st, NEW wr, NEW t, NEW s, Turning(st, wr, t, s), StrInput(wr, t, s),
         NEW k \in Nat, st.i + k <= Len(s), \A j \in 1 .. k : ~NeedsEscape(s[st.i + j]),
         NEW reach \in Nat, k <= reach, reach <= (Len(s) - st.i) + Word,
         NEW x, x = Store(st.wr, SubSeq(s, st.i + 1, st.i + k), reach),
         NEW to, to = [wr |-> x, i |-> st.i + k]
  PROVE  Turning(to, wr, t, s) /\ to.i = st.i + k
<1> DEFINE n == Len(s)
           i == st.i
           y == st.wr
           b == SubSeq(s, i + 1, i + k)
           u == SoFar(t, s, i)
           v == SoFar(t, s, i + k)
<1>1. s \in Seq(Bytes) /\ t \in Seq(Bytes) /\ Complete(s) /\ (wr.sink => Begun(t))
  BY DEF StrInput
<1>2. n \in Nat /\ i \in 0 .. n /\ i + k \in 0 .. n /\ Word \in Nat
  BY <1>1, SizesAssumption DEF Turning
<1>3. Good(y, u) /\ Kin(y, wr) /\ Len(y.buf) + (n - i) + Word <= y.cap
  BY DEF Turning
<1>4. b \in Seq(Bytes) /\ Len(b) = k
  <2>1. i + 1 \in Nat /\ i + k \in Nat /\ i + 1 >= 1 /\ i + 1 <= i + k + 1 /\ i + k <= Len(s)
        /\ (i + k) - (i + 1) + 1 = k
    <3> HIDE DEF i
    <3> QED BY <1>2
  <2> QED BY <1>1, <2>1, SubSeqFacts
<1>5. v = u \o b
  <2>1. Follows(s, i, i + k, b)
    <3>1. i \in Nat
      BY <1>2
    <3> QED BY <1>1, <3>1, CleanRun DEF Follows
  <2>2. i \in 0 .. Len(s)
    BY <1>2
  <2>3. Extends(t, s, i, i + k, b)
    <3> HIDE DEF i, b
    <3> QED BY <1>1, <1>4, <2>1, <2>2, SoFarNext
  <2> QED BY <2>3, Zenon DEF Extends
<1>6. wr.sink => Begun(v)
  BY <1>1, <1>2, SoFarFacts
<1>7. x = Store(y, b, reach)
  OBVIOUS
<1>8. to = [wr |-> x, i |-> i + k]
  OBVIOUS
<1>n. n = Len(s) /\ i = st.i
  OBVIOUS
<1>v. v = SoFar(t, s, i + k)
  OBVIOUS
<1>k. k <= reach /\ reach <= (n - i) + Word
  OBVIOUS
<1> HIDE DEF n, i, y, b, u, v
<1> DEFINE l == Len(y.buf)
           c == y.cap
<1>9. l \in Nat /\ c \in Nat
  BY <1>3, GoodTypes
<1>10. l + (n - i) + Word <= c
  BY <1>3
<1>l. l = Len(y.buf) /\ c = y.cap
  OBVIOUS
<1> HIDE DEF l, c
<1>11. l + reach <= c
  BY <1>2, <1>9, <1>10, <1>k
<1>12. Storable(y, u, b, reach)
  BY <1>3, <1>4, <1>5, <1>6, <1>11, <1>l DEF Storable, Kin
<1>13. Good(x, v) /\ Stored(x, y, b)
  BY <1>3, <1>5, <1>7, <1>12, StoreFacts
<1>14. Len(x.buf) = l + k /\ x.cap = c /\ Kin(x, y)
  BY <1>4, <1>13, <1>l DEF Stored
<1>15. (l + k) + (n - (i + k)) + Word <= c
  BY <1>2, <1>9, <1>10
<1>16. Kin(x, wr)
  BY <1>3, <1>14 DEF Kin
<1>17. x \in Writers
  BY <1>13 DEF Good
<1>18. to \in [wr : Writers, i : 0 .. n] /\ to.wr = x /\ to.i = i + k
  BY <1>2, <1>8, <1>17
<1> QED BY <1>13, <1>14, <1>15, <1>16, <1>18, <1>n, <1>v DEF Turning

\* An escape drains at most what was there, and makes the room again.
LEMMA EscapeFacts ==
  ASSUME NEW st, NEW wr, NEW t, NEW s, Turning(st, wr, t, s), StrInput(wr, t, s), FailureOK,
         st.i < Len(s), NeedsEscape(s[st.i + 1]),
         NEW to, to = Escape(st, s)
  PROVE  Turning(to, wr, t, s) /\ to.i = st.i + 1
<1> DEFINE n == Len(s)
           i == st.i
           y == st.wr
           b == Escaped(s[i + 1])
           u == SoFar(t, s, i)
           v == SoFar(t, s, i + 1)
           a == AppendBytes(y, b)
           need == n - (i + 1) + Word
           x == Room(a, need)
<1>1. s \in Seq(Bytes) /\ t \in Seq(Bytes) /\ Complete(s) /\ (wr.sink => Begun(t))
  BY DEF StrInput
<1>2. n \in Nat /\ i \in 0 .. n /\ i + 1 \in 0 .. n /\ i + 1 \in 1 .. n /\ Word \in Nat
  BY <1>1, SizesAssumption DEF Turning
<1>3. Good(y, u) /\ Kin(y, wr)
  BY DEF Turning
<1>4. b \in Seq(Bytes) /\ b = Shown(s[i + 1])
  <2>1. s[i + 1] \in Bytes
    BY <1>1, <1>2, ElementOfSeq
  <2> QED BY <2>1, ShownFacts
<1>5. v = u \o b
  <2>1. Inside(s)[i + 1] = Inside(s)[(i + 1) - 1] \o b
    BY <1>1, <1>2, <1>4, InsideRecursion
  <2>2. (i + 1) - 1 = i
    BY <1>2
  <2>3. Follows(s, i, i + 1, b)
    BY <2>1, <2>2, Zenon DEF Follows
  <2>4. i \in 0 .. Len(s)
    BY <1>2
  <2>5. Extends(t, s, i, i + 1, b)
    <3> HIDE DEF i, b
    <3> QED BY <1>1, <1>4, <2>3, <2>4, SoFarNext
  <2> QED BY <2>5, Zenon DEF Extends
<1>6. wr.sink => Begun(v)
  BY <1>1, <1>2, SoFarFacts
<1>8. to = [wr |-> x, i |-> i + 1]
  BY DEF Escape
<1>n. n = Len(s) /\ i = st.i
  OBVIOUS
<1>v. v = SoFar(t, s, i + 1)
  OBVIOUS
<1>x. x = Room(a, need) /\ a = Store(Room(y, Len(b)), b, Len(b)) /\ need = n - (i + 1) + Word
  BY DEF AppendBytes
<1> HIDE DEF n, i, y, b, u, v, a, need, x
<1>9. Len(b) \in Nat /\ need \in Nat
  BY <1>2, <1>4, <1>x
<1>10. Appendable(y, u, b, Len(b))
  BY <1>3, <1>4, <1>5, <1>6, <1>9 DEF Appendable, Kin
<1>11. Good(a, v) /\ Appended(a, y, Len(b))
  BY <1>3, <1>5, <1>10, <1>x, PutFacts
<1>12. Good(x, v) /\ Roomy(x, a, need)
  BY <1>9, <1>11, <1>x, RoomFacts
<1>13. Len(x.buf) + need <= x.cap /\ Kin(x, a) /\ Kin(a, y)
  BY <1>11, <1>12 DEF Roomy, Appended
<1>14. Kin(x, wr)
  BY <1>3, <1>13 DEF Kin
<1>15. Len(x.buf) + (n - (i + 1)) + Word <= x.cap
  <2> DEFINE l == Len(x.buf)
             c == x.cap
  <2>1. l \in Nat /\ c \in Nat /\ l + need <= c
    BY <1>12, <1>13, GoodTypes
  <2> HIDE DEF l, c
  <2>2. l + (n - (i + 1)) + Word <= c
    BY <1>2, <1>x, <2>1
  <2> QED BY <2>2 DEF l, c
<1>17. x \in Writers
  BY <1>12 DEF Good
<1>18. to \in [wr : Writers, i : 0 .. n] /\ to.wr = x /\ to.i = i + 1
  BY <1>2, <1>8, <1>17
<1> QED BY <1>12, <1>14, <1>15, <1>18, <1>n, <1>v DEF Turning

\* The run found in a word is the longest: the byte after it needs an escape.
LEMMA CleanIsMaximal ==
  ASSUME NEW st, NEW s, NEW k, k = CHOOSE m \in Clean(st, s) : \A j \in Clean(st, s) : j <= m
  PROVE  /\ k \in 0 .. Word
         /\ \A j \in 1 .. k : ~NeedsEscape(s[st.i + j])
         /\ k < Word => NeedsEscape(s[st.i + (k + 1)])
<1> DEFINE C == Clean(st, s)
           mirror == {Word - m : m \in C}
<1>w. Word \in Nat
  BY SizesAssumption
<1>1. C \subseteq 0 .. Word /\ 0 \in C
  BY <1>w DEF Clean
<1>2. \E m \in C : \A j \in C : j <= m
  <2>1. mirror \subseteq Nat /\ mirror # {}
    BY <1>1, <1>w
  <2>2. PICK l \in mirror : \A j \in mirror : l <= j
    <3> HIDE DEF mirror
    <3> QED BY <2>1, LeastElement
  <2>3. PICK m \in C : l = Word - m
    OBVIOUS
  <2>4. ASSUME NEW j \in C PROVE j <= m
    <3>1. Word - j \in mirror
      OBVIOUS
    <3>2. l <= Word - j
      BY <2>2, <3>1
    <3>3. m \in Nat /\ j \in Nat
      BY <1>1
    <3> HIDE DEF mirror, C
    <3> QED BY <1>w, <2>3, <3>2, <3>3
  <2> QED BY <2>4
<1>3. k \in C /\ \A j \in C : j <= k
  BY <1>2
<1>4. k \in 0 .. Word /\ \A j \in 1 .. k : ~NeedsEscape(s[st.i + j])
  BY <1>3 DEF Clean
<1>5. ASSUME k < Word, ~NeedsEscape(s[st.i + (k + 1)])
      PROVE  FALSE
  <2>1. k + 1 \in 0 .. Word
    BY <1>w, <1>4, <1>5
  <2>2. \A j \in 1 .. k + 1 : ~NeedsEscape(s[st.i + j])
    <3> TAKE j \in 1 .. k + 1
    <3>1. j \in 1 .. k \/ j = k + 1
      BY <1>4
    <3> QED BY <1>4, <1>5, <3>1, Zenon
  <2>3. k + 1 \in C
    BY <2>1, <2>2, Zenon DEF Clean
  <2> QED BY <1>3, <1>4, <2>3
<1> QED BY <1>4, <1>5

\* A turn of the loop keeps the invariant and moves on.
LEMMA TurnFacts ==
  ASSUME NEW st, NEW wr, NEW t, NEW s, Turning(st, wr, t, s), StrInput(wr, t, s), FailureOK,
         NEW to, to = StrTurn(st, s)
  PROVE  /\ Turning(to, wr, t, s)
         /\ st.i >= Len(s) => to.i = st.i
         /\ st.i < Len(s) => to.i > st.i
<1>1. /\ Len(s) \in Nat /\ st.i \in 0 .. Len(s) /\ Word \in Nat /\ Word > 0
      /\ s \in Seq(Bytes)
  BY SizesAssumption DEF StrInput, Turning
<1>2. CASE st.i >= Len(s)
  <2>1. to = st
    BY <1>1, <1>2 DEF StrTurn
  <2> QED BY <1>1, <1>2, <2>1
<1>3. CASE st.i < Len(s) /\ st.i + Word <= Len(s)
  <2> DEFINE k == CHOOSE m \in Clean(st, s) : \A j \in Clean(st, s) : j <= m
             x == Store(st.wr, SubSeq(s, st.i + 1, st.i + k), Word)
             moved == [wr |-> x, i |-> st.i + k]
  <2>1. to = IF k = Word THEN moved ELSE Escape(moved, s)
    BY <1>1, <1>3 DEF StrTurn, StrWord
  <2>k. k = CHOOSE m \in Clean(st, s) : \A j \in Clean(st, s) : j <= m
    OBVIOUS
  <2>x. x = Store(st.wr, SubSeq(s, st.i + 1, st.i + k), Word)
    OBVIOUS
  <2>m. moved = [wr |-> x, i |-> st.i + k]
    OBVIOUS
  <2> HIDE DEF k, x, moved
  <2>2. /\ k \in 0 .. Word
        /\ \A j \in 1 .. k : ~NeedsEscape(s[st.i + j])
        /\ k < Word => NeedsEscape(s[st.i + (k + 1)])
    BY <2>k, CleanIsMaximal
  <2>3. k \in Nat /\ st.i + k <= Len(s) /\ k <= Word /\ Word <= (Len(s) - st.i) + Word
    BY <1>1, <1>3, <2>2
  <2>4. Turning(moved, wr, t, s) /\ moved.i = st.i + k
    BY <1>1, <2>2, <2>3, <2>x, <2>m, CopyFacts
  <2>5. CASE k = Word
    BY <1>1, <1>3, <2>1, <2>4, <2>5
  <2>6. CASE k < Word
    <3>1. to = Escape(moved, s)
      BY <2>1, <2>6, <1>1, <2>3
    <3>2. moved.i + 1 = st.i + (k + 1) /\ moved.i < Len(s)
      BY <1>1, <1>3, <2>3, <2>4, <2>6
    <3>3. NeedsEscape(s[moved.i + 1])
      BY <2>2, <2>6, <3>2
    <3>4. Turning(to, wr, t, s) /\ to.i = moved.i + 1
      BY <2>4, <3>1, <3>2, <3>3, EscapeFacts
    <3> QED BY <1>1, <1>3, <2>3, <3>2, <3>4
  <2> QED BY <1>1, <2>2, <2>5, <2>6
<1>4. CASE st.i < Len(s) /\ st.i + Word > Len(s) /\ ~NeedsEscape(s[st.i + 1])
  <2> DEFINE x == Store(st.wr, <<s[st.i + 1]>>, 1)
  <2>1. to = [wr |-> x, i |-> st.i + 1]
    BY <1>1, <1>4 DEF StrTurn
  <2>2. x = Store(st.wr, SubSeq(s, st.i + 1, st.i + 1), 1)
    <3>1. SubSeq(s, st.i + 1, st.i + 1) = <<s[st.i + 1]>>
      <4> DEFINE m == st.i + 1
      <4>1. m \in 1 .. Len(s)
        BY <1>1, <1>4
      <4> HIDE DEF m
      <4>2. SubSeq(s, m, m) = <<s[m]>>
        <5> DEFINE y == SubSeq(s, m, m)
        <5>1. m \in Nat /\ m >= 1 /\ m <= m + 1 /\ m <= Len(s) /\ m - m + 1 = 1 /\ m + 1 - 1 = m
          BY <1>1, <4>1
        <5>2. y \in Seq(Bytes) /\ Len(y) = 1 /\ y[1] = s[m]
          BY <1>1, <5>1, SubSeqFacts
        <5> HIDE DEF y
        <5>3. y = <<s[m]>>
          BY <5>2
        <5> QED BY <5>3 DEF y
      <4> QED BY <4>2 DEF m
    <3> QED BY <3>1
  <2> HIDE DEF x
  <2>3. /\ \A j \in 1 .. 1 : ~NeedsEscape(s[st.i + j])
        /\ 1 \in Nat /\ st.i + 1 <= Len(s) /\ 1 <= 1 /\ 1 <= (Len(s) - st.i) + Word
    BY <1>1, <1>4
  <2>4. Turning(to, wr, t, s) /\ to.i = st.i + 1
    BY <2>1, <2>2, <2>3, CopyFacts
  <2> QED BY <1>1, <1>4, <2>4
<1>5. CASE st.i < Len(s) /\ st.i + Word > Len(s) /\ NeedsEscape(s[st.i + 1])
  <2>1. to = Escape(st, s)
    BY <1>1, <1>5 DEF StrTurn
  <2>2. Turning(to, wr, t, s) /\ to.i = st.i + 1
    BY <1>5, <2>1, EscapeFacts
  <2> QED BY <1>1, <1>5, <2>2
<1> QED BY <1>1, <1>2, <1>3, <1>4, <1>5

\* The quote is one byte.
LEMMA QuoteFacts ==
  <<Quote>> \in Seq(Bytes) /\ Len(<<Quote>>) = 1 /\ Begun(<<Quote>>) /\ Complete(<<Quote>>)
<1>1. Quote \in Bytes /\ Quote # Cont /\ Quote # Lead
  BY AsciiBytes DEF Ascii
<1>2. Begun(<<Quote>>)
  BY <1>1 DEF Begun
<1> QED BY <1>1, <1>2 DEF Complete

\* The room asked for first covers the string and its quotes.
LEMMA StartFacts ==
  ASSUME NEW wr, NEW t, NEW s, Good(wr, t), StrInput(wr, t, s), FailureOK,
         NEW st, st = StrStart(wr, s)
  PROVE  Turning(st, wr, t, s) /\ st.i = 0
<1> DEFINE n == Len(s)
           need == StrRoom(n)
           r == Room(wr, need)
           q == <<Quote>>
           a == AppendBytes(r, q)
           u == SoFar(t, s, 0)
<1>1. s \in Seq(Bytes) /\ t \in Seq(Bytes) /\ Complete(s) /\ (wr.sink => Begun(t))
      /\ n \in Nat /\ Word \in Nat
  BY SizesAssumption DEF StrInput
<1>2. q \in Seq(Bytes) /\ Len(q) = 1 /\ Begun(q)
  BY QuoteFacts
<1>3. u = t \o q
  <2>1. Inside(s)[0] = <<>>
    BY <1>1, InsideRecursion
  <2>2. q \o Inside(s)[0] = q
    BY <1>2, <2>1, ConcatEmptySeq
  <2> QED BY <2>2, Zenon DEF SoFar
<1>4. st = [wr |-> a, i |-> 0]
  BY DEF StrStart, Push
<1>5. r = Room(wr, need) /\ a = Store(Room(r, Len(q)), q, Len(q)) /\ need = n + 2 + Word
  BY DEF AppendBytes, StrRoom
<1>n. n = Len(s) /\ u = SoFar(t, s, 0)
  OBVIOUS
<1>u. wr.sink => Begun(u)
  BY <1>1, SoFarFacts
<1> HIDE DEF n, need, r, q, a, u
<1>6. need \in Nat
  BY <1>1, <1>5
<1>7. Good(r, t) /\ Roomy(r, wr, need)
  BY <1>5, <1>6, RoomFacts
<1>8. Kin(r, wr) /\ Len(r.buf) + need <= r.cap
  BY <1>7 DEF Roomy
<1>9. Appendable(r, t, q, Len(q))
  BY <1>2, <1>3, <1>8, <1>u DEF Appendable, Kin
<1>10. Good(a, u) /\ Appended(a, r, Len(q))
  BY <1>3, <1>5, <1>7, <1>9, PutFacts
<1>11. Kin(a, wr)
  BY <1>8, <1>10 DEF Appended, Kin
<1>12. Len(a.buf) + (n - 0) + Word <= a.cap
  <2> DEFINE l == Len(a.buf)
             c == a.cap
             m == Len(r.buf)
             d == r.cap
  <2>1. l \in Nat /\ c \in Nat /\ m \in Nat /\ d \in Nat
    BY <1>7, <1>10, GoodTypes
  <2>2. l <= m + 1 /\ d <= c /\ m + need <= d
    BY <1>2, <1>8, <1>10 DEF Appended
  <2> HIDE DEF l, c, m, d
  <2>3. l + (n - 0) + Word <= c
    BY <1>1, <1>5, <2>1, <2>2
  <2> QED BY <2>3 DEF l, c
<1>13. a \in Writers
  BY <1>10 DEF Good
<1>14. st \in [wr : Writers, i : 0 .. n] /\ st.wr = a /\ st.i = 0
  BY <1>1, <1>4, <1>13
<1> QED BY <1>10, <1>11, <1>12, <1>14, <1>n DEF Turning

\* The loop ends with the whole string written.
LEMMA LoopFacts ==
  ASSUME NEW wr, NEW t, NEW s, Good(wr, t), StrInput(wr, t, s), FailureOK
  PROVE  /\ Turning(StrLoop(wr, s)[Len(s)], wr, t, s)
         /\ StrLoop(wr, s)[Len(s)].i = Len(s)
<1> DEFINE n == Len(s)
           first == StrStart(wr, s)
           X == {st \in [wr : Writers, i : 0 .. n] : Turning(st, wr, t, s)}
           F == [k \in 1 .. n |-> [st \in X |-> StrTurn(st, s)]]
           G(h) == [k \in 0 .. n |-> IF k = 0 THEN first ELSE StrTurn(h[k - 1], s)]
           turn == StrLoop(wr, s)
<1>n. n \in Nat
  BY DEF StrInput
<1>1. turn = CHOOSE h : h = G(h)
  BY DEF StrLoop
<1>2. first \in X /\ first.i = 0
  <2>1. Turning(first, wr, t, s) /\ first.i = 0
    BY StartFacts
  <2> QED BY <2>1 DEF Turning
<1>3. \A st \in X : StrTurn(st, s) \in X
  <2> SUFFICES ASSUME NEW st \in X PROVE StrTurn(st, s) \in X
    OBVIOUS
  <2>1. Turning(StrTurn(st, s), wr, t, s)
    BY TurnFacts
  <2> QED BY <2>1 DEF Turning
<1> HIDE DEF first, turn
<1>4. \E h : h = G(h)
  <2>1. F \in [1 .. n -> [X -> X]]
    BY <1>3
  <2>2. \A k \in 1 .. n : \A st \in X : F[k][st] = StrTurn(st, s)
    OBVIOUS
  <2> HIDE DEF X, F, n
  <2>3. \E g \in [0 .. n -> X] : g[0] = first /\ \A k \in 1 .. n : g[k] = F[k][g[k - 1]]
    BY <1>n, <1>2, <2>1, RecursionExists
  <2>4. PICK g \in [0 .. n -> X] : g[0] = first /\ \A k \in 1 .. n : g[k] = F[k][g[k - 1]]
    BY <2>3
  <2>5. \A k \in 1 .. n : g[k] = StrTurn(g[k - 1], s)
    <3> TAKE k \in 1 .. n
    <3>1. g[k - 1] \in X
      <4>1. k - 1 \in 0 .. n
        BY <1>n
      <4> QED BY <2>4, <4>1
    <3> QED BY <2>2, <2>4, <3>1
  <2>6. g = G(g)
    <3>1. \A k \in 0 .. n : k # 0 => k \in 1 .. n
      BY <1>n
    <3> QED BY <2>4, <2>5, <3>1
  <2> QED BY <2>6
<1>5. turn = G(turn)
  BY <1>1, <1>4
<1>6. turn[0] = first /\ \A k \in 1 .. n : turn[k] = StrTurn(turn[k - 1], s)
  <2>1. \A k \in 0 .. n : turn[k] = IF k = 0 THEN first ELSE StrTurn(turn[k - 1], s)
    BY <1>5
  <2>2. 0 \in 0 .. n /\ \A k \in 1 .. n : k \in 0 .. n /\ k # 0
    BY <1>n
  <2> HIDE DEF n, G
  <2> QED BY <2>1, <2>2
<1> DEFINE S == {k \in 0 .. n : Turning(turn[k], wr, t, s) /\ turn[k].i >= k}
<1>7. 0 \in S
  BY <1>n, <1>2, <1>6
<1>8. ASSUME NEW k \in 1 .. n, k - 1 \in S
      PROVE  k \in S
  <2>1. Turning(turn[k - 1], wr, t, s) /\ turn[k - 1].i >= k - 1 /\ k \in 0 .. n
    BY <1>n, <1>8
  <2>2. /\ Turning(turn[k], wr, t, s)
        /\ turn[k - 1].i >= Len(s) => turn[k].i = turn[k - 1].i
        /\ turn[k - 1].i < Len(s) => turn[k].i > turn[k - 1].i
    BY <1>6, <2>1, TurnFacts
  <2>3. turn[k - 1].i \in 0 .. n /\ turn[k].i \in 0 .. n /\ n = Len(s)
    BY <2>1, <2>2 DEF Turning
  <2>4. turn[k].i >= k
    <3> DEFINE a == turn[k - 1].i
               b == turn[k].i
    <3>1. a \in 0 .. n /\ b \in 0 .. n /\ a >= k - 1 /\ (a >= n => b = a) /\ (a < n => b > a)
      BY <2>1, <2>2, <2>3
    <3> HIDE DEF a, b, n
    <3>2. b >= k
      BY <1>n, <3>1
    <3> QED BY <3>2 DEF b
  <2> QED BY <2>1, <2>2, <2>4
<1>9. 0 .. n \subseteq S
  <2> HIDE DEF S, n
  <2> QED BY <1>n, <1>7, <1>8, UpToInduction
<1>10. Turning(turn[n], wr, t, s) /\ turn[n].i >= n
  <2>1. n \in 0 .. n
    BY <1>n
  <2> QED BY <1>9, <2>1
<1>11. turn[n].i \in 0 .. n
  BY <1>10 DEF Turning
<1>12. turn[n].i = n
  BY <1>n, <1>10, <1>11
<1> QED BY <1>10, <1>12 DEF turn

\* a is wr after an append whose last piece had at most n bytes.
Grown(a, wr, n) == Kin(a, wr) /\ (wr.sink => Len(a.buf) <= wr.threshold \/ Len(a.buf) <= Kept + n)

\* write_str appends the string quoted and escaped.
LEMMA WriteStrFacts ==
  ASSUME NEW wr, NEW t, NEW s, Good(wr, t), StrInput(wr, t, s), FailureOK,
         NEW a, a = WriteStr(wr, s)
  PROVE  Good(a, t \o Quoted(s)) /\ Grown(a, wr, 1)
<1> DEFINE n == Len(s)
           st == StrLoop(wr, s)[n]
           x == st.wr
           q == <<Quote>>
           in == Inside(s)[n]
           u == SoFar(t, s, n)
           v == t \o Quoted(s)
<1>1. s \in Seq(Bytes) /\ t \in Seq(Bytes) /\ Complete(s) /\ (wr.sink => Begun(t)) /\ n \in Nat
  BY DEF StrInput
<1>2. q \in Seq(Bytes) /\ Len(q) = 1 /\ Begun(q)
  BY QuoteFacts
<1>3. in \in Seq(Bytes)
  <2>1. n \in 0 .. Len(s)
    BY <1>1
  <2> HIDE DEF n
  <2> QED BY <1>1, <2>1, InsideRecursion
<1>4. a = Store(Room(x, Len(q)), q, Len(q))
  BY DEF WriteStr, Push, AppendBytes
<1>5. Turning(st, wr, t, s) /\ st.i = n
  BY LoopFacts
<1> HIDE DEF st
<1>6. Good(x, u) /\ Kin(x, wr)
  BY <1>5 DEF Turning
<1>7. u \in Seq(Bytes) /\ (wr.sink => Begun(u))
  BY <1>1, SoFarFacts
<1>8. u = t \o (q \o in) /\ v = t \o ((q \o in) \o q)
  BY DEF SoFar, Quoted
<1>v. v = t \o Quoted(s)
  OBVIOUS
<1> HIDE DEF n, x, q, in, u, v
<1>9. v = u \o q
  <2> DEFINE y == q \o in
  <2>1. y \in Seq(Bytes)
    BY <1>2, <1>3, ConcatFacts
  <2>2. u = t \o y /\ v = t \o (y \o q)
    BY <1>8
  <2> HIDE DEF y
  <2>3. Joins(t, y, q)
    BY <1>1, <1>2, <2>1, ConcatJoins
  <2> QED BY <2>2, <2>3, Zenon DEF Joins
<1>10. wr.sink => Begun(v)
  BY <1>2, <1>7, <1>9, BegunConcat
<1>11. Appendable(x, u, q, Len(q))
  BY <1>2, <1>6, <1>9, <1>10 DEF Appendable, Kin
<1>12. Good(a, v) /\ Appended(a, x, 1)
  BY <1>2, <1>4, <1>6, <1>9, <1>11, PutFacts
<1>13. Grown(a, wr, 1)
  BY <1>6, <1>12 DEF Appended, Grown, Kin
<1> QED BY <1>12, <1>13, <1>v

-----------------------------------------------------------------------------
(* The container, line and comma operations.                               *)

\* One byte.
LEMMA SingleFacts ==
  ASSUME NEW b \in Bytes, b # Cont
  PROVE  <<b>> \in Seq(Bytes) /\ Len(<<b>>) = 1 /\ Begun(<<b>>)
BY DEF Begun

\* append continues the text.
LEMMA AppendBytesFacts ==
  ASSUME NEW wr, NEW t, Good(wr, t), FailureOK, NEW bytes \in Seq(Bytes), Begun(bytes),
         NEW a, a = AppendBytes(wr, bytes)
  PROVE  Good(a, t \o bytes) /\ Appended(a, wr, Len(bytes))
<1>1. a = Store(Room(wr, Len(bytes)), bytes, Len(bytes)) /\ Len(bytes) \in Nat
  BY DEF AppendBytes
<1>2. t \in Seq(Bytes) /\ (wr.sink => Begun(t))
  BY DEF Good, Divided
<1>3. wr.sink => Begun(t \o bytes)
  BY <1>2, BegunConcat
<1>4. Appendable(wr, t, bytes, Len(bytes))
  BY <1>1, <1>3 DEF Appendable
<1> QED BY <1>1, <1>4, PutFacts

\* push continues the text by a byte.
LEMMA PushFacts ==
  ASSUME NEW wr, NEW t, Good(wr, t), FailureOK, NEW b \in Bytes, b # Cont,
         NEW a, a = Push(wr, b)
  PROVE  Good(a, t \o <<b>>) /\ Appended(a, wr, 1)
<1> DEFINE x == <<b>>
<1>1. x \in Seq(Bytes) /\ Len(x) = 1 /\ Begun(x)
  BY SingleFacts
<1>2. a = AppendBytes(wr, x)
  BY DEF Push
<1>x. x = <<b>>
  OBVIOUS
<1> HIDE DEF x
<1>3. Good(a, t \o x) /\ Appended(a, wr, 1)
  BY <1>1, <1>2, AppendBytesFacts
<1> QED BY <1>3, <1>x

\* All but the last element.
LEMMA FrontFacts ==
  ASSUME NEW s \in Seq(Bytes), Len(s) >= 1, NEW f, f = Front(s)
  PROVE  /\ f \in Seq(Bytes) /\ Len(f) = Len(s) - 1
         /\ \A i \in 1 .. Len(s) - 1 : f[i] = s[i]
         /\ Begun(s) => Begun(f)
<1> DEFINE n == Len(s)
<1>1. n \in Nat /\ n >= 1 /\ n = Len(s)
  OBVIOUS
<1>2. 1 \in Nat /\ n - 1 \in Nat /\ 1 <= (n - 1) + 1 /\ n - 1 <= n /\ (n - 1) - 1 + 1 = n - 1
      /\ \A i \in 1 .. n - 1 : 1 + i - 1 = i
  BY <1>1
<1>3. f = SubSeq(s, 1, n - 1)
  BY DEF Front
<1> HIDE DEF n
<1>4. f \in Seq(Bytes) /\ Len(f) = n - 1 /\ \A i \in 1 .. n - 1 : f[i] = s[i]
  BY <1>1, <1>2, <1>3, SubSeqFacts
<1>5. ASSUME Begun(s) PROVE Begun(f)
  <2>1. DOMAIN f = 1 .. n - 1 /\ DOMAIN s = 1 .. n
    BY <1>1, <1>4
  <2>2. \A i \in 1 .. n : s[i] = Cont => i > 1 /\ s[i - 1] = Lead
    BY <1>5, <2>1, Zenon DEF Begun
  <2>3. ASSUME NEW i \in 1 .. n - 1, f[i] = Cont
        PROVE  i > 1 /\ f[i - 1] = Lead
    <3>1. i \in 1 .. n /\ s[i] = Cont
      BY <1>1, <1>4, <2>3
    <3>2. i > 1 /\ s[i - 1] = Lead
      BY <2>2, <3>1
    <3>3. i - 1 \in 1 .. n - 1
      BY <1>1, <3>2
    <3> QED BY <1>4, <3>2, <3>3
  <2> QED BY <2>1, <2>3 DEF Begun
<1> QED BY <1>1, <1>4, <1>5

\* The same bytes but the last.
Replaced(u, s, b) == /\ u \in Seq(Bytes) /\ Len(u) = Len(s)
                     /\ \A i \in 1 .. Len(s) - 1 : u[i] = s[i]
                     /\ u[Len(s)] = b

\* Replacing the last byte.
LEMMA ReplacedFacts ==
  ASSUME NEW s \in Seq(Bytes), Len(s) >= 1, NEW b \in Bytes
  PROVE  /\ Replaced(Front(s) \o <<b>>, s, b)
         /\ Append(Front(s), b) = Front(s) \o <<b>>
         /\ Begun(s) /\ b # Cont => Begun(Front(s) \o <<b>>)
<1> DEFINE f == Front(s)
           x == <<b>>
           u == f \o x
           n == Len(s)
<1>1. /\ f \in Seq(Bytes) /\ Len(f) = n - 1
      /\ \A i \in 1 .. n - 1 : f[i] = s[i]
      /\ Begun(s) => Begun(f)
  BY FrontFacts
<1>2. x \in Seq(Bytes) /\ Len(x) = 1 /\ x[1] = b /\ (b # Cont => Begun(x))
  BY SingleFacts
<1>3. Append(f, b) = u
  <2> HIDE DEF f
  <2> QED BY <1>1, AppendIsConcat
<1>n. n \in Nat /\ n >= 1 /\ n = Len(s)
  OBVIOUS
<1> HIDE DEF f, x, n
<1>4. /\ u \in Seq(Bytes) /\ Len(u) = (n - 1) + 1
      /\ \A i \in 1 .. n - 1 : u[i] = f[i]
      /\ \A i \in 1 .. 1 : u[(n - 1) + i] = x[i]
  <2>1. /\ u \in Seq(Bytes) /\ Len(u) = Len(f) + Len(x)
        /\ \A i \in 1 .. Len(f) : u[i] = f[i]
        /\ \A i \in 1 .. Len(x) : u[Len(f) + i] = x[i]
    <3>1. f \in Seq(Bytes) /\ x \in Seq(Bytes)
      BY <1>1, <1>2
    <3> QED BY <3>1, ConcatFacts
  <2> HIDE DEF u
  <2> QED BY <1>1, <1>2, <2>1, Zenon
<1>5. Begun(s) /\ b # Cont => Begun(u)
  BY <1>1, <1>2, BegunConcat
<1> HIDE DEF u
<1>6. (n - 1) + 1 = n /\ 1 \in 1 .. 1
  BY <1>n
<1>7. Replaced(u, s, b)
  BY <1>1, <1>2, <1>4, <1>6, <1>n DEF Replaced
<1> QED BY <1>3, <1>5, <1>7 DEF f, x, u

\* A bracket that takes the place of a comma in the buffer takes its place in
\* the text: the last byte has not gone to the sink.
LEMMA ReplaceLastFacts ==
  ASSUME NEW wr, NEW t, Good(wr, t), Len(wr.buf) >= 1, NEW b \in Bytes, b # Cont,
         NEW z, z = [wr EXCEPT !.buf = Append(Front(wr.buf), b)]
  PROVE  Good(z, Front(t) \o <<b>>) /\ Kin(z, wr) /\ Len(z.buf) = Len(wr.buf) /\ z.cap = wr.cap
<1> DEFINE n == Len(wr.buf)
           m == Len(wr.sent)
           h == Len(t)
           u == Front(t) \o <<b>>
           x == Append(Front(wr.buf), b)
<1>0. /\ wr \in Writers /\ t \in Seq(Bytes) /\ wr.buf \in Seq(Bytes) /\ wr.sound \in BOOLEAN
      /\ n \in Nat /\ m \in Nat /\ h \in Nat /\ wr.err \in BOOLEAN
  BY GoodTypes
<1>l. m + n <= h /\ (~wr.err => m + n = h)
  BY DEF Good, Lengths
<1>s. \A i \in 1 .. m : wr.sent[i] = t[i]
  BY DEF Good, SentIsFront
<1>b. \A i \in 1 .. n : wr.buf[i] = t[h - n + i]
  BY DEF Good, BufIsBack
<1>k. n = Len(wr.buf) /\ m = Len(wr.sent) /\ h = Len(t) /\ n >= 1
  OBVIOUS
<1>1. z = [wr EXCEPT !.buf = x]
  OBVIOUS
<1>u. u = Front(t) \o <<b>>
  OBVIOUS
<1> HIDE DEF n, m, h
<1>z. n \in Nat /\ m \in Nat /\ h \in Nat /\ n >= 1 /\ m + n <= h
  BY <1>0, <1>k, <1>l, Zenon
<1>2. h >= 1
  BY <1>z
<1>3. Replaced(u, t, b) /\ (Begun(t) => Begun(u))
  BY <1>0, <1>2, <1>k, ReplacedFacts
<1>4. Replaced(x, wr.buf, b)
  BY <1>0, <1>k, ReplacedFacts
<1> HIDE DEF u, x
<1>5. /\ u \in Seq(Bytes) /\ Len(u) = h /\ u[h] = b /\ \A i \in 1 .. h - 1 : u[i] = t[i]
      /\ x \in Seq(Bytes) /\ Len(x) = n /\ x[n] = b /\ \A i \in 1 .. n - 1 : x[i] = wr.buf[i]
  BY <1>3, <1>4, <1>k, Zenon DEF Replaced
<1>6. z \in Writers
  BY <1>0, <1>1, <1>5, Zenon DEF Writers
<1>7. /\ z.buf = x /\ z.sound = wr.sound /\ z.sent = wr.sent /\ z.err = wr.err /\ z.cap = wr.cap
      /\ z.limit = wr.limit /\ z.sink = wr.sink /\ z.threshold = wr.threshold /\ Kin(z, wr)
  BY <1>0, <1>1 DEF Writers, Kin
<1>8. Fits(z)
  BY <1>5, <1>7, <1>k DEF Good, Fits
<1>9. Lengths(z, u)
  BY <1>5, <1>7, <1>k, Zenon DEF Good, Lengths
<1>10. SentIsFront(z, u)
  <2> SUFFICES ASSUME NEW i \in 1 .. m
               PROVE  wr.sent[i] = u[i]
    BY <1>7, <1>k DEF SentIsFront
  <2>1. i \in 1 .. h - 1
    BY <1>z
  <2> QED BY <1>5, <1>s, <2>1
<1>11. BufIsBack(z, u)
  <2> SUFFICES ASSUME NEW i \in 1 .. n
               PROVE  x[i] = u[h - n + i]
    BY <1>5, <1>7 DEF BufIsBack
  <2>1. CASE i = n
    <3>1. h - n + i = h
      BY <1>0, <2>1
    <3> QED BY <1>5, <2>1, <3>1
  <2>2. CASE i < n
    <3>1. i \in 1 .. n - 1 /\ h - n + i \in 1 .. h - 1
      BY <1>0, <1>l, <2>2
    <3> QED BY <1>5, <1>b, <3>1
  <2> QED BY <1>0, <2>1, <2>2
<1>12. Divided(z, u)
  <2>1. wr.sink => wr.buf[1] # Cont /\ Begun(t)
    BY <1>0, <1>k DEF Good, Divided
  <2>2. wr.sink => x[1] # Cont
    <3>1. n = 1 \/ 1 \in 1 .. n - 1
      BY <1>z
    <3> QED BY <1>5, <2>1, <3>1
  <2> QED BY <1>3, <1>7, <2>1, <2>2 DEF Divided
<1>13. InMemory(z) /\ (z.err => failure.at > 0)
  BY <1>7 DEF Good, InMemory
<1>14. Good(z, u)
  BY <1>5, <1>6, <1>8, <1>9, <1>10, <1>11, <1>12, <1>13 DEF Good
<1> QED BY <1>5, <1>7, <1>14, <1>k, <1>u

\* Taking the last byte back, when it is not the only one held.
LEMMA ShortenedFacts ==
  ASSUME NEW wr, NEW t, Good(wr, t), Len(wr.buf) >= 2,
         NEW y, y = [wr EXCEPT !.buf = Front(wr.buf)]
  PROVE  Good(y, Front(t)) /\ Kin(y, wr) /\ Len(y.buf) = Len(wr.buf) - 1 /\ y.cap = wr.cap
<1> DEFINE n == Len(wr.buf)
           m == Len(wr.sent)
           h == Len(t)
           u == Front(t)
           x == Front(wr.buf)
<1>0. /\ wr \in Writers /\ t \in Seq(Bytes) /\ wr.buf \in Seq(Bytes) /\ wr.sound \in BOOLEAN
      /\ n \in Nat /\ m \in Nat /\ h \in Nat /\ wr.err \in BOOLEAN /\ wr.cap \in Nat
  BY GoodTypes
<1>l. m + n <= h /\ (~wr.err => m + n = h)
  BY DEF Good, Lengths
<1>s. \A i \in 1 .. m : wr.sent[i] = t[i]
  BY DEF Good, SentIsFront
<1>b. \A i \in 1 .. n : wr.buf[i] = t[h - n + i]
  BY DEF Good, BufIsBack
<1>k. n = Len(wr.buf) /\ m = Len(wr.sent) /\ h = Len(t) /\ n >= 2
  OBVIOUS
<1>1. y = [wr EXCEPT !.buf = x]
  OBVIOUS
<1>u. u = Front(t) /\ x = Front(wr.buf)
  OBVIOUS
<1> HIDE DEF n, m, h, u, x
<1>z. n \in Nat /\ m \in Nat /\ h \in Nat /\ n >= 2 /\ m + n <= h
  BY <1>0, <1>k, <1>l, Zenon
<1>2. h >= 1 /\ n >= 1
  BY <1>z
<1>3. /\ u \in Seq(Bytes) /\ Len(u) = h - 1 /\ \A i \in 1 .. h - 1 : u[i] = t[i]
      /\ Begun(t) => Begun(u)
  BY <1>0, <1>2, <1>k, <1>u, FrontFacts
<1>4. x \in Seq(Bytes) /\ Len(x) = n - 1 /\ \A i \in 1 .. n - 1 : x[i] = wr.buf[i]
  BY <1>0, <1>2, <1>k, <1>u, FrontFacts
<1>6. y \in Writers
  BY <1>0, <1>1, <1>4, Zenon DEF Writers
<1>7. /\ y.buf = x /\ y.sound = wr.sound /\ y.sent = wr.sent /\ y.err = wr.err /\ y.cap = wr.cap
      /\ y.limit = wr.limit /\ y.sink = wr.sink /\ y.threshold = wr.threshold /\ Kin(y, wr)
  BY <1>0, <1>1 DEF Writers, Kin
<1>8. Fits(y)
  <2>1. n <= wr.cap
    BY <1>k DEF Good, Fits
  <2>2. n - 1 <= wr.cap
    BY <1>0, <1>z, <2>1
  <2> QED BY <1>4, <1>7, <2>2 DEF Good, Fits
<1>9. Lengths(y, u)
  <2>1. m + (n - 1) <= h - 1 /\ n - 1 # 0
    BY <1>z
  <2>2. ~wr.err => m + (n - 1) = h - 1
    <3> SUFFICES ASSUME ~wr.err PROVE m + (n - 1) = h - 1
      OBVIOUS
    <3>1. m + n = h
      BY <1>l
    <3> QED BY <1>z, <3>1
  <2> QED BY <1>3, <1>4, <1>7, <1>k, <2>1, <2>2, Zenon DEF Lengths
<1>10. SentIsFront(y, u)
  <2> SUFFICES ASSUME NEW i \in 1 .. m
               PROVE  wr.sent[i] = u[i]
    BY <1>7, <1>k DEF SentIsFront
  <2>1. i \in 1 .. h - 1
    BY <1>z
  <2> QED BY <1>3, <1>s, <2>1
<1>11. BufIsBack(y, u)
  <2> SUFFICES ASSUME NEW i \in 1 .. n - 1
               PROVE  x[i] = u[(h - 1) - (n - 1) + i]
    BY <1>3, <1>4, <1>7 DEF BufIsBack
  <2>1. i \in 1 .. n /\ (h - 1) - (n - 1) + i = h - n + i /\ h - n + i \in 1 .. h - 1
    BY <1>z
  <2> QED BY <1>3, <1>4, <1>b, <2>1
<1>12. Divided(y, u)
  <2>1. wr.sink => wr.buf[1] # Cont /\ Begun(t)
    BY <1>2, <1>k DEF Good, Divided
  <2>2. 1 \in 1 .. n - 1
    BY <1>z
  <2> QED BY <1>3, <1>4, <1>7, <2>1, <2>2 DEF Divided
<1>13. InMemory(y) /\ (y.err => failure.at > 0)
  BY <1>7 DEF Good, InMemory
<1>14. Good(y, u)
  BY <1>3, <1>6, <1>8, <1>9, <1>10, <1>11, <1>12, <1>13 DEF Good
<1> QED BY <1>4, <1>7, <1>14, <1>k, <1>u

\* Where a writer stands is a matter of four of its fields.
LEMMA GoodOfFields ==
  ASSUME NEW z, NEW u, Good(z, u), NEW a \in Writers, Fits(a),
         a.buf = z.buf, a.sent = z.sent, a.err = z.err, a.sink = z.sink
  PROVE  Good(a, u)
<1>1. Lengths(a, u) /\ SentIsFront(a, u) /\ BufIsBack(a, u) /\ Divided(a, u) /\ InMemory(a)
  BY Zenon DEF Good, Lengths, SentIsFront, BufIsBack, Divided, InMemory
<1> QED BY <1>1 DEF Good

\* Taking the comma back and pushing a byte, which may have to drain or grow
\* first: even when the comma was all that was held the byte takes its place.
LEMMA OverCommaFacts ==
  ASSUME NEW wr, NEW t, Good(wr, t), FailureOK, Len(wr.buf) >= 1, NEW b \in Bytes, b # Cont,
         NEW a, a = Push([wr EXCEPT !.buf = Front(wr.buf)], b)
  PROVE  Good(a, Front(t) \o <<b>>) /\ Grown(a, wr, 1)
<1> DEFINE n == Len(wr.buf)
           y == [wr EXCEPT !.buf = Front(wr.buf)]
<1>0. /\ wr \in Writers /\ wr.buf \in Seq(Bytes) /\ wr.limit \in Nat /\ wr.cap \in Nat
      /\ wr.threshold \in Nat /\ n \in Nat
  BY GoodTypes
<1>1. CASE n >= 2
  <2>1. Good(y, Front(t)) /\ Kin(y, wr)
    BY <1>1, ShortenedFacts
  <2>2. a = Push(y, b)
    OBVIOUS
  <2> HIDE DEF y
  <2>3. Good(a, Front(t) \o <<b>>) /\ Appended(a, y, 1)
    BY <2>1, <2>2, PushFacts
  <2>4. Grown(a, wr, 1)
    BY <2>1, <2>3 DEF Appended, Grown, Kin
  <2> QED BY <2>3, <2>4
<1>2. CASE n = 1
  <2> DEFINE z == [wr EXCEPT !.buf = Append(Front(wr.buf), b)]
             u == Front(t) \o <<b>>
             r == Room(y, 1)
             l == Smaller(wr.cap, wr.threshold)
  <2>1. Good(z, u)
    BY ReplaceLastFacts
  <2>2. Front(wr.buf) = <<>>
    BY <1>2 DEF Front
  <2>3. /\ z.buf = <<b>> /\ z.sent = wr.sent /\ z.err = wr.err /\ z.sink = wr.sink
    BY <1>0, <2>2 DEF Writers
  <2>4. /\ y \in Writers /\ y.buf = <<>> /\ y.cap = wr.cap /\ y.limit = wr.limit
        /\ y.threshold = wr.threshold /\ y.sound = wr.sound /\ y.sent = wr.sent
        /\ y.err = wr.err /\ y.sink = wr.sink /\ Kin(y, wr)
    <3>1. y = [wr EXCEPT !.buf = <<>>] /\ <<>> \in Seq(Bytes)
      BY <2>2
    <3> HIDE DEF y
    <3>2. y \in Writers
      BY <1>0, <3>1, Zenon DEF Writers
    <3> QED BY <1>0, <3>1, <3>2 DEF Writers, Kin
  <2>5. wr.cap >= 1 /\ wr.limit <= wr.cap /\ wr.sound = TRUE /\ (wr.sink => wr.limit <= wr.threshold)
    BY <1>0, <1>2 DEF Good, Fits
  <2>a. a = Store(r, <<b>>, 1)
    BY DEF Push, AppendBytes
  <2>r. r = Room(y, 1)
    OBVIOUS
  <2> HIDE DEF z, y, r
  <2>l. l \in Nat /\ l <= wr.cap /\ l <= wr.threshold
    BY <1>0 DEF Smaller
  <2>6. \E lim \in Nat : /\ r = [y EXCEPT !.limit = lim]
                         /\ lim <= wr.cap /\ (wr.sink => lim <= wr.threshold)
    <3>1. CASE Len(y.buf) + 1 > y.limit
      <4>1. Drain(y) = y
        BY <2>4 DEF Drain
      <4>2. Larger(y.cap, Len(y.buf) + 1) = y.cap
        BY <1>0, <2>4, <2>5 DEF Larger
      <4>3. r = Relimit([y EXCEPT !.cap = y.cap])
        BY <2>r, <3>1, <4>1, <4>2 DEF Room, Spill
      <4>4. [y EXCEPT !.cap = y.cap] = y
        BY <2>4 DEF Writers
      <4>5. r = [y EXCEPT !.limit = l]
        BY <2>4, <4>3, <4>4 DEF Relimit
      <4> HIDE DEF l
      <4> QED BY <2>l, <4>5
    <3>2. CASE ~(Len(y.buf) + 1 > y.limit)
      <4>1. r = [y EXCEPT !.limit = y.limit]
        BY <2>4, <2>r, <3>2 DEF Writers, Room
      <4> QED BY <1>0, <2>4, <2>5, <4>1
    <3> QED BY <3>1, <3>2
  <2> HIDE DEF l
  <2>7. PICK lim \in Nat : /\ r = [y EXCEPT !.limit = lim]
                          /\ lim <= wr.cap /\ (wr.sink => lim <= wr.threshold)
    BY <2>6
  <2>8. /\ r \in Writers /\ r.buf = <<>> /\ r.cap = wr.cap /\ r.limit = lim
        /\ r.threshold = wr.threshold /\ r.sound = TRUE /\ r.sent = wr.sent
        /\ r.err = wr.err /\ r.sink = wr.sink /\ Kin(r, wr)
    <3>1. r \in Writers
      BY <2>4, <2>7, Zenon DEF Writers
    <3> QED BY <2>4, <2>5, <2>7, <3>1 DEF Writers, Kin
  <2>9. r.buf \o <<b>> = <<b>> /\ Len(r.buf) + 1 <= r.cap /\ <<b>> \in Seq(Bytes)
    BY <2>5, <2>8
  <2>10. a = [r EXCEPT !.buf = <<b>>, !.sound = TRUE]
    <3>1. (r.sound /\ Len(r.buf) + 1 <= r.cap) = TRUE
      BY <2>8, <2>9
    <3> QED BY <2>a, <2>9, <3>1, Zenon DEF Store
  <2>11. a \in Writers
    BY <2>8, <2>9, <2>10, Zenon DEF Writers
  <2>12. /\ a.buf = <<b>> /\ a.cap = wr.cap /\ a.limit = lim
         /\ a.threshold = wr.threshold /\ a.sound /\ a.sent = wr.sent
         /\ a.err = wr.err /\ a.sink = wr.sink /\ Kin(a, wr)
    BY <2>8, <2>10 DEF Writers, Kin
  <2>13. Len(<<b>>) = 1
    OBVIOUS
  <2>14. Fits(a)
    BY <1>0, <2>5, <2>7, <2>12, <2>13 DEF Fits
  <2>15. Good(a, u)
    BY <2>1, <2>3, <2>11, <2>12, <2>14, GoodOfFields
  <2>16. Grown(a, wr, 1)
    <3>1. Len(a.buf) = 1
      BY <2>12, <2>13, Zenon
    <3>2. 1 <= Kept + 1
      BY DEF Kept
    <3> QED BY <2>12, <3>1, <3>2, Zenon DEF Grown
  <2> QED BY <2>15, <2>16
<1> QED BY <1>0, <1>1, <1>2

\* The buffer ends the way the text ends: the comma is looked for in either.
LEMMA EndsFacts ==
  ASSUME NEW wr, NEW t, Good(wr, t), NEW b
  PROVE  /\ Ends(wr.buf, b) <=> Ends(t, b)
         /\ Ends(t, b) => Len(wr.buf) >= 1 /\ Len(t) >= 1
<1> DEFINE n == Len(wr.buf)
           h == Len(t)
<1>0. /\ wr.buf \in Seq(Bytes) /\ t \in Seq(Bytes) /\ n \in Nat /\ h \in Nat
  BY GoodTypes
<1>1. n = 0 => h = 0
  BY DEF Good, Lengths
<1>2. n <= h
  <2> DEFINE m == Len(wr.sent)
  <2>1. m \in Nat /\ m + n <= h
    BY GoodTypes DEF Good, Lengths
  <2> HIDE DEF m, n, h
  <2> QED BY <1>0, <2>1
<1>3. \A i \in 1 .. n : wr.buf[i] = t[h - n + i]
  BY DEF Good, BufIsBack
<1>4. wr.buf # <<>> <=> n >= 1
  BY <1>0
<1>5. t # <<>> <=> h >= 1
  BY <1>0
<1>6. Last(wr.buf) = wr.buf[n] /\ Last(t) = t[h]
  BY DEF Last
<1> HIDE DEF n, h
<1>7. n >= 1 <=> h >= 1
  BY <1>0, <1>1, <1>2
<1>8. n >= 1 => wr.buf[n] = t[h]
  <2> SUFFICES ASSUME n >= 1 PROVE wr.buf[n] = t[h]
    OBVIOUS
  <2>1. n \in 1 .. n /\ h - n + n = h
    BY <1>0
  <2> QED BY <1>3, <2>1
<1> QED BY <1>4, <1>5, <1>6, <1>7, <1>8 DEF Ends, n, h

\* A byte of punctuation is a whole character.
LEMMA AsciiFacts ==
  ASSUME NEW b \in Ascii
  PROVE  /\ b \in Bytes /\ b # Cont /\ b # Lead
         /\ <<b>> \in Seq(Bytes) /\ Len(<<b>>) = 1 /\ Complete(<<b>>)
<1>1. b \in Bytes /\ b # Cont /\ b # Lead
  BY AsciiBytes
<1>2. <<b>> \in Seq(Bytes) /\ Len(<<b>>) = 1 /\ Begun(<<b>>)
  BY <1>1, SingleFacts
<1> QED BY <1>1, <1>2 DEF Complete

\* So is every byte of an indentation.
LEMMA IndentFacts ==
  ASSUME NEW n \in Nat
  PROVE  Repeat(Blank, n) \in Seq(Bytes) /\ Len(Repeat(Blank, n)) = n /\ Complete(Repeat(Blank, n))
<1> DEFINE r == Repeat(Blank, n)
           b == Blank
<1>1. b \in Bytes /\ b # Cont /\ b # Lead
  BY AsciiFacts DEF Ascii
<1>2. r = [i \in 1 .. n |-> b]
  BY DEF Repeat
<1> HIDE DEF r, b
<1>3. r \in Seq(Bytes) /\ Len(r) = n /\ DOMAIN r = 1 .. n /\ \A i \in 1 .. n : r[i] = b
  BY <1>1, <1>2
<1>4. Complete(r)
  BY <1>1, <1>3 DEF Complete, Begun
<1> QED BY <1>3, <1>4 DEF r

\* The indentation after a line feed.
LEMMA LineTailFacts ==
  ASSUME NEW wr \in Writers, NEW x, NEW t, Good(x, t), FailureOK, Grown(x, wr, 1),
         NEW a, a = IF wr.depth = 0 THEN x ELSE AppendBytes(x, Repeat(Blank, wr.depth))
  PROVE  Good(a, t \o Repeat(Blank, wr.depth)) /\ Grown(a, wr, Larger(1, wr.depth))
<1> DEFINE n == wr.depth
           r == Repeat(Blank, n)
<1>1. n \in Nat /\ t \in Seq(Bytes)
  BY WriterTypes DEF Good
<1>2. r \in Seq(Bytes) /\ Len(r) = n /\ Begun(r)
  BY <1>1, IndentFacts DEF Complete
<1>r. r = Repeat(Blank, n) /\ n = wr.depth
  OBVIOUS
<1> HIDE DEF r, n
<1>3. CASE n = 0
  <2>1. a = x /\ t \o r = t
    <3>1. r = <<>>
      BY <1>2, <1>3
    <3> QED BY <1>1, <1>3, <1>r, <3>1, ConcatEmptySeq
  <2>2. Larger(1, n) = 1
    BY <1>3 DEF Larger
  <2> QED BY <2>1, <2>2, <1>r, Zenon
<1>4. CASE n >= 1
  <2>1. a = AppendBytes(x, r)
    BY <1>1, <1>4, <1>r
  <2>2. Good(a, t \o r) /\ Appended(a, x, n)
    BY <1>2, <2>1, AppendBytesFacts
  <2>3. Larger(1, n) = n
    BY <1>1, <1>4 DEF Larger
  <2>4. Grown(a, wr, n)
    BY <2>2 DEF Appended, Grown, Kin
  <2> QED BY <1>r, <2>2, <2>3, <2>4, Zenon
<1> QED BY <1>1, <1>3, <1>4

\* line breaks the line and indents.
LEMMA LineFacts ==
  ASSUME NEW wr, NEW t, Good(wr, t), FailureOK, policy.pretty, NEW a, a = Line(wr)
  PROVE  /\ Good(a, (t \o <<LineFeed>>) \o Repeat(Blank, wr.depth))
         /\ Grown(a, wr, Larger(1, wr.depth))
<1> DEFINE x == Push(wr, LineFeed)
           u == t \o <<LineFeed>>
<1>1. Good(x, u) /\ Appended(x, wr, 1)
  <2> DEFINE b == LineFeed
  <2>1. b \in Bytes /\ b # Cont
    BY AsciiFacts DEF Ascii
  <2>2. x = Push(wr, b) /\ u = t \o <<b>>
    OBVIOUS
  <2> HIDE DEF b, x, u
  <2>3. Good(x, t \o <<b>>) /\ Appended(x, wr, 1)
    BY <2>1, <2>2, PushFacts
  <2> QED BY <2>2, <2>3, Zenon
<1>2. a = IF wr.depth = 0 THEN x ELSE AppendBytes(x, Repeat(Blank, wr.depth))
  BY DEF Line
<1>3. wr \in Writers
  BY DEF Good
<1>4. Grown(x, wr, 1)
  BY <1>1 DEF Appended, Grown
<1>u. u = t \o <<LineFeed>>
  OBVIOUS
<1> HIDE DEF x, u
<1>5. Good(a, u \o Repeat(Blank, wr.depth)) /\ Grown(a, wr, Larger(1, wr.depth))
  BY <1>1, <1>2, <1>3, <1>4, LineTailFacts
<1> QED BY <1>5, <1>u, Zenon

-----------------------------------------------------------------------------
(* The document.                                                           *)

\* The containers whose contents are on lines of their own.
Depth(brackets) == Cardinality({i \in DOMAIN brackets : BreaksLines(brackets[i])})
\* What a container begins with.
Brackets == {Object.open, Array.open}

\* Opening a container makes the document deeper by one, or not at all.
LEMMA DepthFacts ==
  ASSUME NEW br \in Seq(Brackets)
  PROVE  /\ Depth(br) \in Nat
         /\ \A b \in Brackets : Depth(Append(br, b)) = Depth(br) + (IF BreaksLines(b) THEN 1 ELSE 0)
<1> DEFINE n == Len(br)
           D == {i \in DOMAIN br : BreaksLines(br[i])}
<1>1. n \in Nat /\ DOMAIN br = 1 .. n
  OBVIOUS
<1>2. IsFiniteSet(D) /\ D \subseteq 1 .. n
  <2>1. IsFiniteSet(1 .. n)
    BY <1>1, FS_Interval
  <2>2. D \subseteq 1 .. n
    BY <1>1
  <2> QED BY <2>1, <2>2, FS_Subset
<1>3. Cardinality(D) \in Nat
  BY <1>2, FS_CardinalityType
<1>4. Depth(br) = Cardinality(D)
  BY DEF Depth
<1>5. ASSUME NEW b \in Brackets
      PROVE  Depth(Append(br, b)) = Depth(br) + (IF BreaksLines(b) THEN 1 ELSE 0)
  <2> DEFINE c == Append(br, b)
             E == {i \in DOMAIN c : BreaksLines(c[i])}
  <2>1. DOMAIN c = 1 .. n + 1 /\ c[n + 1] = b /\ \A i \in 1 .. n : c[i] = br[i]
    BY <1>1
  <2> HIDE DEF c, n
  <2>2. n + 1 \notin D
    BY <1>1, <1>2
  <2>3. CASE BreaksLines(b)
    <3>1. E = D \cup {n + 1}
      BY <1>1, <2>1, <2>3
    <3>2. Cardinality(D \cup {n + 1}) = Cardinality(D) + 1
      <4> HIDE DEF D
      <4> QED BY <1>2, <2>2, FS_AddElement
    <3>3. Depth(c) = Cardinality(E)
      BY DEF Depth
    <3> QED BY <1>4, <2>3, <3>1, <3>2, <3>3 DEF c
  <2>4. CASE ~BreaksLines(b)
    <3>1. E = D
      BY <1>1, <2>1, <2>4
    <3>3. Depth(c) = Cardinality(E)
      BY DEF Depth
    <3>4. Depth(c) = Depth(br) /\ Depth(br) \in Nat
      BY <1>3, <1>4, <3>1, <3>3, Zenon
    <3> HIDE DEF D, E
    <3> QED BY <2>4, <3>4 DEF c
  <2> QED BY <2>3, <2>4
<1> QED BY <1>3, <1>4, <1>5

\* Closing it takes that back.
LEMMA FrontDepth ==
  ASSUME NEW br \in Seq(Brackets), br # <<>>
  PROVE  /\ Front(br) \in Seq(Brackets) /\ Last(br) \in Brackets
         /\ Depth(br) = Depth(Front(br)) + (IF BreaksLines(Last(br)) THEN 1 ELSE 0)
<1> DEFINE f == Front(br)
           b == Last(br)
<1>1. f \in Seq(Brackets) /\ b \in Brackets /\ br = Append(f, b)
  BY DEF Front, Last
<1> HIDE DEF f, b
<1>2. Depth(Append(f, b)) = Depth(f) + (IF BreaksLines(b) THEN 1 ELSE 0)
  BY <1>1, DepthFacts
<1> QED BY <1>1, <1>2 DEF f, b

\* The caller's bytes are where the text begins, and whole characters are only
\* ever added to them.
TextOK(t) == /\ t \in Seq(Bytes) /\ held \in Seq(Bytes)
             /\ Complete(held) => Complete(t)
             /\ Len(held) <= Len(t)
             /\ \A i \in 1 .. Len(held) : t[i] = held[i]

\* Whole characters are added.
LEMMA TextConcat ==
  ASSUME NEW t, TextOK(t), NEW bytes \in Seq(Bytes), Complete(bytes), NEW u, u = t \o bytes
  PROVE  TextOK(u) /\ Len(u) = Len(t) + Len(bytes)
<1> DEFINE m == Len(t)
           n == Len(bytes)
           h == Len(held)
<1>1. /\ t \in Seq(Bytes) /\ held \in Seq(Bytes) /\ h <= m
      /\ \A i \in 1 .. h : t[i] = held[i]
  BY DEF TextOK
<1>2. u \in Seq(Bytes) /\ Len(u) = m + n /\ \A i \in 1 .. m : u[i] = t[i]
  BY <1>1, ConcatFacts
<1>3. m \in Nat /\ n \in Nat /\ h \in Nat
  BY <1>1
<1>4. Complete(held) => Complete(u)
  BY <1>1, CompleteConcat DEF TextOK
<1>k. m = Len(t) /\ n = Len(bytes) /\ h = Len(held)
  OBVIOUS
<1> HIDE DEF m, n, h
<1>5. h <= m + n /\ \A i \in 1 .. h : i \in 1 .. m
  BY <1>1, <1>3
<1>6. \A i \in 1 .. h : u[i] = held[i]
  BY <1>1, <1>2, <1>5, Zenon
<1> QED BY <1>1, <1>2, <1>4, <1>5, <1>6, <1>k, Zenon DEF TextOK

\* A comma that was added is taken back.
LEMMA TextFront ==
  ASSUME NEW t, TextOK(t), Ends(t, Comma), Len(t) > Len(held), NEW f, f = Front(t)
  PROVE  TextOK(f) /\ Len(f) = Len(t) - 1
<1> DEFINE m == Len(t)
           h == Len(held)
<1>1. /\ t \in Seq(Bytes) /\ held \in Seq(Bytes) /\ h <= m
      /\ \A i \in 1 .. h : t[i] = held[i]
  BY DEF TextOK
<1>3. m \in Nat /\ h \in Nat /\ m > h
  BY <1>1
<1>k. m = Len(t) /\ h = Len(held)
  OBVIOUS
<1>c. t[m] = Comma
  BY DEF Ends, Last
<1> HIDE DEF m, h
<1>4. m >= 1 /\ h <= m - 1 /\ (\A i \in 1 .. h : i \in 1 .. m - 1)
  BY <1>3
<1>2. /\ f \in Seq(Bytes) /\ Len(f) = m - 1 /\ \A i \in 1 .. m - 1 : f[i] = t[i]
      /\ Begun(t) => Begun(f)
  BY <1>1, <1>4, <1>k, FrontFacts
<1>5. \A i \in 1 .. h : f[i] = held[i]
  BY <1>1, <1>2, <1>4, Zenon
<1>6. ASSUME Complete(t)
      PROVE  Complete(f)
  <2>1. DOMAIN f = 1 .. m - 1 /\ DOMAIN t = 1 .. m
    BY <1>1, <1>2, <1>3, <1>k
  <2>2. \A i \in 1 .. m : t[i] = Lead => i < m /\ t[i + 1] = Cont
    BY <1>6, <1>k, <2>1, Zenon DEF Complete
  <2>3. ASSUME NEW i \in 1 .. m - 1, f[i] = Lead
        PROVE  i < m - 1 /\ f[i + 1] = Cont
    <3>1. i \in 1 .. m /\ t[i] = Lead
      BY <1>2, <1>3, <2>3
    <3>2. t[i + 1] = Cont
      BY <2>2, <3>1
    <3>3. i + 1 # m
      BY <1>c, <3>2 DEF Comma, Cont
    <3>4. i < m - 1 /\ i + 1 \in 1 .. m - 1
      BY <1>3, <3>1, <3>3
    <3> QED BY <1>2, <3>2, <3>4
  <2>4. Begun(f)
    BY <1>2, <1>6 DEF Complete
  <2> QED BY <1>2, <2>1, <2>3, <2>4 DEF Complete
<1>7. Complete(held) => Complete(f)
  BY <1>6 DEF TextOK
<1> QED BY <1>1, <1>2, <1>4, <1>5, <1>7, <1>k, Zenon DEF TextOK

\* HeldIsBounded, of any writer.
Bounded(wr) == wr.sink => Len(wr.buf) <= Larger(wr.threshold, Kept + Larger(Longest, wr.depth))

\* There is a longest scalar.
LEMMA LongestFacts ==
  /\ Longest \in Nat /\ Longest >= 1
  /\ \A n \in ScalarLengths : n \in Nat /\ n <= Longest
<1>1. PICK n \in ScalarLengths : n >= 1 /\ \A m \in ScalarLengths : m <= n
  BY LongestAssumption
<1>2. Longest \in ScalarLengths /\ \A m \in ScalarLengths : m <= Longest
  BY <1>1 DEF Longest
<1>3. ASSUME NEW m \in ScalarLengths PROVE m \in Nat
  <2>1. CASE \E s \in Texts : m = Len(s)
    <3>1. PICK s \in Texts : m = Len(s)
      BY <2>1
    <3>2. s \in Seq(Bytes)
      BY TextsAssumption
    <3> QED BY <3>1, <3>2
  <2>2. CASE \E s \in Strings : m = Len(Quoted(s))
    <3>1. PICK s \in Strings : m = Len(Quoted(s))
      BY <2>2
    <3>2. s \in Seq(Bytes)
      BY TextsAssumption
    <3>3. Quoted(s) \in Seq(Bytes)
      <4> DEFINE q == <<Quote>>
                 in == Inside(s)[Len(s)]
      <4>1. q \in Seq(Bytes)
        BY QuoteFacts
      <4>2. in \in Seq(Bytes)
        <5>1. Len(s) \in 0 .. Len(s)
          BY <3>2
        <5> QED BY <3>2, <5>1, InsideRecursion
      <4>3. Quoted(s) = (q \o in) \o q
        BY DEF Quoted
      <4> HIDE DEF q, in
      <4>4. q \o in \in Seq(Bytes)
        BY <4>1, <4>2, ConcatFacts
      <4> DEFINE x == q \o in
      <4>5. x \in Seq(Bytes) /\ Quoted(s) = x \o q
        BY <4>3, <4>4
      <4> HIDE DEF x
      <4> QED BY <4>1, <4>5, ConcatFacts
    <3> QED BY <3>1, <3>3
  <2>3. CASE \E t \in Fixed : m = t.max
    BY <2>3, TextsAssumption
  <2> QED BY <2>1, <2>2, <2>3 DEF ScalarLengths
<1>4. n <= Longest /\ n \in Nat /\ Longest \in Nat
  BY <1>2, <1>3
<1> QED BY <1>1, <1>2, <1>3, <1>4

\* An append of a scalar or an indentation keeps the buffer bounded.
LEMMA GrownIsBounded ==
  ASSUME NEW wr \in Writers, NEW a, a \in Writers, NEW n \in Nat, Grown(a, wr, n),
         n <= Longest \/ n <= wr.depth
  PROVE  Bounded(a)
<1> DEFINE l == Len(a.buf)
           h == wr.threshold
           d == wr.depth
<1>1. l \in Nat /\ h \in Nat /\ d \in Nat /\ Longest \in Nat /\ Kept \in Nat
  BY WriterTypes, LongestFacts DEF Kept
<1>2. /\ a.sink = wr.sink /\ a.threshold = h /\ a.depth = d
      /\ wr.sink => l <= h \/ l <= Kept + n
  BY DEF Grown, Kin
<1>3. n <= Longest \/ n <= d
  OBVIOUS
<1>l. l = Len(a.buf)
  OBVIOUS
<1> HIDE DEF l, h, d
<1>4. n <= Larger(Longest, d) /\ Larger(Longest, d) \in Nat
  BY <1>1, <1>3 DEF Larger
<1>5. l <= h \/ l <= Kept + n => l <= Larger(h, Kept + Larger(Longest, d))
  <2> DEFINE g == Larger(Longest, d)
  <2>1. g \in Nat /\ n <= g
    BY <1>4
  <2> HIDE DEF g
  <2>2. l <= h \/ l <= Kept + n => l <= Larger(h, Kept + g)
    BY <1>1, <2>1 DEF Larger
  <2> QED BY <2>2 DEF g
<1> QED BY <1>2, <1>5, <1>l, Zenon DEF Bounded

\* The run's options and failure are among those to check.
Setting == policy \in Policies /\ failure \in Failures

\* Their types.
LEMMA SettingFacts ==
  ASSUME Setting
  PROVE  FailureOK /\ policy.pretty \in BOOLEAN /\ policy.newLinesInArrays \in BOOLEAN
BY OptionsAssumption DEF Setting, FailureOK

\* The writer stands where the text says, its depth is the open containers',
\* and it remembers where the caller's own bytes end.  A container that is open
\* was opened by this writer, so its bracket is after them.
Doc(wr, t, br) ==
  /\ Good(wr, t) /\ TextOK(t) /\ Bounded(wr)
  /\ br \in Seq(Brackets) /\ wr.depth = Depth(br)
  /\ wr.textFrom = Len(held)
  /\ wr.sink => held = <<>>
  /\ br # <<>> => Len(t) > Len(held)

\* Whole characters that were added keep all of that.
LEMMA DocGrows ==
  ASSUME NEW wr, NEW t, NEW br, Doc(wr, t, br),
         NEW bytes \in Seq(Bytes), Complete(bytes), NEW u, u = t \o bytes,
         NEW a, Good(a, u), NEW n \in Nat, Grown(a, wr, n), n <= Longest \/ n <= wr.depth
  PROVE  Doc(a, u, br)
<1>1. /\ Good(wr, t) /\ TextOK(t)
      /\ br \in Seq(Brackets) /\ wr.depth = Depth(br) /\ wr.textFrom = Len(held)
      /\ wr.sink => held = <<>>
      /\ br # <<>> => Len(t) > Len(held)
  BY DEF Doc
<1>2. a \in Writers /\ wr \in Writers
  BY <1>1 DEF Good
<1>3. Bounded(a)
  BY <1>2, GrownIsBounded
<1>4. TextOK(u) /\ Len(u) = Len(t) + Len(bytes)
  BY <1>1, TextConcat
<1>5. br # <<>> => Len(u) > Len(held)
  <2> DEFINE x == Len(u)
             y == Len(t)
             z == Len(held)
             k == Len(bytes)
  <2>1. x = y + k /\ y \in Nat /\ k \in Nat /\ z \in Nat /\ (br # <<>> => y > z)
    <3>1. t \in Seq(Bytes) /\ held \in Seq(Bytes)
      BY <1>1 DEF TextOK
    <3>2. y \in Nat /\ k \in Nat /\ z \in Nat
      BY <3>1
    <3> QED BY <1>1, <1>4, <3>2, Zenon
  <2>2. y > z => x > z
    <3>1. x = y + k /\ y \in Nat /\ k \in Nat /\ z \in Nat
      BY <2>1
    <3> HIDE DEF x, y, z, k
    <3> QED BY <3>1
  <2> QED BY <2>1, <2>2, Zenon
<1>6. a.sink = wr.sink /\ a.textFrom = wr.textFrom /\ a.depth = wr.depth
  BY DEF Grown, Kin
<1> QED BY <1>1, <1>3, <1>4, <1>5, <1>6, Zenon DEF Doc

\* The line break that the text has is the one line writes.
LEMMA NewLineFacts ==
  ASSUME NEW br \in Seq(Brackets), policy.pretty, NEW t \in Seq(Bytes)
  PROVE  /\ NewLine(br) \in Seq(Bytes) /\ Complete(NewLine(br))
         /\ t \o NewLine(br) = (t \o <<LineFeed>>) \o Repeat(Blank, Depth(br))
<1> DEFINE x == <<LineFeed>>
           y == Repeat(Blank, Depth(br))
<1>1. x \in Seq(Bytes) /\ Complete(x)
  <2>1. LineFeed \in Ascii
    BY DEF Ascii
  <2> QED BY <2>1, AsciiFacts
<1>2. y \in Seq(Bytes) /\ Complete(y)
  BY DepthFacts, IndentFacts
<1>3. NewLine(br) = x \o y
  BY DEF NewLine, Indent, Depth
<1>4. (t \o <<LineFeed>>) \o Repeat(Blank, Depth(br)) = (t \o x) \o y
  OBVIOUS
<1> HIDE DEF x, y
<1>5. x \o y \in Seq(Bytes) /\ Complete(x \o y)
  BY <1>1, <1>2, ConcatFacts, CompleteConcat
<1>6. Joins(t, x, y)
  BY <1>1, <1>2, ConcatJoins
<1> QED BY <1>3, <1>4, <1>5, <1>6, Zenon DEF Joins

\* line adds a line break to the document.
LEMMA DocLine ==
  ASSUME NEW wr, NEW t, NEW br, Doc(wr, t, br), Setting, policy.pretty, NEW a, a = Line(wr)
  PROVE  Doc(a, t \o NewLine(br), br)
<1>1. Good(wr, t) /\ wr.depth = Depth(br) /\ br \in Seq(Brackets) /\ t \in Seq(Bytes)
  BY DEF Doc, TextOK
<1> DEFINE x == NewLine(br)
           u == t \o x
           n == Larger(1, wr.depth)
<1>2. /\ x \in Seq(Bytes) /\ Complete(x)
      /\ u = (t \o <<LineFeed>>) \o Repeat(Blank, Depth(br))
  BY <1>1, NewLineFacts
<1>u. u = t \o x
  OBVIOUS
<1> HIDE DEF x, u
<1>3. Good(a, u) /\ Grown(a, wr, n)
  BY <1>1, <1>2, LineFacts, SettingFacts
<1>4. n \in Nat /\ (n <= Longest \/ n <= wr.depth)
  <2>1. wr.depth \in Nat
    BY <1>1, GoodTypes
  <2> QED BY <2>1, LongestFacts DEF Larger
<1> HIDE DEF n
<1>5. Doc(a, u, br)
  BY <1>2, <1>3, <1>4, <1>u, DocGrows
<1> QED BY <1>5, <1>u DEF x

\* push adds a byte to it.
LEMMA DocPush ==
  ASSUME NEW wr, NEW t, NEW br, Doc(wr, t, br), Setting, NEW b \in Ascii, NEW a, a = Push(wr, b)
  PROVE  Doc(a, t \o <<b>>, br) /\ Grown(a, wr, 1) /\ Len(t \o <<b>>) > Len(held)
<1> DEFINE x == <<b>>
           u == t \o x
<1>1. Good(wr, t) /\ TextOK(t)
  BY DEF Doc
<1>2. b \in Bytes /\ b # Cont /\ x \in Seq(Bytes) /\ Complete(x) /\ Len(x) = 1
  BY AsciiFacts
<1>3. Good(a, u) /\ Appended(a, wr, 1)
  BY <1>1, <1>2, PushFacts, SettingFacts
<1>u. u = t \o x
  OBVIOUS
<1> HIDE DEF x, u
<1>4. Grown(a, wr, 1)
  BY <1>3 DEF Appended, Grown
<1>5. Doc(a, u, br)
  BY <1>2, <1>3, <1>4, <1>u, DocGrows, LongestFacts
<1>6. Len(u) > Len(held)
  <2>1. Len(u) = Len(t) + Len(x)
    BY <1>1, <1>2, <1>u, TextConcat
  <2> DEFINE l == Len(u)
             m == Len(t)
             h == Len(held)
  <2>2. l = m + 1 /\ h <= m /\ m \in Nat /\ h \in Nat
    BY <1>1, <1>2, <2>1 DEF TextOK
  <2> HIDE DEF l, m, h
  <2>3. l > h
    BY <2>2
  <2> QED BY <2>3 DEF l, h
<1> QED BY <1>4, <1>5, <1>6, <1>u DEF x

-----------------------------------------------------------------------------
(* The actions that add to the document.                                   *)

\* raw keeps the writer where the text says.
LEMMA RawKeeps ==
  ASSUME Doc(w, text, open), Setting, NEW s \in Texts, Raw(s)
  PROVE  Doc(w', text', open')
<1>1. Good(w, text)
  BY DEF Doc
<1>2. s \in Seq(Bytes) /\ Complete(s) /\ Begun(s) /\ Len(s) \in Nat /\ Len(s) <= Longest
  <2>1. s \in Seq(Bytes) /\ Complete(s)
    BY TextsAssumption
  <2>2. Len(s) \in ScalarLengths
    BY DEF ScalarLengths
  <2> QED BY <2>1, <2>2, LongestFacts DEF Complete
<1>3. w' = AppendBytes(w, s) /\ text' = text \o s /\ open' = open
  BY DEF Raw, Writing
<1>4. Good(w', text') /\ Appended(w', w, Len(s))
  BY <1>1, <1>2, <1>3, AppendBytesFacts, SettingFacts
<1>5. Grown(w', w, Len(s))
  BY <1>4 DEF Appended, Grown
<1>6. Doc(w', text', open)
  BY <1>2, <1>3, <1>4, <1>5, DocGrows
<1> QED BY <1>3, <1>6

\* A quoted string is whole characters.
LEMMA QuotedFacts ==
  ASSUME NEW s \in Seq(Bytes), Complete(s)
  PROVE  Quoted(s) \in Seq(Bytes) /\ Complete(Quoted(s))
<1> DEFINE q == <<Quote>>
           in == Inside(s)[Len(s)]
<1>1. q \in Seq(Bytes) /\ Complete(q)
  BY QuoteFacts
<1>2. in \in Seq(Bytes) /\ Complete(in)
  <2>1. Len(s) \in 0 .. Len(s)
    OBVIOUS
  <2> QED BY <2>1, InsideRecursion, InsideFacts
<1>3. Quoted(s) = (q \o in) \o q
  BY DEF Quoted
<1> HIDE DEF q, in
<1> DEFINE x == q \o in
<1>4. x \in Seq(Bytes) /\ Complete(x)
  BY <1>1, <1>2, ConcatFacts, CompleteConcat
<1>5. Quoted(s) = x \o q
  BY <1>3
<1> HIDE DEF x
<1> QED BY <1>1, <1>4, <1>5, ConcatFacts, CompleteConcat

\* write_str does.
LEMMA StrKeeps ==
  ASSUME Doc(w, text, open), Setting, NEW s \in Strings, Str(s)
  PROVE  Doc(w', text', open')
<1> DEFINE x == Quoted(s)
<1>1. Good(w, text)
  BY DEF Doc
<1>2. s \in Seq(Bytes) /\ Complete(s)
  BY TextsAssumption
<1>3. x \in Seq(Bytes) /\ Complete(x)
  BY <1>2, QuotedFacts
<1>4. w' = WriteStr(w, s) /\ text' = text \o x /\ open' = open
  BY DEF Str, Writing
<1>5. StrInput(w, text, s)
  BY <1>1, <1>2 DEF StrInput, Good, Divided
<1>6. Good(w', text') /\ Grown(w', w, 1)
  BY <1>1, <1>4, <1>5, WriteStrFacts, SettingFacts
<1> HIDE DEF x
<1>7. Doc(w', text', open)
  BY <1>3, <1>4, <1>6, DocGrows, LongestFacts
<1> QED BY <1>4, <1>7

\* append_fixed does, though it stores to more than it adds.
LEMMA TokenKeeps ==
  ASSUME Doc(w, text, open), Setting, NEW t \in Fixed, Token(t)
  PROVE  Doc(w', text', open')
<1> DEFINE s == t.text
           n == t.max
<1>1. Good(w, text) /\ text \in Seq(Bytes) /\ (w.sink => Begun(text))
  BY DEF Doc, Good, Divided
<1>2. s \in Seq(Bytes) /\ Complete(s) /\ n \in Nat /\ Len(s) <= n
  BY TextsAssumption
<1>3. n <= Longest
  <2>1. n \in ScalarLengths
    BY DEF ScalarLengths
  <2> QED BY <2>1, LongestFacts
<1>4. w' = Store(Room(w, n), s, n) /\ text' = text \o s /\ open' = open
  BY DEF Token, Writing, AppendFixed
<1> HIDE DEF s, n
<1>5. w.sink => Begun(text \o s)
  BY <1>1, <1>2, BegunConcat DEF Complete
<1>6. Appendable(w, text, s, n)
  BY <1>2, <1>5 DEF Appendable
<1>7. Good(w', text') /\ Appended(w', w, n)
  BY <1>1, <1>4, <1>6, PutFacts, SettingFacts
<1>8. Grown(w', w, n)
  BY <1>7 DEF Appended, Grown
<1>9. Doc(w', text', open)
  BY <1>2, <1>3, <1>4, <1>7, <1>8, DocGrows
<1> QED BY <1>4, <1>9

\* A separator does.
LEMMA SeparateKeeps ==
  ASSUME Doc(w, text, open), Setting, Separate
  PROVE  Doc(w', text', open')
<1>1. w' = Push(w, Comma) /\ text' = Append(text, Comma) /\ open' = open
  BY DEF Separate, Writing
<1>2. Comma \in Ascii /\ Comma \in Bytes /\ text \in Seq(Bytes)
  BY AsciiBytes DEF Ascii, Doc, TextOK
<1>3. Append(text, Comma) = text \o <<Comma>>
  BY <1>2, AppendIsConcat
<1>4. Doc(w', text \o <<Comma>>, open)
  BY <1>1, <1>2, DocPush
<1> QED BY <1>1, <1>3, <1>4, Zenon

\* The line of a member does.
LEMMA MemberLineKeeps ==
  ASSUME Doc(w, text, open), Setting, MemberLine
  PROVE  Doc(w', text', open')
<1>1. policy.pretty /\ w' = Line(w) /\ text' = text \o NewLine(open) /\ open' = open
  BY DEF MemberLine, Writing
<1>2. Doc(w', text \o NewLine(open), open)
  BY <1>1, DocLine
<1> QED BY <1>1, <1>2, Zenon

\* item does: it looks for the comma in the buffer, which ends as the text does.
LEMMA ElementKeeps ==
  ASSUME Doc(w, text, open), Setting, Element
  PROVE  Doc(w', text', open')
<1>0. policy.pretty /\ w' = Item(w) /\ open' = open
  BY DEF Element
<1>1. text \in Seq(Bytes) /\ (Ends(w.buf, Comma) <=> Ends(text, Comma))
  BY EndsFacts DEF Doc, TextOK
<1>2. CASE policy.newLinesInArrays
  <2>1. w' = Line(w) /\ text' = text \o NewLine(open)
    BY <1>0, <1>2 DEF Item, Element, Writing
  <2>2. Doc(w', text \o NewLine(open), open)
    BY <1>0, <2>1, DocLine
  <2> QED BY <1>0, <2>1, <2>2, Zenon
<1>3. CASE ~policy.newLinesInArrays /\ Ends(text, Comma)
  <2>1. w' = Push(w, Blank) /\ text' = text \o <<Blank>>
    BY <1>0, <1>1, <1>3 DEF Item, Element, Writing
  <2>2. Blank \in Ascii
    BY DEF Ascii
  <2>3. Doc(w', text \o <<Blank>>, open)
    BY <2>1, <2>2, DocPush
  <2> QED BY <1>0, <2>1, <2>3, Zenon
<1>4. CASE ~policy.newLinesInArrays /\ ~Ends(text, Comma)
  <2>1. w' = w /\ text' = text \o <<>>
    BY <1>0, <1>1, <1>4 DEF Item, Element, Writing
  <2>2. text \o <<>> = text
    BY <1>1, ConcatEmptySeq
  <2> QED BY <1>0, <2>1, <2>2, Zenon
<1> QED BY <1>2, <1>3, <1>4

\* open does.
LEMMA OpenKeeps ==
  ASSUME Doc(w, text, open), Setting, NEW b \in Brackets, Open(b)
  PROVE  Doc(w', text', open')
<1> DEFINE x == Push(w, b)
           u == text \o <<b>>
           br == Append(open, b)
           d == x.depth + 1
<1>1. w' = (IF BreaksLines(b) THEN [x EXCEPT !.depth = d] ELSE x)
      /\ text' = Append(text, b) /\ open' = br
  BY DEF Open, Writing, OpenContainer
<1>2. b \in Ascii /\ b \in Bytes /\ text \in Seq(Bytes) /\ open \in Seq(Brackets) /\ w \in Writers
      /\ w.depth = Depth(open)
  BY AsciiBytes DEF Ascii, Doc, TextOK, Brackets, Good
<1>3. text' = u
  <2>1. Append(text, b) = text \o <<b>>
    BY <1>2, AppendIsConcat
  <2> QED BY <1>1, <2>1
<1>4. Doc(x, u, open) /\ Grown(x, w, 1) /\ Len(u) > Len(held)
  BY <1>2, DocPush
<1> HIDE DEF x, u
<1>5. br \in Seq(Brackets) /\ Depth(br) = Depth(open) + (IF BreaksLines(b) THEN 1 ELSE 0)
      /\ Depth(open) \in Nat
  BY <1>2, DepthFacts
<1>6. x \in Writers /\ x.depth = Depth(open) /\ Good(x, u) /\ TextOK(u) /\ Bounded(x)
      /\ x.textFrom = Len(held) /\ (x.sink => held = <<>>)
  BY <1>4 DEF Doc, Good
<1> HIDE DEF br
<1>7. CASE BreaksLines(b)
  <2>1. w' = [x EXCEPT !.depth = d] /\ d \in Nat /\ d = Depth(br)
    BY <1>1, <1>5, <1>6, <1>7
  <2> HIDE DEF d
  <2>2. w' \in Writers
    BY <1>6, <2>1, Zenon DEF Writers
  <2>3. /\ w'.buf = x.buf /\ w'.sent = x.sent /\ w'.err = x.err /\ w'.sink = x.sink
        /\ w'.cap = x.cap /\ w'.limit = x.limit /\ w'.threshold = x.threshold /\ w'.sound = x.sound
        /\ w'.textFrom = x.textFrom /\ w'.depth = d
    BY <1>6, <2>1 DEF Writers
  <2>4. Fits(w')
    BY <1>6, <2>3, Zenon DEF Good, Fits
  <2>5. Good(w', u)
    BY <1>6, <2>2, <2>3, <2>4, GoodOfFields
  <2>6. Bounded(w')
    <3> DEFINE l == Len(x.buf)
               h == x.threshold
    <3>1. x.sink => l <= h \/ l <= Kept + 1
      BY <1>4 DEF Grown, Kin
    <3>2. l \in Nat /\ h \in Nat /\ Longest \in Nat /\ Longest >= 1 /\ d \in Nat
      BY <1>6, <2>1, WriterTypes, LongestFacts
    <3>l. l = Len(x.buf) /\ h = x.threshold
      OBVIOUS
    <3> HIDE DEF l, h
    <3>3. l <= h \/ l <= Kept + 1 => l <= Larger(h, Kept + Larger(Longest, d))
      BY <3>2 DEF Larger, Kept
    <3> QED BY <2>3, <3>1, <3>3, <3>l, Zenon DEF Bounded
  <2> QED BY <1>1, <1>3, <1>4, <1>5, <1>6, <2>1, <2>3, <2>5, <2>6, Zenon DEF Doc
<1>8. CASE ~BreaksLines(b)
  <2>1. w' = x
    BY <1>1, <1>8
  <2>2. x.depth = Depth(br)
    BY <1>5, <1>6, <1>8
  <2> QED BY <1>1, <1>3, <1>4, <1>5, <1>6, <2>1, <2>2, Zenon DEF Doc
<1> QED BY <1>7, <1>8

\* A byte makes the text longer than the caller's.
LEMMA TextPush ==
  ASSUME NEW t, TextOK(t), NEW b \in Ascii, NEW u, u = t \o <<b>>
  PROVE  TextOK(u) /\ Len(u) > Len(held)
<1> DEFINE x == <<b>>
<1>1. x \in Seq(Bytes) /\ Complete(x) /\ Len(x) = 1 /\ u = t \o x
  BY AsciiFacts
<1> HIDE DEF x
<1>2. TextOK(u) /\ Len(u) = Len(t) + 1
  BY <1>1, TextConcat
<1>3. Len(held) <= Len(t) /\ t \in Seq(Bytes) /\ held \in Seq(Bytes)
  BY DEF TextOK
<1> DEFINE l == Len(u)
           m == Len(t)
           h == Len(held)
<1>4. l = m + 1 /\ h <= m /\ m \in Nat /\ h \in Nat
  BY <1>2, <1>3
<1> HIDE DEF l, m, h
<1>5. l > h
  BY <1>4
<1> QED BY <1>2, <1>5 DEF l, h

\* close does: the comma it looks for and replaces is the text's last byte, is
\* still held, and is none of the caller's.
LEMMA CloseKeeps ==
  ASSUME Doc(w, text, open), Setting, Close
  PROVE  Doc(w', text', open')
<1> DEFINE b == IF Last(open) = Object.open THEN Object.close ELSE Array.close
           outer == Front(open)
           d == w.depth - 1
           x == IF BreaksLines(b) THEN [w EXCEPT !.depth = d] ELSE w
           comma == Ends(text, Comma)
<1>1. open # <<>> /\ w' = CloseOverComma(x, b) /\ text' = ClosedBy(text, b, outer) /\ open' = outer
  BY DEF Close, Writing, CloseContainer
<1>2. /\ Good(w, text) /\ TextOK(text) /\ Bounded(w) /\ w \in Writers
      /\ open \in Seq(Brackets) /\ w.depth = Depth(open)
      /\ w.textFrom = Len(held) /\ (w.sink => held = <<>>)
      /\ Len(text) > Len(held)
  BY <1>1 DEF Doc, Good
<1>3. /\ outer \in Seq(Brackets) /\ Last(open) \in Brackets /\ Depth(outer) \in Nat
      /\ Depth(open) = Depth(outer) + (IF BreaksLines(Last(open)) THEN 1 ELSE 0)
  BY <1>1, <1>2, FrontDepth, DepthFacts
<1>4. b \in Ascii /\ (BreaksLines(b) <=> BreaksLines(Last(open)))
  BY <1>3 DEF Ascii, Brackets, Object, Array, BreaksLines
<1>5. b \in Bytes /\ b # Cont
  BY <1>4, AsciiBytes
<1>6. /\ x \in Writers /\ x.buf = w.buf /\ x.depth = Depth(outer) /\ Good(x, text)
      /\ x.sink = w.sink /\ x.textFrom = w.textFrom /\ (~BreaksLines(b) => x = w)
  <2>1. CASE BreaksLines(b)
    <3>1. x = [w EXCEPT !.depth = d] /\ d \in Nat /\ d = Depth(outer)
      BY <1>2, <1>3, <1>4, <2>1
    <3> HIDE DEF d, x, b, outer
    <3>2. x \in Writers
      BY <1>2, <3>1, Zenon DEF Writers
    <3>3. /\ x.buf = w.buf /\ x.sent = w.sent /\ x.err = w.err /\ x.sink = w.sink
          /\ x.cap = w.cap /\ x.limit = w.limit /\ x.threshold = w.threshold /\ x.sound = w.sound
          /\ x.textFrom = w.textFrom /\ x.depth = d
      BY <1>2, <3>1 DEF Writers
    <3>4. Fits(x)
      BY <1>2, <3>3, Zenon DEF Good, Fits
    <3>5. Good(x, text)
      BY <1>2, <3>2, <3>3, <3>4, GoodOfFields
    <3> QED BY <2>1, <3>1, <3>2, <3>3, <3>5
  <2>2. CASE ~BreaksLines(b)
    <3>1. x = w
      BY <2>2
    <3>2. Depth(open) = Depth(outer)
      BY <1>3, <1>4, <2>2
    <3> QED BY <1>2, <3>1, <3>2
  <2> QED BY <2>1, <2>2
<1>7. Ends(x.buf, Comma) <=> comma
  BY <1>6, EndsFacts
<1> HIDE DEF x, d
<1>f. FailureOK
  BY SettingFacts
<1>8. CASE ~comma
  <2>1. w' = Push(x, b) /\ text' = text \o <<b>>
    BY <1>1, <1>7, <1>8, Zenon DEF CloseOverComma, ClosedBy
  <2> HIDE DEF b, outer, comma
  <2>2. Good(w', text') /\ Appended(w', x, 1)
    BY <1>f, <1>5, <1>6, <2>1, PushFacts
  <2>3. Grown(w', x, 1)
    BY <2>2 DEF Appended, Grown
  <2>4. Bounded(w')
    BY <1>6, <2>2, <2>3, GrownIsBounded, LongestFacts DEF Good
  <2>5. TextOK(text') /\ Len(text') > Len(held)
    BY <1>2, <1>4, <2>1, TextPush
  <2>6. w'.sink = w.sink /\ w'.textFrom = w.textFrom /\ w'.depth = Depth(outer)
    BY <1>6, <2>3, Zenon DEF Grown, Kin
  <2> QED BY <1>1, <1>2, <1>3, <2>2, <2>4, <2>5, <2>6, Zenon DEF Doc
<1>9. CASE comma
  <2> DEFINE f == Front(text)
  <2>1. Len(w.buf) >= 1
    BY <1>2, <1>9, EndsFacts
  <2>2. TextOK(f)
    BY <1>2, <1>9, TextFront
  <2>3. CASE ~BreaksLines(b)
    <3>1. w' = [w EXCEPT !.buf = Append(Front(w.buf), b)] /\ text' = f \o <<>> \o <<b>>
      BY <1>1, <1>6, <1>7, <1>9, <2>3, Zenon DEF CloseOverComma, ClosedBy
    <3>2. text' = f \o <<b>>
      <4>1. f \in Seq(Bytes)
        BY <2>2 DEF TextOK
      <4> HIDE DEF f
      <4>2. f \o <<>> = f
        BY <4>1, ConcatEmptySeq
      <4> QED BY <3>1, <4>2
    <3> HIDE DEF b, outer, comma
    <3>3. Good(w', text') /\ Kin(w', w) /\ Len(w'.buf) = Len(w.buf)
      <4>1. w' = [w EXCEPT !.buf = Append(Front(w.buf), b)]
        BY <3>1
      <4>2. Good(w', Front(text) \o <<b>>) /\ Kin(w', w) /\ Len(w'.buf) = Len(w.buf)
        <5>1. Good(w, text)
          BY <1>2
        <5> DEFINE z == w'
        <5>2. z = [w EXCEPT !.buf = Append(Front(w.buf), b)]
          BY <4>1
        <5> HIDE DEF z, f
        <5>3. Good(z, Front(text) \o <<b>>) /\ Kin(z, w) /\ Len(z.buf) = Len(w.buf)
          BY <1>5, <2>1, <5>1, <5>2, ReplaceLastFacts
        <5> QED BY <5>3 DEF z
      <4> QED BY <3>2, <4>2, Zenon
    <3>4. Bounded(w')
      BY <1>2, <3>3, Zenon DEF Kin, Bounded
    <3> HIDE DEF f
    <3>5. TextOK(text') /\ Len(text') > Len(held)
      BY <2>2, <1>4, <3>2, TextPush
    <3>6. w'.sink = w.sink /\ w'.textFrom = w.textFrom /\ w'.depth = Depth(outer)
      BY <1>6, <2>3, <3>3, Zenon DEF Kin
    <3> QED BY <1>1, <1>2, <1>3, <3>3, <3>4, <3>5, <3>6, Zenon DEF Doc
  <2>4. CASE BreaksLines(b)
    <3> DEFINE y == [x EXCEPT !.buf = Front(x.buf)]
               p == Push(y, LineFeed)
               q == Line(y)
               g == f \o <<LineFeed>>
               u == f \o NewLine(outer)
    <3>1. w' = Push(q, b) /\ text' = u \o <<b>>
      BY <1>1, <1>7, <1>9, <2>4, Zenon DEF CloseOverComma, ClosedBy
    <3>2. policy.pretty
      BY <2>4 DEF BreaksLines
    <3>3. y.depth = x.depth
      BY <1>6 DEF Writers
    <3>4. q = IF x.depth = 0 THEN p ELSE AppendBytes(p, Repeat(Blank, x.depth))
      <4> HIDE DEF y
      <4> QED BY <3>2, <3>3 DEF Line
    <3>5. LineFeed \in Ascii /\ LineFeed \in Bytes /\ LineFeed # Cont
      BY AsciiBytes DEF Ascii
    <3> HIDE DEF b, outer, comma
    <3>6. Good(p, g) /\ Grown(p, x, 1)
      <4> DEFINE c == LineFeed
      <4>1. c \in Bytes /\ c # Cont /\ p = Push(y, c) /\ g = f \o <<c>> /\ Len(x.buf) >= 1
        BY <1>6, <2>1, <3>5
      <4> HIDE DEF c, p, g
      <4>2. Good(p, f \o <<c>>) /\ Grown(p, x, 1)
        BY <1>6, <1>f, <4>1, OverCommaFacts
      <4> QED BY <4>1, <4>2, Zenon
    <3>g. f \in Seq(Bytes) /\ g = f \o <<LineFeed>> /\ u = f \o NewLine(outer)
      BY <2>2 DEF TextOK
    <3> HIDE DEF p, q, f, g, u, y
    <3>7. Good(q, g \o Repeat(Blank, x.depth)) /\ Grown(q, x, Larger(1, x.depth))
      BY <1>6, <1>f, <3>4, <3>6, LineTailFacts
    <3>8. /\ u = g \o Repeat(Blank, x.depth)
          /\ NewLine(outer) \in Seq(Bytes) /\ Complete(NewLine(outer))
      BY <1>3, <1>6, <3>2, <3>g, NewLineFacts
    <3>9. Good(q, u)
      BY <3>7, <3>8, Zenon
    <3>10. Good(w', text') /\ Appended(w', q, 1)
      BY <1>f, <1>5, <3>1, <3>9, PushFacts
    <3>11. Kin(q, x) /\ q \in Writers
      BY <3>7, <3>9 DEF Grown, Good
    <3>12. Grown(w', q, 1)
      BY <3>10 DEF Appended, Grown
    <3>13. Bounded(w')
      BY <3>10, <3>11, <3>12, GrownIsBounded, LongestFacts DEF Good
    <3>14. TextOK(u)
      BY <2>2, <3>8, <3>g, TextConcat
    <3>15. TextOK(text') /\ Len(text') > Len(held)
      BY <1>4, <3>1, <3>14, TextPush
    <3>16. w'.sink = w.sink /\ w'.textFrom = w.textFrom /\ w'.depth = Depth(outer)
      BY <1>6, <3>11, <3>12, Zenon DEF Grown, Kin
    <3> QED BY <1>1, <1>2, <1>3, <3>10, <3>13, <3>15, <3>16, Zenon DEF Doc
  <2> QED BY <2>3, <2>4
<1> QED BY <1>8, <1>9

-----------------------------------------------------------------------------
(* What standing where the text says means.                                *)

\* Sequences with the same elements are equal.
LEMMA SeqExtensional ==
  ASSUME NEW s \in Seq(Bytes), NEW t \in Seq(Bytes), Len(s) = Len(t),
         \A i \in 1 .. Len(s) : s[i] = t[i]
  PROVE  s = t
OBVIOUS

\* A sequence whose elements begin another.
LEMMA PrefixOfFacts ==
  ASSUME NEW s \in Seq(Bytes), NEW t \in Seq(Bytes), Len(s) <= Len(t),
         \A i \in 1 .. Len(s) : s[i] = t[i]
  PROVE  IsPrefix(s, t) /\ SubSeq(t, 1, Len(s)) = s
<1> DEFINE n == Len(s)
           x == SubSeq(t, 1, n)
<1>1. n \in Nat /\ 1 \in Nat /\ 1 <= n + 1 /\ n <= Len(t) /\ n - 1 + 1 = n
      /\ \A i \in 1 .. n : 1 + i - 1 = i
  OBVIOUS
<1> HIDE DEF n
<1>2. x \in Seq(Bytes) /\ Len(x) = n /\ \A i \in 1 .. n : x[i] = t[i]
  BY <1>1, SubSeqFacts
<1> HIDE DEF x
<1>3. x = s
  <2>1. Len(x) = Len(s) /\ \A i \in 1 .. Len(x) : x[i] = s[i]
    BY <1>1, <1>2 DEF n
  <2> QED BY <1>2, <2>1, SeqExtensional
<1>4. SubSeq(s, 1, Len(s)) = s
  BY SubSeqFull
<1> QED BY <1>3, <1>4 DEF IsPrefix, x, n

\* Sink and buffer together hold the text; after a failure the sink has a proper
\* beginning of it; in memory the buffer is the text.
LEMMA GoodIsWhole ==
  ASSUME NEW wr, NEW t, Good(wr, t)
  PROVE  /\ ~wr.err => wr.sent \o wr.buf = t
         /\ IsPrefix(wr.sent, t)
         /\ wr.err => Len(wr.sent) < Len(t)
         /\ ~wr.sink => wr.buf = t
<1> DEFINE n == Len(wr.buf)
           m == Len(wr.sent)
           h == Len(t)
           j == wr.sent \o wr.buf
<1>0. wr.buf \in Seq(Bytes) /\ wr.sent \in Seq(Bytes) /\ t \in Seq(Bytes)
  BY GoodTypes
<1>z. n \in Nat /\ m \in Nat /\ h \in Nat
  BY <1>0
<1>l. m + n <= h
  BY DEF Good, Lengths
<1>2. (~wr.err => m + n = h) /\ (n = 0 => h = 0 /\ ~wr.err)
  BY DEF Good, Lengths
<1>s. \A i \in 1 .. m : wr.sent[i] = t[i]
  BY DEF Good, SentIsFront
<1>b. \A i \in 1 .. n : wr.buf[i] = t[h - n + i]
  BY DEF Good, BufIsBack
<1>j. /\ wr.sent \o wr.buf \in Seq(Bytes)
      /\ Len(wr.sent \o wr.buf) = Len(wr.sent) + Len(wr.buf)
      /\ \A i \in 1 .. Len(wr.sent) : (wr.sent \o wr.buf)[i] = wr.sent[i]
      /\ \A i \in 1 .. Len(wr.buf) : (wr.sent \o wr.buf)[Len(wr.sent) + i] = wr.buf[i]
  <2> DEFINE a == wr.sent
             b == wr.buf
  <2>1. a \in Seq(Bytes) /\ b \in Seq(Bytes)
    BY <1>0
  <2> HIDE DEF a, b
  <2>2. /\ a \o b \in Seq(Bytes)
        /\ Len(a \o b) = Len(a) + Len(b)
        /\ \A i \in 1 .. Len(a) : (a \o b)[i] = a[i]
        /\ \A i \in 1 .. Len(b) : (a \o b)[Len(a) + i] = b[i]
    BY <2>1, ConcatFacts
  <2> QED BY <2>2 DEF a, b
<1>k. n = Len(wr.buf) /\ m = Len(wr.sent) /\ h = Len(t) /\ j = wr.sent \o wr.buf
  OBVIOUS
<1> HIDE DEF n, m, h, j
<1>1. n \in Nat /\ m \in Nat /\ h \in Nat /\ m + n <= h
  BY <1>z, <1>l
<1>3. /\ j \in Seq(Bytes) /\ Len(j) = m + n
      /\ \A i \in 1 .. m : j[i] = wr.sent[i]
      /\ \A i \in 1 .. n : j[m + i] = wr.buf[i]
  BY <1>j, <1>k
<1>4. ASSUME ~wr.err PROVE j = t
  <2>1. m + n = h
    BY <1>2, <1>4
  <2>2. ASSUME NEW i \in 1 .. m + n
        PROVE  j[i] = t[i]
    <3>1. CASE i <= m
      <4>1. i \in 1 .. m
        BY <1>1, <3>1
      <4> QED BY <1>3, <1>s, <4>1
    <3>2. CASE i > m
      <4>1. i - m \in 1 .. n /\ m + (i - m) = i /\ h - n + (i - m) = i
        BY <1>1, <2>1, <3>2
      <4> QED BY <1>3, <1>b, <4>1
    <3> QED BY <1>1, <3>1, <3>2
  <2> QED BY <1>0, <1>3, <1>k, <2>1, <2>2, SeqExtensional
<1>5. IsPrefix(wr.sent, t)
  <2>1. m <= h
    BY <1>1
  <2> QED BY <1>0, <1>k, <1>s, <2>1, PrefixOfFacts
<1>6. ASSUME wr.err PROVE m < h
  <2>1. n # 0
    BY <1>2, <1>6
  <2> QED BY <1>1, <2>1
<1>7. ASSUME ~wr.sink PROVE wr.buf = t
  <2>1. ~wr.err /\ m = 0
    BY <1>7, <1>k DEF Good, InMemory
  <2>2. n = h
    <3>1. m + n = h
      BY <1>2, <2>1
    <3> QED BY <1>1, <2>1, <3>1
  <2>3. \A i \in 1 .. n : wr.buf[i] = t[i]
    <3>1. \A i \in 1 .. n : h - n + i = i
      BY <1>1, <2>2
    <3> QED BY <1>b, <3>1
  <2> QED BY <1>0, <1>k, <2>2, <2>3, SeqExtensional
<1> QED BY <1>4, <1>5, <1>6, <1>7, <1>k

\* Of a text of whole characters the sink and the buffer each hold whole ones.
LEMMA GoodIsWholeCharacters ==
  ASSUME NEW wr, NEW t, Good(wr, t), wr.sink, Complete(t)
  PROVE  Complete(wr.buf) /\ (~wr.err => Complete(wr.sent))
<1> DEFINE n == Len(wr.buf)
           m == Len(wr.sent)
           h == Len(t)
<1>0. wr.buf \in Seq(Bytes) /\ wr.sent \in Seq(Bytes) /\ t \in Seq(Bytes)
  BY GoodTypes
<1>z. n \in Nat /\ m \in Nat /\ h \in Nat
  BY <1>0
<1>l. m + n <= h
  BY DEF Good, Lengths
<1>2. ~wr.err => m + n = h
  BY DEF Good, Lengths
<1>s. \A i \in 1 .. m : wr.sent[i] = t[i]
  BY DEF Good, SentIsFront
<1>b. \A i \in 1 .. n : wr.buf[i] = t[h - n + i]
  BY DEF Good, BufIsBack
<1>d. /\ DOMAIN wr.buf = 1 .. n /\ DOMAIN wr.sent = 1 .. m /\ DOMAIN t = 1 .. h
  BY <1>0
<1>k. n = Len(wr.buf) /\ m = Len(wr.sent) /\ h = Len(t)
  OBVIOUS
<1>c. n > 0 => wr.buf[1] # Cont
  BY DEF Good, Divided
<1> HIDE DEF n, m, h
<1>1. n \in Nat /\ m \in Nat /\ h \in Nat /\ m + n <= h
  BY <1>z, <1>l
<1>t. /\ \A i \in 1 .. h : t[i] = Cont => i > 1 /\ t[i - 1] = Lead
      /\ \A i \in 1 .. h : t[i] = Lead => i < h /\ t[i + 1] = Cont
  BY <1>d, <1>k, Zenon DEF Complete, Begun
<1>3. ASSUME NEW i \in 1 .. n, wr.buf[i] = Cont
      PROVE  i > 1 /\ wr.buf[i - 1] = Lead
  <2>1. i > 1
    BY <1>1, <1>3, <1>c
  <2>2. h - n + i \in 1 .. h /\ i - 1 \in 1 .. n /\ h - n + i - 1 = h - n + (i - 1)
        /\ (h - n + i) - 1 = h - n + (i - 1)
    BY <1>1, <2>1
  <2>3. t[h - n + i] = Cont
    BY <1>b, <1>3
  <2>4. t[h - n + (i - 1)] = Lead
    BY <1>t, <2>2, <2>3
  <2> QED BY <1>b, <2>1, <2>2, <2>4
<1>4. ASSUME NEW i \in 1 .. n, wr.buf[i] = Lead
      PROVE  i < n /\ wr.buf[i + 1] = Cont
  <2>1. h - n + i \in 1 .. h
    BY <1>1
  <2>2. t[h - n + i] = Lead
    BY <1>b, <1>4
  <2>3. h - n + i < h /\ t[(h - n + i) + 1] = Cont
    BY <1>t, <2>1, <2>2
  <2>4. i < n /\ i + 1 \in 1 .. n /\ (h - n + i) + 1 = h - n + (i + 1)
    BY <1>1, <2>3
  <2> QED BY <1>b, <2>3, <2>4
<1>5. Complete(wr.buf)
  BY <1>3, <1>4, <1>d, <1>k DEF Complete, Begun
<1>6. ASSUME ~wr.err
      PROVE  Complete(wr.sent)
  <2>h. m + n = h
    BY <1>2, <1>6
  <2>1. ASSUME NEW i \in 1 .. m, wr.sent[i] = Cont
        PROVE  i > 1 /\ wr.sent[i - 1] = Lead
    <3>1. i \in 1 .. h /\ t[i] = Cont
      BY <1>1, <1>s, <2>1
    <3>2. i > 1 /\ t[i - 1] = Lead
      BY <1>t, <3>1
    <3>3. i - 1 \in 1 .. m
      BY <1>1, <3>2
    <3> QED BY <1>s, <3>2, <3>3
  <2>2. ASSUME NEW i \in 1 .. m, wr.sent[i] = Lead
        PROVE  i < m /\ wr.sent[i + 1] = Cont
    <3>1. i \in 1 .. h /\ t[i] = Lead
      BY <1>1, <1>s, <2>2
    <3>2. i < h /\ t[i + 1] = Cont
      BY <1>t, <3>1
    <3>3. i # m
      <4> SUFFICES ASSUME i = m PROVE FALSE
        OBVIOUS
      <4>1. n > 0 /\ 1 \in 1 .. n /\ h - n + 1 = i + 1
        BY <1>1, <2>h, <3>2
      <4> QED BY <1>b, <1>c, <3>2, <4>1
    <3>4. i < m /\ i + 1 \in 1 .. m
      BY <1>1, <3>3
    <3> QED BY <1>s, <3>2, <3>4
  <2> QED BY <2>1, <2>2, <1>d, <1>k DEF Complete, Begun
<1> QED BY <1>5, <1>6
-----------------------------------------------------------------------------
(* The inductive invariant.                                                *)

\* No verdict has ended the document yet: into_string leaves the writer as it is.
Live == result \in {"none", "string", "refused"}

\* into_string has judged the bytes that were handed in.
Judged == /\ result = "string" => Complete(held)
          /\ result = "refused" => ~Complete(held)

\* The properties that the runs check.
Promises == BufferKeepsItsBounds /\ StreamedIsText /\ FinishTellsTheTruth

\* While the writer lives it stands where its text says; afterwards what it
\* promised holds for good.
IInv == /\ Setting
        /\ Live => Doc(w, text, open) /\ Judged
        /\ ~Live => Promises

\* A writer that has just been made has written nothing.
LEMMA NewWriterFacts ==
  ASSUME NEW buf \in Seq(Bytes), NEW cap \in Nat, Len(buf) <= cap,
         NEW threshold \in Nat, NEW sink \in BOOLEAN,
         sink => cap <= threshold /\ Len(buf) = 0,
         NEW x, x = NewWriter(buf, cap, threshold, sink)
  PROVE  /\ Good(x, buf) /\ Bounded(x)
         /\ x.buf = buf /\ x.depth = 0 /\ x.textFrom = Len(buf) /\ x.sink = sink
<1>1. x \in Writers
  BY DEF NewWriter, Writers
<1>2. /\ x.buf = buf /\ x.cap = cap /\ x.limit = cap /\ x.threshold = threshold
      /\ x.depth = 0 /\ x.textFrom = Len(buf) /\ x.sink = sink /\ x.sent = <<>>
      /\ x.err = FALSE /\ x.sound = TRUE
  BY DEF NewWriter
<1>3. Len(buf) \in Nat /\ Len(x.sent) = 0
  BY <1>2
<1>4. Fits(x)
  BY <1>2 DEF Fits
<1>5. Lengths(x, buf) /\ SentIsFront(x, buf) /\ InMemory(x)
  BY <1>2, <1>3 DEF Lengths, SentIsFront, InMemory
<1>6. BufIsBack(x, buf)
  <2>1. \A i \in 1 .. Len(buf) : Len(buf) - Len(buf) + i = i
    BY <1>3
  <2> QED BY <1>2, <2>1 DEF BufIsBack
<1>7. Divided(x, buf)
  <2>1. Len(buf) = 0 => buf = <<>>
    OBVIOUS
  <2> QED BY <1>2, <2>1 DEF Divided, Begun
<1>8. Bounded(x)
  <2> DEFINE k == Larger(Longest, x.depth)
  <2>1. k \in Nat
    BY <1>2, LongestFacts DEF Larger
  <2> HIDE DEF k
  <2>2. 0 <= Larger(x.threshold, Kept + k)
    BY <1>2, <2>1 DEF Larger, Kept
  <2> QED BY <1>2, <2>2 DEF Bounded, k
<1> QED BY <1>1, <1>2, <1>4, <1>5, <1>6, <1>7, <1>8 DEF Good

\* The writers there can be at first.
Fresh == {ToSink(capacity) : capacity \in Capacities} \cup {Appending(b) : b \in Buffers}

\* Nothing has been written yet.
Unwritten(x) ==
  /\ Good(x, x.buf) /\ Bounded(x) /\ x.depth = 0 /\ x.textFrom = Len(x.buf)
  /\ x.buf \in Seq(Bytes)
  /\ x.sink => x.buf = <<>>

\* A writer over a sink starts that way, whatever capacity is asked for.
LEMMA ToSinkFacts ==
  ASSUME NEW capacity \in Capacities, NEW x, x = ToSink(capacity)
  PROVE  Unwritten(x)
<1> DEFINE cap == Larger(capacity, 1)
           buf == <<>>
           sink == TRUE
<1>1. cap \in Nat /\ buf \in Seq(Bytes) /\ Len(buf) = 0 /\ sink \in BOOLEAN
      /\ x = NewWriter(buf, cap, cap, sink)
  BY SizesAssumption DEF Larger, ToSink
<1>2. Len(buf) <= cap /\ cap <= cap /\ buf = <<>>
  BY <1>1
<1> HIDE DEF cap, buf, sink
<1>t. cap \in Nat /\ buf \in Seq(Bytes) /\ sink \in BOOLEAN /\ Len(buf) <= cap
      /\ (sink => cap <= cap /\ Len(buf) = 0) /\ x = NewWriter(buf, cap, cap, sink)
  BY <1>1, <1>2
<1>3. /\ Good(x, buf) /\ Bounded(x)
      /\ x.buf = buf /\ x.depth = 0 /\ x.textFrom = Len(buf) /\ x.sink = sink
  BY <1>t, NewWriterFacts
<1> QED BY <1>1, <1>2, <1>3 DEF Unwritten

\* A writer over the caller's buffer starts with the caller's text.
LEMMA AppendingFacts ==
  ASSUME NEW b \in Buffers, NEW x, x = Appending(b)
  PROVE  Unwritten(x)
<1> DEFINE sink == FALSE
           buf == b.held
           cap == b.cap
           threshold == Unlimited
<1>1. buf \in Seq(Bytes) /\ cap \in Nat /\ Len(buf) <= cap
  BY TextsAssumption
<1>2. threshold \in Nat /\ sink \in BOOLEAN /\ ~sink
  BY DEF Unlimited
<1>3. x = NewWriter(buf, cap, threshold, sink)
  BY DEF Appending
<1> HIDE DEF buf, cap, sink, threshold
<1>4. /\ Good(x, buf) /\ Bounded(x)
      /\ x.buf = buf /\ x.depth = 0 /\ x.textFrom = Len(buf) /\ x.sink = sink
  BY <1>1, <1>2, <1>3, NewWriterFacts
<1> QED BY <1>1, <1>2, <1>4 DEF Unwritten

\* Every writer starts that way.
LEMMA FreshFacts ==
  ASSUME NEW x, x \in Fresh
  PROVE  Unwritten(x)
<1>1. \/ \E capacity \in Capacities : x = ToSink(capacity)
      \/ \E b \in Buffers : x = Appending(b)
  BY DEF Fresh
<1> QED BY <1>1, ToSinkFacts, AppendingFacts

\* The invariant holds initially.
LEMMA InitEstablishes == Init => IInv
<1> SUFFICES ASSUME Init PROVE IInv
  OBVIOUS
<1>1. /\ policy \in Policies /\ failure \in Failures
      /\ w \in Fresh
      /\ open = <<>> /\ text = w.buf /\ held = w.buf /\ result = "none"
  BY Zenon DEF Init, Fresh
<1>2. Unwritten(w)
  BY <1>1, FreshFacts
<1>3. open \in Seq(Brackets) /\ Depth(open) = 0
  <2>1. {i \in DOMAIN open : BreaksLines(open[i])} = {}
    BY <1>1
  <2> QED BY <1>1, <2>1, FS_EmptySet DEF Depth
<1>4. TextOK(text)
  BY <1>1, <1>2 DEF TextOK, Unwritten
<1>5. Doc(w, text, open)
  BY <1>1, <1>2, <1>3, <1>4 DEF Doc, Unwritten
<1> QED BY <1>1, <1>5 DEF IInv, Live, Judged, Setting

-----------------------------------------------------------------------------
(* What the invariant says, and the steps that end a document.             *)

\* A writer that stands where its text says keeps all its promises.
LEMMA DocMeans ==
  ASSUME Doc(w, text, open), Setting, Live, Judged
  PROVE  Promises
<1>1. /\ Good(w, text) /\ TextOK(text) /\ Bounded(w)
      /\ w.sink => held = <<>>
  BY DEF Doc
<1>2. /\ ~w.err => w.sent \o w.buf = text
      /\ IsPrefix(w.sent, text)
      /\ ~w.sink => w.buf = text
  BY <1>1, GoodIsWhole
<1>3. BufferKeepsItsBounds
  BY <1>1 DEF BufferKeepsItsBounds, StoresInCapacity, HeldIsBounded, Good, Fits, Bounded
<1>4. Complete(held) => Complete(text)
  BY <1>1 DEF TextOK
<1>5. w.sink => Complete(held)
  BY <1>1 DEF Complete, Begun
<1>6. w.sink => Complete(w.buf) /\ (~w.err => Complete(w.sent))
  BY <1>1, <1>4, <1>5, GoodIsWholeCharacters
<1>7. WholeCharacters
  <2>1. ASSUME result = "string" PROVE Complete(w.buf)
    BY <1>2, <1>4, <1>6, <2>1, Zenon DEF Judged
  <2>2. result = "refused" => ~Complete(held)
    BY DEF Judged
  <2> QED BY <1>6, <2>1, <2>2, Zenon DEF WholeCharacters
<1>8. result \notin {"ok", "error", "unwound"}
  BY DEF Live
<1>9. StreamedIsText
  <2>1. result # "unwound"
    BY <1>8
  <2> QED BY <1>2, <1>7, <2>1, Zenon DEF StreamedIsText
<1>10. FinishTellsTheTruth
  <2>1. result # "ok" /\ result # "error"
    BY <1>8
  <2> QED BY <2>1, Zenon DEF FinishTellsTheTruth
<1> QED BY <1>3, <1>9, <1>10 DEF Promises

\* The tail that finish hands over completes the document, or the sink has
\* failed and lacks some of it.
LEMMA TailFacts ==
  ASSUME NEW wr, NEW t, Good(wr, t), FailureOK,
         NEW out, out = IF wr.buf = <<>> THEN wr ELSE WriteAll(wr, wr.buf)
  PROVE  /\ out \in Writers /\ Alike(out, wr)
         /\ ~out.err => out.sent = t
         /\ IsPrefix(out.sent, t)
         /\ out.err => failure.at > 0 /\ Len(out.sent) < Len(t)
<1>0. /\ wr \in Writers /\ wr.buf \in Seq(Bytes) /\ wr.sent \in Seq(Bytes) /\ t \in Seq(Bytes)
      /\ wr.err \in BOOLEAN
  BY GoodTypes
<1>1. /\ ~wr.err => wr.sent \o wr.buf = t
      /\ IsPrefix(wr.sent, t)
      /\ wr.err => Len(wr.sent) < Len(t)
  BY GoodIsWhole
<1>2. CASE wr.buf = <<>>
  <2>1. out = wr /\ Len(wr.buf) = 0
    BY <1>2
  <2>2. ~wr.err
    BY <2>1 DEF Good, Lengths
  <2>3. wr.sent \o wr.buf = wr.sent
    BY <1>0, <1>2
  <2> QED BY <1>0, <1>1, <2>1, <2>2, <2>3, Zenon DEF Alike
<1>3. CASE wr.buf # <<>>
  <2>1. out = WriteAll(wr, wr.buf)
    BY <1>3
  <2>2. Len(wr.buf) >= 1
    BY <1>0, <1>3
  <2>3. out \in Writers /\ Handed(out, wr, wr.buf)
    BY <1>0, <2>1, <2>2, WriteAllFacts
  <2>4. Alike(out, wr)
    BY <2>3 DEF Handed
  <2>5. out.err \in BOOLEAN /\ out.sent \in Seq(Bytes)
    BY <2>3, WriterTypes
  <2>6. ASSUME ~out.err PROVE ~wr.err /\ out.sent = t
    <3>1. (wr.err => out.err) /\ (~out.err => out.sent = wr.sent \o wr.buf)
      BY <2>3 DEF Handed
    <3> QED BY <1>1, <2>6, <3>1, Zenon
  <2>7. ASSUME out.err
        PROVE  failure.at > 0 /\ Len(out.sent) < Len(t) /\ IsPrefix(out.sent, t)
    <3>1. CASE wr.err
      <4>1. out.sent = wr.sent
        BY <2>3, <3>1 DEF Handed
      <4>2. failure.at > 0
        BY <3>1 DEF Good
      <4> QED BY <1>1, <3>1, <4>1, <4>2, Zenon
    <3>2. CASE ~wr.err
      <4> DEFINE m == Len(wr.sent)
                 n == Len(wr.buf)
                 h == Len(t)
                 k == Len(out.sent)
      <4>z. m \in Nat /\ n \in Nat /\ h \in Nat /\ k \in Nat
        BY <1>0, <2>5
      <4>1. m + n = h
        BY <3>2 DEF Good, Lengths
      <4>2. /\ failure.at > 0 /\ k < m + n
        BY <2>3, <2>7, <3>2 DEF Handed
      <4>3. /\ \A i \in 1 .. m : out.sent[i] = wr.sent[i]
            /\ \A i \in m + 1 .. k : out.sent[i] = wr.buf[i - m]
        BY <2>3 DEF Handed
      <4>4. \A i \in 1 .. m : wr.sent[i] = t[i]
        BY DEF Good, SentIsFront
      <4>5. \A i \in 1 .. n : wr.buf[i] = t[h - n + i]
        BY DEF Good, BufIsBack
      <4>k. k = Len(out.sent) /\ h = Len(t)
        OBVIOUS
      <4> HIDE DEF m, n, h, k
      <4>6. ASSUME NEW i \in 1 .. k PROVE out.sent[i] = t[i]
        <5>1. CASE i <= m
          <6>1. i \in 1 .. m
            BY <4>z, <5>1
          <6> QED BY <4>3, <4>4, <6>1
        <5>2. CASE i > m
          <6>1. i \in m + 1 .. k /\ i - m \in 1 .. n /\ h - n + (i - m) = i
            BY <4>z, <4>1, <4>2, <5>2
          <6> QED BY <4>3, <4>5, <6>1
        <5> QED BY <4>z, <5>1, <5>2
      <4>7. k < h
        BY <4>z, <4>1, <4>2
      <4>8. k <= h
        BY <4>z, <4>7
      <4>9. IsPrefix(out.sent, t)
        BY <1>0, <2>5, <4>6, <4>8, <4>k, PrefixOfFacts
      <4> QED BY <4>2, <4>7, <4>9, <4>k
    <3> QED BY <1>0, <3>1, <3>2
  <2>8. IsPrefix(t, t)
    <3>1. Len(t) <= Len(t) /\ \A i \in 1 .. Len(t) : t[i] = t[i]
      BY <1>0
    <3> QED BY <1>0, <3>1, PrefixOfFacts
  <2>9. CASE out.err
    BY <2>3, <2>4, <2>7, <2>9, Zenon
  <2>10. CASE ~out.err
    BY <2>3, <2>4, <2>6, <2>8, <2>10, Zenon
  <2> QED BY <2>9, <2>10
<1> QED BY <1>2, <1>3

\* finish ends the document and keeps the promises: ok is the whole of it.
LEMMA FinishKeeps ==
  ASSUME Doc(w, text, open), Setting, Finish
  PROVE  Promises' /\ ~Live'
<1> DEFINE out == IF w.buf = <<>> THEN w ELSE WriteAll(w, w.buf)
<1>1. /\ w.sink
      /\ w' = [out EXCEPT !.buf = <<>>]
      /\ result' = IF out.err THEN "error" ELSE "ok"
      /\ failure' = failure /\ text' = text /\ held' = held
  BY DEF Finish
<1>2. Good(w, text) /\ TextOK(text) /\ held = <<>> /\ FailureOK
  BY <1>1, SettingFacts DEF Doc
<1>o. out = IF w.buf = <<>> THEN w ELSE WriteAll(w, w.buf)
  OBVIOUS
<1> HIDE DEF out
<1>3. /\ out \in Writers /\ Alike(out, w)
      /\ ~out.err => out.sent = text
      /\ IsPrefix(out.sent, text)
      /\ out.err => failure.at > 0 /\ Len(out.sent) < Len(text)
  BY <1>o, <1>2, TailFacts
<1>4. /\ w'.buf = <<>> /\ w'.sent = out.sent /\ w'.err = out.err /\ w'.sink = out.sink
      /\ w'.sound = out.sound /\ w'.cap = out.cap /\ w'.limit = out.limit
      /\ w'.threshold = out.threshold /\ w'.depth = out.depth
  BY <1>1, <1>3 DEF Writers
<1>5. /\ w'.sink /\ w'.sound /\ w'.limit <= w'.cap
      /\ w'.cap \in Nat /\ w'.threshold \in Nat /\ w'.depth \in Nat
  BY <1>1, <1>2, <1>3, <1>4, WriterTypes DEF Alike, Good, Fits
<1>6. BufferKeepsItsBounds'
  <2> DEFINE k == Larger(Longest, w'.depth)
  <2>1. k \in Nat
    BY <1>5, LongestFacts DEF Larger
  <2> HIDE DEF k
  <2>2. 0 <= Larger(w'.threshold, Kept + k) /\ Len(w'.buf) = 0
    BY <1>4, <1>5, <2>1 DEF Larger, Kept
  <2>3. Len(w'.buf) <= Larger(w'.threshold, Kept + Larger(Longest, w'.depth))
    BY <2>2 DEF k
  <2>4. Len(w'.buf) <= w'.cap
    BY <1>5, <2>2
  <2> QED BY <1>5, <2>3, <2>4 DEF BufferKeepsItsBounds, StoresInCapacity, HeldIsBounded
<1>7. Complete(text)
  <2>1. Complete(held)
    BY <1>2 DEF Complete, Begun
  <2> QED BY <1>2, <2>1 DEF TextOK
<1>8. result' \in {"ok", "error"}
      /\ (result' = "ok" => ~out.err) /\ (result' = "error" => out.err)
  BY <1>1
<1>9. StreamedIsText'
  <2>1. result' \notin {"none", "string", "refused", "unwound"}
    BY <1>8
  <2>2. ~w'.err => Complete(w'.sent)
    BY <1>3, <1>4, <1>7, Zenon
  <2>3. IsPrefix(w'.sent, text')
    BY <1>1, <1>3, <1>4, Zenon
  <2>4. result' # "string" /\ result' # "refused" /\ result' # "unwound"
    BY <2>1
  <2>5. WholeCharacters'
    BY <2>2, <2>4, Zenon DEF WholeCharacters
  <2>6. result' \notin {"none", "string", "refused"}
    BY <2>1
  <2> QED BY <2>3, <2>4, <2>5, <2>6, Zenon DEF StreamedIsText
<1>10. FinishTellsTheTruth'
  <2>1. result' = "ok" => w'.sent = text'
    BY <1>1, <1>3, <1>4, <1>8, Zenon
  <2>2. ASSUME result' = "error" PROVE failure'.at > 0 /\ w'.sent # text'
    <3>1. failure.at > 0 /\ Len(out.sent) < Len(text)
      BY <1>3, <1>8, <2>2
    <3>2. out.sent # text
      <4>1. Len(text) \in Nat
        BY <1>2, GoodTypes
      <4>2. ~(Len(text) < Len(text))
        BY <4>1
      <4> QED BY <3>1, <4>2, Zenon
    <3> QED BY <1>1, <1>4, <3>1, <3>2
  <2> QED BY <2>1, <2>2 DEF FinishTellsTheTruth
<1> QED BY <1>6, <1>8, <1>9, <1>10 DEF Promises, Live

\* into_string looks at the caller's bytes and at no others.
LEMMA IntoStringKeeps ==
  ASSUME Doc(w, text, open), Setting, IntoString
  PROVE  Doc(w', text', open') /\ Live' /\ Judged'
<1> DEFINE looked == SubSeq(w.buf, 1, w.textFrom)
<1>1. /\ result' = IF Complete(looked) THEN "string" ELSE "refused"
      /\ w' = w /\ text' = text /\ open' = open /\ held' = held
  BY DEF IntoString
<1>2. /\ Good(w, text) /\ TextOK(text)
      /\ w.textFrom = Len(held)
      /\ w.sink => held = <<>>
  BY DEF Doc
<1>3. /\ held \in Seq(Bytes) /\ text \in Seq(Bytes) /\ Len(held) <= Len(text)
      /\ \A i \in 1 .. Len(held) : text[i] = held[i]
  BY <1>2 DEF TextOK
<1>4. looked = held
  <2>1. CASE w.sink
    <3>1. w.textFrom = 0 /\ held = <<>>
      BY <1>2, <2>1
    <3>2. w.buf \in Seq(Bytes)
      BY <1>2, GoodTypes
    <3>3. SubSeq(w.buf, 1, 0) = <<>>
      BY <3>2
    <3> QED BY <3>1, <3>3
  <2>2. CASE ~w.sink
    <3>1. w.buf = text
      BY <1>2, <2>2, GoodIsWhole
    <3>2. \A i \in 1 .. Len(held) : held[i] = text[i]
      BY <1>3
    <3>3. SubSeq(text, 1, Len(held)) = held
      BY <1>3, <3>2, PrefixOfFacts
    <3> QED BY <1>2, <3>1, <3>3
  <2> QED BY <2>1, <2>2
<1> HIDE DEF looked
<1>5. \/ result' = "string" /\ Complete(held)
      \/ result' = "refused" /\ ~Complete(held)
  BY <1>1, <1>4
<1>6. Live'
  BY <1>5 DEF Live
<1>7. Judged'
  <2>1. (result' = "string" => Complete(held)) /\ (result' = "refused" => ~Complete(held))
    BY <1>5
  <2> QED BY <1>1, <2>1, Zenon DEF Judged
<1>8. Doc(w', text', open')
  BY <1>1, Zenon
<1> QED BY <1>6, <1>7, <1>8

\* A write that unwinds leaves the caller's bytes.
LEMMA UnwindKeeps ==
  ASSUME Doc(w, text, open), Setting, Unwind
  PROVE  Promises' /\ ~Live'
<1> DEFINE cut == SubSeq(w.buf, 1, Smaller(Len(held), Len(w.buf)))
<1>1. /\ ~w.sink /\ result' = "unwound"
      /\ w' = [w EXCEPT !.buf = cut]
      /\ held' = held
  BY DEF Unwind
<1>2. Good(w, text) /\ TextOK(text) /\ w \in Writers
  BY DEF Doc, Good
<1>3. /\ held \in Seq(Bytes) /\ text \in Seq(Bytes) /\ Len(held) <= Len(text)
      /\ \A i \in 1 .. Len(held) : held[i] = text[i]
  BY <1>2 DEF TextOK
<1>4. w.buf = text
  BY <1>1, <1>2, GoodIsWhole
<1>5. cut = held
  <2>1. Smaller(Len(held), Len(text)) = Len(held)
    BY <1>3 DEF Smaller
  <2>2. SubSeq(text, 1, Len(held)) = held
    BY <1>3, PrefixOfFacts
  <2> QED BY <1>4, <2>1, <2>2
<1> HIDE DEF cut
<1>6. /\ w'.buf = held /\ w'.sound = w.sound /\ w'.cap = w.cap /\ w'.limit = w.limit
      /\ w'.sink = w.sink /\ w'.err = w.err
  BY <1>1, <1>2, <1>5 DEF Writers
<1>7. Len(held) <= w.cap
  <2>1. Len(text) <= w.cap /\ w.cap \in Nat
    BY <1>2, <1>4, GoodTypes DEF Good, Fits
  <2>2. Len(held) \in Nat /\ Len(text) \in Nat
    BY <1>3
  <2> QED BY <1>3, <2>1, <2>2
<1>8. BufferKeepsItsBounds'
  <2>1. w.sound /\ w.limit <= w.cap
    BY <1>2 DEF Good, Fits
  <2>2. w'.sound /\ Len(w'.buf) <= w'.cap /\ w'.limit <= w'.cap /\ ~w'.sink
    BY <1>1, <1>6, <1>7, <2>1, Zenon
  <2> QED BY <2>2, Zenon DEF BufferKeepsItsBounds, StoresInCapacity, HeldIsBounded
<1>9. /\ result' \notin {"none", "string", "refused"}
      /\ result' # "string" /\ result' # "refused" /\ result' # "ok" /\ result' # "error"
  BY <1>1
<1>10. StreamedIsText'
  <2>1. ~w'.err /\ ~w'.sink
    BY <1>1, <1>2, <1>6 DEF Good, InMemory
  <2> QED BY <1>1, <1>6, <1>9, <2>1, Zenon DEF StreamedIsText, WholeCharacters
<1>11. FinishTellsTheTruth'
  BY <1>9, Zenon DEF FinishTellsTheTruth
<1> QED BY <1>8, <1>9, <1>10, <1>11, Zenon DEF Promises, Live

\* The predicates that speak of a writer, a text and brackets also read the
\* caller's buffer, the options and the failure, which no step changes.
LEMMA DocStays ==
  ASSUME Doc(w', text', open'), UNCHANGED <<policy, failure, held>>
  PROVE  Doc(w, text, open)'
<1>1. /\ Good(w', text') /\ TextOK(text') /\ Bounded(w')
      /\ open' \in Seq(Brackets) /\ w'.depth = Depth(open')
      /\ w'.textFrom = Len(held)
      /\ w'.sink => held = <<>>
      /\ open' # <<>> => Len(text') > Len(held)
  BY DEF Doc
<1>2. Good(w, text)'
  BY <1>1, Zenon DEF Good, Fits, Lengths, SentIsFront, BufIsBack, Divided, InMemory
<1>3. TextOK(text)' /\ Bounded(w)'
  BY <1>1, Zenon DEF TextOK, Bounded
<1>4. Depth(open)' = Depth(open')
  BY Zenon DEF Depth, BreaksLines
<1> QED BY <1>1, <1>2, <1>3, <1>4, Zenon DEF Doc

\* A step of the writer's caller: one of the operations that add to the document.
Adds == \/ \E s \in Texts : Raw(s)
        \/ \E s \in Strings : Str(s)
        \/ \E t \in Fixed : Token(t)
        \/ Separate \/ MemberLine \/ Element
        \/ \E b \in Brackets : Open(b)
        \/ Close

\* Every operation that adds keeps the writer where its text says.
LEMMA AddsKeep ==
  ASSUME Doc(w, text, open), Setting, Adds
  PROVE  Doc(w', text', open') /\ result = "none"
         /\ UNCHANGED <<policy, failure, held, result>>
<1>1. CASE \E s \in Texts : Raw(s)
  BY <1>1, RawKeeps DEF Raw, Writing
<1>2. CASE \E s \in Strings : Str(s)
  BY <1>2, StrKeeps DEF Str, Writing
<1>3. CASE \E t \in Fixed : Token(t)
  BY <1>3, TokenKeeps DEF Token, Writing
<1>4. CASE Separate
  BY <1>4, SeparateKeeps DEF Separate, Writing
<1>5. CASE MemberLine
  BY <1>5, MemberLineKeeps DEF MemberLine, Writing
<1>6. CASE Element
  BY <1>6, ElementKeeps DEF Element, Writing
<1>7. CASE \E b \in Brackets : Open(b)
  BY <1>7, OpenKeeps DEF Open, Writing
<1>8. CASE Close
  BY <1>8, CloseKeeps DEF Close, Writing
<1> QED BY <1>1, <1>2, <1>3, <1>4, <1>5, <1>6, <1>7, <1>8 DEF Adds

\* Every step keeps the invariant.
LEMMA IInvKept == IInv /\ [Next]_wvars => IInv'
<1> SUFFICES ASSUME IInv, [Next]_wvars PROVE IInv'
  OBVIOUS
<1>1. CASE UNCHANGED wvars
  <2>1. /\ policy' = policy /\ failure' = failure /\ w' = w /\ open' = open /\ text' = text
        /\ held' = held /\ result' = result
    BY <1>1 DEF wvars
  <2>2. Setting /\ (Live => Doc(w, text, open) /\ Judged) /\ (~Live => Promises)
    BY DEF IInv
  <2>3. Setting' /\ Live' = Live /\ Judged' = Judged
    BY <2>1, <2>2 DEF Setting, Live, Judged
  <2>4. Promises' = Promises
    BY <2>1, Zenon DEF Promises, BufferKeepsItsBounds, StoresInCapacity, HeldIsBounded,
      StreamedIsText, WholeCharacters, FinishTellsTheTruth
  <2>5. ASSUME Live PROVE Doc(w, text, open)'
    <3>1. Doc(w', text', open')
      BY <2>1, <2>2, <2>5, Zenon
    <3> QED BY <2>1, <3>1, DocStays
  <2> QED BY <2>2, <2>3, <2>4, <2>5, Zenon DEF IInv
<1>2. CASE Next
  <2>1. Next => result = "none" /\ UNCHANGED <<policy, failure, held>>
    BY DEF Next, Raw, Str, Token, Separate, MemberLine, Element, Open, Close, Writing,
      Finish, IntoString, Unwind
  <2>2. Live /\ Doc(w, text, open) /\ Setting /\ UNCHANGED <<policy, failure, held>>
    BY <1>2, <2>1 DEF IInv, Live
  <2>3. Setting'
    BY <2>2 DEF Setting
  <2>4. CASE Adds
    <3>1. Doc(w', text', open') /\ result = "none" /\ result' = result
      BY <2>2, <2>4, AddsKeep
    <3>2. Doc(w, text, open)'
      BY <2>2, <3>1, DocStays
    <3>3. Live' /\ Judged'
      BY <3>1 DEF Live, Judged
    <3> QED BY <2>3, <3>2, <3>3, Zenon DEF IInv
  <2>5. CASE Finish
    BY <2>2, <2>3, <2>5, FinishKeeps, Zenon DEF IInv
  <2>6. CASE IntoString
    <3>1. Doc(w', text', open') /\ Live' /\ Judged'
      BY <2>2, <2>6, IntoStringKeeps
    <3>2. Doc(w, text, open)'
      BY <2>2, <3>1, DocStays
    <3> QED BY <2>3, <3>1, <3>2, Zenon DEF IInv
  <2>7. CASE Unwind
    BY <2>2, <2>3, <2>7, UnwindKeeps, Zenon DEF IInv
  <2>8. Adds \/ Finish \/ IntoString \/ Unwind
    BY <1>2 DEF Next, Adds, Brackets
  <2> QED BY <2>4, <2>5, <2>6, <2>7, <2>8
<1> QED BY <1>1, <1>2

\* In every state of the invariant the promises hold.
LEMMA IInvMeans == IInv => Promises
BY DocMeans DEF IInv

-----------------------------------------------------------------------------
(* The theorems.                                                           *)

\* At every moment the writer stands where its text says, or has ended it as
\* promised.
THEOREM WriterStands == Spec => []IInv
<1> QED BY InitEstablishes, IInvKept, PTL DEF Spec

\* No store of the writer leaves the allocation, and over a sink it holds no more
\* than its buffer or the longest scalar: for every buffer size, every set of
\* texts and strings, every word size and every failure of the sink.
THEOREM WriterBounds == Spec => []BufferKeepsItsBounds
<1>1. IInv => BufferKeepsItsBounds
  BY IInvMeans DEF Promises
<1> QED BY <1>1, WriterStands, PTL

\* The sink and the buffer together hold the document an in-memory writer would,
\* commas replaced by brackets included; the sink is given whole characters, and
\* after a failure only a beginning of the document.
THEOREM WriterStreams == Spec => []StreamedIsText
<1>1. IInv => StreamedIsText
  BY IInvMeans DEF Promises
<1> QED BY <1>1, WriterStands, PTL

\* finish says ok only when the sink has the whole document, and an error only
\* when the sink failed.
THEOREM WriterReports == Spec => []FinishTellsTheTruth
<1>1. IInv => FinishTellsTheTruth
  BY IInvMeans DEF Promises
<1> QED BY <1>1, WriterStands, PTL

=============================================================================
