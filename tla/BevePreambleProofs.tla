--------------------------- MODULE BevePreambleProofs ---------------------------
(***************************************************************************)
(* What the helpers that read ahead of a BEVE payload return, whatever the *)
(* bytes (beve/header.rs, beve/reader.rs): a refusal the format names, or  *)
(* a place in the buffer behind what was read, and something that can be   *)
(* worked with.  The proofs of every walk rest on it.                      *)
(***************************************************************************)
EXTENDS BevePreamble, TLAPS

\* What the proofs call a byte, the bytes of a buffer, and what a step of the walk reports.
Octets == 0 .. 255
Datas  == Seq(Octets)
Codes  == BeveCodes \cup {"none"}

\* r took bytes from i on, at least up to i, of a buffer of n, or failed.
Took(r, i, n) ==
  /\ r.code \in Codes
  /\ r.code = "none" => r.pos \in i .. n /\ r.n \in Nat

\* f describes the payload behind the head of an array or a complex value, which
\* ends in such a place, or is a failure: its elements can be worked with.
Kinds == {"Bools", "Strings", "Fixed", "One", "Run"}
Formed(f, i, n) ==
  /\ Took(f, i, n)
  /\ f.code = "none" =>
       /\ f = Form(f.pos, f.kind, f.elem, f.n)
       /\ f.kind \in Kinds /\ f.elem \in Octets
       /\ f.kind \in {"Fixed", "One", "Run"} => ByteWidth(f.elem) # 0

-----------------------------------------------------------------------------
(* Header bytes.                                                           *)

\* The fields of a header byte.
LEMMA HeaderFacts ==
  ASSUME NEW h \in Octets
  PROVE  Ty(h) \in 0 .. 7 /\ Sub(h) \in 0 .. 3 /\ Count(h) \in 0 .. 7
BY DEF Ty, Sub, Count, Octets

\* A header's width is a number of bytes; only an object's may be missing.
LEMMA WidthFacts ==
  ASSUME NEW h \in Octets
  PROVE  ByteWidth(h) \in Nat /\ KeyWidth(h) \in Nat \cup {-1}
<1>1. Sub(h) \in 0 .. 3 /\ Count(h) \in 0 .. 7
  BY HeaderFacts
<1>2. \A i \in 1 .. 5 : WidthOf[i] \in Nat
  BY DEF WidthOf
<1>3. ByteWidth(h) \in Nat
  BY <1>1, <1>2 DEF ByteWidth, FloatCat
<1>4. KeyWidth(h) \in Nat \cup {-1}
  BY <1>1, <1>2 DEF KeyWidth, FloatCat
<1> QED BY <1>3, <1>4

\* The element header of a typed array's header is as wide.
LEMMA ElementFacts ==
  ASSUME NEW h \in Octets
  PROVE  ElementOf(h) \in Octets /\ ElementWidth(ElementOf(h)) = ByteWidth(h)
<1> DEFINE e == ElementOf(h)
<1>1. e \in Octets /\ Ty(e) = 1 /\ Sub(e) = Sub(h) /\ Count(e) = Count(h)
  BY DEF Ty, Sub, Count, ElementOf, Number, Octets
<1> HIDE DEF e
<1>2. ByteWidth(e) = ByteWidth(h)
  BY <1>1 DEF ByteWidth
<1>3. ElementWidth(e) = ByteWidth(e)
  BY <1>1 DEF ElementWidth, Undefined
<1> QED BY <1>1, <1>2, <1>3 DEF e

\* Booleans packed eight to a byte take a byte as soon as there is one.
LEMMA PackedFacts ==
  ASSUME NEW m \in Nat
  PROVE  PackedBytes(m) \in Nat /\ (m > 0 => PackedBytes(m) > 0)
BY DEF PackedBytes

-----------------------------------------------------------------------------
(* Results.                                                                *)

\* Every failure is a legal answer of the helpers that read ahead.
LEMMA BrokenFacts ==
  ASSUME NEW code \in BeveCodes, NEW i, NEW n
  PROVE  Took(Broken(code), i, n) /\ Formed(Broken(code), i, n) /\ Broken(code).code = code
<1>1. code # "none" /\ code \in Codes
  BY DEF BeveCodes, Codes
<1>2. Broken(code).code = code
  BY DEF Broken
<1> QED BY <1>1, <1>2 DEF Took, Formed

\* So are the two failures the code names: bytes that end early, a header it refuses.
LEMMA ShortFacts ==
  ASSUME NEW i, NEW n
  PROVE  /\ Took(Short, i, n) /\ Formed(Short, i, n) /\ Short.code = "UnexpectedEnd"
         /\ Took(BadHeader, i, n) /\ Formed(BadHeader, i, n) /\ BadHeader.code = "InvalidHeader"
<1>1. "UnexpectedEnd" \in BeveCodes /\ "InvalidHeader" \in BeveCodes
  BY DEF BeveCodes
<1> QED BY <1>1, BrokenFacts DEF Short, BadHeader

\* What was read may be used: where reading stopped, and what it found.
LEMMA GotFacts ==
  ASSUME NEW i, NEW n, NEW p \in i .. n, NEW m \in Nat
  PROVE  Took(Got(p, m), i, n) /\ Got(p, m) = [code |-> "none", pos |-> p, n |-> m]
BY DEF Took, Got, Codes

\* The bytes of a buffer are bytes.
LEMMA DataFacts ==
  ASSUME NEW data \in Datas
  PROVE  Len(data) \in Nat /\ \A i \in 0 .. Len(data) - 1 : At(data, i) \in Octets
BY DEF Datas, At

\* Reading a header byte takes one byte or reports that it is missing.
LEMMA ByteAtFacts ==
  ASSUME NEW data \in Datas, NEW p \in Nat, NEW r, r = ByteAt(data, p)
  PROVE  /\ Took(r, p + 1, Len(data))
         /\ r.code = "none" => p < Len(data) /\ r.pos = p + 1 /\ r.n = At(data, p) /\ r.n \in Octets
<1>1. Len(data) \in Nat /\ \A i \in 0 .. Len(data) - 1 : At(data, i) \in Octets
  BY DataFacts
<1>2. CASE p < Len(data)
  <2>1. r = Got(p + 1, At(data, p)) /\ At(data, p) \in Octets
    BY <1>1, <1>2 DEF ByteAt
  <2>2. At(data, p) \in Nat
    BY <2>1 DEF Octets
  <2>3. p + 1 \in p + 1 .. Len(data)
    BY <1>1, <1>2
  <2>4. /\ Took(Got(p + 1, At(data, p)), p + 1, Len(data))
        /\ Got(p + 1, At(data, p)) = [code |-> "none", pos |-> p + 1, n |-> At(data, p)]
    BY <2>2, <2>3, GotFacts
  <2> QED BY <1>2, <2>1, <2>4
<1>3. CASE ~(p < Len(data))
  BY <1>3, ShortFacts DEF ByteAt
<1> QED BY <1>2, <1>3

\* A size takes at least its first byte and is a number.
LEMMA SizeFacts ==
  ASSUME NEW data \in Datas, NEW p \in Nat, NEW r, r = SizeAt(data, p)
  PROVE  Took(r, p + 1, Len(data))
<1> DEFINE extra   == <<0, 1, 3, 7>>[(At(data, p) % 4) + 1]
           byte(k) == IF k <= extra THEN At(data, p + k) ELSE 0
           value   == IF \E k \in 4 .. extra : byte(k) # 0 THEN MaxUsize + 1
                      ELSE At(data, p) \div 4 + byte(1) * 64 + byte(2) * 16384 + byte(3) * 4194304
<1>1. r = IF p >= Len(data) THEN Short
          ELSE IF p + 1 + extra > Len(data) THEN Short
          ELSE Got(p + 1 + extra, value)
  BY DEF SizeAt
<1>2. Len(data) \in Nat /\ \A i \in 0 .. Len(data) - 1 : At(data, i) \in Octets
  BY DataFacts
<1>3. CASE p < Len(data) /\ p + 1 + extra <= Len(data)
  <2>1. At(data, p) \in Octets
    BY <1>2, <1>3
  <2>2. extra \in {0, 1, 3, 7}
    <3>1. (At(data, p) % 4) + 1 \in 1 .. 4
      BY <2>1 DEF Octets
    <3> QED BY <3>1
  <2> HIDE DEF extra
  <2>3. \A k \in 1 .. 3 : byte(k) \in Octets
    <3> TAKE k \in 1 .. 3
    <3>1. CASE k <= extra
      <4>1. p + k \in 0 .. Len(data) - 1
        BY <1>2, <1>3, <2>2, <3>1
      <4> QED BY <1>2, <3>1, <4>1
    <3>2. CASE ~(k <= extra)
      BY <3>2 DEF Octets
    <3> QED BY <3>1, <3>2
  <2>4. byte(1) \in Nat /\ byte(2) \in Nat /\ byte(3) \in Nat
    BY <2>3 DEF Octets
  <2> HIDE DEF byte
  <2>5. At(data, p) \div 4 \in Nat
    BY <2>1 DEF Octets
  <2>6. value \in Nat
    BY <2>4, <2>5, LimitsAssumption
  <2> HIDE DEF value
  <2>7. p + 1 + extra \in p + 1 .. Len(data)
    BY <1>2, <1>3, <2>2
  <2>8. r = Got(p + 1 + extra, value)
    BY <1>1, <1>2, <1>3, <2>2
  <2> QED BY <2>6, <2>7, <2>8, GotFacts
<1>4. CASE ~(p < Len(data) /\ p + 1 + extra <= Len(data))
  <2>1. CASE p >= Len(data)
    <3>1. r = Short
      BY <1>1, <2>1
    <3> QED BY <3>1, ShortFacts
  <2>2. CASE p < Len(data)
    <3>1. At(data, p) \in Octets
      BY <1>2, <2>2
    <3>2. extra \in {0, 1, 3, 7}
      <4>1. (At(data, p) % 4) + 1 \in 1 .. 4
        BY <3>1 DEF Octets
      <4> QED BY <4>1
    <3> HIDE DEF extra, value
    <3>3. r = Short
      BY <1>1, <1>2, <1>4, <2>2, <3>2
    <3> QED BY <3>3, ShortFacts
  <2> QED BY <1>2, <2>1, <2>2
<1> QED BY <1>3, <1>4

\* A count is a size the target can hold: reading one takes at least a byte.
LEMMA CountFacts ==
  ASSUME NEW data \in Datas, NEW p \in Nat, NEW r, r = CountAt(data, p)
  PROVE  Took(r, p + 1, Len(data))
<1> DEFINE s == SizeAt(data, p)
<1>1. Took(s, p + 1, Len(data))
  BY SizeFacts
<1>2. r = IF s.code = "none" THEN IF Fits(s.n) THEN s ELSE Short ELSE s
  BY DEF CountAt, Then
<1> HIDE DEF s
<1> QED BY <1>1, <1>2, ShortFacts

-----------------------------------------------------------------------------
(* Typed arrays and complex values.                                        *)

\* The payload's description is one the helpers may work with.
LEMMA FormFacts ==
  ASSUME NEW i, NEW n, NEW p \in i .. n, NEW kind \in Kinds, NEW h \in Octets, NEW m \in Nat,
         kind \in {"Fixed", "One", "Run"} => ByteWidth(h) # 0, NEW f, f = Form(p, kind, h, m)
  PROVE  Formed(f, i, n) /\ f.code = "none" /\ f.kind = kind
<1>1. f.code = "none" /\ f.pos = p /\ f.kind = kind /\ f.elem = h /\ f.n = m
  BY DEF Form
<1>f. f = Form(f.pos, f.kind, f.elem, f.n)
  BY <1>1
<1> QED BY <1>1, <1>f DEF Formed, Took, Codes

\* What was read further on was read from here.
LEMMA FromBefore ==
  ASSUME NEW i \in Int, NEW j \in Int, i <= j, NEW n \in Int, NEW r
  PROVE  Took(r, j, n) => Took(r, i, n)
BY DEF Took

\* The same for the description of a payload.
LEMMA FormFromBefore ==
  ASSUME NEW i \in Int, NEW j \in Int, i <= j, NEW n \in Int, NEW f
  PROVE  Formed(f, j, n) => Formed(f, i, n)
BY FromBefore DEF Formed

\* A failure is the same, wherever it is met.
LEMMA FailedFacts ==
  ASSUME NEW r, r.code # "none", NEW i, NEW n, Took(r, i, n)
  PROVE  \A j : Took(r, j, n) /\ Formed(r, j, n)
BY DEF Took, Formed

\* The padding in front of aligned elements is shorter than an element and inside the buffer.
LEMMA PaddingFacts ==
  ASSUME NEW data \in Datas, NEW p \in Nat, NEW width \in Nat, NEW r, r = PaddingAt(data, p, width)
  PROVE  Took(r, p + 1, Len(data))
<1> DEFINE pad == ByteAt(data, p)
           n   == Len(data)
<1>1. /\ Took(pad, p + 1, n)
      /\ pad.code = "none" => p < n /\ pad.pos = p + 1 /\ pad.n \in Octets
  BY ByteAtFacts
<1>2. r = IF pad.code = "none"
          THEN IF pad.n >= width THEN Broken("InvalidPadding")
               ELSE IF pad.pos + pad.n > n THEN Short
               ELSE Got(pad.pos + pad.n, 0)
          ELSE pad
  BY DEF PaddingAt, Then
<1>3. n \in Nat
  BY DataFacts
<1>4. Took(Broken("InvalidPadding"), p + 1, n) /\ Took(Short, p + 1, n)
  BY BrokenFacts, ShortFacts DEF BeveCodes
<1> HIDE DEF pad, n
<1>5. ASSUME pad.code = "none" /\ ~(pad.n >= width) /\ ~(pad.pos + pad.n > n)
      PROVE  Took(Got(pad.pos + pad.n, 0), p + 1, n)
  <2>1. pad.n \in Nat /\ pad.pos \in Nat
    BY <1>1, <1>5 DEF Octets
  <2>2. pad.pos + pad.n \in p + 1 .. n /\ 0 \in Nat
    BY <1>1, <1>3, <1>5, <2>1
  <2>3. Took(Got(pad.pos + pad.n, 0), p + 1, n)
    BY <2>2, GotFacts
  <2> QED BY <2>3
<1>6. n = Len(data)
  BY DEF n
<1>7. \/ r = pad \/ r = Broken("InvalidPadding") \/ r = Short
      \/ r = Got(pad.pos + pad.n, 0) /\ pad.code = "none" /\ ~(pad.n >= width) /\ ~(pad.pos + pad.n > n)
  BY <1>2
<1>8. Took(r, p + 1, n)
  <2>1. CASE r = pad
    BY <1>1, <2>1
  <2>2. CASE r = Broken("InvalidPadding") \/ r = Short
    BY <1>4, <2>2
  <2>3. CASE r = Got(pad.pos + pad.n, 0) /\ pad.code = "none" /\ ~(pad.n >= width) /\ ~(pad.pos + pad.n > n)
    <3>1. r = Got(pad.pos + pad.n, 0) /\ pad.code = "none" /\ ~(pad.n >= width) /\ ~(pad.pos + pad.n > n)
      BY <2>3
    <3>2. Took(Got(pad.pos + pad.n, 0), p + 1, n)
      BY <1>5, <3>1
    <3> QED BY <3>1, <3>2
  <2> QED BY <1>7, <2>1, <2>2, <2>3
<1> QED BY <1>6, <1>8

\* An aligned array says what its elements are behind its own header.
LEMMA AlignedFacts ==
  ASSUME NEW data \in Datas, NEW p \in Nat, NEW r, r = AlignedHead(data, p)
  PROVE  Formed(r, p + 1, Len(data)) /\ (r.code = "none" => r.kind = "Fixed")
<1> DEFINE inner == ByteAt(data, p)
           m     == CountAt(data, inner.pos)
           q     == PaddingAt(data, m.pos, ByteWidth(inner.n))
           n     == Len(data)
<1>1. /\ Took(inner, p + 1, n)
      /\ inner.code = "none" => inner.pos = p + 1 /\ inner.n \in Octets
  BY ByteAtFacts
<1>2. inner.code = "none" => Took(m, inner.pos + 1, n)
  <2> SUFFICES ASSUME inner.code = "none" PROVE Took(m, inner.pos + 1, n)
    OBVIOUS
  <2>1. inner.pos \in Nat
    BY <1>1
  <2> QED BY <2>1, CountFacts
<1>3. inner.code = "none" /\ m.code = "none" => Took(q, m.pos + 1, n)
  <2> SUFFICES ASSUME inner.code = "none", m.code = "none" PROVE Took(q, m.pos + 1, n)
    OBVIOUS
  <2>1. ByteWidth(inner.n) \in Nat
    BY <1>1, WidthFacts
  <2>2. m.pos \in Nat
    BY <1>1, <1>2 DEF Took
  <2> QED BY <2>1, <2>2, PaddingFacts
<1>4. r = IF inner.code = "none"
          THEN IF Ty(inner.n) # TypedArray \/ Sub(inner.n) = OtherCat \/ ByteWidth(inner.n) = 0
               THEN BadHeader
               ELSE IF m.code = "none"
                    THEN IF q.code = "none" THEN Form(q.pos, "Fixed", inner.n, m.n) ELSE q
                    ELSE m
          ELSE inner
  BY DEF AlignedHead, Then
<1>5. Formed(BadHeader, p + 1, n) /\ BadHeader.code # "none"
  BY ShortFacts
<1>6. n \in Nat
  BY DataFacts
<1>n. n = Len(data)
  OBVIOUS
<1> HIDE DEF inner, m, q, n
<1>7. CASE inner.code = "none" /\ m.code = "none" /\ q.code = "none" /\ ByteWidth(inner.n) # 0
  <2>1. q.pos \in p + 1 .. n /\ m.n \in Nat /\ inner.n \in Octets
    BY <1>1, <1>2, <1>3, <1>6, <1>7 DEF Took
  <2>2. "Fixed" \in Kinds
    BY DEF Kinds
  <2>3. Formed(Form(q.pos, "Fixed", inner.n, m.n), p + 1, n) /\ Form(q.pos, "Fixed", inner.n, m.n).kind = "Fixed"
    BY <1>7, <2>1, <2>2, FormFacts
  <2> QED BY <1>4, <1>5, <1>7, <2>3, <1>n
<1>8. CASE inner.code # "none"
  BY <1>1, <1>4, <1>8, <1>n, FailedFacts
<1>9. CASE inner.code = "none" /\ m.code # "none" /\ ByteWidth(inner.n) # 0
  <2>1. Formed(m, p + 1, n)
    BY <1>2, <1>9, FailedFacts
  <2> QED BY <1>4, <1>5, <1>9, <1>n, <2>1
<1>10. CASE inner.code = "none" /\ m.code = "none" /\ q.code # "none" /\ ByteWidth(inner.n) # 0
  <2>1. Formed(q, p + 1, n)
    BY <1>3, <1>10, FailedFacts
  <2> QED BY <1>4, <1>5, <1>10, <1>n, <2>1
<1>11. CASE inner.code = "none" /\ ByteWidth(inner.n) = 0
  BY <1>4, <1>5, <1>11, <1>n
<1> QED BY <1>7, <1>8, <1>9, <1>10, <1>11

\* A count and what is made of it.
LEMMA CountedFacts ==
  ASSUME NEW data \in Datas, NEW p \in Nat, NEW kind \in Kinds, NEW h \in Octets,
         kind \in {"Fixed", "One", "Run"} => ByteWidth(h) # 0,
         NEW m, m = CountAt(data, p), NEW r, r = IF m.code = "none" THEN Form(m.pos, kind, h, m.n) ELSE m
  PROVE  Formed(r, p + 1, Len(data)) /\ (r.code = "none" => r.kind = kind)
<1>1. Took(m, p + 1, Len(data))
  BY CountFacts
<1>2. CASE m.code = "none"
  <2>1. m.pos \in p + 1 .. Len(data) /\ m.n \in Nat /\ r = Form(m.pos, kind, h, m.n)
    BY <1>1, <1>2 DEF Took
  <2> QED BY <2>1, FormFacts
<1>3. CASE m.code # "none"
  BY <1>1, <1>3, FailedFacts
<1> QED BY <1>2, <1>3

\* The head of a typed array says which of its three layouts follows.
LEMMA TypedPreambleFacts ==
  ASSUME NEW data \in Datas, NEW p \in Nat, NEW h \in Octets, NEW r, r = TypedPreamble(data, p, h)
  PROVE  Formed(r, p + 1, Len(data)) /\ (r.code = "none" => r.kind \in {"Bools", "Strings", "Fixed"})
<1> DEFINE m == CountAt(data, p)
           counted(kind) == IF m.code = "none" THEN Form(m.pos, kind, h, m.n) ELSE m
<1>1. r = CASE Sub(h) = OtherCat /\ Count(h) = 0 -> counted("Bools")
            [] Sub(h) = OtherCat /\ Count(h) = 1 -> counted("Strings")
            [] Sub(h) = OtherCat /\ Count(h) = 2 -> AlignedHead(data, p)
            [] Sub(h) # OtherCat /\ ByteWidth(h) # 0 -> counted("Fixed")
            [] OTHER -> BadHeader
  BY DEF TypedPreamble, Then
<1>2. "Bools" \in Kinds /\ "Strings" \in Kinds /\ "Fixed" \in Kinds
  BY DEF Kinds
<1>3. ASSUME NEW kind \in Kinds, kind \in {"Fixed", "One", "Run"} => ByteWidth(h) # 0
      PROVE  Formed(counted(kind), p + 1, Len(data)) /\ (counted(kind).code = "none" => counted(kind).kind = kind)
  BY <1>3, CountedFacts
<1>4. /\ Formed(AlignedHead(data, p), p + 1, Len(data))
      /\ AlignedHead(data, p).code = "none" => AlignedHead(data, p).kind = "Fixed"
  BY AlignedFacts
<1>5. Formed(BadHeader, p + 1, Len(data)) /\ BadHeader.code # "none"
  BY ShortFacts
<1>6. Sub(h) \in 0 .. 3 /\ Count(h) \in 0 .. 7 /\ ByteWidth(h) \in Nat
  BY HeaderFacts, WidthFacts
<1> HIDE DEF counted
<1>7. \/ r = counted("Bools") \/ r = counted("Strings") \/ r = AlignedHead(data, p)
      \/ r = counted("Fixed") /\ ByteWidth(h) # 0
      \/ r = BadHeader
  BY <1>1, <1>6 DEF OtherCat
<1> QED BY <1>2, <1>3, <1>4, <1>5, <1>7

\* The same once the padding bits behind packed booleans were looked at: those bytes are in the buffer.
LEMMA TypedHeadFacts ==
  ASSUME NEW data \in Datas, NEW p \in Nat, NEW h \in Octets, NEW r, r = TypedHead(data, p, h)
  PROVE  /\ Formed(r, p + 1, Len(data))
         /\ r.code = "none" => /\ r.kind \in {"Bools", "Strings", "Fixed"}
                               /\ r.kind = "Bools" => r.pos + PackedBytes(r.n) <= Len(data)
<1> DEFINE f == TypedPreamble(data, p, h)
           held == f.n > 0 /\ PaddingSet(f.n, At(data, f.pos + PackedBytes(f.n) - 1))
<1>1. Formed(f, p + 1, Len(data)) /\ (f.code = "none" => f.kind \in {"Bools", "Strings", "Fixed"})
  BY TypedPreambleFacts
<1>2. r = IF f.code = "none"
          THEN IF f.kind # "Bools" THEN f
               ELSE IF f.pos + PackedBytes(f.n) > Len(data) THEN Short
               ELSE IF held THEN Broken("InvalidPadding") ELSE f
          ELSE f
  BY DEF TypedHead, Then
<1>3. /\ Formed(Short, p + 1, Len(data)) /\ Short.code # "none"
      /\ Formed(Broken("InvalidPadding"), p + 1, Len(data)) /\ Broken("InvalidPadding").code # "none"
  <2>1. "InvalidPadding" \in BeveCodes /\ "InvalidPadding" # "none"
    BY DEF BeveCodes
  <2> QED BY <2>1, ShortFacts, BrokenFacts
<1>4. f.code = "none" => f.n \in Nat /\ f.pos \in Nat /\ Len(data) \in Nat
  BY <1>1, DataFacts DEF Formed, Took
<1>5. f.code = "none" => PackedBytes(f.n) \in Nat
  BY <1>4, PackedFacts
<1> HIDE DEF f, held
<1> QED BY <1>1, <1>2, <1>3, <1>4, <1>5

\* An aligned run of complex numbers says what its pairs are behind its own header.
LEMMA AlignedPairsFacts ==
  ASSUME NEW data \in Datas, NEW p \in Nat, NEW class \in Octets, ByteWidth(class) # 0,
         NEW r, r = AlignedPairs(data, p, class)
  PROVE  Formed(r, p + 1, Len(data)) /\ (r.code = "none" => r.kind = "Run")
<1> DEFINE outer == ByteAt(data, p)
           inner == ByteAt(data, outer.pos)
           m     == CountAt(data, inner.pos)
           q     == PaddingAt(data, m.pos, ByteWidth(class))
           n     == Len(data)
<1>1. /\ Took(outer, p + 1, n)
      /\ outer.code = "none" => outer.pos = p + 1
  BY ByteAtFacts
<1>2. outer.code = "none" => /\ Took(inner, p + 2, n)
                             /\ inner.code = "none" => inner.pos = p + 2
  BY <1>1, ByteAtFacts
<1>3. outer.code = "none" /\ inner.code = "none" => Took(m, p + 3, n)
  BY <1>2, CountFacts
<1>4. outer.code = "none" /\ inner.code = "none" /\ m.code = "none" => Took(q, m.pos + 1, n)
  <2> SUFFICES ASSUME outer.code = "none", inner.code = "none", m.code = "none" PROVE Took(q, m.pos + 1, n)
    OBVIOUS
  <2>1. ByteWidth(class) \in Nat
    BY WidthFacts
  <2>2. m.pos \in Nat
    BY <1>3 DEF Took
  <2> QED BY <2>1, <2>2, PaddingFacts
<1>5. r = IF outer.code = "none"
          THEN IF outer.n # ALIGNED_ARRAY THEN BadHeader
               ELSE IF inner.code = "none"
                    THEN IF inner.n # class - Ty(class) + TypedArray THEN BadHeader
                         ELSE IF m.code = "none"
                              THEN IF m.n % 2 # 0 THEN BadHeader
                                   ELSE IF q.code = "none" THEN Form(q.pos, "Run", class, m.n \div 2)
                                        ELSE q
                              ELSE m
                    ELSE inner
          ELSE outer
  BY DEF AlignedPairs, Then
<1>6. Formed(BadHeader, p + 1, n) /\ BadHeader.code # "none"
  BY ShortFacts
<1>n. n = Len(data) /\ n \in Nat
  BY DataFacts
<1> HIDE DEF outer, inner, m, q, n
<1>7. CASE outer.code # "none"
  BY <1>1, <1>5, <1>7, <1>n, FailedFacts
<1>8. CASE outer.code = "none" /\ inner.code # "none"
  <2>1. Formed(inner, p + 1, n)
    BY <1>2, <1>8, FailedFacts
  <2> QED BY <1>5, <1>6, <1>8, <1>n, <2>1
<1>9. CASE outer.code = "none" /\ inner.code = "none" /\ m.code # "none"
  <2>1. Formed(m, p + 1, n)
    BY <1>3, <1>9, FailedFacts
  <2> QED BY <1>5, <1>6, <1>9, <1>n, <2>1
<1>10. CASE outer.code = "none" /\ inner.code = "none" /\ m.code = "none" /\ q.code # "none"
  <2>1. Formed(q, p + 1, n)
    BY <1>4, <1>10, FailedFacts
  <2> QED BY <1>5, <1>6, <1>10, <1>n, <2>1
<1>11. CASE outer.code = "none" /\ inner.code = "none" /\ m.code = "none" /\ q.code = "none"
  <2>1. q.pos \in p + 1 .. n /\ m.n \in Nat
    BY <1>3, <1>4, <1>11, <1>n DEF Took
  <2>2. m.n \div 2 \in Nat
    BY <2>1
  <2>3. "Run" \in Kinds
    BY DEF Kinds
  <2>4. /\ Formed(Form(q.pos, "Run", class, m.n \div 2), p + 1, n)
        /\ Form(q.pos, "Run", class, m.n \div 2).kind = "Run"
    BY <2>1, <2>2, <2>3, FormFacts
  <2> QED BY <1>5, <1>6, <1>11, <1>n, <2>4
<1> QED BY <1>7, <1>8, <1>9, <1>10, <1>11

\* The head of a complex value: one pair or a run of them.
LEMMA ComplexFacts ==
  ASSUME NEW data \in Datas, NEW p \in Nat, NEW r, r = ComplexHead(data, p)
  PROVE  Formed(r, p + 1, Len(data)) /\ (r.code = "none" => r.kind \in {"One", "Run"})
<1> DEFINE class == ByteAt(data, p)
           n == Len(data)
           h == class.n
           m == CountAt(data, class.pos)
           run == IF m.code = "none" THEN Form(m.pos, "Run", h, m.n) ELSE m
           pairs == AlignedPairs(data, class.pos, h)
           one == Form(class.pos, "One", h, 1)
<1>1. /\ Took(class, p + 1, n)
      /\ class.code = "none" => class.pos = p + 1 /\ h \in Octets /\ p < n
  BY ByteAtFacts
<1>2. r = IF class.code = "none"
          THEN IF ByteWidth(h) = 0 THEN BadHeader
               ELSE CASE Ty(h) = 0 -> one [] Ty(h) = 1 -> run [] Ty(h) = 2 -> pairs [] OTHER -> BadHeader
          ELSE class
  BY DEF ComplexHead, Then
<1>n. n = Len(data) /\ n \in Nat
  BY DataFacts
<1>3. "One" \in Kinds /\ "Run" \in Kinds
  BY DEF Kinds
<1>4. Formed(BadHeader, p + 1, n) /\ BadHeader.code # "none"
  BY ShortFacts
<1>5. CASE class.code # "none"
  BY <1>1, <1>2, <1>5, <1>n, FailedFacts
<1>6. CASE class.code = "none" /\ ByteWidth(h) # 0
  <2>1. Formed(one, p + 1, n) /\ one.code = "none" /\ one.kind = "One"
    <3>1. class.pos \in p + 1 .. n /\ 1 \in Nat /\ h \in Octets
      BY <1>1, <1>6, <1>n
    <3> HIDE DEF class
    <3> QED BY <1>3, <1>6, <3>1, FormFacts
  <2>2. Formed(run, p + 2, n) /\ (run.code = "none" => run.kind = "Run")
    BY <1>1, <1>3, <1>6, CountedFacts
  <2>3. Formed(pairs, p + 2, n) /\ (pairs.code = "none" => pairs.kind = "Run")
    BY <1>1, <1>6, AlignedPairsFacts
  <2>4. p + 1 \in Int /\ p + 2 \in Int /\ p + 1 <= p + 2
    OBVIOUS
  <2>5. Formed(run, p + 1, n) /\ Formed(pairs, p + 1, n)
    BY <1>n, <2>2, <2>3, <2>4, FormFromBefore
  <2> HIDE DEF run, one, pairs, h, class, n
  <2>6. r = one \/ r = run \/ r = pairs \/ r = BadHeader
    BY <1>2, <1>6
  <2> QED BY <1>n, <1>4, <2>1, <2>2, <2>3, <2>5, <2>6
<1>7. CASE class.code = "none" /\ ByteWidth(h) = 0
  BY <1>2, <1>4, <1>7
<1> QED BY <1>5, <1>6, <1>7

\* The bytes of a payload are counted, or there are more than an address can name.
LEMMA BlockFacts ==
  ASSUME NEW i, NEW n, NEW f, Formed(f, i, n), f.code = "none", NEW width \in Nat,
         NEW r, r = Block(f, width)
  PROVE  Took(r, i, n)
<1>1. f.pos \in i .. n /\ f.n \in Nat
  BY DEF Formed, Took
<1>2. f.n * width \in Nat
  BY <1>1
<1>3. Took(Got(f.pos, f.n * width), i, n)
  BY <1>1, <1>2, GotFacts
<1> QED BY <1>3, ShortFacts DEF Block

================================================================================
