--------------------------- MODULE ArrayIntoProofs --------------------------
(***************************************************************************)
(* read_array_into, at every chunk size, capacity and document.  First its *)
(* growth alone (ArrayPayload): what is exposed was written and lies in    *)
(* the allocation, and the allocation is backed by bytes that arrived.     *)
(* Then the calls (ArrayInto): the head is read alike from the caller's    *)
(* reader and from a slice, every chunk is the next of the document's      *)
(* elements, and so a call that returns gives what a slice gives.          *)
(***************************************************************************)
EXTENDS ArrayInto, BevePreambleProofs, SequenceTheorems

-----------------------------------------------------------------------------
(* The growth.                                                             *)


PTypeOK ==
  /\ per \in Nat \ {0}
  /\ n \in Nat /\ len \in Nat /\ capacity \in Nat /\ written \in Nat
  /\ arrived \in Nat /\ kept \in Nat
  /\ phase \in {"idle", "head", "room", "read"}

\* What is exposed and what arrived, at each place of the loop.
LoopPlace ==
  /\ phase = "head" => len = 0 /\ arrived = 0 /\ capacity = kept
  /\ phase = "room" => len = arrived
  /\ phase = "read" => len = Lesser(n, arrived + per)
  /\ phase \in {"room", "read"} => arrived <= n

\* A number of whole chunks, or the count itself.
Chunks(x) == x = n \/ \E q \in Nat : x = q * per

\* A fresh vector only ever has room for those, and holds those: so it is full
\* when it grows, which is what keeps the doubling within its bound.
GrowsFull ==
  kept = 0 /\ phase \in {"room", "read"} => Chunks(capacity) /\ Chunks(arrived)

PInv == PTypeOK /\ LoopPlace /\ GrowsFull /\ HeldIsBacked

\* Less than the end of the chunk after q whole ones is at most q whole ones.
LEMMA WholeChunks ==
  ASSUME NEW p \in Nat \ {0}, NEW q \in Nat, NEW r \in Nat, r * p < q * p + p
  PROVE  r * p <= q * p
PROOF
<1>1. CASE r <= q
  <2>1. PICK d \in Nat : q = r + d
    BY <1>1
  <2>2. q * p = r * p + d * p
    BY <2>1
  <2>3. d * p \in Nat /\ r * p \in Nat
    OBVIOUS
  <2> QED
    BY <2>2, <2>3
<1>2. CASE r > q
  <2>1. PICK d \in Nat : r = q + 1 + d
    <3>1. r - q - 1 \in Nat /\ r = q + 1 + (r - q - 1)
      BY <1>2
    <3> QED
      BY <3>1
  <2>2. r * p = q * p + p + d * p
    BY <2>1
  <2>3. d * p \in Nat /\ q * p \in Nat
    OBVIOUS
  <2> QED
    BY <2>2, <2>3
<1> QED
  BY <1>1, <1>2

\* The chunk to come has an end past what is there, within a chunk of it.
LEMMA ChunkAhead ==
  ASSUME PTypeOK, len < n
  PROVE  ChunkEnd \in Nat /\ len < ChunkEnd /\ ChunkEnd <= n /\ ChunkEnd <= len + per
BY DEF PTypeOK, ChunkEnd, Lesser

\* Asking for more room asks for enough, and at most twice what is there or
\* the chunk.
LEMMA WantedEnough ==
  ASSUME PTypeOK, len < n, capacity < ChunkEnd
  PROVE  /\ Wanted \in Nat /\ ChunkEnd <= Wanted
         /\ Wanted <= 2 * capacity \/ Wanted <= ChunkEnd
PROOF
<1>1. ChunkEnd \in Nat /\ ChunkEnd <= n
  BY ChunkAhead
<1>2. n \in Nat /\ capacity \in Nat
  BY DEF PTypeOK
<1> QED
  BY <1>1, <1>2 DEF Wanted, Lesser, Greater

LEMMA InitInv == PInit => PInv
BY DEF PInit, PInv, PTypeOK, LoopPlace, GrowsFull, HeldIsBacked, Greater

LEMMA ClearStep == PInv /\ Clear => PInv'
BY DEF PInv, Clear, PTypeOK, LoopPlace, GrowsFull, HeldIsBacked, Greater, Chunks

LEMMA CountedStep ==
  ASSUME PInv, NEW count \in Nat, Counted(count)
  PROVE  PInv'
PROOF
<1> USE DEF PInv, Counted
<1>1. PTypeOK'
  BY DEF PTypeOK
<1>2. LoopPlace'
  BY DEF PTypeOK, LoopPlace
<1>3. HeldIsBacked'
  BY DEF HeldIsBacked
<1>4. GrowsFull'
  <2>1. 0 = 0 * per
    BY DEF PTypeOK
  <2>2. kept' = 0 => capacity' = 0 /\ arrived' = 0 /\ per' = per
    BY DEF LoopPlace
  <2> QED
    BY <2>1, <2>2 DEF GrowsFull, Chunks
<1> QED
  BY <1>1, <1>2, <1>3, <1>4

\* Growing a full vector of whole chunks gives one of whole chunks.
LEMMA GrownWhole ==
  ASSUME PTypeOK, len < n, capacity < ChunkEnd, Chunks(capacity), Chunks(len)
  PROVE  /\ capacity <= len
         /\ \E q \in Nat : Wanted = q * per \/ Wanted = n
PROOF
<1> USE DEF PTypeOK
<1>1. ChunkEnd \in Nat /\ ChunkEnd <= n /\ ChunkEnd <= len + per
  BY ChunkAhead
<1>2. PICK q \in Nat : len = q * per
  BY DEF Chunks
<1>3. PICK r \in Nat : capacity = r * per
  BY <1>1 DEF Chunks
<1>4. capacity <= len
  <2>1. r * per < q * per + per
    BY <1>1, <1>2, <1>3
  <2>2. r * per <= q * per
    BY <2>1, WholeChunks
  <2> QED
    BY <1>2, <1>3, <2>2
<1>5. Wanted \in {n, 2 * capacity, len + per}
  BY DEF Wanted, ChunkEnd, Lesser, Greater
<1>6. 2 * capacity = (2 * r) * per /\ len + per = (q + 1) * per
  BY <1>2, <1>3
<1>7. 2 * r \in Nat /\ q + 1 \in Nat
  OBVIOUS
<1> QED
  BY <1>4, <1>5, <1>6, <1>7

LEMMA RoomStep == PInv /\ Room => PInv'
PROOF
<1> SUFFICES ASSUME PInv, Room PROVE PInv'
  OBVIOUS
<1> USE DEF PInv, Room
<1>1. ChunkEnd \in Nat /\ len < ChunkEnd /\ ChunkEnd <= n /\ ChunkEnd <= len + per
  BY ChunkAhead
<1>2. capacity < ChunkEnd =>
        /\ Wanted \in Nat /\ ChunkEnd <= Wanted
        /\ Wanted <= 2 * capacity \/ Wanted <= ChunkEnd
  BY WantedEnough
<1>3. len = arrived
  BY DEF LoopPlace
<1>4. PTypeOK'
  BY <1>1, <1>2 DEF PTypeOK, Greater
<1>5. LoopPlace'
  BY <1>3 DEF LoopPlace, ChunkEnd, Lesser
<1>6. kept = 0 /\ capacity < ChunkEnd =>
        capacity <= len /\ \E q \in Nat : Wanted = q * per \/ Wanted = n
  BY <1>3, GrownWhole DEF GrowsFull
<1>7. GrowsFull'
  BY <1>6 DEF GrowsFull, Chunks
<1>8. HeldIsBacked'
  <2>1. len' <= written' /\ written' <= capacity'
    BY <1>1, <1>2 DEF PTypeOK, HeldIsBacked, Greater
  <2>2. capacity' <= Greater(kept', 2 * (arrived' + per'))
    BY <1>1, <1>2, <1>3 DEF PTypeOK, HeldIsBacked, Greater
  <2>3. kept' = 0 => capacity' <= 2 * arrived' + per'
    BY <1>1, <1>2, <1>3, <1>6 DEF PTypeOK, HeldIsBacked
  <2> QED
    BY <2>1, <2>2, <2>3 DEF HeldIsBacked
<1> QED
  BY <1>4, <1>5, <1>7, <1>8

LEMMA ArrivesStep == PInv /\ Arrives => PInv'
PROOF
<1> SUFFICES ASSUME PInv, Arrives PROVE PInv'
  OBVIOUS
<1> USE DEF PInv, Arrives
<1>1. PTypeOK'
  BY DEF PTypeOK
<1>2. LoopPlace'
  BY DEF PTypeOK, LoopPlace, Lesser
<1>3. arrived <= arrived'
  BY DEF PTypeOK, LoopPlace, HeldIsBacked, Lesser
<1>4. HeldIsBacked'
  BY <1>3 DEF PTypeOK, HeldIsBacked, Greater
<1>5. GrowsFull'
  <2> SUFFICES ASSUME kept = 0 PROVE Chunks(capacity)' /\ Chunks(arrived)'
    BY DEF GrowsFull
  <2>1. Chunks(capacity) /\ Chunks(arrived)
    BY DEF GrowsFull
  <2>2. arrived' = n \/ arrived' = arrived + per
    BY DEF LoopPlace, Lesser
  <2>3. arrived' = arrived \/ arrived' = n \/ \E q \in Nat : arrived' = q * per
    <3>1. CASE arrived = n
      BY <3>1, <2>2, <1>3 DEF PTypeOK, LoopPlace, Lesser
    <3>2. CASE \E q \in Nat : arrived = q * per
      <4>1. PICK q \in Nat : arrived = q * per
        BY <3>2
      <4>2. q + 1 \in Nat /\ arrived + per = (q + 1) * per
        BY <4>1 DEF PTypeOK
      <4> QED
        BY <4>2, <2>2
    <3> QED
      BY <3>1, <3>2, <2>1 DEF Chunks
  <2> QED
    BY <2>1, <2>3 DEF Chunks
<1> QED
  BY <1>1, <1>2, <1>4, <1>5

\* However the call ends, what is held is not touched, or emptied.
LEMMA EndStep == PInv /\ (Completes \/ Fails \/ Unwinds) => PInv'
BY DEF PInv, Completes, Fails, Unwinds, PTypeOK, LoopPlace, GrowsFull, HeldIsBacked, Greater

LEMMA PNextStep == PInv /\ [PNext]_pvars => PInv'
PROOF
<1> SUFFICES ASSUME PInv, [PNext]_pvars PROVE PInv'
  OBVIOUS
<1>1. CASE Clear
  BY <1>1, ClearStep
<1>2. CASE \E count \in Nat : Counted(count)
  BY <1>2, CountedStep
<1>3. CASE Room
  BY <1>3, RoomStep
<1>4. CASE Arrives
  BY <1>4, ArrivesStep
<1>5. CASE Completes \/ Fails \/ Unwinds
  BY <1>5, EndStep
<1>6. CASE UNCHANGED pvars
  BY <1>6 DEF pvars, PInv, PTypeOK, LoopPlace, GrowsFull, HeldIsBacked, Chunks
<1> QED
  BY <1>1, <1>2, <1>3, <1>4, <1>5, <1>6 DEF PNext

-----------------------------------------------------------------------------
\* The unchecked set_len of read_array_into is backed by memory that was
\* written, and its allocation by bytes that arrived, at any chunk size,
\* whatever the count claims and however a call ends.
THEOREM GrowthBacked == PSpec => []HeldIsBacked
PROOF
<1>1. PInv => HeldIsBacked
  BY DEF PInv
<1> QED
  BY InitInv, PNextStep, <1>1, PTL DEF PSpec

-----------------------------------------------------------------------------
(* The head.                                                               *)

\* The reader gave out where the bytes end, with its own answer, and a slice of
\* those bytes ends there too.
CutShort(r, s) == beyond # "end" /\ r.code = beyond /\ s.code = "UnexpectedEnd"

\* r, read from the reader, is what s is, read from the slice.
Alike(r, s) == r = s \/ CutShort(r, s)

\* The same of a count and the form it belongs to: the count is read from the
\* same place, or refused for the same reason.
Agreed(r, s) ==
  \/ r.code = "none" /\ s.code = "none" /\ r.pos = s.pos /\ r.n = s.n
  \/ r.code # "none" /\ r.code = s.code
  \/ CutShort(r, s)

\* What the caller's reader may do.
Beyonds == {"end", "Io", "panic"}

\* Giving out is no success.
LEMMA CutFacts ==
  ASSUME beyond \in Beyonds
  PROVE  /\ Cut.code # "none" /\ Short.code = "UnexpectedEnd"
         /\ beyond # "end" => Cut.code = beyond
         /\ beyond = "end" => Cut = Short
BY DEF Cut, Short, Broken, Beyonds

\* The reader gives out where the slice ends.
LEMMA CutIsAlike ==
  ASSUME beyond \in Beyonds
  PROVE  Alike(Cut, Short)
BY CutFacts DEF Alike, CutShort

\* A byte is read alike (Source::byte, Reader::head).
LEMMA ByteAlike ==
  ASSUME beyond \in Beyonds, NEW p \in Nat
  PROVE  Alike(Byte(p), ByteAt(doc, p))
BY CutFacts DEF Alike, CutShort, Byte, ByteAt

\* A count is read alike: the reader asks for its first byte and then for the
\* rest, and meets the end where the slice does (Source::size, Reader::count).
LEMMA SizeAlike ==
  ASSUME beyond \in Beyonds, doc \in Datas, NEW p \in Nat
  PROVE  Alike(SizeFrom(p), CountAt(doc, p))
<1> DEFINE extra == <<0, 1, 3, 7>>[(At(doc, p) % 4) + 1]
           b == Byte(p)
           x == Exact(b.pos, <<0, 1, 3, 7>>[(b.n % 4) + 1])
           s == CountAt(doc, p)
           t == SizeAt(doc, p)
<1>1. SizeFrom(p) = IF b.code = "none" THEN IF x.code = "none" THEN s ELSE x ELSE b
  BY DEF SizeFrom, Then
<1>2. s = IF t.code = "none" THEN IF Fits(t.n) THEN t ELSE Short ELSE t
  BY DEF CountAt, Then
<1>3. Short.code # "none" /\ Short.code = "UnexpectedEnd"
  BY DEF Short, Broken
<1>4. /\ p >= Len(doc) => t = Short
      /\ p + 1 + extra > Len(doc) => t = Short
  BY DEF SizeAt
<1>5. Len(doc) \in Nat
  BY DataFacts
<1>6. CASE p >= Len(doc)
  <2>1. s.code = "UnexpectedEnd" /\ s = Short
    <3> HIDE DEF t
    <3> QED BY <1>2, <1>3, <1>4, <1>6
  <2>2. b = Cut
    BY <1>5, <1>6 DEF Byte
  <2>3. SizeFrom(p) = Cut
    <3> HIDE DEF b, x, s
    <3> QED BY <1>1, <2>2, CutFacts
  <2> QED BY <2>1, <2>3, CutIsAlike
<1>7. CASE p < Len(doc)
  <2>1. b = Got(p + 1, At(doc, p))
    BY <1>7 DEF Byte
  <2>2. b.code = "none" /\ b.pos = p + 1 /\ b.n = At(doc, p)
    BY <2>1 DEF Got
  <2>3. x = Exact(p + 1, extra)
    BY <2>2
  <2> HIDE DEF b, x, extra
  <2>4. CASE p + 1 + extra <= Len(doc)
    <3>1. x.code = "none"
      BY <2>3, <2>4 DEF Exact, Got
    <3> QED BY <1>1, <2>2, <3>1 DEF Alike
  <2>5. CASE ~(p + 1 + extra <= Len(doc))
    <3>1. x = Cut
      BY <2>3, <2>5 DEF Exact
    <3>2. extra \in Int
      <4>1. At(doc, p) \in Octets
        BY <1>5, <1>7, DataFacts
      <4>2. (At(doc, p) % 4) + 1 \in 1 .. 4
        BY <4>1 DEF Octets
      <4> QED BY <4>2 DEF extra
    <3>3. t = Short
      BY <1>4, <1>5, <2>5, <3>2
    <3>4. s.code = "UnexpectedEnd" /\ s = Short
      <4> HIDE DEF t
      <4> QED BY <1>2, <1>3, <3>3
    <3>5. SizeFrom(p) = Cut
      <4> HIDE DEF s
      <4> QED BY <1>1, <2>2, <3>1, CutFacts
    <3> QED BY <3>4, <3>5, CutIsAlike
  <2> QED BY <2>4, <2>5
<1> QED BY <1>5, <1>6, <1>7

\* The padding of an aligned array is stepped over alike (Source::padding,
\* Reader::skip_padding).
LEMMA PaddingAgrees ==
  ASSUME beyond \in Beyonds, doc \in Datas, NEW p \in Nat, NEW width \in Nat, NEW k,
         NEW kind, NEW e,
         NEW q, q = PaddingAt(doc, p, width),
         NEW s, s = IF q.code = "none" THEN Form(q.pos, kind, e, k) ELSE q
  PROVE  Agreed(PaddingFrom(p, width, k), s)
<1> DEFINE b == Byte(p)
           c == ByteAt(doc, p)
           x == Exact(b.pos, b.n)
           r == PaddingFrom(p, width, k)
<1>1. r = IF b.code = "none"
          THEN IF b.n >= width THEN Broken("InvalidPadding")
               ELSE IF x.code = "none" THEN Got(x.pos, k) ELSE x
          ELSE b
  BY DEF PaddingFrom, Then
<1>2. q = IF c.code = "none"
          THEN IF c.n >= width THEN Broken("InvalidPadding")
               ELSE IF c.pos + c.n > Len(doc) THEN Short
               ELSE Got(c.pos + c.n, 0)
          ELSE c
  BY DEF PaddingAt, Then
<1>3. Alike(b, c) /\ Len(doc) \in Nat
  BY ByteAlike, DataFacts
<1>4. /\ Took(c, p + 1, Len(doc))
      /\ c.code = "none" => c.pos = p + 1 /\ c.n \in Octets
  BY ByteAtFacts
<1>5. x = IF b.pos + b.n <= Len(doc) THEN Got(b.pos + b.n, 0) ELSE Cut
  BY DEF Exact
<1>6. /\ Broken("InvalidPadding").code = "InvalidPadding" /\ Short.code = "UnexpectedEnd"
      /\ \A i, j : Got(i, j) = [code |-> "none", pos |-> i, n |-> j]
      /\ \A i : Form(i, kind, e, k) = [code |-> "none", pos |-> i, kind |-> kind, elem |-> e, n |-> k]
  BY DEF Broken, Short, Got, Form
<1>7. c.code = "none" => c.pos \in Int /\ c.n \in Int
  <2> SUFFICES ASSUME c.code = "none" PROVE c.pos \in Int /\ c.n \in Int
    OBVIOUS
  <2>1. c.pos = p + 1 /\ c.n \in Octets
    BY <1>4
  <2>2. p + 1 \in Int
    OBVIOUS
  <2>3. \A z \in Octets : z \in Int
    BY DEF Octets
  <2> QED BY <2>1, <2>2, <2>3
<1>b. beyond = "Io" \/ beyond = "panic" \/ beyond = "end"
  BY DEF Beyonds
<1> HIDE DEF b, c, x, r
<1>8. CASE CutShort(b, c)
  <2>1. c.code = "UnexpectedEnd" /\ b.code = beyond /\ beyond # "end"
    BY <1>8 DEF CutShort
  <2>2. q = c /\ s = c /\ r = b
    BY <1>1, <1>2, <1>b, <2>1
  <2> QED BY <1>8, <2>2 DEF Agreed, r
<1>9. CASE b = c
  <2>1. CASE c.code # "none"
    <3>1. r.code # "none" /\ r.code = s.code
      BY <1>1, <1>2, <1>9, <2>1
    <3> QED BY <3>1 DEF Agreed, r
  <2>2. CASE c.code = "none" /\ c.n >= width
    <3>1. r.code # "none" /\ r.code = s.code
      BY <1>1, <1>2, <1>6, <1>9, <2>2
    <3> QED BY <3>1 DEF Agreed, r
  <2>3. CASE c.code = "none" /\ ~(c.n >= width) /\ c.pos + c.n <= Len(doc)
    <3>1. ~(c.pos + c.n > Len(doc))
      BY <1>3, <1>7, <2>3
    <3>2. x = Got(c.pos + c.n, 0) /\ q = Got(c.pos + c.n, 0)
      BY <1>2, <1>5, <1>9, <2>3, <3>1
    <3>3. x.code = "none" /\ x.pos = c.pos + c.n /\ q.code = "none" /\ q.pos = c.pos + c.n
      BY <1>6, <3>2
    <3>4. r = Got(c.pos + c.n, k) /\ s = Form(c.pos + c.n, kind, e, k)
      BY <1>1, <1>9, <2>3, <3>3
    <3>5. r.code = "none" /\ s.code = "none" /\ r.pos = s.pos /\ r.n = s.n
      BY <1>6, <3>4
    <3> QED BY <3>5 DEF Agreed, r
  <2>4. CASE c.code = "none" /\ ~(c.n >= width) /\ ~(c.pos + c.n <= Len(doc))
    <3>1. c.pos + c.n > Len(doc)
      BY <1>3, <1>7, <2>4
    <3>2. x = Cut /\ q = Short
      BY <1>2, <1>5, <1>9, <2>4, <3>1
    <3>3. r = Cut /\ s = Short
      BY <1>1, <1>6, <1>9, <2>4, <3>2, CutFacts
    <3> QED BY <1>6, <3>3, CutFacts DEF Agreed, CutShort, r
  <2> QED BY <2>1, <2>2, <2>3, <2>4
<1> QED BY <1>3, <1>8, <1>9 DEF Alike

\* What was read so far is alike, and what is made of it agrees: then so does all of it.
LEMMA ThenAgrees ==
  ASSUME beyond \in Beyonds, NEW a, NEW b, Alike(a, b),
         NEW f, NEW g, a = b /\ a.code = "none" => Agreed(f, g),
         NEW r, r = IF a.code = "none" THEN f ELSE a,
         NEW s, s = IF b.code = "none" THEN g ELSE b
  PROVE  Agreed(r, s)
<1>1. CASE CutShort(a, b)
  <2>1. a.code # "none" /\ b.code # "none"
    BY <1>1 DEF CutShort, Beyonds
  <2> QED BY <1>1, <2>1 DEF Agreed
<1>2. CASE a = b /\ a.code = "none"
  BY <1>2
<1>3. CASE a = b /\ a.code # "none"
  BY <1>3 DEF Agreed
<1> QED BY <1>1, <1>2, <1>3 DEF Alike

\* A count that is read alike agrees with the form made of it.
LEMMA CountAgrees ==
  ASSUME beyond \in Beyonds, doc \in Datas, NEW p \in Nat, NEW kind, NEW e,
         NEW m, m = CountAt(doc, p),
         NEW s, s = IF m.code = "none" THEN Form(m.pos, kind, e, m.n) ELSE m
  PROVE  /\ Agreed(SizeFrom(p), s)
         /\ s.code = "none" => s.kind = kind /\ s.elem = e
<1> DEFINE c == SizeFrom(p)
           f == Form(m.pos, kind, e, m.n)
<1>1. Alike(c, m)
  BY SizeAlike
<1>2. f = [code |-> "none", pos |-> m.pos, kind |-> kind, elem |-> e, n |-> m.n]
  BY DEF Form
<1>3. c = m /\ c.code = "none" => Agreed(c, f)
  <2> HIDE DEF c
  <2> QED BY <1>2 DEF Agreed
<1>4. c = IF c.code = "none" THEN c ELSE c
  OBVIOUS
<1>5. s = IF m.code = "none" THEN f ELSE m
  OBVIOUS
<1> HIDE DEF c, f
<1>6. Agreed(c, s)
  BY <1>1, <1>3, <1>4, <1>5, ThenAgrees
<1>7. s.code = "none" => s.kind = kind /\ s.elem = e
  BY <1>2, <1>5
<1> QED BY <1>6, <1>7 DEF c

\* The same refusal agrees with itself.
LEMMA RefusalAgrees ==
  /\ Agreed(BadHeader, BadHeader) /\ BadHeader.code = "InvalidHeader"
  /\ \A code : code # "none" => Agreed(Broken(code), Broken(code)) /\ Broken(code).code = code
BY DEF Agreed, BadHeader, Broken

\* An aligned array, up to the padding, whose element the walk over a slice takes
\* from the inner header.
LEMMA AlignedAgrees ==
  ASSUME beyond \in Beyonds, doc \in Datas, NEW p \in Nat,
         NEW b, b = Byte(p),
         NEW c, c = SizeFrom(b.pos),
         NEW r, r = IF b.code = "none"
                    THEN IF ByteWidth(b.n) = 0 \/ Ty(b.n) # TypedArray THEN BadHeader
                         ELSE IF c.code = "none" THEN PaddingFrom(c.pos, ByteWidth(b.n), c.n)
                              ELSE c
                    ELSE b,
         NEW s, s = AlignedHead(doc, p)
  PROVE  /\ Agreed(r, s)
         /\ s.code = "none" => b = ByteAt(doc, p) /\ s.kind = "Fixed" /\ s.elem = b.n
<1> DEFINE inner == ByteAt(doc, p)
           m     == CountAt(doc, inner.pos)
           w     == ByteWidth(inner.n)
           q     == PaddingAt(doc, m.pos, w)
           form  == IF q.code = "none" THEN Form(q.pos, "Fixed", inner.n, m.n) ELSE q
           g2    == IF m.code = "none" THEN form ELSE m
           g1    == IF Ty(inner.n) # TypedArray \/ Sub(inner.n) = OtherCat \/ w = 0 THEN BadHeader
                    ELSE g2
           f2    == IF c.code = "none" THEN PaddingFrom(c.pos, ByteWidth(b.n), c.n) ELSE c
           f1    == IF ByteWidth(b.n) = 0 \/ Ty(b.n) # TypedArray THEN BadHeader ELSE f2
<1>1. s = IF inner.code = "none" THEN g1 ELSE inner
  BY DEF AlignedHead, Then
<1>2. r = IF b.code = "none" THEN f1 ELSE b
  OBVIOUS
<1>3. Alike(b, inner)
  BY ByteAlike
<1>4. inner.code = "none" => inner.pos = p + 1 /\ inner.n \in Octets
  BY ByteAtFacts
<1>5. ASSUME b = inner, b.code = "none" PROVE Agreed(f1, g1)
  <2>1. inner.pos \in Nat /\ inner.n \in Octets /\ w \in Nat /\ ByteWidth(b.n) = w
    BY <1>4, <1>5, WidthFacts
  <2>2. Sub(inner.n) = OtherCat => w = 0
    BY DEF ByteWidth, OtherCat, FloatCat
  <2>3. Alike(c, m)
    BY <1>5, <2>1, SizeAlike
  <2>4. Took(m, inner.pos + 1, Len(doc))
    BY <2>1, CountFacts
  <2>5. ASSUME c = m, c.code = "none" PROVE Agreed(PaddingFrom(c.pos, ByteWidth(b.n), c.n), form)
    <3>1. m.pos \in Nat
      BY <2>1, <2>4, <2>5 DEF Took
    <3>2. Agreed(PaddingFrom(m.pos, w, m.n), form)
      BY <2>1, <3>1, PaddingAgrees
    <3> HIDE DEF form, w, m
    <3> QED BY <2>1, <2>5, <3>2
  <2>6. Agreed(f2, g2)
    <3> HIDE DEF m, form
    <3> QED BY <2>3, <2>5, ThenAgrees
  <2> HIDE DEF f2, g2, w, inner
  <2> QED BY <1>5, <2>1, <2>2, <2>6, RefusalAgrees
<1> HIDE DEF inner, f1, g1
<1>6. Agreed(r, s)
  BY <1>1, <1>2, <1>3, <1>5, ThenAgrees
<1>7. ASSUME s.code = "none" PROVE b = inner /\ s.kind = "Fixed" /\ s.elem = b.n
  <2>1. inner.code = "none" /\ s = g1
    BY <1>1, <1>7
  <2>2. b = inner
    BY <1>3, <2>1 DEF Alike, CutShort
  <2>3. s = form /\ form.code = "none"
    <3> HIDE DEF m, form, w
    <3> QED BY <1>7, <2>1, RefusalAgrees DEF g1
  <2>4. q.code = "none" /\ s = Form(q.pos, "Fixed", inner.n, m.n)
    <3> HIDE DEF q, m
    <3> QED BY <2>3
  <2> QED BY <2>2, <2>4 DEF Form
<1> QED BY <1>6, <1>7 DEF inner

\* A run of pairs laid out as an aligned array (Source::aligned_pairs, Reader::aligned_pairs).
LEMMA PairsAgree ==
  ASSUME beyond \in Beyonds, doc \in Datas, NEW p \in Nat, NEW class \in Octets,
         NEW s, s = AlignedPairs(doc, p, class)
  PROVE  /\ Agreed(Pairs(p, class), s)
         /\ s.code = "none" => s.kind = "Run" /\ s.elem = class
<1> DEFINE a1 == Byte(p)
           b1 == ByteAt(doc, p)
           a2 == Byte(a1.pos)
           b2 == ByteAt(doc, b1.pos)
           a3 == SizeFrom(a2.pos)
           b3 == CountAt(doc, b2.pos)
           w  == ByteWidth(class)
           q  == PaddingAt(doc, b3.pos, w)
           form == IF q.code = "none" THEN Form(q.pos, "Run", class, b3.n \div 2) ELSE q
           f3 == IF a3.n % 2 # 0 THEN BadHeader ELSE PaddingFrom(a3.pos, w, a3.n \div 2)
           g3 == IF b3.n % 2 # 0 THEN BadHeader ELSE form
           f2 == IF a2.n # class - Ty(class) + TypedArray THEN BadHeader
                 ELSE IF a3.code = "none" THEN f3 ELSE a3
           g2 == IF b2.n # class - Ty(class) + TypedArray THEN BadHeader
                 ELSE IF b3.code = "none" THEN g3 ELSE b3
           f1 == IF a1.n # ALIGNED_ARRAY THEN BadHeader
                 ELSE IF a2.code = "none" THEN f2 ELSE a2
           g1 == IF b1.n # ALIGNED_ARRAY THEN BadHeader
                 ELSE IF b2.code = "none" THEN g2 ELSE b2
           r  == Pairs(p, class)
<1>1. r = IF a1.code = "none" THEN f1 ELSE a1
  BY DEF Pairs, Then
<1>2. s = IF b1.code = "none" THEN g1 ELSE b1
  BY DEF AlignedPairs, Then
<1>3. w \in Nat
  BY WidthFacts
<1>4. Alike(a1, b1) /\ (b1.code = "none" => b1.pos = p + 1)
  BY ByteAlike, ByteAtFacts
<1>5. ASSUME a1 = b1, a1.code = "none" PROVE Agreed(f1, g1)
  <2>1. a1.pos = p + 1 /\ b1.pos = p + 1
    BY <1>4, <1>5
  <2>2. Alike(a2, b2) /\ (b2.code = "none" => b2.pos = p + 2)
    BY <2>1, ByteAlike, ByteAtFacts
  <2>3. ASSUME a2 = b2, a2.code = "none" PROVE Agreed(f2, g2)
    <3>1. a2.pos = p + 2 /\ b2.pos = p + 2
      BY <2>2, <2>3
    <3>2. Alike(a3, b3) /\ Took(b3, p + 3, Len(doc))
      BY <3>1, SizeAlike, CountFacts
    <3>3. ASSUME a3 = b3, a3.code = "none" PROVE Agreed(f3, g3)
      <4>1. b3.pos \in Nat
        BY <3>2, <3>3 DEF Took
      <4>2. Agreed(PaddingFrom(b3.pos, w, b3.n \div 2), form)
        BY <1>3, <4>1, PaddingAgrees
      <4> HIDE DEF form, w, b3, a3
      <4> QED BY <3>3, <4>2, RefusalAgrees
    <3>4. Agreed(IF a3.code = "none" THEN f3 ELSE a3, IF b3.code = "none" THEN g3 ELSE b3)
      <4> HIDE DEF a3, b3, f3, g3
      <4> QED BY <3>2, <3>3, ThenAgrees
    <3> HIDE DEF a3, b3, f3, g3, a2, b2
    <3> QED BY <2>3, <3>4, RefusalAgrees
  <2>4. Agreed(IF a2.code = "none" THEN f2 ELSE a2, IF b2.code = "none" THEN g2 ELSE b2)
    <3> HIDE DEF a2, b2, f2, g2
    <3> QED BY <2>2, <2>3, ThenAgrees
  <2> HIDE DEF a2, b2, f2, g2, a1, b1
  <2> QED BY <1>5, <2>4, RefusalAgrees
<1>6. Agreed(r, s)
  <2> HIDE DEF a1, b1, f1, g1, r
  <2> QED BY <1>1, <1>2, <1>4, <1>5, ThenAgrees
<1>7. ASSUME s.code = "none" PROVE s.kind = "Run" /\ s.elem = class
  <2> HIDE DEF b1
  <2>1. s = g1
    BY <1>2, <1>7
  <2> HIDE DEF b2
  <2>2. s = g2
    <3> HIDE DEF g2
    <3> QED BY <1>7, <2>1, RefusalAgrees
  <2> HIDE DEF b3
  <2>3. s = g3
    <3> HIDE DEF g3
    <3> QED BY <1>7, <2>2, RefusalAgrees
  <2> HIDE DEF q
  <2>4. s = form
    <3> HIDE DEF form
    <3> QED BY <1>7, <2>3, RefusalAgrees
  <2>5. s = Form(q.pos, "Run", class, b3.n \div 2)
    BY <1>7, <2>4
  <2> QED BY <2>5 DEF Form
<1> QED BY <1>6, <1>7

\* What a slice's form becomes once it is asked for T's elements: one pair is no
\* array, and elements of another type are refused.
Wanting(f) ==
  IF f.code = "none"
  THEN IF f.kind = "One" THEN BadHeader
       ELSE IF StoredElement(f) # elem THEN Broken("ElementTypeMismatch") ELSE f
  ELSE f

\* What was read of the stored elements, once they are T's.
Storing(stored, r) == IF r.code = "none" THEN Stores(stored, r) ELSE r

\* The reader's own answers are no refusal of the bytes.
LEMMA CodesFacts ==
  /\ \A code \in Codes : code # "Io" /\ code # "panic" /\ code # "Ok"
  /\ "UnexpectedEnd" \in Codes /\ "InvalidHeader" \in Codes /\ "ExpectedArray" \in Codes
BY DEF Codes, BeveCodes

\* The element type is compared alike (Source::stores).
LEMMA StoresAgree ==
  ASSUME beyond \in Beyonds, NEW r, NEW f, Agreed(r, f), NEW stored,
         f.code = "none" => f.kind # "One" /\ StoredElement(f) = stored
  PROVE  Agreed(Storing(stored, r), Wanting(f))
<1>1. CASE CutShort(r, f)
  <2>1. r.code # "none" /\ f.code # "none"
    BY <1>1 DEF CutShort, Beyonds
  <2>2. Storing(stored, r) = r /\ Wanting(f) = f
    BY <2>1 DEF Storing, Wanting
  <2> QED BY <1>1, <2>2 DEF Agreed
<1>2. CASE r.code # "none" /\ r.code = f.code
  <2>1. Storing(stored, r) = r /\ Wanting(f) = f
    BY <1>2 DEF Storing, Wanting
  <2> QED BY <1>2, <2>1 DEF Agreed
<1>3. CASE r.code = "none" /\ f.code = "none" /\ r.pos = f.pos /\ r.n = f.n
  <2>1. CASE stored = elem
    <3>1. Storing(stored, r) = r /\ Wanting(f) = f
      BY <1>3, <2>1 DEF Storing, Wanting, Stores
    <3> QED BY <1>3, <3>1 DEF Agreed
  <2>2. CASE stored # elem
    <3>1. Storing(stored, r) = Broken("ElementTypeMismatch") /\ Wanting(f) = Broken("ElementTypeMismatch")
      BY <1>3, <2>2 DEF Storing, Wanting, Stores
    <3> QED BY <3>1, RefusalAgrees
  <2> QED BY <2>1, <2>2
<1> QED BY <1>1, <1>2, <1>3 DEF Agreed

\* Refusals are left as they are.
LEMMA WantingRefused ==
  /\ Wanting(BadHeader) = BadHeader
  /\ Wanting(Broken("ExpectedArray")) = Broken("ExpectedArray")
  /\ Wanting(Broken("ElementTypeMismatch")) = Broken("ElementTypeMismatch")
BY RefusalAgrees DEF Wanting

\* A complex array, behind its first header.
LEMMA ComplexAgrees ==
  ASSUME beyond \in Beyonds, doc \in Datas, NEW p \in Nat
  PROVE  Agreed(ComplexFrom(p), Wanting(ComplexHead(doc, p)))
<1> DEFINE a == Byte(p)
           b == ByteAt(doc, p)
           c == SizeFrom(a.pos)
           x == Pairs(a.pos, a.n)
           f == IF ByteWidth(a.n) = 0 \/ Ty(a.n) \notin {1, 2} THEN BadHeader
                ELSE IF Ty(a.n) = 1 THEN Storing(ComplexElement(a.n), c)
                ELSE Storing(ComplexElement(a.n), x)
           m == CountAt(doc, b.pos)
           run == IF m.code = "none" THEN Form(m.pos, "Run", b.n, m.n) ELSE m
           pairs == AlignedPairs(doc, b.pos, b.n)
           one == Form(b.pos, "One", b.n, 1)
           g == IF ByteWidth(b.n) = 0 THEN BadHeader
                ELSE CASE Ty(b.n) = 0 -> one [] Ty(b.n) = 1 -> run
                       [] Ty(b.n) = 2 -> pairs [] OTHER -> BadHeader
           r == ComplexFrom(p)
           s == Wanting(ComplexHead(doc, p))
<1>1. r = IF a.code = "none" THEN f ELSE a
  <2>1. a.code = "none" => r = CASE ByteWidth(a.n) = 0 \/ Ty(a.n) \notin {1, 2} -> BadHeader
                                 [] ByteWidth(a.n) # 0 /\ Ty(a.n) = 1 -> Storing(ComplexElement(a.n), c)
                                 [] ByteWidth(a.n) # 0 /\ Ty(a.n) = 2 -> Storing(ComplexElement(a.n), x)
    BY DEF ComplexFrom, Then, Storing
  <2>2. a.code # "none" => r = a
    BY DEF ComplexFrom, Then
  <2> HIDE DEF a, c, x, r
  <2> QED BY <2>1, <2>2
<1>2. ComplexHead(doc, p) = IF b.code = "none" THEN g ELSE b
  BY DEF ComplexHead, Then
<1>3. s = IF b.code = "none" THEN Wanting(g) ELSE b
  <2> HIDE DEF b, g
  <2> QED BY <1>2 DEF Wanting
<1>4. Alike(a, b) /\ (b.code = "none" => b.pos = p + 1 /\ b.n \in Octets)
  BY ByteAlike, ByteAtFacts
<1>5. ASSUME a = b, a.code = "none" PROVE Agreed(f, Wanting(g))
  <2>1. a.pos \in Nat /\ a.pos = b.pos /\ b.pos \in Nat /\ b.n \in Octets /\ a.n = b.n
    BY <1>4, <1>5
  <2>2. Ty(b.n) \in 0 .. 7
    BY <2>1, HeaderFacts
  <2> HIDE DEF a, b
  <2>3. CASE ByteWidth(b.n) = 0
    <3>1. f = BadHeader /\ Wanting(g) = BadHeader
      BY <2>1, <2>3, WantingRefused
    <3> QED BY <3>1, RefusalAgrees
  <2>4. CASE ByteWidth(b.n) # 0 /\ Ty(b.n) \notin {1, 2}
    <3>1. f = BadHeader
      BY <2>1, <2>4
    <3>2. g = one \/ g = BadHeader
      <4> HIDE DEF one, run, pairs
      <4> QED BY <2>2, <2>4
    <3>3. Wanting(one) = BadHeader
      BY DEF Wanting, Form
    <3>4. Wanting(g) = BadHeader
      <4> HIDE DEF g, one
      <4> QED BY <3>2, <3>3, WantingRefused
    <3> HIDE DEF f, g
    <3> QED BY <3>1, <3>4, RefusalAgrees
  <2>5. CASE ByteWidth(b.n) # 0 /\ Ty(b.n) = 1
    <3>1. Agreed(c, run) /\ (run.code = "none" => run.kind = "Run" /\ run.elem = b.n)
      BY <2>1, CountAgrees
    <3>2. f = Storing(ComplexElement(b.n), c)
      <4> HIDE DEF c, x
      <4> QED BY <2>1, <2>5
    <3>3. g = run
      <4> HIDE DEF one, run, pairs
      <4> QED BY <2>5
    <3> HIDE DEF f, g, c, run
    <3>4. run.code = "none" => run.kind # "One" /\ StoredElement(run) = ComplexElement(b.n)
      BY <3>1 DEF StoredElement
    <3> QED BY <3>1, <3>2, <3>3, <3>4, StoresAgree
  <2>6. CASE ByteWidth(b.n) # 0 /\ Ty(b.n) = 2
    <3>1. Agreed(x, pairs) /\ (pairs.code = "none" => pairs.kind = "Run" /\ pairs.elem = b.n)
      BY <2>1, PairsAgree
    <3>2. f = Storing(ComplexElement(b.n), x)
      <4> HIDE DEF c, x
      <4> QED BY <2>1, <2>6
    <3>3. g = pairs
      <4> HIDE DEF one, run, pairs
      <4> QED BY <2>6
    <3> HIDE DEF f, g, x, pairs
    <3>4. pairs.code = "none" => pairs.kind # "One" /\ StoredElement(pairs) = ComplexElement(b.n)
      BY <3>1 DEF StoredElement
    <3> QED BY <3>1, <3>2, <3>3, <3>4, StoresAgree
  <2> QED BY <2>3, <2>4, <2>5, <2>6
<1> HIDE DEF a, b, f, g
<1>6. Agreed(r, s)
  BY <1>1, <1>3, <1>4, <1>5, ThenAgrees
<1> QED BY <1>6

\* An aligned array, behind its outer header.
LEMMA AlignedArrayAgrees ==
  ASSUME beyond \in Beyonds, doc \in Datas, NEW p \in Nat
  PROVE  Agreed(AlignedFrom(p), Wanting(AlignedHead(doc, p)))
<1> DEFINE b == Byte(p)
           c == SizeFrom(b.pos)
           q == PaddingFrom(c.pos, ByteWidth(b.n), c.n)
           r == IF b.code = "none"
                THEN IF ByteWidth(b.n) = 0 \/ Ty(b.n) # TypedArray THEN BadHeader
                     ELSE IF c.code = "none" THEN q ELSE c
                ELSE b
           s == AlignedHead(doc, p)
<1>1. AlignedFrom(p) =
        IF b.code = "none"
        THEN IF ByteWidth(b.n) = 0 \/ Ty(b.n) # TypedArray THEN BadHeader
             ELSE IF c.code = "none"
                  THEN IF q.code = "none" THEN Stores(ElementOf(b.n), q) ELSE q
                  ELSE c
        ELSE b
  BY DEF AlignedFrom, Then
<1>2. Agreed(r, s) /\ (s.code = "none" => s.kind = "Fixed" /\ s.elem = b.n)
  BY AlignedAgrees
<1>3. AlignedFrom(p) = Storing(ElementOf(b.n), r)
  <2> HIDE DEF b, c, q
  <2> QED BY <1>1, RefusalAgrees DEF Storing
<1> HIDE DEF b, r, s
<1>4. s.code = "none" => s.kind # "One" /\ StoredElement(s) = ElementOf(b.n)
  BY <1>2 DEF StoredElement
<1>5. Agreed(Storing(ElementOf(b.n), r), Wanting(s))
  BY <1>2, <1>4, StoresAgree
<1> QED BY <1>3, <1>5 DEF s

\* The head of the array is what the walks over a slice make of it.
LEMMA HeadAgrees ==
  ASSUME beyond \in Beyonds, doc \in Datas
  PROVE  Agreed(HeadFrom(0), SliceForm)
<1> DEFINE a == Byte(0)
           b == ByteAt(doc, 0)
           h == b.n
           mism == Broken("ElementTypeMismatch")
           m == CountAt(doc, 1)
           fixed == IF m.code = "none" THEN Form(m.pos, "Fixed", h, m.n) ELSE m
           f == CASE h = COMPLEX -> ComplexFrom(1)
                  [] h # COMPLEX /\ Ty(h) # TypedArray -> Broken("ExpectedArray")
                  [] Ty(h) = TypedArray /\ Sub(h) = OtherCat ->
                       CASE Count(h) \in {0, 1} -> mism
                         [] Count(h) = 2        -> AlignedFrom(1)
                         [] OTHER               -> BadHeader
                  [] Ty(h) = TypedArray /\ Sub(h) # OtherCat ->
                       IF ByteWidth(h) = 0 THEN BadHeader ELSE Storing(ElementOf(h), SizeFrom(1))
           g == CASE h = COMPLEX -> ComplexHead(doc, 1)
                  [] Ty(h) = TypedArray /\ Sub(h) = OtherCat /\ Count(h) < 2 -> mism
                  [] Ty(h) = TypedArray /\ ~(Sub(h) = OtherCat /\ Count(h) < 2) -> TypedPreamble(doc, 1, h)
                  [] OTHER -> Broken("ExpectedArray")
           f0 == IF a = b THEN f ELSE HeadFrom(0)
<1>1. Alike(a, b) /\ (b.code = "none" => b.pos = 1 /\ h \in Octets)
  BY ByteAlike, ByteAtFacts
<1>2. a = b /\ a.code = "none" => HeadFrom(0) = f
  <2> SUFFICES ASSUME a = b, a.code = "none" PROVE HeadFrom(0) = f
    OBVIOUS
  <2>1. a.pos = 1 /\ a.n = h
    BY <1>1
  <2> HIDE DEF a, b
  <2> QED BY <2>1 DEF HeadFrom, Then, Storing, a
<1>3. SliceHead = IF b.code = "none" THEN g ELSE b
  BY DEF SliceHead, Then
<1>4. SliceForm = Wanting(SliceHead)
  BY DEF SliceForm, Then, Wanting
<1>5. SliceForm = IF b.code = "none" THEN Wanting(g) ELSE b
  <2> HIDE DEF b, g
  <2> QED BY <1>3, <1>4 DEF Wanting
<1>6. HeadFrom(0) = IF a.code = "none" THEN HeadFrom(0) ELSE a
  BY DEF HeadFrom, Then
<1>7. ASSUME a = b, a.code = "none" PROVE Agreed(HeadFrom(0), Wanting(g))
  <2>1. h \in Octets /\ HeadFrom(0) = f
    BY <1>1, <1>2, <1>7
  <2>2. Ty(h) \in 0 .. 7 /\ Sub(h) \in 0 .. 3 /\ Count(h) \in 0 .. 7
    BY <2>1, HeaderFacts
  <2>3. h = COMPLEX => Ty(h) # TypedArray
    BY DEF COMPLEX, Extension, Complex, Ty, TypedArray
  <2>4. Count(h) < 2 <=> Count(h) \in {0, 1}
    BY <2>2
  <2> HIDE DEF h, a, b
  <2>5. CASE h = COMPLEX
    <3>1. f = ComplexFrom(1) /\ g = ComplexHead(doc, 1)
      BY <2>3, <2>5
    <3> QED BY <2>1, <3>1, ComplexAgrees
  <2>6. CASE h # COMPLEX /\ Ty(h) # TypedArray
    <3>1. f = Broken("ExpectedArray") /\ g = Broken("ExpectedArray")
      BY <2>6
    <3>2. Agreed(Broken("ExpectedArray"), Broken("ExpectedArray"))
      BY RefusalAgrees
    <3> QED BY <2>1, <3>1, <3>2, WantingRefused
  <2>7. CASE Ty(h) = TypedArray /\ Sub(h) = OtherCat /\ Count(h) < 2
    <3>1. f = mism /\ g = mism
      BY <2>3, <2>4, <2>7
    <3>2. Agreed(mism, mism)
      BY RefusalAgrees
    <3> QED BY <2>1, <3>1, <3>2, WantingRefused
  <2>8. CASE Ty(h) = TypedArray /\ Sub(h) = OtherCat /\ Count(h) = 2
    <3>1. f = AlignedFrom(1)
      BY <2>3, <2>8
    <3>2. g = TypedPreamble(doc, 1, h)
      BY <2>3, <2>8
    <3>3. TypedPreamble(doc, 1, h) = AlignedHead(doc, 1)
      BY <2>8 DEF TypedPreamble
    <3> QED BY <2>1, <3>1, <3>2, <3>3, AlignedArrayAgrees
  <2>9. CASE Ty(h) = TypedArray /\ Sub(h) = OtherCat /\ Count(h) > 2
    <3>1. f = BadHeader
      BY <2>3, <2>9
    <3>2. g = TypedPreamble(doc, 1, h)
      BY <2>2, <2>3, <2>9
    <3>3. TypedPreamble(doc, 1, h) = BadHeader
      BY <2>9 DEF TypedPreamble
    <3> QED BY <2>1, <3>1, <3>2, <3>3, WantingRefused, RefusalAgrees
  <2>10. CASE Ty(h) = TypedArray /\ Sub(h) # OtherCat
    <3>1. f = IF ByteWidth(h) = 0 THEN BadHeader ELSE Storing(ElementOf(h), SizeFrom(1))
      BY <2>3, <2>10
    <3>2. g = TypedPreamble(doc, 1, h)
      BY <2>3, <2>10
    <3>3. TypedPreamble(doc, 1, h) = IF ByteWidth(h) = 0 THEN BadHeader ELSE fixed
      BY <2>10 DEF TypedPreamble, Then
    <3>4. Agreed(SizeFrom(1), fixed) /\ (fixed.code = "none" => fixed.kind = "Fixed" /\ fixed.elem = h)
      BY CountAgrees
    <3>5. Agreed(Storing(ElementOf(h), SizeFrom(1)), Wanting(fixed))
      <4> HIDE DEF fixed
      <4>1. fixed.code = "none" => fixed.kind # "One" /\ StoredElement(fixed) = ElementOf(h)
        BY <3>4 DEF StoredElement
      <4> QED BY <3>4, <4>1, StoresAgree
    <3> HIDE DEF f, g, fixed
    <3> QED BY <2>1, <3>1, <3>2, <3>3, <3>5, WantingRefused, RefusalAgrees
  <2>11. Count(h) < 2 \/ Count(h) = 2 \/ Count(h) > 2
    BY <2>2
  <2> QED BY <2>5, <2>6, <2>7, <2>8, <2>9, <2>10, <2>11
<1> HIDE DEF a, b, g
<1> QED BY <1>1, <1>5, <1>6, <1>7, ThenAgrees

\* A form that is wanted stands in the document, and a refusal is one of the
\* format's or of the element type.
LEMMA SliceFacts ==
  ASSUME doc \in Datas
  PROVE  /\ SliceForm.code \in Codes \cup {"ElementTypeMismatch"}
         /\ SliceForm.code = "none" =>
              SliceForm.pos \in Nat /\ SliceForm.pos <= Len(doc) /\ SliceForm.n \in Nat
<1> DEFINE b == ByteAt(doc, 0)
           h == b.n
           mism == Broken("ElementTypeMismatch")
           exp == Broken("ExpectedArray")
           s == SliceHead
           g == CASE h = COMPLEX -> ComplexHead(doc, 1)
                  [] Ty(h) = TypedArray /\ Sub(h) = OtherCat /\ Count(h) < 2 -> mism
                  [] Ty(h) = TypedArray /\ ~(Sub(h) = OtherCat /\ Count(h) < 2) -> TypedPreamble(doc, 1, h)
                  [] OTHER -> exp
           Good(f) == /\ f.code \in Codes \cup {"ElementTypeMismatch"}
                      /\ f.code = "none" => f.pos \in Nat /\ f.pos <= Len(doc) /\ f.n \in Nat
<1>1. Took(b, 1, Len(doc)) /\ (b.code = "none" => b.n \in Octets) /\ Len(doc) \in Nat
  BY ByteAtFacts, DataFacts
<1>2. SliceHead = IF b.code = "none" THEN g ELSE b
  BY DEF SliceHead, Then
<1>3. ASSUME NEW f, Took(f, 1, Len(doc)) \/ Took(f, 2, Len(doc)) PROVE Good(f)
  BY <1>1, <1>3 DEF Took
<1>4. Good(mism) /\ Good(exp)
  BY RefusalAgrees, CodesFacts
<1>5. b.code = "none" => Took(ComplexHead(doc, 1), 2, Len(doc)) /\ Took(TypedPreamble(doc, 1, h), 2, Len(doc))
  BY <1>1, ComplexFacts, TypedPreambleFacts DEF Formed
<1>6. b.code = "none" => Good(g)
  <2> SUFFICES ASSUME b.code = "none" PROVE Good(g)
    OBVIOUS
  <2> HIDE DEF Good, b, mism, exp
  <2>1. g = ComplexHead(doc, 1) \/ g = mism \/ g = TypedPreamble(doc, 1, h) \/ g = exp
    <3> HIDE DEF h
    <3> QED OBVIOUS
  <2> HIDE DEF g
  <2> QED BY <1>3, <1>4, <1>5, <2>1
<1>7. Good(s)
  <2>1. Good(b)
    BY <1>1, <1>3
  <2> HIDE DEF Good, b, g
  <2> QED BY <1>2, <1>6, <2>1
<1>8. Good(BadHeader)
  BY RefusalAgrees, CodesFacts
<1>9. SliceForm = Wanting(s)
  BY DEF SliceForm, Then, Wanting
<1>10. Wanting(s) = BadHeader \/ Wanting(s) = mism \/ Wanting(s) = s
  <2> HIDE DEF s
  <2> QED BY DEF Wanting
<1>11. Good(SliceForm)
  <2> HIDE DEF Good, s, mism
  <2> QED BY <1>4, <1>7, <1>8, <1>9, <1>10
<1> QED BY <1>11

-----------------------------------------------------------------------------
(* Elements.                                                               *)

\* Two stretches of a function's values, one after the other.
LEMMA StretchesJoin ==
  ASSUME NEW f, NEW a \in Nat, NEW b \in Nat
  PROVE  [i \in 1 .. a |-> f[i]] \o [i \in 1 .. b |-> f[a + i]] = [i \in 1 .. a + b |-> f[i]]
<1> DEFINE S == {f[i] : i \in 1 .. a + b}
           s == [i \in 1 .. a |-> f[i]]
           t == [i \in 1 .. b |-> f[a + i]]
           u == [i \in 1 .. a + b |-> f[i]]
<1>1. s \in Seq(S) /\ Len(s) = a
  OBVIOUS
<1>2. t \in Seq(S) /\ Len(t) = b
  OBVIOUS
<1>3. u \in Seq(S) /\ Len(u) = a + b
  OBVIOUS
<1>4. \A i \in 1 .. a + b : (s \o t)[i] = u[i]
  <2> SUFFICES ASSUME NEW i \in 1 .. a + b PROVE (s \o t)[i] = u[i]
    OBVIOUS
  <2>1. CASE i <= a
    <3>1. (s \o t)[i] = s[i]
      <4> HIDE DEF s, t, S
      <4> QED BY <1>1, <1>2, <2>1, ConcatProperties
    <3> QED BY <2>1, <3>1
  <2>2. CASE i > a
    <3>1. (s \o t)[i] = t[i - a]
      <4> HIDE DEF s, t, S
      <4>1. ~(i <= Len(s)) /\ i \in 1 .. Len(s) + Len(t)
        BY <1>1, <1>2, <2>2
      <4>2. (s \o t)[i] = IF i <= Len(s) THEN s[i] ELSE t[i - Len(s)]
        BY <1>1, <1>2, <4>1, ConcatProperties
      <4> QED BY <1>1, <4>1, <4>2
    <3>2. i - a \in 1 .. b /\ a + (i - a) = i
      BY <2>2
    <3>3. t[i - a] = f[i]
      BY <3>2
    <3> QED BY <3>1, <3>3
  <2> QED BY <2>1, <2>2
<1>5. s \o t \in Seq(S) /\ Len(s \o t) = a + b
  <2> HIDE DEF s, t, S
  <2> QED BY <1>1, <1>2, ConcatProperties
<1> HIDE DEF s, t, u, S
<1>6. s \o t = u
  BY <1>3, <1>4, <1>5, SeqEqual
<1> QED BY <1>6 DEF s, t, u

\* The elements behind those already read are the next ones.
LEMMA ElementsJoin ==
  ASSUME Width \in Nat, NEW bytes, NEW p \in Nat, NEW a \in Nat, NEW b \in Nat
  PROVE  Elements(bytes, p, a) \o Elements(bytes, p + a * Width, b) = Elements(bytes, p, a + b)
<1> DEFINE w == Width
           f == [i \in 1 .. a + b |-> SubSeq(bytes, p + (i - 1) * w + 1, p + i * w)]
<1>0. w \in Nat
  OBVIOUS
<1> HIDE DEF w
<1>1. Elements(bytes, p, a) = [i \in 1 .. a |-> f[i]]
  <2>1. \A i \in 1 .. a : i \in 1 .. a + b
    OBVIOUS
  <2> QED BY <2>1 DEF Elements, w
<1>2. ASSUME NEW i \in 1 .. b
      PROVE  /\ a + i \in 1 .. a + b
             /\ (p + a * w) + (i - 1) * w + 1 = p + (a + i - 1) * w + 1
             /\ (p + a * w) + i * w = p + (a + i) * w
  <2>1. (a + i) * w = a * w + i * w /\ (a + i - 1) * w = a * w + (i - 1) * w
    BY <1>0, Z3
  <2>2. a * w \in Nat /\ i * w \in Nat /\ (i - 1) * w \in Nat
    <3>1. i \in Nat /\ i - 1 \in Nat
      OBVIOUS
    <3> QED BY <1>0, <3>1
  <2> QED BY <2>1, <2>2
<1>3. Elements(bytes, p + a * w, b) = [i \in 1 .. b |-> f[a + i]]
  <2>1. \A i \in 1 .. b :
          SubSeq(bytes, (p + a * w) + (i - 1) * w + 1, (p + a * w) + i * w) = f[a + i]
    <3> SUFFICES ASSUME NEW i \in 1 .. b
                 PROVE  SubSeq(bytes, (p + a * w) + (i - 1) * w + 1, (p + a * w) + i * w) = f[a + i]
      OBVIOUS
    <3> DEFINE j == a + i
    <3>1. j \in 1 .. a + b
      BY <1>2
    <3> HIDE DEF j
    <3>2. f[j] = SubSeq(bytes, p + (j - 1) * w + 1, p + j * w)
      BY <3>1
    <3>3. /\ (p + a * w) + (i - 1) * w + 1 = p + (j - 1) * w + 1
          /\ (p + a * w) + i * w = p + j * w
      BY <1>2 DEF j
    <3> HIDE DEF f
    <3>4. f[j] = f[a + i]
      BY DEF j
    <3> QED BY <3>2, <3>3, <3>4
  <2>2. Elements(bytes, p + a * w, b) =
          [i \in 1 .. b |-> SubSeq(bytes, (p + a * w) + (i - 1) * w + 1, (p + a * w) + i * w)]
    BY DEF Elements, w
  <2> HIDE DEF f
  <2> QED BY <2>1, <2>2
<1>4. Elements(bytes, p, a + b) = [i \in 1 .. a + b |-> f[i]]
  BY DEF Elements, w
<1> HIDE DEF f
<1>5. Elements(bytes, p, a) \o Elements(bytes, p + a * w, b) = Elements(bytes, p, a + b)
  <2>1. [i \in 1 .. a |-> f[i]] \o [i \in 1 .. b |-> f[a + i]] = [i \in 1 .. a + b |-> f[i]]
    BY StretchesJoin
  <2> QED BY <1>1, <1>3, <1>4, <2>1, Zenon
<1> QED BY <1>5 DEF w

-----------------------------------------------------------------------------
(* The calls.                                                              *)

\* The reader, the document and the vector are of their types.
CallTyped ==
  /\ elem \in DOMAIN Documents
  /\ doc \in Datas /\ Len(doc) <= MaxUsize
  /\ beyond \in Beyonds

\* Before its head the call has read nothing.
AtHead == phase = "head" => pos = 0 /\ data = <<>>

\* Behind it, the vector holds the document's first elements, and what is to come
\* stands where the slice has it.
Behind ==
  /\ SliceForm.code = "none" /\ n = SliceForm.n
  /\ pos = SliceForm.pos + arrived * Width /\ pos <= Len(doc)
  /\ data = Elements(doc, SliceForm.pos, arrived)
AtPayload == phase \in {"room", "read"} => Behind

AInv == PInv /\ CallTyped /\ AtHead /\ AtPayload /\ ReadsWhatASliceHolds

\* What a call that returned says, when a slice gives this.
Told(slice) ==
  \/ result = "Ok" /\ slice.code = "none" /\ len = slice.n /\ data = Elements(doc, slice.pos, slice.n)
  \/ result = "Io" /\ slice.code \in {"none", "UnexpectedEnd"} /\ len = 0
  \/ result # "Ok" /\ result # "Io" /\ result = slice.code /\ len = 0

\* It is all that has to hold of a call that returned.
LEMMA ToldIsRead ==
  ASSUME phase' = "idle" /\ result' \notin {"panic", "fresh"} => Told(OfSlice)'
  PROVE  ReadsWhatASliceHolds'
<1> DEFINE slice == OfSlice'
           T == CASE result' = "Ok" ->
                       slice.code = "none" /\ len' = slice.n /\ data' = Elements(doc, OfSlice.pos, OfSlice.n)'
                  [] result' = "Io" -> slice.code \in {"none", "UnexpectedEnd"} /\ len' = 0
                  [] OTHER -> result' = slice.code /\ len' = 0
<1>1. (phase' = "idle" /\ result' \notin {"panic", "fresh"} => T) => ReadsWhatASliceHolds'
  BY DEF ReadsWhatASliceHolds, Elements
<1>2. Told(OfSlice)' => T
  <2> HIDE DEF slice
  <2>1. CASE result' = "Ok"
    BY <2>1 DEF Told, slice
  <2>2. CASE result' = "Io"
    BY <2>2 DEF Told, slice
  <2>3. CASE result' # "Ok" /\ result' # "Io"
    BY <2>3 DEF Told, slice
  <2> QED BY <2>1, <2>2, <2>3
<1> HIDE DEF T
<1> QED BY <1>1, <1>2

\* The vector's elements have a width.
LEMMA WidthTyped ==
  ASSUME elem \in DOMAIN Documents
  PROVE  Width \in Nat /\ Width > 0
BY ArrayAssumption DEF Width

\* So are the documents a call is made with.
LEMMA DocumentTyped ==
  ASSUME NEW e \in DOMAIN Documents, NEW bytes \in Documents[e].first \cup Documents[e].again
  PROVE  bytes \in Datas /\ Len(bytes) <= MaxUsize
BY ArrayAssumption DEF Datas, Octets

\* What a slice makes of the document depends on it and on the element type alone.
LEMMA SliceSame ==
  ASSUME doc' = doc, elem' = elem
  PROVE  SliceForm' = SliceForm /\ OfSlice' = OfSlice /\ Width' = Width
BY DEF SliceForm, SliceHead, OfSlice, Width, StoredElement, Then

\* What a slice gives once the head is known: where the payload has to end.
LEMMA SlicePayload ==
  ASSUME CallTyped, NEW s, s = SliceForm, s.code = "none", NEW size, size = s.n * Width
  PROVE  /\ size \in Nat
         /\ s.pos + size > Len(doc) => OfSlice = Short
         /\ s.pos + size < Len(doc) => OfSlice.code = "TrailingContent"
         /\ s.pos + size = Len(doc) => OfSlice = s
<1>1. s.pos \in Nat /\ s.pos <= Len(doc) /\ s.n \in Nat
  BY SliceFacts DEF CallTyped
<1>2. Width \in Nat /\ Len(doc) \in Nat /\ Len(doc) <= MaxUsize /\ MaxUsize \in Nat
  BY WidthTyped, DataFacts, LimitsAssumption DEF CallTyped
<1>3. size \in Nat
  BY <1>1, <1>2
<1>4. OfSlice = IF ~Fits(size) \/ s.pos + size > Len(doc) THEN Short
                ELSE IF s.pos + size < Len(doc) THEN Broken("TrailingContent") ELSE s
  BY DEF OfSlice, Then
<1>5. s.pos + size <= Len(doc) => Fits(size)
  BY <1>1, <1>2, <1>3 DEF Fits
<1>6. /\ s.pos + size > Len(doc) => OfSlice = Short
      /\ s.pos + size < Len(doc) => OfSlice = Broken("TrailingContent")
      /\ s.pos + size = Len(doc) => OfSlice = s
  BY <1>1, <1>2, <1>3, <1>4, <1>5
<1> QED BY <1>3, <1>6, RefusalAgrees

\* A head that is refused is refused for the whole document.
LEMMA SliceRefused ==
  ASSUME SliceForm.code # "none"
  PROVE  OfSlice = SliceForm
BY DEF OfSlice, Then

-----------------------------------------------------------------------------
(* Each step.                                                              *)

\* A fresh vector, which has been given nothing.
LEMMA AInitInv == AInit => AInv
<1> SUFFICES ASSUME AInit PROVE AInv
  OBVIOUS
<1>1. Width \in Nat /\ Width > 0 /\ Chunk \in Nat
  BY WidthTyped, ArrayAssumption DEF AInit
<1>2. PInit
  <2>1. Chunk \div Width \in Nat
    BY <1>1
  <2>2. per \in Nat \ {0}
    BY <2>1 DEF AInit, Greater
  <2> QED BY <2>2, ArrayAssumption DEF AInit, PInit
<1>3. PInv
  BY <1>2, InitInv
<1>4. CallTyped
  <2>1. doc = <<>> /\ <<>> \in Datas /\ Len(<<>>) = 0
    BY DEF AInit, Datas
  <2> QED BY <2>1, LimitsAssumption DEF AInit, CallTyped, Beyonds
<1>5. AtHead /\ AtPayload /\ ReadsWhatASliceHolds
  BY DEF AInit, AtHead, AtPayload, ReadsWhatASliceHolds
<1> QED BY <1>3, <1>4, <1>5 DEF AInv

\* read_array_into is entered with a reader of its own.
LEMMA CallStep ==
  ASSUME AInv, NEW bytes \in Documents[elem].first \cup Documents[elem].again,
         NEW after \in Beyonds, CallWith(bytes, after)
  PROVE  AInv' /\ PNext
<1>1. Clear
  BY DEF CallWith
<1>2. PInv'
  BY <1>1, ClearStep DEF AInv
<1>3. CallTyped'
  BY DocumentTyped DEF AInv, CallTyped, CallWith
<1>4. phase' = "head" /\ AtHead'
  BY DEF CallWith, Clear, AtHead
<1>5. AtPayload' /\ ReadsWhatASliceHolds'
  BY <1>4 DEF AtPayload, ReadsWhatASliceHolds
<1> QED BY <1>1, <1>2, <1>3, <1>4, <1>5 DEF AInv, PNext

\* A call that returns, or is unwound, leaves the next one to begin afresh.
LEMMA FaultStep ==
  ASSUME AInv, NEW code, Fault(code),
         \/ code = "panic"
         \/ code = "Io" /\ OfSlice.code \in {"none", "UnexpectedEnd"}
         \/ code # "Io" /\ code # "Ok" /\ code = OfSlice.code
  PROVE  AInv' /\ PNext
<1>1. doc' = doc /\ elem' = elem /\ beyond' = beyond /\ result' = code
  BY DEF Fault
<1>2. Fails \/ Unwinds
  BY DEF Fault
<1>3. PInv' /\ phase' = "idle"
  BY <1>2, EndStep DEF AInv, Fails, Unwinds
<1>4. CallTyped' /\ AtHead' /\ AtPayload'
  BY <1>1, <1>3 DEF AInv, CallTyped, AtHead, AtPayload
<1>5. OfSlice' = OfSlice
  BY <1>1, SliceSame
<1>6. code # "panic" => len' = 0
  BY DEF Fault, Fails
<1>7. result' \notin {"panic", "fresh"} => Told(OfSlice)'
  <2> SUFFICES ASSUME code # "panic" PROVE Told(OfSlice)'
    BY <1>1
  <2>1. CASE code = "Io" /\ OfSlice.code \in {"none", "UnexpectedEnd"}
    BY <1>1, <1>5, <1>6, <2>1 DEF Told
  <2>2. CASE code # "Io" /\ code # "Ok" /\ code = OfSlice.code
    BY <1>1, <1>5, <1>6, <2>2 DEF Told
  <2> QED BY <2>1, <2>2
<1>8. ReadsWhatASliceHolds'
  BY <1>7, ToldIsRead
<1> QED BY <1>2, <1>3, <1>4, <1>8 DEF AInv, PNext

\* The head says where the payload is and how much of it there should be.
LEMMA HeadStep ==
  ASSUME AInv, ReadHead
  PROVE  AInv' /\ PNext
<1> DEFINE h == HeadFrom(pos)
           s == SliceForm
<1>1. phase = "head" /\ pos = 0 /\ data = <<>>
  BY DEF AInv, AtHead, ReadHead
<1>2. CallTyped /\ doc \in Datas /\ beyond \in Beyonds
  BY DEF AInv, CallTyped
<1>3. Agreed(h, s)
  BY <1>1, <1>2, HeadAgrees
<1>4. s.code \in Codes \cup {"ElementTypeMismatch"}
  BY <1>2, SliceFacts
<1>5. CASE h.code # "none"
  <2>1. Fault(h.code)
    BY <1>5 DEF ReadHead
  <2>2. s.code # "none" /\ OfSlice = s
    <3>1. s.code # "none"
      BY <1>3, <1>5 DEF Agreed, CutShort
    <3> QED BY <3>1, SliceRefused
  <2>3. \/ h.code = s.code
        \/ h.code = "Io" /\ s.code = "UnexpectedEnd"
        \/ h.code = "panic"
    BY <1>2, <1>3, <1>5 DEF Agreed, CutShort, Beyonds
  <2>4. \A code \in Codes \cup {"ElementTypeMismatch"} : code # "Io" /\ code # "Ok"
    BY CodesFacts
  <2> HIDE DEF h, s
  <2>5. \/ h.code = "panic"
        \/ h.code = "Io" /\ OfSlice.code \in {"none", "UnexpectedEnd"}
        \/ h.code # "Io" /\ h.code # "Ok" /\ h.code = OfSlice.code
    BY <1>4, <2>2, <2>3, <2>4
  <2> QED BY <2>1, <2>5, FaultStep
<1>6. CASE h.code = "none"
  <2>1. /\ Counted(h.n) /\ pos' = h.pos
        /\ UNCHANGED <<elem, doc, beyond, data, result>>
    BY <1>6 DEF ReadHead
  <2>2. s.code = "none" /\ h.pos = s.pos /\ h.n = s.n
    BY <1>2, <1>3, <1>6 DEF Agreed, CutShort, Beyonds
  <2>3. s.pos \in Nat /\ s.pos <= Len(doc) /\ s.n \in Nat
    BY <1>2, <2>2, SliceFacts
  <2>4. PInv' /\ PNext
    <3>1. h.n \in Nat
      BY <2>2, <2>3
    <3> HIDE DEF h
    <3> QED BY <2>1, <3>1, CountedStep DEF AInv, PNext
  <2>5. CallTyped'
    BY <1>2, <2>1 DEF CallTyped
  <2>6. arrived' = 0 /\ phase' = "room" /\ n' = s.n
    BY <1>1, <2>1, <2>2 DEF AInv, PInv, LoopPlace, Counted
  <2>7. SliceForm' = s /\ Width' = Width /\ doc' = doc
    BY <2>1, SliceSame
  <2>8. data' = Elements(doc, s.pos, 0)
    BY <1>1, <2>1 DEF Elements
  <2>9. Behind'
    <3>1. Width \in Nat
      BY <1>2, WidthTyped DEF CallTyped
    <3>2. Elements(doc, SliceForm.pos, arrived)' = Elements(doc, s.pos, 0)
      BY <2>6, <2>7 DEF Elements
    <3>3. s.pos = s.pos + 0 * Width
      BY <2>3, <3>1
    <3> HIDE DEF s, h
    <3> QED BY <2>1, <2>2, <2>3, <2>6, <2>7, <2>8, <3>2, <3>3 DEF Behind
  <2>10. AtHead' /\ AtPayload' /\ ReadsWhatASliceHolds'
    BY <2>6, <2>9 DEF AtHead, AtPayload, ReadsWhatASliceHolds
  <2> QED BY <2>4, <2>5, <2>10 DEF AInv
<1> QED BY <1>5, <1>6

\* Room changes nothing of what was read.
LEMMA MakeRoomStep ==
  ASSUME AInv, MakeRoom
  PROVE  AInv' /\ PNext
<1>1. Room /\ UNCHANGED <<elem, doc, beyond, pos, data, result>>
  BY DEF MakeRoom
<1>2. PInv' /\ PNext
  BY <1>1, RoomStep DEF AInv, PNext
<1>3. phase = "room" /\ phase' = "read" /\ n' = n /\ arrived' = arrived
  BY <1>1 DEF Room
<1>4. CallTyped'
  BY <1>1 DEF AInv, CallTyped
<1>5. SliceForm' = SliceForm /\ Width' = Width
  BY <1>1, SliceSame
<1>6. Behind'
  <2>1. Behind
    BY <1>3 DEF AInv, AtPayload
  <2> QED BY <1>1, <1>3, <1>5, <2>1 DEF Behind, Elements
<1>7. AtHead' /\ AtPayload' /\ ReadsWhatASliceHolds'
  BY <1>3, <1>6 DEF AtHead, AtPayload, ReadsWhatASliceHolds
<1> QED BY <1>2, <1>4, <1>7 DEF AInv

\* A chunk arrives whole, and is the next of the document's elements; or the
\* reader gave out before the payload's end, where the slice is short too.
LEMMA ChunkStep ==
  ASSUME AInv, ReadChunk
  PROVE  AInv' /\ PNext
<1> DEFINE chunk == len - arrived
           w == Width
           read == Exact(pos, chunk * w)
           s == SliceForm
<1>1. CallTyped /\ PInv /\ phase = "read" /\ Behind
  BY DEF AInv, AtPayload, ReadChunk
<1>2. /\ doc \in Datas /\ Len(doc) \in Nat /\ beyond \in Beyonds /\ w \in Nat
      /\ s.pos \in Nat /\ s.n \in Nat
  BY <1>1, DataFacts, WidthTyped, SliceFacts DEF CallTyped, Behind
<1>3. arrived \in Nat /\ len \in Nat /\ n \in Nat /\ arrived <= len /\ len <= n /\ chunk \in Nat
  BY <1>1 DEF PInv, PTypeOK, LoopPlace, Lesser
<1>4. s.code = "none" /\ n = s.n /\ pos = s.pos + arrived * w /\ data = Elements(doc, s.pos, arrived)
  BY <1>1 DEF Behind
<1>5. /\ pos + chunk * w = s.pos + len * w
      /\ len * w <= n * w /\ len * w \in Nat /\ n * w \in Nat
  <2>1. /\ arrived * w \in Nat /\ chunk * w \in Nat /\ len * w = arrived * w + chunk * w
    <3>1. len = arrived + chunk
      BY <1>3
    <3> HIDE DEF chunk, w
    <3>2. len * w = arrived * w + chunk * w
      BY <1>2, <1>3, <3>1, Z3
    <3>3. arrived * w \in Nat /\ chunk * w \in Nat
      BY <1>2, <1>3
    <3> QED BY <3>2, <3>3
  <2>2. len * w <= n * w /\ len * w \in Nat /\ n * w \in Nat
    <3>1. PICK d \in Nat : n = len + d
      <4>1. n - len \in Nat /\ n = len + (n - len)
        BY <1>3
      <4> QED BY <4>1
    <3> HIDE DEF w
    <3>2. n * w = len * w + d * w
      BY <1>2, <1>3, <3>1, Z3
    <3>3. d * w \in Nat /\ len * w \in Nat
      BY <1>2, <1>3
    <3> QED BY <3>2, <3>3
  <2> HIDE DEF w, chunk, s
  <2> QED BY <1>2, <1>4, <2>1, <2>2
<1>6. read = IF pos + chunk * w <= Len(doc) THEN Got(pos + chunk * w, 0) ELSE Cut
  BY DEF Exact
<1>7. CASE pos + chunk * w > Len(doc)
  <2>1. read = Cut /\ Cut.code # "none"
    <3>1. ~(pos + chunk * w <= Len(doc))
      <4> HIDE DEF w, chunk, s
      <4> QED BY <1>2, <1>5, <1>7
    <3> HIDE DEF read, w, chunk
    <3> QED BY <1>2, <1>6, <3>1, CutFacts
  <2>2. Fault(Cut.code)
    BY <2>1 DEF ReadChunk
  <2>3. s.pos + s.n * w > Len(doc)
    <3> HIDE DEF w, chunk, s
    <3> QED BY <1>2, <1>4, <1>5, <1>7
  <2>4. OfSlice = Short
    BY <1>1, <1>4, <2>3, SlicePayload
  <2>5. \/ Cut.code = "panic"
        \/ Cut.code = "Io" /\ OfSlice.code \in {"none", "UnexpectedEnd"}
        \/ Cut.code # "Io" /\ Cut.code # "Ok" /\ Cut.code = OfSlice.code
    BY <1>2, <2>4, CutFacts DEF Beyonds
  <2> QED BY <2>2, <2>5, FaultStep
<1>8. CASE pos + chunk * w <= Len(doc)
  <2>1. read = [code |-> "none", pos |-> pos + chunk * w, n |-> 0]
    <3> HIDE DEF read, w, chunk
    <3> QED BY <1>6, <1>8 DEF Got
  <2>2. /\ Arrives /\ pos' = pos + chunk * w
        /\ data' = data \o Elements(doc, pos, chunk)
        /\ UNCHANGED <<elem, doc, beyond, result>>
    BY <2>1 DEF ReadChunk
  <2>3. PInv' /\ PNext
    BY <1>1, <2>2, ArrivesStep DEF PNext
  <2>4. phase' = "room" /\ n' = n /\ arrived' = len
    BY <2>2 DEF Arrives
  <2>5. CallTyped'
    BY <1>1, <2>2 DEF CallTyped
  <2>6. SliceForm' = s /\ Width' = w
    BY <2>2, SliceSame
  <2>7. data' = Elements(doc, s.pos, len)
    <3>1. Elements(doc, s.pos, arrived) \o Elements(doc, s.pos + arrived * w, chunk) =
            Elements(doc, s.pos, arrived + chunk)
      <4>1. Width \in Nat /\ s.pos \in Nat /\ arrived \in Nat /\ chunk \in Nat
        BY <1>2, <1>3
      <4> HIDE DEF s, chunk
      <4> QED BY <4>1, ElementsJoin
    <3>2. arrived + chunk = len
      BY <1>3
    <3> HIDE DEF s, w, chunk
    <3> QED BY <1>4, <2>2, <3>1, <3>2
  <2>8. Behind'
    <3>2. pos' = s.pos + len * w
      BY <1>5, <2>2
    <3>3. pos' <= Len(doc')
      BY <1>8, <2>2
    <3>4. doc' = doc /\ elem' = elem
      BY <2>2
    <3> HIDE DEF s, w, chunk, read
    <3>5. data' = Elements(doc', SliceForm'.pos, arrived')
      BY <2>4, <2>6, <2>7, <3>4
    <3>6. Elements(doc, SliceForm.pos, arrived)' = Elements(doc', SliceForm'.pos, arrived')
      BY <3>4 DEF Elements, Width
    <3> QED BY <1>4, <2>4, <2>6, <3>2, <3>3, <3>5, <3>6 DEF Behind
  <2>9. AtHead' /\ AtPayload' /\ ReadsWhatASliceHolds'
    BY <2>4, <2>8 DEF AtHead, AtPayload, ReadsWhatASliceHolds
  <2> QED BY <2>3, <2>5, <2>9 DEF AInv
<1>9. pos + chunk * w > Len(doc) \/ pos + chunk * w <= Len(doc)
  <2> HIDE DEF w, chunk, s
  <2> QED BY <1>2, <1>5
<1> QED BY <1>7, <1>8, <1>9

\* With the whole payload read, only the end of input will do.
LEMMA ConfirmStep ==
  ASSUME AInv, Confirm
  PROVE  AInv' /\ PNext
<1> DEFINE s == SliceForm
           w == Width
<1>1. CallTyped /\ PInv /\ phase = "room" /\ Behind /\ len >= n
  BY DEF AInv, AtPayload, Confirm
<1>2. /\ doc \in Datas /\ Len(doc) \in Nat /\ beyond \in Beyonds
      /\ s.pos \in Nat /\ s.n \in Nat
  BY <1>1, DataFacts, SliceFacts DEF CallTyped, Behind
<1>3. arrived = n /\ len = n /\ n \in Nat
  BY <1>1 DEF PInv, PTypeOK, LoopPlace
<1>4. /\ s.code = "none" /\ n = s.n /\ pos = s.pos + s.n * w /\ pos <= Len(doc)
      /\ data = Elements(doc, s.pos, s.n)
  BY <1>1, <1>3 DEF Behind
<1>5. /\ s.n * w \in Nat
      /\ s.pos + s.n * w < Len(doc) => OfSlice.code = "TrailingContent"
      /\ s.pos + s.n * w = Len(doc) => OfSlice = s
  BY <1>1, <1>4, SlicePayload
<1> HIDE DEF s, w
<1>6. CASE pos < Len(doc)
  <2>1. Fault("TrailingContent")
    <3>1. ~(pos >= Len(doc))
      BY <1>2, <1>4, <1>5, <1>6
    <3> QED BY <1>6, <3>1 DEF Confirm
  <2>2. OfSlice.code = "TrailingContent"
    BY <1>4, <1>5, <1>6
  <2> QED BY <2>1, <2>2, FaultStep
<1>7. CASE pos = Len(doc) /\ beyond # "end"
  <2>1. Fault(beyond)
    BY <1>2, <1>7 DEF Confirm
  <2>2. OfSlice.code = "none"
    BY <1>4, <1>5, <1>7
  <2>3. beyond = "Io" \/ beyond = "panic"
    BY <1>2, <1>7 DEF Beyonds
  <2> QED BY <2>1, <2>2, <2>3, FaultStep
<1>8. CASE pos = Len(doc) /\ beyond = "end"
  <2>1. Completes /\ result' = "Ok" /\ UNCHANGED <<elem, doc, beyond, pos, data>>
    BY <1>2, <1>8 DEF Confirm
  <2>2. PInv' /\ PNext /\ phase' = "idle" /\ len' = len
    BY <1>1, <2>1, EndStep DEF PNext, Completes
  <2>3. CallTyped' /\ AtHead' /\ AtPayload'
    BY <1>1, <2>1, <2>2 DEF CallTyped, AtHead, AtPayload
  <2>4. OfSlice' = s /\ Width' = Width
    <3>1. OfSlice' = OfSlice /\ Width' = Width
      BY <2>1, SliceSame
    <3> QED BY <1>4, <1>5, <1>8, <3>1
  <2>5. Told(OfSlice)'
    <3>1. doc' = doc /\ data' = data /\ len' = s.n
      BY <1>3, <1>4, <2>1, <2>2
    <3>2. Elements(doc, OfSlice.pos, OfSlice.n)' = Elements(doc, s.pos, s.n)
      BY <2>4, <3>1 DEF Elements
    <3> QED BY <1>4, <2>1, <2>4, <3>1, <3>2 DEF Told
  <2>6. ReadsWhatASliceHolds'
    BY <2>5, ToldIsRead
  <2> QED BY <2>2, <2>3, <2>6 DEF AInv
<1>9. pos < Len(doc) \/ pos = Len(doc)
  BY <1>2, <1>4, <1>5
<1> QED BY <1>6, <1>7, <1>8, <1>9

\* Every step of the calls, and what it is to the lengths.
LEMMA ANextStep ==
  ASSUME AInv, [ANext]_avars
  PROVE  AInv' /\ [PNext]_pvars
<1>1. CASE \E bytes \in IF result = "fresh" THEN Documents[elem].first ELSE Documents[elem].again,
             after \in {"end", "Io", "panic"} : CallWith(bytes, after)
  <2>1. PICK bytes \in Documents[elem].first \cup Documents[elem].again, after \in Beyonds :
           CallWith(bytes, after)
    BY <1>1 DEF Beyonds
  <2> QED BY <2>1, CallStep
<1>2. CASE ReadHead
  BY <1>2, HeadStep
<1>3. CASE MakeRoom
  BY <1>3, MakeRoomStep
<1>4. CASE ReadChunk
  BY <1>4, ChunkStep
<1>5. CASE Confirm
  BY <1>5, ConfirmStep
<1>6. CASE UNCHANGED avars
  <2>1. UNCHANGED <<pvars, elem, doc, beyond, pos, data, result>>
    BY <1>6 DEF avars
  <2>2. PInv'
    BY <2>1, PNextStep DEF AInv
  <2>3. SliceForm' = SliceForm /\ OfSlice' = OfSlice /\ Width' = Width
    BY <2>1, SliceSame
  <2>4. CallTyped' /\ AtHead'
    BY <2>1 DEF AInv, CallTyped, AtHead, pvars
  <2>5. AtPayload'
    BY <2>1, <2>3 DEF AInv, AtPayload, Behind, Elements, pvars
  <2>6. ReadsWhatASliceHolds'
    BY <2>1, <2>3 DEF AInv, ReadsWhatASliceHolds, Elements, pvars
  <2> QED BY <2>1, <2>2, <2>4, <2>5, <2>6 DEF AInv
<1> QED BY <1>1, <1>2, <1>3, <1>4, <1>5, <1>6 DEF ANext

-----------------------------------------------------------------------------
\* read_array_into grows its destination as ArrayPayload says: the count its
\* head reports is a number, and every step of it is one of that loop's.
THEOREM ArrayGrows == ASpec => PSpec
<1>1. AInit => PInit
  <2> SUFFICES ASSUME AInit PROVE PInit
    OBVIOUS
  <2>1. Width \in Nat /\ Width > 0 /\ Chunk \in Nat
    BY WidthTyped, ArrayAssumption DEF AInit
  <2>2. Chunk \div Width \in Nat
    BY <2>1
  <2>3. per \in Nat \ {0}
    BY <2>2 DEF AInit, Greater
  <2> QED BY <2>3, ArrayAssumption DEF AInit, PInit
<1>2. AInv /\ [ANext]_avars => AInv' /\ [PNext]_pvars
  BY ANextStep
<1> QED BY AInitInv, <1>1, <1>2, PTL DEF ASpec, PSpec

\* So what is said of the growth is said of read_array_into with its bytes: the
\* unchecked set_len exposes only what was written, within an allocation that
\* what arrived justifies.
THEOREM ArrayBacked == ASpec => []HeldIsBacked
BY ArrayGrows, GrowthBacked, PTL

\* Every array of every element type, in chunks of any size, into a vector that
\* held anything: a call that returns gives what a slice of the same bytes gives,
\* element for element or refusal for refusal, and a reader's own error comes out
\* only where the bytes before it were not refused.
THEOREM ArrayReadsTheSlice == ASpec => []ReadsWhatASliceHolds
<1>1. AInv => ReadsWhatASliceHolds
  BY DEF AInv
<1>2. AInv /\ [ANext]_avars => AInv'
  BY ANextStep
<1> QED BY AInitInv, <1>1, <1>2, PTL DEF ASpec
=============================================================================
