---------------------------- MODULE WindowProofs ----------------------------
(***************************************************************************)
(* What the window guarantees for every stream, every limit, every chunk   *)
(* size and every framer that keeps its contract (StreamWindow), and that  *)
(* the pull reader implements it with memory bounded by the limit and the  *)
(* read size alone (Documents).                                            *)
(***************************************************************************)
EXTENDS Documents, SequenceTheorems, TLAPS


(***************************************************************************)
(* The framer contract, in the form the proofs use it.                     *)
(***************************************************************************)
LEMMA FramerContract ==
  ASSUME NEW n \in Nat, NEW c \in 0 .. n, NEW ended \in BOOLEAN,
         NEW out \in FramerOutcomes(n, c, ended)
  PROVE  /\ out.kind \in {"need", "item", "end", "fail"}
         /\ out.kind = "fail" => out.code \in Codes
         /\ out.cursor \in c .. n
         /\ out.start \in c .. n
         /\ out.end \in out.start .. n
         /\ out.kind = "need" => ~ended /\ out.start = out.cursor /\ out.end = n
         /\ out.kind = "item" => out.start <= out.end /\ out.end <= out.cursor
<1>1. CASE out \in {Outcome("need", "none", d, d, n) : d \in IF ended THEN {} ELSE c .. n}
  <2>1. ~ended /\ \E d \in c .. n : out = Outcome("need", "none", d, d, n)
    BY <1>1
  <2>2. QED BY <2>1 DEF Outcome
<1>2. CASE out \in IF ended THEN {Outcome("end", "none", n, n, n)} ELSE {}
  <2>1. out = Outcome("end", "none", n, n, n)
    BY <1>2
  <2>2. QED BY <2>1 DEF Outcome
<1>3. CASE out \in {Outcome("fail", code, d, at, at) :
                      code \in Codes, d \in c .. n, at \in c .. n}
  <2>1. \E code \in Codes, d \in c .. n, at \in c .. n : out = Outcome("fail", code, d, at, at)
    BY <1>3
  <2>2. QED BY <2>1 DEF Outcome
<1>4. CASE out \in {o \in {Outcome("item", "none", d, s, e) :
                             d \in c .. n, s \in c .. n, e \in c .. n} :
                      o.start < n /\ o.start <= o.end /\ o.end <= o.cursor}
  <2>1. /\ \E d \in c .. n, s \in c .. n, e \in c .. n : out = Outcome("item", "none", d, s, e)
        /\ out.start <= out.end /\ out.end <= out.cursor
    BY <1>4
  <2>2. QED BY <2>1 DEF Outcome
<1>5. QED BY <1>1, <1>2, <1>3, <1>4 DEF FramerOutcomes

(***************************************************************************)
(* A batch of bytes is a sequence of bytes.                                *)
(***************************************************************************)
LEMMA BatchIsSequence ==
  ASSUME NEW n \in Int, NEW bytes \in BytesUpTo(n)
  PROVE  bytes \in Seq(Byte) /\ Len(bytes) \in 0 .. n
<1>1. PICK k \in 0 .. n : bytes \in [1 .. k -> Byte]
  BY DEF BytesUpTo
<1>2. QED BY <1>1

LEMMA Appending ==
  ASSUME NEW S, NEW s \in Seq(S), NEW t \in Seq(S)
  PROVE  /\ s \o t \in Seq(S)
         /\ Len(s \o t) = Len(s) + Len(t)
         /\ \A i \in 1 .. Len(s) : (s \o t)[i] = s[i]
         /\ \A i \in 1 .. Len(t) : (s \o t)[Len(s) + i] = t[i]
OBVIOUS

(***************************************************************************)
(* Two ways a tail stays a tail: bytes arriving at the end of both, and    *)
(* bytes dropped from its front with the offset moved up by as many.       *)
(***************************************************************************)
LEMMA TailGrows ==
  ASSUME NEW S, NEW s \in Seq(S), NEW b \in Seq(S), NEW t \in Seq(S),
         NEW o \in Nat, IsTail(b, s, o)
  PROVE  IsTail(b \o t, s \o t, o)
<1>1. Len(b) \in Nat /\ Len(s) \in Nat /\ Len(t) \in Nat /\ o + Len(b) = Len(s)
  BY DEF IsTail
<1>2. Len(b \o t) = Len(b) + Len(t) /\ Len(s \o t) = Len(s) + Len(t)
  BY Appending
<1>3. ASSUME NEW i \in 1 .. Len(b \o t) PROVE (b \o t)[i] = (s \o t)[o + i]
  <2>1. CASE i \in 1 .. Len(b)
    <3>1. b[i] = s[o + i] BY <2>1 DEF IsTail
    <3>2. o + i \in 1 .. Len(s) BY <1>1, <2>1
    <3>3. QED BY <2>1, <3>1, <3>2, Appending
  <2>2. CASE i \notin 1 .. Len(b)
    <3>1. PICK j \in 1 .. Len(t) : i = Len(b) + j
      <4>1. i - Len(b) \in 1 .. Len(t) BY <1>1, <1>2, <2>2
      <4>2. i = Len(b) + (i - Len(b)) BY <1>1, <1>2
      <4>3. QED BY <4>1, <4>2
    <3>2. (b \o t)[i] = t[j] BY <3>1, Appending
    <3>3. o + i = Len(s) + j BY <1>1, <3>1
    <3>4. (s \o t)[o + i] = t[j] BY <3>3, Appending
    <3>5. QED BY <3>2, <3>4
  <2>3. QED BY <2>1, <2>2
<1>4. o + Len(b \o t) = Len(s \o t)
  BY <1>1, <1>2
<1>5. QED BY <1>3, <1>4 DEF IsTail

LEMMA TailShrinks ==
  ASSUME NEW S, NEW s \in Seq(S), NEW b \in Seq(S), NEW o \in Nat,
         NEW d \in 0 .. Len(b), IsTail(b, s, o)
  PROVE  /\ SubSeq(b, d + 1, Len(b)) \in Seq(S)
         /\ Len(SubSeq(b, d + 1, Len(b))) = Len(b) - d
         /\ IsTail(SubSeq(b, d + 1, Len(b)), s, o + d)
<1> DEFINE v == SubSeq(b, d + 1, Len(b))
<1>1. Len(b) \in Nat /\ d \in Nat /\ Len(s) \in Nat /\ o + Len(b) = Len(s)
  BY DEF IsTail
<1>2. v \in Seq(S) /\ Len(v) = Len(b) - d /\ \A i \in 1 .. Len(b) - d : v[i] = b[d + i]
  BY <1>1
<1> HIDE DEF v
<1>3. (o + d) + Len(v) = Len(s)
  <2>1. Len(v) = Len(b) - d BY <1>2
  <2>2. (o + d) + (Len(b) - d) = Len(s) BY <1>1
  <2>3. QED BY <2>1, <2>2, Zenon
<1>4. ASSUME NEW i \in 1 .. Len(v) PROVE v[i] = s[(o + d) + i]
  <2>1. d + i \in 1 .. Len(b) /\ o + (d + i) = (o + d) + i
    BY <1>1, <1>2
  <2>2. b[d + i] = s[o + (d + i)]
    BY <2>1 DEF IsTail
  <2>3. QED BY <1>2, <2>1, <2>2
<1>5. IsTail(v, s, o + d)
  BY <1>3, <1>4 DEF IsTail
<1>6. QED BY <1>2, <1>5 DEF v

(***************************************************************************)
(* Compaction keeps the window on the stream: what locate works on is      *)
(* still the tail of the stream, and the offset does not move.             *)
(***************************************************************************)
LEMMA CompactionKeepsPlace ==
  ASSUME TypeOK, WindowOfStream, ~failed
  PROVE  /\ View \in Seq(Byte) /\ Len(View) \in Nat /\ Len(View) <= Len(buf)
         /\ ViewCursor \in 0 .. Len(View)
         /\ ViewOrigin \in Nat
         /\ ViewOrigin + ViewCursor = Offset
         /\ Len(View) - ViewCursor = Len(buf) - cursor
         /\ IsTail(View, stream, ViewOrigin)
<1>1. /\ buf \in Seq(Byte) /\ Len(buf) \in Nat /\ cursor \in 0 .. Len(buf) /\ origin \in Nat
      /\ stream \in Seq(Byte) /\ IsTail(buf, stream, origin)
  BY DEF TypeOK, WindowOfStream
<1>2. CASE ~Compacts
  BY <1>1, <1>2 DEF View, ViewCursor, ViewOrigin, Offset
<1>3. CASE Compacts
  <2>1. View = SubSeq(buf, cursor + 1, Len(buf))
    BY <1>3 DEF View
  <2>2. ViewCursor = 0 /\ ViewOrigin = origin + cursor
    BY <1>3 DEF ViewCursor, ViewOrigin
  <2>3. View \in Seq(Byte) /\ Len(View) = Len(buf) - cursor /\ IsTail(View, stream, origin + cursor)
    BY <1>1, <2>1, TailShrinks
  <2>4. /\ Len(View) \in Nat /\ Len(View) <= Len(buf)
        /\ ViewCursor \in 0 .. Len(View) /\ ViewOrigin \in Nat
        /\ Len(View) - ViewCursor = Len(buf) - cursor
    BY <1>1, <2>2, <2>3
  <2>5. ViewOrigin + ViewCursor = Offset
    BY <1>1, <2>2 DEF Offset
  <2>6. QED BY <2>2, <2>3, <2>4, <2>5
<1>4. QED BY <1>2, <1>3

-----------------------------------------------------------------------------
(***************************************************************************)
(* The inductive invariant.  The buffer's place in the stream needs the    *)
(* cursor inside the buffer (else compaction would take a negative tail),  *)
(* the memory claim needs the length below what is initialized, and the    *)
(* report is tied to the failed flag.                                      *)
(***************************************************************************)
Inv == TypeOK /\ WindowOfStream /\ ExposesOnlyInitialized /\ FailureReportedOnce

LEMMA InitInv == Init => Inv
<1> SUFFICES ASSUME Init PROVE Inv
  OBVIOUS
<1> USE DEF Init
<1>1. TypeOK
  <2>1. stream \in Seq(Byte) /\ buf \in Seq(Byte)
    OBVIOUS
  <2>2. /\ cursor \in Nat /\ origin \in Nat /\ inited \in Nat /\ alloc \in Nat
        /\ eof \in BOOLEAN /\ failed \in BOOLEAN
    OBVIOUS
  <2>3. last \in [kind : Answers, start : Nat, end : Nat]
    BY DEF Answers
  <2>4. reports \in Seq([code : Codes \cup {"DocumentTooLarge"}, at : Nat])
    OBVIOUS
  <2>5. QED BY <2>1, <2>2, <2>3, <2>4 DEF TypeOK
<1>2. WindowOfStream
  BY DEF WindowOfStream, IsTail
<1>3. ExposesOnlyInitialized /\ FailureReportedOnce
  BY DEF ExposesOnlyInitialized, FailureReportedOnce
<1>4. QED BY <1>1, <1>2, <1>3 DEF Inv

\* The slice fill hands to the reader is initialized throughout.
LEMMA ExposeIsInitialized ==
  ASSUME TypeOK, WindowOfStream, ExposesOnlyInitialized, ~failed, Expose
  PROVE  /\ Want \in Nat /\ Len(buf) < Want
         /\ inited' \in Nat /\ alloc' \in Nat
         /\ inited' <= alloc' /\ Want <= alloc'
<1>1. /\ Len(buf) \in Nat /\ cursor \in Nat /\ cursor <= Len(buf)
      /\ inited \in Nat /\ alloc \in Nat /\ inited <= alloc
      /\ Buffered = Len(buf) - cursor
  BY DEF TypeOK, WindowOfStream, ExposesOnlyInitialized, Buffered
<1>2. Want \in Nat /\ Len(buf) < Want
  BY <1>1, ConstantsAssumption DEF Want, Smaller, Larger
<1>3. CASE Want > inited
  <2>1. inited' = Want /\ alloc' \in {Want, Larger(alloc, Want)}
    BY <1>3 DEF Expose, Grow
  <2>2. QED BY <1>1, <1>2, <2>1 DEF Larger
<1>4. CASE ~(Want > inited)
  <2>1. inited' = inited /\ alloc' = alloc
    BY <1>4 DEF Expose
  <2>2. QED BY <1>1, <1>2, <1>4, <2>1
<1>5. QED BY <1>3, <1>4

\* Arriving bytes: shared by extend and fill.
LEMMA ArrivalStep ==
  ASSUME Inv, ~failed, NEW bytes \in Seq(Byte),
         stream' = stream \o bytes, buf' = buf \o bytes,
         UNCHANGED <<cursor, origin, eof, failed, last, reports>>,
         inited' \in Nat, alloc' \in Nat, inited' <= alloc',
         Len(buf) + Len(bytes) <= alloc'
  PROVE  Inv'
<1>1. /\ buf \in Seq(Byte) /\ stream \in Seq(Byte) /\ cursor \in Nat /\ origin \in Nat
      /\ cursor <= Len(buf) /\ IsTail(buf, stream, origin)
  BY DEF Inv, TypeOK, WindowOfStream
<1>2. /\ buf' \in Seq(Byte) /\ Len(buf') = Len(buf) + Len(bytes)
      /\ stream' \in Seq(Byte) /\ Len(stream') = Len(stream) + Len(bytes)
  BY <1>1, Appending
<1>3. TypeOK'
  BY <1>2 DEF Inv, TypeOK
<1>4. WindowOfStream'
  <2>1. IsTail(buf', stream', origin')
    BY <1>1, TailGrows
  <2>2. cursor' <= Len(buf')
    BY <1>1, Appending
  <2>3. QED BY <2>1, <2>2 DEF WindowOfStream
<1>5. ExposesOnlyInitialized'
  BY <1>2 DEF ExposesOnlyInitialized
<1>6. FailureReportedOnce'
  BY DEF Inv, FailureReportedOnce
<1>7. QED BY <1>3, <1>4, <1>5, <1>6 DEF Inv

LEMMA ExtendStep ==
  ASSUME Inv, NEW bytes \in Seq(Byte), Extend(bytes)
  PROVE  Inv'
<1>1. Len(buf) \in Nat /\ Len(bytes) \in Nat /\ alloc \in Nat
  BY DEF Inv, TypeOK
<1>2. /\ ~failed /\ stream' = stream \o bytes /\ buf' = buf \o bytes
      /\ UNCHANGED <<cursor, origin, eof, failed, last, reports>>
      /\ inited' = Len(buf) + Len(bytes)
      /\ alloc' \in {Len(buf) + Len(bytes), Larger(alloc, Len(buf) + Len(bytes))}
  BY DEF Extend, Grow
<1>3. inited' \in Nat /\ alloc' \in Nat /\ inited' <= alloc' /\ Len(buf) + Len(bytes) <= alloc'
  BY <1>1, <1>2 DEF Larger
<1>4. QED BY <1>2, <1>3, ArrivalStep

LEMMA FillBytesStep ==
  ASSUME Inv, CanFill, NEW bytes \in Seq(Byte), FillBytes(bytes)
  PROVE  Inv'
<1>1. Len(buf) \in Nat /\ Len(bytes) \in Nat
  BY DEF Inv, TypeOK
<1>2. /\ ~failed /\ stream' = stream \o bytes /\ buf' = buf \o bytes
      /\ UNCHANGED <<cursor, origin, eof, failed, last, reports>>
      /\ Expose /\ Len(bytes) \in 1 .. Want - Len(buf)
  BY DEF FillBytes, CanFill
<1>3. Want \in Nat /\ inited' \in Nat /\ alloc' \in Nat /\ inited' <= alloc' /\ Want <= alloc'
  BY <1>2, ExposeIsInitialized DEF Inv
<1>4. Len(buf) + Len(bytes) <= alloc'
  BY <1>1, <1>2, <1>3
<1>5. QED BY <1>2, <1>3, <1>4, ArrivalStep

\* A read that delivers nothing: the length is put back, memory stays known.
LEMMA FillNothingStep ==
  ASSUME Inv, CanFill, FillEof \/ FillError
  PROVE  Inv'
<1>1. /\ ~failed /\ Expose /\ eof' \in BOOLEAN
      /\ UNCHANGED <<stream, buf, cursor, origin, failed, last, reports>>
  BY DEF FillEof, FillError, CanFill, Inv, TypeOK
<1>2. /\ Want \in Nat /\ Len(buf) < Want /\ inited' \in Nat /\ alloc' \in Nat
      /\ inited' <= alloc' /\ Want <= alloc' /\ Len(buf) \in Nat
  BY <1>1, ExposeIsInitialized DEF Inv, TypeOK
<1>3. TypeOK'
  BY <1>1, <1>2 DEF Inv, TypeOK
<1>4. WindowOfStream' /\ FailureReportedOnce'
  BY <1>1 DEF Inv, WindowOfStream, FailureReportedOnce
<1>5. ExposesOnlyInitialized'
  BY <1>1, <1>2 DEF ExposesOnlyInitialized
<1>6. QED BY <1>3, <1>4, <1>5 DEF Inv

\* The heart of the window: compaction, the framer and the limit in one step.
LEMMA TryNextStep ==
  ASSUME Inv, NEW out \in FramerOutcomes(Len(View), ViewCursor, eof), TryNext(out)
  PROVE  Inv' /\ AnswerPastOffset
<1> DEFINE tooLarge == out.kind # "fail" /\ out.end - out.start > Limit
           dies     == out.kind = "fail" \/ tooLarge
           report   == [code |-> IF tooLarge THEN "DocumentTooLarge" ELSE out.code,
                        at   |-> ViewOrigin + out.start]
<1>1. /\ ~failed /\ UNCHANGED <<stream, eof>>
      /\ cursor' = out.cursor /\ origin' = ViewOrigin /\ failed' = dies
      /\ buf' = IF dies THEN <<>> ELSE View
      /\ inited' = IF dies THEN 0 ELSE inited
      /\ alloc' = IF dies THEN 0 ELSE alloc
      /\ last' = [kind |-> IF dies THEN "error" ELSE out.kind,
                  start |-> ViewOrigin + out.start, end |-> ViewOrigin + out.end]
      /\ reports' = IF dies THEN Append(reports, report) ELSE reports
  BY DEF TryNext
<1>2. /\ View \in Seq(Byte) /\ Len(View) \in Nat /\ Len(View) <= Len(buf)
      /\ ViewCursor \in 0 .. Len(View) /\ ViewOrigin \in Nat
      /\ ViewOrigin + ViewCursor = Offset /\ IsTail(View, stream, ViewOrigin)
  BY <1>1, CompactionKeepsPlace DEF Inv
<1>3. /\ out.kind \in {"need", "item", "end", "fail"}
      /\ out.kind = "fail" => out.code \in Codes
      /\ out.cursor \in ViewCursor .. Len(View)
      /\ out.start \in ViewCursor .. Len(View)
      /\ out.end \in out.start .. Len(View)
      /\ out.kind = "item" => out.end <= out.cursor
  BY <1>2, FramerContract DEF Inv, TypeOK
<1>4. out.cursor \in Nat /\ out.start \in Nat /\ out.end \in Nat
  BY <1>2, <1>3
<1>5. /\ dies \in BOOLEAN
      /\ ~dies => out.kind # "fail"
      /\ dies => report \in [code : Codes \cup {"DocumentTooLarge"}, at : Nat]
  <2>1. dies \in BOOLEAN /\ (~dies => out.kind # "fail")
    OBVIOUS
  <2>2. ViewOrigin + out.start \in Nat
    BY <1>2, <1>4
  <2>3. CASE dies
    <3>1. tooLarge \/ (~tooLarge /\ out.code \in Codes)
      BY <1>3, <2>3
    <3>2. QED BY <2>1, <2>2, <3>1
  <2>4. QED BY <2>1, <2>3
<1> HIDE DEF dies, tooLarge
<1>6. TypeOK'
  <2>1. buf' \in Seq(Byte) /\ stream' \in Seq(Byte)
    BY <1>1, <1>2 DEF Inv, TypeOK
  <2>2. last' \in [kind : Answers, start : Nat, end : Nat]
    <3>1. (IF dies THEN "error" ELSE out.kind) \in Answers
      BY <1>3, <1>5 DEF Answers
    <3>2. ViewOrigin + out.start \in Nat /\ ViewOrigin + out.end \in Nat
      BY <1>2, <1>4
    <3>3. QED BY <1>1, <3>1, <3>2
  <2>3. reports' \in Seq([code : Codes \cup {"DocumentTooLarge"}, at : Nat])
    <3>1. reports \in Seq([code : Codes \cup {"DocumentTooLarge"}, at : Nat])
      BY DEF Inv, TypeOK
    <3>2. CASE dies
      BY <1>1, <1>5, <3>1, <3>2
    <3>3. CASE ~dies
      BY <1>1, <3>1, <3>3
    <3>4. QED BY <3>2, <3>3
  <2>4. /\ cursor' \in Nat /\ origin' \in Nat /\ inited' \in Nat /\ alloc' \in Nat
        /\ eof' \in BOOLEAN /\ failed' \in BOOLEAN
    BY <1>1, <1>2, <1>4, <1>5 DEF Inv, TypeOK
  <2>5. QED BY <2>1, <2>2, <2>3, <2>4 DEF TypeOK
<1>7. WindowOfStream'
  BY <1>1, <1>2, <1>3 DEF WindowOfStream
<1>8. ExposesOnlyInitialized'
  BY <1>1, <1>2 DEF ExposesOnlyInitialized, Inv, TypeOK
<1>9. FailureReportedOnce'
  <2>1. reports \in Seq([code : Codes \cup {"DocumentTooLarge"}, at : Nat]) /\ Len(reports) = 0
    BY <1>1 DEF Inv, TypeOK, FailureReportedOnce
  <2>2. CASE ~dies
    BY <1>1, <2>1, <2>2 DEF FailureReportedOnce
  <2>3. CASE dies
    <3>1. reports' = Append(reports, report) /\ Len(reports') = 1 /\ reports'[1] = report
      BY <1>1, <1>5, <2>1, <2>3
    <3>2. ViewOrigin + out.start <= Len(stream)
      BY <1>2, <1>3, <1>4 DEF IsTail, Inv, TypeOK
    <3>3. QED BY <1>1, <2>3, <3>1, <3>2 DEF FailureReportedOnce
  <2>4. QED BY <2>2, <2>3
<1>10. AnswerPastOffset
  <2>1. last'.start = ViewOrigin + out.start /\ last'.end = ViewOrigin + out.end
    BY <1>1
  <2>2. last'.start >= Offset
    BY <1>2, <1>3, <2>1
  <2>3. last'.kind = "item" => out.kind = "item"
    BY <1>1
  <2>4. last'.kind = "item" => last'.end <= Offset'
    BY <1>1, <1>2, <1>3, <1>4, <2>1, <2>3 DEF Offset
  <2>5. QED BY <2>2, <2>4 DEF AnswerPastOffset
<1>11. QED BY <1>6, <1>7, <1>8, <1>9, <1>10 DEF Inv

-----------------------------------------------------------------------------
(***************************************************************************)
(* Every step preserves the invariant and gives its answer in order.       *)
(***************************************************************************)
LEMMA NextStep ==
  ASSUME Inv, [Next]_vars
  PROVE  /\ Inv'
         /\ AnswerPastOffset \/ UNCHANGED vars
         /\ DeadStaysDead
<1>1. ASSUME NEW bytes \in BytesUpTo(MaxStream - Len(stream)), Extend(bytes)
      PROVE  Inv' /\ AnswerPastOffset /\ DeadStaysDead
  <2>1. bytes \in Seq(Byte)
    <3>1. MaxStream - Len(stream) \in Int
      BY ConstantsAssumption DEF Inv, TypeOK
    <3>2. QED BY <3>1, BatchIsSequence
  <2>2. Inv'
    BY <1>1, <2>1, ExtendStep
  <2>3. QED BY <1>1, <2>2 DEF Extend, AnswerPastOffset, DeadStaysDead
<1>2. ASSUME SetEof
      PROVE  Inv' /\ AnswerPastOffset /\ DeadStaysDead
  <2>1. Inv'
    BY <1>2 DEF SetEof, Inv, TypeOK, WindowOfStream, ExposesOnlyInitialized, FailureReportedOnce
  <2>2. QED BY <1>2, <2>1 DEF SetEof, AnswerPastOffset, DeadStaysDead, Inv, WindowOfStream
<1>3. ASSUME NEW out \in FramerOutcomes(Len(View), ViewCursor, eof), TryNext(out)
      PROVE  Inv' /\ AnswerPastOffset /\ DeadStaysDead
  BY <1>3, TryNextStep DEF TryNext, DeadStaysDead
<1>4. ASSUME TryNextDead
      PROVE  Inv' /\ AnswerPastOffset /\ DeadStaysDead
  <2>1. Offset \in Nat /\ last' \in [kind : Answers, start : Nat, end : Nat]
    BY <1>4 DEF TryNextDead, Offset, Inv, TypeOK, Answers
  <2>2. Inv'
    BY <1>4, <2>1 DEF TryNextDead, Inv, TypeOK, WindowOfStream, ExposesOnlyInitialized, FailureReportedOnce
  <2>3. QED BY <1>4, <2>2 DEF TryNextDead, AnswerPastOffset, DeadStaysDead, Inv, WindowOfStream
<1>5. ASSUME CanFill, NEW bytes \in BytesUpTo(Chunk), FillBytes(bytes)
      PROVE  Inv' /\ AnswerPastOffset /\ DeadStaysDead
  <2>1. bytes \in Seq(Byte)
    BY BatchIsSequence, ConstantsAssumption
  <2>2. Inv'
    BY <1>5, <2>1, FillBytesStep
  <2>3. QED BY <1>5, <2>2 DEF FillBytes, CanFill, AnswerPastOffset, DeadStaysDead
<1>6. ASSUME CanFill, FillEof \/ FillError
      PROVE  Inv' /\ AnswerPastOffset /\ DeadStaysDead
  BY <1>6, FillNothingStep DEF FillEof, FillError, CanFill, AnswerPastOffset, DeadStaysDead
<1>7. CASE UNCHANGED vars
  BY <1>7 DEF vars, Inv, TypeOK, WindowOfStream, ExposesOnlyInitialized, FailureReportedOnce,
              DeadStaysDead
<1>8. QED BY <1>1, <1>2, <1>3, <1>4, <1>5, <1>6, <1>7 DEF Next

THEOREM Invariance == Spec => []Inv
<1>1. Inv /\ [Next]_vars => Inv'
  BY NextStep
<1>2. QED BY <1>1, InitInv, PTL DEF Spec

(***************************************************************************)
(* Type correctness, for every value of the constants.                     *)
(***************************************************************************)
THEOREM TypeCorrect == Spec => []TypeOK
BY Invariance, PTL DEF Inv

(***************************************************************************)
(* The window is a lossless view of the stream: see WindowOfStream.        *)
(***************************************************************************)
THEOREM WindowIsLossless == Spec => []WindowOfStream
BY Invariance, PTL DEF Inv

(***************************************************************************)
(* Documents::into_parts is lossless: the unread bytes are the rest of the *)
(* stream from the reported offset.                                        *)
(***************************************************************************)
LEMMA UnreadIsTail ==
  ASSUME Inv
  PROVE  UnreadIsTheRest
<1>1. CASE failed
  BY <1>1 DEF UnreadIsTheRest, Unread, Buffered
<1>2. CASE ~failed
  <2>1. /\ buf \in Seq(Byte) /\ stream \in Seq(Byte) /\ origin \in Nat
        /\ cursor \in 0 .. Len(buf) /\ IsTail(buf, stream, origin)
    BY <1>2 DEF Inv, TypeOK, WindowOfStream
  <2> DEFINE u == SubSeq(buf, cursor + 1, Len(buf))
             r == SubSeq(stream, (origin + cursor) + 1, Len(stream))
  <2>2. u \in Seq(Byte) /\ Len(u) = Len(buf) - cursor /\ IsTail(u, stream, origin + cursor)
    BY <2>1, TailShrinks
  <2>3. Len(stream) \in Nat /\ origin + cursor \in 0 .. Len(stream)
    BY <2>1 DEF IsTail
  <2>4. /\ r \in Seq(Byte) /\ Len(r) = Len(stream) - (origin + cursor)
        /\ \A i \in 1 .. Len(r) : r[i] = stream[(origin + cursor) + i]
    BY <2>1, <2>3
  <2> HIDE DEF u, r
  <2>5. Len(u) \in Nat /\ Len(u) = Len(r) /\ \A i \in 1 .. Len(u) : u[i] = r[i]
    BY <2>1, <2>2, <2>3, <2>4 DEF IsTail
  <2>6. u = r
    BY <2>2, <2>4, <2>5, SeqEqual
  <2>7. Len(u) = Buffered
    BY <1>2, <2>2 DEF Buffered
  <2>8. QED BY <1>2, <2>6, <2>7 DEF u, r, UnreadIsTheRest, Unread, Offset
<1>3. QED BY <1>1, <1>2

THEOREM UnreadIsLossless == Spec => []UnreadIsTheRest
BY Invariance, UnreadIsTail, PTL

(***************************************************************************)
(* No unchecked set_len exposes uninitialized memory.                      *)
(***************************************************************************)
THEOREM MemorySafe == Spec => []ExposesOnlyInitialized
BY Invariance, PTL DEF Inv

(***************************************************************************)
(* One framing failure is reported, once, at a place that exists.          *)
(***************************************************************************)
THEOREM ReportedOnce == Spec => []FailureReportedOnce
BY Invariance, PTL DEF Inv

(***************************************************************************)
(* After a failure the window stays silent and takes nothing.              *)
(***************************************************************************)
THEOREM FailureTerminal == Spec => FailureIsTerminal
<1>1. Inv /\ [Next]_vars => [DeadStaysDead]_vars
  BY NextStep
<1>2. QED BY <1>1, Invariance, PTL DEF Spec, FailureIsTerminal

(***************************************************************************)
(* Values and failures come out in stream order and never overlap.         *)
(***************************************************************************)
THEOREM InOrder == Spec => AnswersInOrder
<1>1. Inv /\ [Next]_vars => [AnswerPastOffset]_vars
  BY NextStep
<1>2. QED BY <1>1, Invariance, PTL DEF Spec, AnswersInOrder

-----------------------------------------------------------------------------
(***************************************************************************)
(* The pull reader.                                                        *)
(***************************************************************************)


(***************************************************************************)
(* The loop's own part of the invariant.  It reads only after the window   *)
(* starved within the limit; what it holds is then at most a byte over;    *)
(* and between reads the dead prefix is smaller than the live bytes, so    *)
(* only the chunk just read comes on top of twice the limit.               *)
(***************************************************************************)
LoopInv ==
  /\ pc \in {"idle", "try", "fill"}
  /\ pc = "fill" => CanFill
  /\ HeldWithinLimit
  /\ pc # "try" => Len(buf) <= 2 * Limit + 1
  /\ FootprintBounded

DInv == Inv /\ LoopInv

LEMMA DInitInv == DInit => DInv
<1> SUFFICES ASSUME DInit PROVE DInv
  OBVIOUS
<1>1. Inv
  BY InitInv DEF DInit
<1>2. LoopInv
  BY ConstantsAssumption DEF DInit, Init, LoopInv, HeldWithinLimit, FootprintBounded, Buffered
<1>3. QED BY <1>1, <1>2 DEF DInv

(***************************************************************************)
(* What a read adds: at most the chunk, and at most one byte over the      *)
(* limit.                                                                  *)
(***************************************************************************)
LEMMA ReadIsClipped ==
  ASSUME DInv, pc = "fill"
  PROVE  /\ ~failed /\ Want \in Nat /\ Len(buf) \in Nat /\ cursor \in 0 .. Len(buf)
         /\ Want - Len(buf) <= Chunk
         /\ Want - cursor <= Limit + 1
<1>1. /\ ~failed /\ Len(buf) \in Nat /\ cursor \in 0 .. Len(buf)
      /\ Buffered = Len(buf) - cursor /\ Buffered <= Limit
  BY DEF DInv, LoopInv, CanFill, HeldWithinLimit, Inv, TypeOK, WindowOfStream, Buffered
<1>2. QED BY <1>1, ConstantsAssumption DEF Want, Smaller, Larger

(***************************************************************************)
(* What appending does to the rest of a sequence.                          *)
(***************************************************************************)
LEMMA AddedIsTheRest ==
  ASSUME NEW S, NEW s \in Seq(S), NEW t \in Seq(S)
  PROVE  SubSeq(s \o t, Len(s) + 1, Len(s \o t)) = t
<1>1. /\ Len(s) \in Nat /\ Len(t) \in Nat /\ Len(s \o t) = Len(s) + Len(t)
      /\ (s \o t) \in Seq(S)
  BY Appending
<1> DEFINE u == SubSeq(s \o t, Len(s) + 1, Len(s \o t))
<1>2. /\ u \in Seq(S) /\ Len(u) = Len(t)
      /\ \A i \in 1 .. Len(t) : u[i] = (s \o t)[Len(s) + i]
  BY <1>1
<1> HIDE DEF u
<1>3. \A i \in 1 .. Len(t) : u[i] = t[i]
  BY <1>2, Appending
<1>4. u = t
  BY <1>2, <1>3, SeqEqual
<1>5. QED BY <1>4 DEF u

LEMMA RestOfAppend ==
  ASSUME NEW S, NEW s \in Seq(S), NEW t \in Seq(S), NEW c \in 0 .. Len(s)
  PROVE  SubSeq(s \o t, c + 1, Len(s \o t)) = SubSeq(s, c + 1, Len(s)) \o t
<1>1. /\ Len(s) \in Nat /\ Len(t) \in Nat /\ Len(s \o t) = Len(s) + Len(t)
      /\ (s \o t) \in Seq(S)
  BY Appending
<1>2. SubSeq(s \o t, c + 1, Len(s)) = SubSeq(s, c + 1, Len(s))
  BY <1>1, SubSeqOfConcat1
<1>3. SubSeq(s \o t, Len(s) + 1, Len(s \o t)) = t
  BY AddedIsTheRest
<1>4. SubSeq(s \o t, c + 1, Len(s)) \o SubSeq(s \o t, Len(s) + 1, Len(s \o t))
        = SubSeq(s \o t, c + 1, Len(s \o t))
  <2>1. /\ c + 1 \in 1 .. Len(s \o t) + 1 /\ Len(s) \in (c + 1) - 1 .. Len(s \o t)
        /\ Len(s \o t) \in Len(s) .. Len(s \o t)
    BY <1>1
  <2> HIDE <1>1
  <2>2. (s \o t) \in Seq(S)
    BY Appending
  <2>3. QED BY <2>1, <2>2, ConcatAdjacentSubSeq, Zenon
<1>5. QED BY <1>2, <1>3, <1>4

LEMMA ReadBytesStep ==
  ASSUME DInv, NEW bytes \in BytesUpTo(Chunk), ReadBytes(bytes)
  PROVE  /\ LoopInv'
         /\ Offset' = Offset /\ last' = last
         /\ Unread' = Unread \o SubSeq(stream', Len(stream) + 1, Len(stream'))
<1>1. /\ pc = "fill" /\ pc' = "try" /\ buf' = buf \o bytes
      /\ UNCHANGED <<cursor, origin, failed, last>>
      /\ Len(bytes) \in 1 .. Want - Len(buf)
  BY DEF ReadBytes, FillBytes
<1>2. bytes \in Seq(Byte) /\ buf \in Seq(Byte) /\ Len(bytes) \in Nat
  BY BatchIsSequence, ConstantsAssumption DEF DInv, Inv, TypeOK
<1>3. /\ ~failed /\ Want \in Nat /\ Len(buf) \in Nat /\ cursor \in 0 .. Len(buf)
      /\ Want - Len(buf) <= Chunk /\ Want - cursor <= Limit + 1
  BY <1>1, ReadIsClipped
<1>4. Len(buf \o bytes) = Len(buf) + Len(bytes) /\ (buf \o bytes) \in Seq(Byte)
  BY <1>2, Appending
<1>5. Len(buf) <= 2 * Limit + 1
  BY <1>1 DEF DInv, LoopInv
<1>6. Len(buf) + Len(bytes) <= 2 * Limit + 1 + Chunk
  BY <1>1, <1>2, <1>3, <1>5, ConstantsAssumption
<1>7. (Len(buf) + Len(bytes)) - cursor <= Limit + 1
  BY <1>1, <1>2, <1>3, ConstantsAssumption
<1>8. LoopInv'
  <2>1. HeldWithinLimit'
    BY <1>1, <1>3, <1>4, <1>7 DEF HeldWithinLimit, Buffered
  <2>2. FootprintBounded'
    BY <1>1, <1>4, <1>6 DEF FootprintBounded
  <2>3. QED BY <1>1, <2>1, <2>2 DEF LoopInv
<1>9. Unread' = Unread \o SubSeq(stream', Len(stream) + 1, Len(stream'))
  <2>1. /\ Unread = SubSeq(buf, cursor + 1, Len(buf))
        /\ Unread' = SubSeq(buf \o bytes, cursor + 1, Len(buf \o bytes))
    BY <1>1, <1>3 DEF Unread
  <2>2. stream \in Seq(Byte) /\ stream' = stream \o bytes
    BY DEF ReadBytes, FillBytes, DInv, Inv, TypeOK
  <2>3. SubSeq(stream', Len(stream) + 1, Len(stream')) = bytes
    BY <1>2, <2>2, AddedIsTheRest
  <2>4. QED BY <1>2, <1>3, <2>1, <2>3, RestOfAppend
<1>10. QED BY <1>1, <1>8, <1>9 DEF Offset

\* A read that delivers nothing leaves the window as it was.
LEMMA ReadNothingStep ==
  ASSUME DInv, ReadEof \/ ReadInterrupted \/ ReadFails
  PROVE  /\ LoopInv'
         /\ Offset' = Offset /\ last' = last
         /\ Unread' = Unread \o SubSeq(stream', Len(stream) + 1, Len(stream'))
<1>1. /\ pc = "fill" /\ pc' \in {"try", "idle"}
      /\ UNCHANGED <<stream, buf, cursor, origin, failed, last>>
  BY DEF ReadEof, ReadInterrupted, ReadFails, FillEof, FillError
<1>2. LoopInv'
  BY <1>1 DEF DInv, LoopInv, HeldWithinLimit, FootprintBounded, Buffered
<1>3. Unread' = Unread /\ Unread \in Seq(Byte) /\ stream' = stream /\ stream \in Seq(Byte)
  BY <1>1 DEF Unread, DInv, Inv, TypeOK, WindowOfStream
<1>4. Unread' = Unread \o SubSeq(stream', Len(stream) + 1, Len(stream'))
  <2>1. SubSeq(stream, Len(stream) + 1, Len(stream)) = <<>>
    BY <1>3, SubSeqEmpty
  <2>2. QED BY <1>3, <2>1, ConcatEmptySeq
<1>5. QED BY <1>1, <1>2, <1>4 DEF Offset

\* Compaction bounds what locate works on by twice what is live.
LEMMA ViewIsSmall ==
  ASSUME DInv, ~failed
  PROVE  Len(View) <= 2 * Limit + 1 /\ Len(View) - ViewCursor <= Limit + 1
<1>1. /\ Len(buf) \in Nat /\ cursor \in 0 .. Len(buf) /\ Len(buf) - cursor <= Limit + 1
      /\ buf \in Seq(Byte)
  BY DEF DInv, LoopInv, HeldWithinLimit, Buffered, Inv, TypeOK, WindowOfStream
<1>2. CASE Compacts
  <2>1. View = SubSeq(buf, cursor + 1, Len(buf)) /\ ViewCursor = 0
    BY <1>2 DEF View, ViewCursor
  <2>2. Len(SubSeq(buf, cursor + 1, Len(buf))) = Len(buf) - cursor
    BY <1>1
  <2>3. QED BY <1>1, <2>1, <2>2, ConstantsAssumption
<1>3. CASE ~Compacts
  <2>1. View = buf /\ ViewCursor = cursor /\ (cursor = 0 \/ cursor < Len(buf) - cursor)
    BY <1>1, <1>3 DEF View, ViewCursor, Compacts
  <2>2. QED BY <1>1, <2>1, ConstantsAssumption
<1>4. QED BY <1>2, <1>3

LEMMA TryStep ==
  ASSUME DInv, NEW out \in FramerOutcomes(Len(View), ViewCursor, eof), Try(out)
  PROVE  LoopInv'
<1> DEFINE dies == out.kind = "fail" \/ (out.kind # "fail" /\ out.end - out.start > Limit)
<1>1. /\ pc = "try" /\ ~failed /\ UNCHANGED eof
      /\ cursor' = out.cursor /\ failed' = dies
      /\ buf' = IF dies THEN <<>> ELSE View
      /\ last'.kind = IF dies THEN "error" ELSE out.kind
      /\ pc' = IF last'.kind = "need" /\ ~eof THEN "fill" ELSE "idle"
  BY DEF Try, TryNext, AfterTry
<1>2. /\ Len(View) \in Nat /\ ViewCursor \in 0 .. Len(View)
      /\ Len(View) <= 2 * Limit + 1 /\ Len(View) - ViewCursor <= Limit + 1
  BY <1>1, CompactionKeepsPlace, ViewIsSmall DEF DInv, Inv
<1>3. /\ out.cursor \in ViewCursor .. Len(View)
      /\ out.kind = "need" => out.start = out.cursor /\ out.end = Len(View)
  BY <1>2, FramerContract DEF DInv, Inv, TypeOK
<1>4. CASE dies
  <2>1. /\ failed' /\ Len(buf') = 0 /\ pc' = "idle"
    BY <1>1, <1>4
  <2>2. QED BY <2>1, ConstantsAssumption
            DEF LoopInv, HeldWithinLimit, FootprintBounded, Buffered
<1>5. CASE ~dies
  <2>1. ~failed' /\ buf' = View /\ last'.kind = out.kind /\ cursor' = out.cursor
    BY <1>1, <1>5
  <2>2. Len(View) - out.cursor <= Limit + 1
    BY <1>2, <1>3, ConstantsAssumption
  <2>3. out.kind = "need" => Len(View) - out.cursor <= Limit
    BY <1>2, <1>3, <1>5, ConstantsAssumption
  <2>4. HeldWithinLimit'
    BY <1>1, <2>1, <2>2, <2>3 DEF HeldWithinLimit, Buffered
  <2>5. Len(buf') <= 2 * Limit + 1 /\ FootprintBounded'
    BY <1>2, <2>1, ConstantsAssumption DEF FootprintBounded
  <2>6. pc' \in {"idle", "fill"} /\ (pc' = "fill" => CanFill')
    BY <1>1, <2>1 DEF CanFill
  <2>7. QED BY <2>4, <2>5, <2>6 DEF LoopInv
<1>6. QED BY <1>4, <1>5

-----------------------------------------------------------------------------
(***************************************************************************)
(* Every step of the loop is a step of the window or leaves it alone, and  *)
(* preserves the loop's invariant.                                         *)
(***************************************************************************)
LEMMA DNextStep ==
  ASSUME DInv, [DNext]_dvars
  PROVE  LoopInv' /\ [Next]_vars /\ (ReadDisturbsNothing \/ UNCHANGED dvars)
<1>1. CASE Call
  BY <1>1 DEF Call, vars, DInv, LoopInv, HeldWithinLimit, FootprintBounded, Buffered,
              ReadDisturbsNothing
<1>2. CASE TryDead
  <2>1. UNCHANGED <<buf, cursor, failed>> /\ failed /\ pc = "try" /\ pc' = "idle" /\ Next
    BY <1>2 DEF TryDead, TryNextDead, AfterTry, Next
  <2>2. buf = <<>>
    BY <2>1 DEF DInv, Inv, WindowOfStream
  <2>3. LoopInv'
    BY <2>1, <2>2, ConstantsAssumption
       DEF LoopInv, HeldWithinLimit, FootprintBounded, Buffered
  <2>4. QED BY <2>1, <2>3 DEF ReadDisturbsNothing
<1>3. ASSUME NEW out \in FramerOutcomes(Len(View), ViewCursor, eof), Try(out)
      PROVE  LoopInv' /\ [Next]_vars /\ ReadDisturbsNothing
  <2>1. Next /\ pc = "try"
    BY <1>3 DEF Try, Next
  <2>2. QED BY <1>3, <2>1, TryStep DEF ReadDisturbsNothing
<1>4. ASSUME NEW bytes \in BytesUpTo(Chunk), ReadBytes(bytes)
      PROVE  LoopInv' /\ [Next]_vars /\ ReadDisturbsNothing
  <2>1. pc = "fill" /\ CanFill /\ FillBytes(bytes)
    BY <1>4 DEF ReadBytes, DInv, LoopInv
  <2>2. QED BY <1>4, <2>1, ReadBytesStep DEF Next, ReadDisturbsNothing
<1>5. CASE ReadEof \/ ReadInterrupted \/ ReadFails
  <2>1. CanFill /\ (FillEof \/ FillError)
    BY <1>5 DEF ReadEof, ReadInterrupted, ReadFails, DInv, LoopInv
  <2>2. QED BY <1>5, <2>1, ReadNothingStep DEF Next, ReadDisturbsNothing
<1>6. CASE UNCHANGED dvars
  BY <1>6 DEF dvars, vars, DInv, LoopInv, HeldWithinLimit, FootprintBounded, Buffered, CanFill
<1>7. QED BY <1>1, <1>2, <1>3, <1>4, <1>5, <1>6 DEF DNext, DTry, DRead

THEOREM DInvariance == DSpec => []DInv
<1>1. DInv /\ [DNext]_dvars => DInv'
  BY DNextStep, NextStep DEF DInv
<1>2. QED BY <1>1, DInitInv, PTL DEF DSpec

(***************************************************************************)
(* The pull reader implements the window specification: every theorem above*)
(* is a theorem about it.                                                  *)
(***************************************************************************)
THEOREM PullReaderImplementsWindow == DSpec => ImplementsWindow
<1>1. DInit => Init
  BY DEF DInit
<1>2. DInv /\ [DNext]_dvars => [Next]_vars
  BY DNextStep
<1>3. QED BY <1>1, <1>2, DInvariance, PTL DEF DSpec, Spec, ImplementsWindow

(***************************************************************************)
(* max_value on the pull side: never more than a byte past the limit.      *)
(***************************************************************************)
THEOREM PullWithinLimit == DSpec => []HeldWithinLimit
BY DInvariance, PTL DEF DInv, LoopInv

(***************************************************************************)
(* The buffer, dead bytes included, stays under twice the limit plus one   *)
(* read.                                                                   *)
(***************************************************************************)
THEOREM PullFootprint == DSpec => []FootprintBounded
BY DInvariance, PTL DEF DInv, LoopInv

(***************************************************************************)
(* Reads, failed and interrupted ones too, lose and repeat nothing.        *)
(***************************************************************************)
THEOREM ReadsAreHarmless == DSpec => ReadsDoNotDisturb
<1>1. DInv /\ [DNext]_dvars => [ReadDisturbsNothing]_dvars
  BY DNextStep
<1>2. QED BY <1>1, DInvariance, PTL DEF DSpec, ReadsDoNotDisturb
=============================================================================
