---------------------------- MODULE StreamWindow ----------------------------
(***************************************************************************)
(* The byte window both streaming readers pull through: stream.rs.         *)
(*                                                                         *)
(* A Window owns a growing buffer and a Framer, an incremental search for  *)
(* the end of the next value.  The framer is abstract here: it may answer  *)
(* anything its trait contract allows.  The JSON splitter is one such      *)
(* framer (JsonSplitter.tla), so whatever holds of this specification      *)
(* holds of every reader built on the window.                              *)
(*                                                                         *)
(* Offsets are the code's, from 0: byte i of the buffer is buf[i + 1].     *)
(***************************************************************************)
EXTENDS Integers, Sequences

CONSTANTS
  Byte,       \* what the stream is made of
  Limit,      \* Window::limit, the largest value that may be buffered
  Chunk,      \* bytes asked for by one read (Documents::read_size)
  MaxStream,  \* bound on the bytes that ever arrive
  Codes       \* error codes a framer can fail with

ASSUME ConstantsAssumption ==
  /\ Limit \in Nat
  /\ Chunk \in Nat \ {0}
  /\ MaxStream \in Nat

VARIABLES
  stream,   \* history: every byte the window has accepted
  buf,      \* Window::buf
  cursor,   \* Framer::consumed(): bytes the window may drop
  origin,   \* bytes already dropped off the front
  eof,      \* no more bytes will arrive
  failed,   \* framing failed
  inited,   \* how far the allocation is believed initialized
  alloc,    \* history: how far the allocation really is initialized
  last,     \* the answer of the latest try_next, in stream offsets
  reports   \* history: every framing failure reported

vars == <<stream, buf, cursor, origin, eof, failed, inited, alloc, last, reports>>

-----------------------------------------------------------------------------
(* Derived quantities.                                                     *)

\* Window::buffered, which must not subtract once the buffer was dropped.
Buffered == IF failed THEN 0 ELSE Len(buf) - cursor

\* Window::offset.
Offset == origin + cursor

\* Slip: the bytes already resolved are handed back too.
Unread_Undrained == IF failed THEN <<>> ELSE buf

\* Window::into_unread: what Documents::into_parts hands back.
Unread == IF failed THEN <<>> ELSE SubSeq(buf, cursor + 1, Len(buf))

Larger(a, b)  == IF a >= b THEN a ELSE b
Smaller(a, b) == IF a <= b THEN a ELSE b

\* Sequences of at most n bytes.
BytesUpTo(n) == UNION {[1 .. k -> Byte] : k \in 0 .. n}

-----------------------------------------------------------------------------
(* Window::compact, run at the top of locate: the dead prefix goes only    *)
(* when it is at least half of the buffer.  The three operators give what  *)
(* locate then works on.                                                   *)

Compacts_Seldom == cursor # 0 /\ cursor = Len(buf)   \* slip: only a wholly dead buffer

Compacts   == cursor # 0 /\ cursor >= Len(buf) - cursor
ViewOrigin_Forgotten == origin   \* slip: the dropped prefix is not counted
ViewOrigin_Backwards == IF Compacts THEN origin - cursor ELSE origin

View       == IF Compacts THEN SubSeq(buf, cursor + 1, Len(buf)) ELSE buf
ViewCursor == IF Compacts THEN 0 ELSE cursor
ViewOrigin == IF Compacts THEN origin + cursor ELSE origin

-----------------------------------------------------------------------------
(* The Framer contract.  An outcome carries the cursor the framer stops at *)
(* and the extent start..end the limit is checked on: the value found, the *)
(* whole live window when starved, nothing at the end or at a failure.     *)
(* A framer never moves its cursor back, never answers "need" at the end   *)
(* of input, and says "end" there with every byte accounted for.  A value  *)
(* begins on a byte that has arrived but can be empty: a packed BEVE       *)
(* boolean is a bit of the byte the cursor stands on.                      *)
(* Operators named X_Slip are X with one mistake in it: the runs check     *)
(* that a property notices.                                                *)

Outcome(k, code, c, s, e) ==
  [kind |-> k, code |-> code, cursor |-> c, start |-> s, end |-> e]

FramerOutcomes_NeedAtEnd(n, c, ended) == {Outcome("need", "none", c, c, n)}

FramerOutcomes(n, c, ended) ==
  {Outcome("need", "none", d, d, n) : d \in IF ended THEN {} ELSE c .. n}
  \cup (IF ended THEN {Outcome("end", "none", n, n, n)} ELSE {})
  \cup {Outcome("fail", code, d, at, at) : code \in Codes, d \in c .. n, at \in c .. n}
  \cup {o \in {Outcome("item", "none", d, s, e) : d \in c .. n, s \in c .. n, e \in c .. n} :
          o.start < n /\ o.start <= o.end /\ o.end <= o.cursor}

-----------------------------------------------------------------------------
Init ==
  /\ stream = <<>> /\ buf = <<>>
  /\ cursor = 0 /\ origin = 0
  /\ eof = FALSE /\ failed = FALSE
  /\ inited = 0 /\ alloc = 0
  /\ last = [kind |-> "none", start |-> 0, end |-> 0]
  /\ reports = <<>>

\* Growing the buffer to n bytes either stays in the allocation or moves to a
\* new one, whose spare capacity is uninitialized.
Grow(n) == alloc' \in {n, Larger(alloc, n)}

\* Slips: inited is left alone; a dead window is still fed.
Extend_StaleInited(bytes) ==
  /\ Len(stream) + Len(bytes) <= MaxStream
  /\ ~failed
  /\ stream' = stream \o bytes
  /\ buf' = buf \o bytes
  /\ Grow(Len(buf) + Len(bytes))
  /\ UNCHANGED <<cursor, origin, eof, failed, inited, last, reports>>

Extend_WhenDead(bytes) ==
  /\ Len(stream) + Len(bytes) <= MaxStream
  /\ stream' = stream \o bytes
  /\ buf' = buf \o bytes
  /\ Grow(Len(buf) + Len(bytes))
  /\ inited' = Len(buf) + Len(bytes)
  /\ UNCHANGED <<cursor, origin, eof, failed, last, reports>>

\* Window::extend (Feed::push).  Discarded once framing has failed.
Extend(bytes) ==
  /\ Len(stream) + Len(bytes) <= MaxStream
  /\ ~failed
  /\ stream' = stream \o bytes
  /\ buf' = buf \o bytes
  /\ Grow(Len(buf) + Len(bytes))
  /\ inited' = Len(buf) + Len(bytes)
  /\ UNCHANGED <<cursor, origin, eof, failed, last, reports>>

\* Window::set_eof (Feed::end).
SetEof ==
  /\ eof' = TRUE
  /\ UNCHANGED <<stream, buf, cursor, origin, failed, inited, alloc, last, reports>>

\* Window::try_next: compact, ask the framer, hold its answer to the limit.
\* A failure drops the buffer and is the last thing the window says.
TryNext(out) ==
  LET tooLarge == out.kind # "fail" /\ out.end - out.start > Limit
      dies     == out.kind = "fail" \/ tooLarge
      at(i)    == ViewOrigin + i
  IN
  /\ ~failed
  /\ cursor' = out.cursor
  /\ origin' = ViewOrigin
  /\ failed' = dies
  /\ buf' = IF dies THEN <<>> ELSE View
  /\ inited' = IF dies THEN 0 ELSE inited
  /\ alloc' = IF dies THEN 0 ELSE alloc
  /\ last' = [kind  |-> IF dies THEN "error" ELSE out.kind,
              start |-> at(out.start), end |-> at(out.end)]
  /\ reports' = IF dies
                THEN Append(reports, [code |-> IF tooLarge THEN "DocumentTooLarge" ELSE out.code,
                                      at   |-> at(out.start)])
                ELSE reports
  /\ UNCHANGED <<stream, eof>>

\* Slip: the failure is reported again at every call.
TryNextDead_Repeats ==
  /\ failed
  /\ last' = [last EXCEPT !.kind = "error"]
  /\ reports' = Append(reports, reports[1])
  /\ UNCHANGED <<stream, buf, cursor, origin, eof, failed, inited, alloc>>

\* Window::try_next on a failed window: the stream is over.
TryNextDead ==
  /\ failed
  /\ last' = [kind |-> "end", start |-> Offset, end |-> Offset]
  /\ UNCHANGED <<stream, buf, cursor, origin, eof, failed, inited, alloc, reports>>

Want_Unclipped == Len(buf) + Chunk   \* slip: the read ignores the limit

\* Window::fill, up to the read: at most one byte more than the limit allows.
Want == Len(buf) + Smaller(Chunk, Larger(Limit - Buffered, 0) + 1)

\* The slice handed to the reader: zeroed by resize when it reaches past what
\* is believed initialized, otherwise exposed by an unchecked set_len.
Expose ==
  IF Want > inited
  THEN inited' = Want /\ Grow(Want)
  ELSE UNCHANGED <<inited, alloc>>

\* fill, when the reader delivers at least one byte.
FillBytes(bytes) ==
  /\ Len(bytes) \in 1 .. Want - Len(buf)
  /\ Len(stream) + Len(bytes) <= MaxStream
  /\ Expose
  /\ stream' = stream \o bytes
  /\ buf' = buf \o bytes
  /\ UNCHANGED <<cursor, origin, eof, failed, last, reports>>

\* Slip: a read of nothing is not taken for the end.
FillEof_Ignored == Expose /\ UNCHANGED <<stream, buf, cursor, origin, eof, failed, last, reports>>

\* fill, when the reader answers zero bytes: the end of input.
FillEof ==
  /\ Expose
  /\ eof' = TRUE
  /\ UNCHANGED <<stream, buf, cursor, origin, failed, last, reports>>

\* Slip: the length is not put back, so what the slice held counts as read.
FillError_KeepsLength ==
  /\ Expose
  /\ \E junk \in [1 .. Want - Len(buf) -> Byte] : buf' = buf \o junk
  /\ UNCHANGED <<stream, cursor, origin, eof, failed, last, reports>>

\* fill, when the read fails or is interrupted: the length is put back.
FillError ==
  /\ Expose
  /\ UNCHANGED <<stream, buf, cursor, origin, eof, failed, last, reports>>

\* Only the pull readers fill, and only a window that answered "need".
CanFill == ~failed /\ ~eof /\ last.kind = "need"

Next ==
  \/ \E bytes \in BytesUpTo(MaxStream - Len(stream)) : Extend(bytes)
  \/ SetEof
  \/ \E out \in FramerOutcomes(Len(View), ViewCursor, eof) : TryNext(out)
  \/ TryNextDead
  \/ CanFill /\ \E bytes \in BytesUpTo(Chunk) : FillBytes(bytes)
  \/ CanFill /\ (FillEof \/ FillError)

Spec == Init /\ [][Next]_vars

-----------------------------------------------------------------------------
(* Properties.                                                             *)

Answers == {"none", "need", "item", "end", "error"}

TypeOK ==
  /\ stream \in Seq(Byte) /\ buf \in Seq(Byte)
  /\ cursor \in Nat /\ origin \in Nat
  /\ eof \in BOOLEAN /\ failed \in BOOLEAN
  /\ inited \in Nat /\ alloc \in Nat
  /\ last \in [kind : Answers, start : Nat, end : Nat]
  /\ reports \in Seq([code : Codes \cup {"DocumentTooLarge"}, at : Nat])

\* b is what is left of s once its first o elements are gone.
IsTail(b, s, o) ==
  /\ o + Len(b) = Len(s)
  /\ \A i \in 1 .. Len(b) : b[i] = s[o + i]

\* While framing is sound the buffer is exactly the end of the stream that
\* starts at origin, and the cursor is inside it: no compaction, growth or
\* short read loses, repeats or misplaces a byte, and Window::buffered cannot
\* wrap below zero.  Once framing has failed nothing is held.
WindowOfStream ==
  IF failed THEN buf = <<>>
            ELSE cursor <= Len(buf) /\ IsTail(buf, stream, origin)

\* What Documents::into_parts promises: the unread bytes are the rest of the
\* stream from the reported offset, and none once framing has failed.  There
\* are as many as Window::buffered says: it does not wrap after a failure,
\* when the buffer is dropped and the framer's cursor stays where it stopped.
UnreadIsTheRest ==
  /\ Unread = IF failed THEN <<>> ELSE SubSeq(stream, Offset + 1, Len(stream))
  /\ Len(Unread) = Buffered

\* The unchecked set_len in Window::fill only ever exposes bytes that really
\* were initialized in the present allocation.
ExposesOnlyInitialized == inited <= alloc /\ Len(buf) <= alloc

\* A framing failure is reported exactly once, and placed inside the part of
\* the stream that had arrived.
FailureReportedOnce ==
  /\ Len(reports) = IF failed THEN 1 ELSE 0
  /\ failed => reports[1].at <= Len(stream)

\* A failed window stays failed and empty, takes no more bytes, and only ever
\* answers that the stream is over.
DeadStaysDead ==
  failed => /\ failed'
            /\ buf' = <<>> /\ stream' = stream
            /\ last' # last => last'.kind = "end"

FailureIsTerminal == [][DeadStaysDead]_vars

\* Answers come out in stream order: a value or a failure lies at or past the
\* offset reported before it, and the offset then moves past the value, so no
\* byte is part of two values and no failure points into one given out.
AnswerPastOffset ==
  last' # last =>
    /\ last'.kind \in {"item", "error"} => last'.start >= Offset
    /\ last'.kind = "item" => last'.end <= Offset'

AnswersInOrder == [][AnswerPastOffset]_vars
=============================================================================
