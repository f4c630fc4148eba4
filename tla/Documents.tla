----------------------------- MODULE Documents ------------------------------
(***************************************************************************)
(* The pull reader: Documents over an io::Read, for either format.         *)
(*                                                                         *)
(* next_value asks the window for a value and, while the framer starves,   *)
(* reads another chunk.  Each turn of that loop is a step here, because    *)
(* the reader is foreign code: it may deliver any part of what it was      *)
(* asked for, be interrupted, fail, or end.  A failed read leaves the      *)
(* reader usable; the caller may ask again.                                *)
(***************************************************************************)
EXTENDS StreamWindow

VARIABLE pc   \* where next_value is: "idle" between calls, "try", "fill"

dvars == <<stream, buf, cursor, origin, eof, failed, inited, alloc, last, reports, pc>>

DInit == Init /\ pc = "idle"

\* The caller asks for the next value.
Call == pc = "idle" /\ pc' = "try" /\ UNCHANGED vars

\* Slip: another chunk is read after a value was found.
AfterTry_ReadsAhead == pc' = IF last'.kind \in {"need", "item"} /\ ~eof THEN "fill" ELSE "idle"

\* What locate does with the window's answer: starved, it reads on; at end of
\* input it gives up rather than read zero for ever; anything else returns.
AfterTry == pc' = IF last'.kind = "need" /\ ~eof THEN "fill" ELSE "idle"

Try(out) == pc = "try" /\ TryNext(out) /\ AfterTry
TryDead  == pc = "try" /\ TryNextDead /\ AfterTry

ReadBytes(bytes) == pc = "fill" /\ FillBytes(bytes) /\ pc' = "try"
ReadEof          == pc = "fill" /\ FillEof /\ pc' = "try"
\* ErrorKind::Interrupted: fill reports success and the loop comes round.
ReadInterrupted  == pc = "fill" /\ FillError /\ pc' = "try"
\* Any other error is the caller's: StreamError::Io.
ReadFails        == pc = "fill" /\ FillError /\ pc' = "idle"

DTry  == TryDead \/ \E out \in FramerOutcomes(Len(View), ViewCursor, eof) : Try(out)
DRead == ReadEof \/ \E bytes \in BytesUpTo(Chunk) : ReadBytes(bytes)

DNext == Call \/ DTry \/ DRead \/ ReadInterrupted \/ ReadFails

\* An answer that is not an empty value at an unmoved cursor: a framer gives
\* out no more than eight of those, the bits of a byte, before another answer.
DTryOn == DTry /\ (last'.kind = "item" => Offset' > Offset)

\* A call in progress runs on, the caller keeps asking, and a reader asked
\* again and again does not only fail: some reads deliver bytes or the end.
DFairness == WF_dvars(Call) /\ WF_dvars(DTry) /\ SF_dvars(DTryOn) /\ SF_dvars(DRead)

DSpec == DInit /\ [][DNext]_dvars /\ DFairness

-----------------------------------------------------------------------------
(* Properties.                                                             *)

DTypeOK == TypeOK /\ pc \in {"idle", "try", "fill"}

\* max_value's promise on the pull side: the window never holds more than one
\* byte past the limit, whatever sizes the reads come in, and is back within
\* the limit before it reads again.
HeldWithinLimit ==
  /\ Buffered <= Limit + 1
  /\ pc = "fill" => Buffered <= Limit

\* compact's promise: the whole buffer, dead bytes included, stays within
\* twice the live data plus one read, however long the stream.
FootprintBounded == Len(buf) <= 2 * Limit + 1 + Chunk

\* A read adds to the unread bytes exactly what arrived, and neither moves the
\* offset nor gives out a value: an I/O error or an interruption can be retried
\* without losing, repeating or inventing a byte.
ReadDisturbsNothing ==
  pc = "fill" => /\ Offset' = Offset /\ last' = last
                 /\ Unread' = Unread \o SubSeq(stream', Len(stream) + 1, Len(stream'))

ReadsDoNotDisturb == [][ReadDisturbsNothing]_dvars

\* Every call returns: no state of the loop waits for bytes that cannot come.
CallsReturn == pc = "try" ~> pc = "idle"

\* A caller that keeps asking reaches the end of a finite stream.
StreamEnds == <>[](last.kind = "end")

\* The pull reader implements the window specification: it fills only a
\* window that starved before the end of input, so StreamWindow's theorems
\* are theorems about it.
ImplementsWindow == Spec
=============================================================================
