---------------------------- MODULE ArrayPayload ----------------------------
(***************************************************************************)
(* How read_array_into grows its destination, beve/stream/array.rs: the    *)
(* count comes off the wire ahead of the bytes that should back it, the    *)
(* vector grows toward it a chunk at a time, and each chunk is exposed,    *)
(* zeroed, before the caller's reader is asked to fill it.  Only lengths   *)
(* are told here; ArrayInto says what is in the elements and where the     *)
(* count comes from.                                                       *)
(*                                                                         *)
(* An operator named X_Slip is X with one mistake in it: the runs check    *)
(* that a property notices.                                                *)
(***************************************************************************)
EXTENDS Integers

VARIABLES
  per,        \* elements to a chunk: CHUNK / WIDTH, and at least one
  n,          \* the count the array's head stated
  len,        \* out.len()
  capacity,   \* out.capacity()
  phase,      \* where read_array_into is; "idle" outside of a call
  written,    \* history: elements of the allocation that were ever written
  arrived,    \* history: elements the reader has delivered in this call
  kept        \* history: the capacity the caller's vector came with

pvars == <<per, n, len, capacity, phase, written, arrived, kept>>

Lesser(a, b)  == IF a <= b THEN a ELSE b
Greater(a, b) == IF a <= b THEN b ELSE a

PInit ==
  /\ per \in Nat \ {0}
  /\ capacity \in Nat /\ kept = capacity
  /\ n = 0 /\ len = 0 /\ written = 0 /\ arrived = 0
  /\ phase = "idle"

\* read_array_into begins: out.clear().
Clear ==
  /\ phase = "idle"
  /\ len' = 0 /\ arrived' = 0 /\ kept' = capacity
  /\ phase' = "head"
  /\ UNCHANGED <<per, n, capacity, written>>

\* array_head reports a count.
Counted(count) ==
  /\ phase = "head"
  /\ n' = count
  /\ phase' = "room"
  /\ UNCHANGED <<per, len, capacity, written, arrived, kept>>

\* The end of the chunk that begins at len.
ChunkEnd == Lesser(n, len + per)

Wanted_OfCount == n   \* slip: what the count claims is reserved at once

\* The capacity asked for when the chunk does not fit: double what is there,
\* never past the count.
Wanted == Lesser(n, Greater(2 * capacity, ChunkEnd))

\* One turn of payload up to the read: make room, zero the new tail, expose it.
\* A vector that moves takes only its elements along.
Room ==
  /\ phase = "room" /\ len < n
  /\ capacity' = IF capacity < ChunkEnd THEN Wanted ELSE capacity
  /\ written' = Greater(IF capacity < ChunkEnd THEN len ELSE written, ChunkEnd)
  /\ len' = ChunkEnd
  /\ phase' = "read"
  /\ UNCHANGED <<per, n, arrived, kept>>

\* exact fills the chunk.
Arrives ==
  /\ phase = "read"
  /\ arrived' = len
  /\ phase' = "room"
  /\ UNCHANGED <<per, n, len, capacity, written, kept>>

\* The array was the whole document.
Completes ==
  /\ phase = "room" /\ len >= n
  /\ phase' = "idle"
  /\ UNCHANGED <<per, n, len, capacity, written, arrived, kept>>

Fails_KeepsArrived ==   \* slip: out is left holding what arrived
  /\ phase # "idle"
  /\ phase' = "idle"
  /\ len' = arrived
  /\ UNCHANGED <<per, n, capacity, written, arrived, kept>>

\* Any error, of the document or of the reader: out.clear() on the way out.
Fails ==
  /\ phase # "idle"
  /\ phase' = "idle"
  /\ len' = 0
  /\ UNCHANGED <<per, n, capacity, written, arrived, kept>>

\* The caller's reader panics: out stays as the unwinding found it.
Unwinds ==
  /\ phase # "idle"
  /\ phase' = "idle"
  /\ UNCHANGED <<per, n, len, capacity, written, arrived, kept>>

PNext ==
  \/ Clear
  \/ \E count \in Nat : Counted(count)
  \/ Room
  \/ Arrives
  \/ Completes
  \/ Fails
  \/ Unwinds

PSpec == PInit /\ [][PNext]_pvars

-----------------------------------------------------------------------------
\* The unchecked set_len is backed: what is exposed lies in the allocation and
\* was written, also when the reader unwinds in the middle of a chunk.  And the
\* allocation is backed by bytes, whatever the count claims: it stays what the
\* caller brought, or within twice what arrived and the chunk being read; for
\* a fresh vector, within twice what arrived plus that chunk.
HeldIsBacked ==
  /\ len <= written /\ written <= capacity
  /\ capacity <= Greater(kept, 2 * (arrived + per))
  /\ kept = 0 => capacity <= 2 * arrived + per
=============================================================================
