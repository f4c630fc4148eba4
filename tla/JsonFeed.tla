------------------------------ MODULE JsonFeed ------------------------------
(***************************************************************************)
(* Feed: a JSON reader that is handed its bytes, json/stream/feed.rs.  The *)
(* caller pushes chunks, asks for values and declares the end in any order *)
(* it likes, so the three calls interleave freely.                         *)
(***************************************************************************)
EXTENDS JsonReader

\* Feed::push; at a dead feed it does nothing, and the end once declared
\* stays declared.
Push(bytes) ==
  /\ UNCHANGED <<setup, sp, items>>
  /\ late' = (late \/ eof)
  /\ W!Extend(bytes)
  /\ alloc' = W!Larger(alloc, Len(buf'))   \* which allocation is StreamWindow's concern

FeedEnd == UNCHANGED <<setup, sp, items, late>> /\ W!SetEof

NextValue == TryNextItem

FeedNext ==
  \/ \E bytes \in Batches(Chunk) : Push(bytes)
  \/ FeedEnd
  \/ NextValue

FeedSpec == ReaderInit /\ [][FeedNext]_rvars

\* A feed is a window whose framer is the splitter, and the splitter keeps
\* the framer contract: every theorem about StreamWindow holds of it.
ImplementsWindow == W!Spec
=============================================================================
