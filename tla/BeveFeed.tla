------------------------------ MODULE BeveFeed ------------------------------
(***************************************************************************)
(* Feed: a BEVE reader that is handed its bytes, beve/stream/feed.rs.  It  *)
(* is StreamWindow with the BEVE splitter for its framer.  The caller      *)
(* pushes chunks, asks for values and declares the end in any order, so    *)
(* the three calls interleave freely.  Reading the span that is found      *)
(* changes no state of the feed; that it can be read is a property.        *)
(***************************************************************************)
EXTENDS BeveSplitter

CONSTANTS
  Setups,     \* the feeds to check: mode, the bytes every stream opens with, the
              \* bytes that follow and how many there are in all
  Limit, Chunk, MaxStream

ASSUME FeedAssumption ==
  /\ \A s \in Setups : /\ s.mode \in Modes /\ s.max \in Nat
                       /\ s.bytes \subseteq 0 .. 255 /\ s.opening \in Seq(0 .. 255)
  /\ Limit \in Nat /\ Chunk \in Nat \ {0} /\ MaxStream \in Nat

VARIABLES
  setup,      \* which feed this is; chosen once
  stream, buf, origin, eof, failed, inited, alloc, last, reports,   \* StreamWindow's
  sp,         \* the splitter
  items,      \* history: the values handed out, each with its implied header
  late        \* history: bytes were added after the end was declared

bvars == <<setup, stream, buf, origin, eof, failed, inited, alloc, last, reports, sp, items, late>>

Meets(s) == s.bytes \cup {s.opening[i] : i \in DOMAIN s.opening}
Bytes    == UNION {Meets(s) : s \in Setups}

W == INSTANCE StreamWindow WITH cursor <- sp.cursor, Byte <- Bytes, Codes <- BeveCodes

\* What can arrive at once: up to n more of the bytes this feed meets.
Expected(i) == IF i <= Len(setup.opening) THEN {setup.opening[i]} ELSE setup.bytes
Batches(n) ==
  UNION {{b \in [1 .. k -> Meets(setup)] : \A j \in 1 .. k : b[j] \in Expected(Len(stream) + j)} :
           k \in 1 .. W!Smaller(n, setup.max - Len(stream))}

FeedInit ==
  /\ setup \in Setups
  /\ sp = NewSplitter(setup.mode)
  /\ W!Init
  /\ items = <<>> /\ late = FALSE

\* Feed::push; at a dead feed it does nothing, and the end once declared
\* stays declared.
Push(bytes) ==
  /\ UNCHANGED <<setup, sp, items>>
  /\ late' = (late \/ eof)
  /\ W!Extend(bytes)
  /\ alloc' = W!Larger(alloc, Len(buf'))   \* which allocation is StreamWindow's concern

FeedEnd == UNCHANGED <<setup, sp, items, late>> /\ W!SetEof

\* Window::locate over the splitter: compacting the window rebases it.
Located == NextItem(IF W!Compacts THEN Rebase(sp) ELSE sp, W!View, eof)

\* Feed::locate.
NextValue ==
  \/ \E found \in {Located} :
       /\ ~failed
       /\ sp' = found.sp
       /\ W!TryNext(found.out)
       /\ items' = IF last'.kind = "item"
                   THEN Append(items, <<last'.start, last'.end, sp'.implied>>) ELSE items
       /\ UNCHANGED <<setup, late>>
  \/ /\ UNCHANGED <<setup, sp, items, late>>
     /\ W!TryNextDead

BeveNext ==
  \/ \E bytes \in Batches(Chunk) : Push(bytes)
  \/ FeedEnd
  \/ NextValue

BeveSpec == FeedInit /\ [][BeveNext]_bvars

-----------------------------------------------------------------------------
(* Properties.                                                             *)

\* The steps of a window that is fed and never fills itself.
WindowStep ==
  \/ \E bytes \in Batches(Chunk) : W!Extend(bytes)
  \/ W!SetEof
  \/ \E out \in W!FramerOutcomes(Len(W!View), W!ViewCursor, eof) : W!TryNext(out)
  \/ W!TryNextDead

\* A BEVE feed is a window whose framer is this splitter, and the splitter
\* keeps the framer contract: every step is one of StreamWindow's, whose
\* theorems therefore hold of it.
BeveImplementsWindow == W!Init /\ [][WindowStep]_(W!vars)
=============================================================================
