--------------------------- MODULE JsonDocuments ----------------------------
(***************************************************************************)
(* Documents over an io::Read, for JSON: json/stream/read.rs.  It is the   *)
(* pull reader of Documents.tla with the splitter for its framer.          *)
(***************************************************************************)
EXTENDS JsonReader

VARIABLE pc   \* Documents'

jvars == <<rvars, pc>>

D == INSTANCE Documents WITH cursor <- sp.cursor, Byte <- Bytes, Codes <- JsonCodes

JInit == ReaderInit /\ pc = "idle"

Still == UNCHANGED <<setup, sp, items, late>>

NextDocument == Still /\ D!Call

TryFramer == pc = "try" /\ TryNextItem /\ D!AfterTry

Read ==
  /\ pc = "fill"   \* before enumerating what the read could deliver
  /\ Still
  /\ \/ \E bytes \in Batches(Chunk) : D!ReadBytes(bytes)
     \/ D!ReadEof
     \/ D!ReadInterrupted
     \/ D!ReadFails

JNext == NextDocument \/ TryFramer \/ Read

JSpec == JInit /\ [][JNext]_jvars

-----------------------------------------------------------------------------
(* Properties.                                                             *)

\* The JSON pull reader takes the steps of the pull reader and no others, so
\* the theorems about Documents are theorems about it.
ImplementsPullReader == D!DInit /\ [][D!DNext]_(D!dvars)
=============================================================================
