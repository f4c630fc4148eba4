--------------------------- MODULE MCJsonDocuments --------------------------
(* Values and array elements against a small limit.                        *)
EXTENDS JsonDocuments

Reader(m, c, b, n) == [mode |-> m, comments |-> c, bytes |-> b, max |-> n]

MCSetups ==
  {Reader("Values", FALSE, {"'", "\\", "1", " "}, 5),
   Reader("Values", TRUE,  {"/", "*", "1"}, 6),
   Reader("Array",  TRUE,  {"[", "]", "/", "LF"}, 4),
   Reader("Array",  FALSE, {"[", "]", ",", "1"}, 5)}

\* Newline framing against the same limit, for the run that must fail.  The
\* line is what is held to the limit until its newline arrives, the space
\* around the value included: "11" followed by a space is refused at a limit
\* of 2 when it arrives before its newline.
MCLines == {Reader("Lines", FALSE, {"1", " ", "LF"}, 5)}
=============================================================================
