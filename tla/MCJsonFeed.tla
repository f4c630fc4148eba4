----------------------------- MODULE MCJsonFeed -----------------------------
(* Every mode with the bytes that make it hard: strings and escapes,       *)
(* nesting, comments, newlines, array delimiters.  Small alphabets get     *)
(* longer streams.                                                         *)
EXTENDS JsonFeed

Reader(m, c, b, n) == [mode |-> m, comments |-> c, bytes |-> b, max |-> n]

MCSetups ==
  {Reader("Values", FALSE, {"'", "\\", "{", "}", "1"}, 4),
   Reader("Values", FALSE, {"'", "\\", "["}, 5),
   Reader("Values", TRUE,  {"/", "*", "LF", "1"}, 5),
   Reader("Values", TRUE,  {"/", "*", "[", "]"}, 4),
   Reader("Array",  FALSE, {"[", "]", ",", "1"}, 5),
   Reader("Array",  TRUE,  {"[", "/", "*", " "}, 4),
   Reader("Lines",  FALSE, {"LF", " ", "1"}, 5),
   Reader("Lines",  TRUE,  {"LF", "/", "*", "1"}, 4)}
=============================================================================
