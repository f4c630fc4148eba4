----------------------------- MODULE MCBeveFeed -----------------------------
(* Each kind of value with the bytes that make it: as a size, the byte 4n  *)
(* is n, and 5 opens a two-byte size.                                      *)
EXTENDS BeveFraming

Reader(m, o, b, n) == [mode |-> m, opening |-> o, bytes |-> b, max |-> n]

MCSetups ==
  {\* strings, generic arrays, delimiters; 4 is also an array of 16-bit floats
   Reader("Values", <<>>, {0, 2, 4, 5, 6}, 4),
   \* objects with text (3) and one-byte (19) keys
   Reader("Values", <<>>, {0, 3, 4, 19}, 5),
   \* packed booleans and typed strings
   Reader("Values", <<>>, {4, 12, 28, 60}, 4),
   \* tags, matrices, and the depth limit
   Reader("Values", <<>>, {0, 14, 22}, 6),
   \* aligned blocks, of bytes (20) and of 16-bit numbers (52)
   Reader("Values", <<92>>, {0, 4, 20, 28}, 5),
   Reader("Values", <<92, 52, 4>>, {0, 1, 2}, 7),
   \* complex numbers: one (16), a run (17), an aligned run (18)
   Reader("Values", <<30>>, {0, 4, 16, 17}, 5),
   Reader("Values", <<30, 18, 92>>, {0, 4, 8, 20}, 7),
   \* counts and extents past usize
   Reader("Values", <<>>, {3, 4, 36, 68}, 4),
   \* the elements of generic and typed arrays, of nine booleans, and of pairs
   Reader("Array", <<>>, {0, 4, 5, 8}, 5),
   Reader("Array", <<>>, {4, 20, 28, 60}, 4),
   Reader("Array", <<28, 36>>, {0, 1, 2}, 5),
   Reader("Array", <<92, 52, 4>>, {0, 1}, 7),
   Reader("Array", <<30>>, {4, 16, 17}, 5),
   Reader("Array", <<30, 18, 92, 20>>, {0, 4, 8}, 7)}
=============================================================================
