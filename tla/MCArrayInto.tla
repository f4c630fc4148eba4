---------------------------- MODULE MCArrayInto -----------------------------
(* As a size, the byte 4k is k, and 5 opens one of two bytes.              *)
EXTENDS ArrayInto

UpTo(opening, bytes, k) ==
  {opening \o tail : tail \in UNION {[1 .. j -> bytes] : j \in 0 .. k}}

MCDocuments ==
  [element \in {17, 49, 23} |->
     CASE element = 17 ->   \* u8: 20 is its array, 92 one that is aligned
            [first |-> UpTo(<<>>, {0, 4, 5, 20, 92}, 4)
                       \cup UpTo(<<20, 28>>, {1}, 8) \cup UpTo(<<92, 20, 16>>, {0, 1}, 5)
                       \cup UpTo(<<>>, {0, 5, 12, 28, 52, 60, 124, 212}, 2),
             again |-> {<<20, 16, 1, 1, 1, 1>>, <<20, 56, 1, 1, 1, 1, 1>>, <<20>>}]
       [] element = 49 ->   \* u16; 36 is nine, whose bytes usize cannot count
            [first |-> UpTo(<<52>>, {4, 12, 36}, 3) \cup UpTo(<<92, 52, 12>>, {0, 1}, 8),
             again |-> {<<52, 12, 1, 1, 1, 1, 1, 1>>}]
       [] element = 23 ->   \* Complex<u8>: one (16), a run (17), an aligned run (18)
            [first |-> UpTo(<<30>>, {4, 12, 16, 17, 18, 19}, 3)
                       \cup UpTo(<<30, 17, 20>>, {1}, 11)
                       \cup UpTo(<<30, 18>>, {0, 4, 20, 92}, 3)
                       \cup UpTo(<<30, 18, 92, 20>>, {0, 1, 8, 12, 24}, 3)
                       \cup UpTo(<<30, 18, 92, 20, 16, 0>>, {1}, 5),
             again |-> {<<30, 17, 12, 1, 1, 1, 1, 1, 1>>}]]

MCCapacities == {0, 1, 5}
=============================================================================
