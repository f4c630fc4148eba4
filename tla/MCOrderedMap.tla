---------------------------- MODULE MCOrderedMap ----------------------------
(* Six keys around every threshold: a table from the third entry, a larger *)
(* one from the fourth, none again for the sixth.  One value: what the map *)
(* does never depends on it.  MCMapUnwind.cfg takes UnwindSpec, in which   *)
(* the predicate given to retain may unwind part way through.              *)
EXTENDS OrderedMap

CONSTANT v1
MCKey   == 1 .. 6
MCValue == {v1}

\* Home buckets that collide, chain, and wrap round the end of the table; two
\* keys share a whole hash.
MCHashKeys == {<<3, 3, 7, 11, 2, 6>>, <<7, 6, 7, 0, 15, 14>>}
=============================================================================
