------------------------------ MODULE Stepwise ------------------------------
(***************************************************************************)
(* Steps that may fail, one after another.  A result is a record with a    *)
(* code, "none" while nothing has failed: what `?` does in the code.       *)
(***************************************************************************)

\* op of the value v, which is found once.
With(v, op(_)) == LET x == v IN op(x)

\* The first failure stands.
Then(r, next(_)) == LET x == r IN IF x.code = "none" THEN next(x) ELSE x
=============================================================================
