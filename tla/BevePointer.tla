---------------------------- MODULE BevePointer -----------------------------
(***************************************************************************)
(* A JSON Pointer followed into a BEVE document: Reader::seek and          *)
(* read_at (beve/reader.rs), which step over the siblings in front of the  *)
(* value and multiply into typed arrays; and Value::pointer (value.rs),    *)
(* which follows the same pointer into a tree.                             *)
(*                                                                         *)
(* A pointer is rooted, which is to begin with a slash, and has tokens,    *)
(* sequences of bytes.  The empty pointer has none and need not be rooted. *)
(***************************************************************************)
EXTENDS BeveReader

Tilde == 126
Slash == 47
Dash  == 45

\* check_escapes: a tilde begins ~0 or ~1.
EscapesFormed(t) ==
  \A k \in DOMAIN t : t[k] = Tilde => k < Len(t) /\ t[k + 1] \in {48, 49}

\* What token_eq compares a key with, and what unescape_token makes.
RECURSIVE Unescaped(_)
Unescaped(t) ==
  CASE t = <<>> -> <<>>
    [] Len(t) > 1 /\ Head(t) = Tilde /\ t[2] \in {48, 49} ->
         <<IF t[2] = 48 THEN Tilde ELSE Slash>> \o Unescaped(SubSeq(t, 3, Len(t)))
    [] OTHER -> <<Head(t)>> \o Unescaped(Tail(t))

\* index: in decimal, with no leading zero; a dash is past the last element.
Canonical(t)    == AllDigits(Chars(t)) /\ (t[1] = 48 => Len(t) = 1)
IndexToken(r, t) ==
  CASE t = <<Dash>> -> Fail(r, "NoSuchValue")
    [] t # <<Dash>> /\ ~Canonical(t) -> Fail(r, "InvalidPointer")
    [] Canonical(t) /\ NumberOf(Chars(t)) > MaxUsize -> Fail(r, "NoSuchValue")
    [] OTHER -> Give(r, NumberOf(Chars(t)))

-----------------------------------------------------------------------------
(* The walk.                                                               *)

\* The first k values are stepped over.
RECURSIVE SkipMany(_, _)
SkipMany(r, k) == IF k = 0 THEN r ELSE Then(Skip(r), LAMBDA q : SkipMany(q, k - 1))

\* Reader::descend_object: onto the first member whose key the token names.
DescendObject(r, h, t) ==
  LET width  == KeyWidth(h)
      wanted == IF width = 0 THEN Unescaped(t) ELSE ParseIntText(Sub(h) = Signed, Chars(t))
      key(q) == IF width = 0 THEN Then(CountOf(q), LAMBDA n : Take(n, n.val))
                ELSE Then(Take(q, width), LAMBDA b : Give(b, <<LeInt(Sub(h), b.val)>>))
      RECURSIVE Seek(_, _)
      Seek(q, n) ==
        IF n = 0 THEN Fail(q, "NoSuchValue")
        ELSE Then(key(q), LAMBDA k :
               IF k.val = wanted THEN k ELSE Then(Skip(k), LAMBDA p : Seek(p, n - 1)))
  IN CASE width = -1 -> Fail(r, "InvalidHeader")
       [] width > 0 /\ wanted = <<>> -> Fail(r, "NoSuchValue")
       [] OTHER -> Then(CountOf(r), LAMBDA q : Then(Enter(q), LAMBDA p : Seek(p, q.val)))

\* How far into a block the element i is.
BytesBefore_Counted(f, i) == Got(f.pos, i)   \* slip: whatever its width
BytesBefore(f, i) == Block([f EXCEPT !.n = i], ByteWidth(f.elem))

\* Reader::descend_typed: an element has no header, so one is installed.  The
\* cursor stays in front of packed booleans, whose header is all of them.
DescendTyped(r, h, i) ==
  Then(Enter(r), LAMBDA e : Then(TypedForm(e, h), LAMBDA q : With(q.val, LAMBDA f :
    CASE i >= f.n -> Fail(q, "NoSuchValue")
      [] i < f.n /\ f.kind = "Bools" ->
           Install(q, IF BitSet(SubSeq(q.s, q.pos + 1, Len(q.s)), i + 1) THEN TRUE8 ELSE FALSE8)
      [] i < f.n /\ f.kind = "Strings" ->
           Then(Took(q, SkipStrings(q.s, FALSE, q.pos, i)), LAMBDA p : Install(p, String))
      [] i < f.n /\ f.kind = "Fixed" ->
           Then(Took(q, BytesBefore(f, i)), LAMBDA b :
             Then(Take(b, b.val.n), LAMBDA p :
               Then(Have(p, ByteWidth(f.elem)), LAMBDA at : Install(at, ElementOf(f.elem))))))))

\* Reader::descend, from the container at the cursor onto what a token names.
Descend(r, t) ==
  Then(HeadOf(r), LAMBDA q : With(q.val, LAMBDA h :
    CASE Ty(h) = Object -> DescendObject(q, h, t)
      [] Ty(h) = GenericArray ->
           IF ~Bare(h) THEN Fail(q, "InvalidHeader")
           ELSE Then(IndexToken(q, t), LAMBDA i : Then(CountOf(i), LAMBDA n : Then(Enter(n), LAMBDA e :
                  IF i.val >= n.val THEN Fail(e, "NoSuchValue") ELSE SkipMany(e, i.val))))
      [] Ty(h) = TypedArray -> Then(IndexToken(q, t), LAMBDA i : DescendTyped(i, h, i.val))
      [] Ty(h) \in {NullBool, Number, String} \/ (Ty(h) = Extension /\ h # DELIMITER) ->
           Fail(q, "NoSuchValue")
      [] OTHER -> Fail(q, "InvalidHeader")))

\* Reader::descend_path.
RECURSIVE DescendAll(_, _)
DescendAll(r, tokens) ==
  CASE tokens = <<>> -> r
    [] tokens # <<>> /\ ~EscapesFormed(Head(tokens)) -> Fail(r, "InvalidPointer")
    [] OTHER -> Then(Descend(r, Head(tokens)), LAMBDA q : DescendAll(q, Tail(tokens)))
DescendPath(r, p) ==
  IF ~p.rooted /\ p.tokens # <<>> THEN Fail(r, "InvalidPointer") ELSE DescendAll(r, p.tokens)

\* Reader::walk: a failure counts no level; a walk that gets there, those it passed.
Walk(r, p) ==
  With(DescendPath(r, p), LAMBDA q : IF q.code = "none" THEN q ELSE [q EXCEPT !.depth = r.depth])

\* Reader::seek and read_at: the levels are given back at once, or after a read
\* that is measured at the depth of the document it sits at.
SeekTo(r, p) == [Walk(r, p) EXCEPT !.depth = r.depth]
ReadAt(r, p) == [Then(Walk(r, p), LAMBDA q : ReadValue(q)) EXCEPT !.depth = r.depth]

\* from_slice_at, of a Value: nothing after it is looked at.
FromSliceAt(s, p) == ReadAt(NewReader(Standard, s), p)

-----------------------------------------------------------------------------
(* Value::pointer: the nodes a pointer names, one or none.                 *)

Missing == <<>>

Named(node, t) ==
  LET digits == Chars(IF t # <<>> /\ Head(t) = 43 THEN Tail(t) ELSE t)   \* str::parse::<usize>
      at == {k \in DOMAIN node.sub : node.sub[k][1] = Chars(Unescaped(t))}
  IN CASE node.kind = "object" -> IF at = {} THEN Missing ELSE <<node.sub[Min(at)][2]>>
       [] node.kind = "array" /\ AllDigits(digits) ->
            IF NumberOf(digits) < Len(node.sub) THEN <<node.sub[NumberOf(digits) + 1][2]>> ELSE Missing
       [] OTHER -> Missing

ValuePointer(node, p) ==
  IF ~p.rooted /\ p.tokens # <<>> THEN Missing
  ELSE FoldLeft(LAMBDA found, t : IF found = Missing THEN Missing ELSE Named(found[1], t),
                <<node>>, p.tokens)
=============================================================================
