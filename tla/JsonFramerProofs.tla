-------------------------- MODULE JsonFramerProofs --------------------------
(***************************************************************************)
(* The JSON splitter over a stream cut at any byte: two results, for both  *)
(* readers.                                                                *)
(*                                                                         *)
(* It keeps the framer contract of the window, so a feed is a StreamWindow *)
(* and a pull reader is a Documents, whatever the stream and however it is *)
(* cut, and their theorems hold of it.  The argument goes inwards.  A turn *)
(* of the splitter's loop (Turned) keeps it ready to resume, never moves   *)
(* the cursor back and either gives an answer of the contract or leaves    *)
(* less to do; so the loop ends on an answer.  A turn is a search over     *)
(* white space or inside a value; each is a loop over the bytes that stops *)
(* in the buffer, and at its end unless it found what it looks for.        *)
(*                                                                         *)
(* And what it finds is what the stream holds (ChunkingIsInvisible).  The  *)
(* second half first turns the reference's functions, which choose a       *)
(* solution of an equation, into that equation; then follows each search   *)
(* through a stream of which the buffer shows a part only (Traced,         *)
(* Skipped, OnLine); and says of the splitter, between two questions, that *)
(* it stands in the stream with these values still to find (Standing).     *)
(* What was given out and what is still to find are the values of the      *)
(* whole, whichever stream this one turns out to be (Tracks).              *)
(***************************************************************************)
EXTENDS JsonFeed, JsonDocuments, Induction

States == {"BeforeOpen", "FirstItem", "BeforeItem", "InItem", "AfterItem", "Done"}

Scans == [pos : Nat, depth : Nat, inString : BOOLEAN, escaped : BOOLEAN,
          scalar : BOOLEAN, comment : Comments]

Splitters == [mode : Modes, comments : BOOLEAN, state : States, cursor : Nat,
              probe : Nat, comment : Comments, scan : Scans]

\* The splitter can be asked about a buffer of n bytes: all its offsets lie in
\* it, and the value it is inside of begins on one of its bytes.
Ready(s, n) ==
  /\ s \in Splitters
  /\ s.cursor <= n /\ s.probe <= n /\ s.scan.pos <= n
  /\ s.state = "InItem" => s.mode # "Lines" /\ s.cursor < n /\ s.cursor <= s.scan.pos

\* What is still to do before an answer: lines to skip, or states to pass.
Rank == [state \in States |->
  CASE state \in {"BeforeOpen", "AfterItem"} -> 3
    [] state \in {"FirstItem", "BeforeItem"} -> 2
    [] OTHER                                 -> 1]

Left(s, n) == IF s.mode = "Lines" THEN n - s.cursor ELSE Rank[s.state]

\* What next and the turns of its loop return.
Replies == [sp  : Splitters,
            out : [kind : {"again", "need", "end", "fail", "item"}, code : JsonCodes \cup {"none"},
                   cursor : Nat, start : Nat, end : Nat]]

\* r is what the contract lets a framer say that stood at cursor c.
Answered(r, c, n, ended) ==
  /\ r.out.kind # "again"
  /\ r.out \in W!FramerOutcomes(n, c, ended)
  /\ r.out.cursor = r.sp.cursor
  /\ r.out.kind # "fail" => Ready(r.sp, n)

\* r is what one turn of the loop may come to, from s.
Turned(r, s, n, ended) ==
  /\ r \in Replies
  /\ \/ Answered(r, s.cursor, n, ended)
     \/ /\ r.out.kind = "again"
        /\ Ready(r.sp, n)
        /\ r.sp.mode = s.mode
        /\ s.cursor <= r.sp.cursor
        /\ Left(r.sp, n) < Left(s, n)

-----------------------------------------------------------------------------
(* Numbers.                                                                *)

\* First is the least of a set of offsets, or the default of an empty one.
LEMMA FirstIsLeast ==
  ASSUME NEW a \in Nat, NEW b \in Int, NEW S, S \subseteq a .. b, NEW d
  PROVE  /\ S = {} => First(S, d) = d
         /\ S # {} => First(S, d) \in S /\ \A j \in S : First(S, d) <= j
<1>1. CASE S = {}
  BY <1>1 DEF First
<1>2. CASE S # {}
  <2>1. S \subseteq Nat
    OBVIOUS
  <2>2. \E i \in S : \A j \in S : i <= j
    BY <1>2, <2>1, LeastElement
  <2>3. First(S, d) = CHOOSE i \in S : \A j \in S : i <= j
    BY <1>2 DEF First
  <2> QED BY <1>2, <2>2, <2>3, Zenon
<1> QED BY <1>1, <1>2

-----------------------------------------------------------------------------
(* Over white space.                                                       *)

\* A search from i, in a buffer of n bytes: it is inside it, on a byte if it
\* found one, and starves only while there can be more.
Skips(i, n) == [pos : i .. n, comment : Comments, out : {"more", "starved", "byte"}]

Skipping(s, i, n, ended) ==
  /\ s \in Skips(i, n)
  /\ s.out = "starved" => ~ended
  /\ s.out = "byte" => s.pos < n

\* A byte of a comment leaves it in a comment state (Comment::step).
LEMMA CommentFacts ==
  ASSUME NEW comment \in Comments, NEW c
  PROVE  StepComment(comment, c) \in Comments
BY DEF StepComment, Comments

\* A comment begins on two bytes of the buffer (Comment::begin).
LEMMA BeginFacts ==
  ASSUME NEW data, NEW i
  PROVE  /\ Begin(data, i) \in Comments
         /\ Begin(data, i) # "No" => i + 1 < Len(data)
BY DEF Begin, Comments

\* A slash is neither white space, nor a delimiter, nor the start of a scalar.
LEMMA SlashFacts == ~IsWs("/") /\ "/" \notin Delimiters /\ ~ScalarByte("/")
<1>1. ~IsWs("/")
  BY Zenon DEF IsWs, Newline
<1>2. "/" \notin Delimiters
  BY Zenon DEF Delimiters, Opens, Closes, Quote, Bracket, Unbracket
<1>3. ~ScalarByte("/")
  BY Zenon DEF ScalarByte
<1> QED BY <1>1, <1>2, <1>3

\* A search moved on, to p and into comment d.
Moved(t, s, p, d) == t = [s EXCEPT !.comment = d, !.pos = p]

\* A search over white space that moved on, and into a comment or out of one, is
\* still one.
LEMMA SkipMoves ==
  ASSUME NEW i \in Nat, NEW n \in Nat, NEW ended \in BOOLEAN,
         NEW s, Skipping(s, i, n, ended), s.out = "more", NEW p \in s.pos .. n, NEW d \in Comments,
         NEW t, Moved(t, s, p, d)
  PROVE  Skipping(t, i, n, ended) /\ t.pos = p
<1>1. s \in Skips(i, n) /\ s.pos \in i .. n
  BY DEF Skipping, Skips
<1>2. p \in i .. n
  BY <1>1
<1>3. t \in Skips(i, n)
  BY <1>1, <1>2, Zenon DEF Skips, Moved
<1>4. t.out = "more" /\ t.pos = p
  BY <1>1 DEF Skips, Moved
<1> QED BY <1>3, <1>4 DEF Skipping

\* One byte of skip_ws_from keeps the search in the buffer and moves it on, unless
\* it ends it.
LEMMA SkipByteFacts ==
  ASSUME NEW data, NEW n \in Nat, n = Len(data), NEW i \in Nat, NEW ended \in BOOLEAN,
         NEW comments \in BOOLEAN,
         NEW s, Skipping(s, i, n, ended), s.out = "more", s.pos < n,
         NEW t, t = SkipByte(s, data, ended, comments)
  PROVE  Skipping(t, i, n, ended) /\ (t.out = "more" => t.pos > s.pos)
<1> DEFINE c == At(data, s.pos)
<1>1. s \in Skips(i, n) /\ s.pos \in i .. n /\ s.comment \in Comments
  BY DEF Skipping, Skips
<1>2. CASE s.comment # "No"
  <2> DEFINE d == StepComment(s.comment, c)
             p == s.pos + 1
  <2>1. Moved(t, s, p, d)
    BY <1>2 DEF SkipByte, Moved
  <2>2. d \in Comments
    BY <1>1, CommentFacts
  <2>3. p \in s.pos .. n /\ p > s.pos
    BY <1>1
  <2> HIDE DEF d, p
  <2>4. Skipping(t, i, n, ended) /\ t.pos = p
    BY <1>1, <2>1, <2>2, <2>3, SkipMoves
  <2> QED BY <2>3, <2>4
<1>3. CASE s.comment = "No" /\ IsWs(c)
  <2>1. t = [s EXCEPT !.pos = @ + 1]
    BY <1>3, SlashFacts DEF SkipByte
  <2> QED BY <1>1, <2>1 DEF Skipping, Skips
<1>4. CASE s.comment = "No" /\ ~IsWs(c) /\ comments /\ c = "/" /\ Begin(data, s.pos) # "No"
  <2> DEFINE d == Begin(data, s.pos)
             p == s.pos + 2
  <2>2. d \in Comments /\ s.pos + 1 < n
    BY <1>4, BeginFacts
  <2>u. ~Undecided(data, s.pos, ended)
    BY <1>1, <2>2 DEF Undecided
  <2>1. Moved(t, s, p, d)
    BY <1>4, <2>u DEF SkipByte, Moved
  <2>3. p \in s.pos .. n /\ p > s.pos
    BY <1>1, <2>2
  <2> HIDE DEF d, p
  <2>4. Skipping(t, i, n, ended) /\ t.pos = p
    BY <1>1, <2>1, <2>2, <2>3, SkipMoves
  <2> QED BY <2>3, <2>4
<1>5. CASE /\ s.comment = "No" /\ ~IsWs(c)
           /\ ~(comments /\ c = "/" /\ Begin(data, s.pos) # "No")
           /\ comments /\ c = "/" /\ Undecided(data, s.pos, ended)
  <2>1. t = [s EXCEPT !.out = "starved"]
    BY <1>5 DEF SkipByte
  <2>2. ~ended
    BY <1>5 DEF Undecided
  <2> QED BY <1>1, <2>1, <2>2 DEF Skipping, Skips
<1>6. CASE /\ s.comment = "No" /\ ~IsWs(c)
           /\ ~(comments /\ c = "/" /\ Begin(data, s.pos) # "No")
           /\ ~(comments /\ c = "/" /\ Undecided(data, s.pos, ended))
  <2>1. t = [s EXCEPT !.out = "byte"]
    BY <1>6 DEF SkipByte
  <2> QED BY <1>1, <2>1 DEF Skipping, Skips
<1> QED BY <1>2, <1>3, <1>4, <1>5, <1>6

\* skip_ws stops inside the buffer, at its end unless it found something; and
\* has nothing to find where it starts at the end.
LEMMA SkipFacts ==
  ASSUME NEW data, Len(data) \in Nat, NEW i \in 0 .. Len(data), NEW c \in Comments,
         NEW ended \in BOOLEAN, NEW comments \in BOOLEAN,
         NEW s, s = SkipFrom(data, i, c, ended, comments)
  PROVE  /\ Skipping(s, i, Len(data), ended)
         /\ s.out = "more" => s.pos = Len(data)
         /\ i = Len(data) => s.out = "more" /\ s.comment = c
<1> DEFINE n == Len(data)
           first == [pos |-> i, comment |-> c, out |-> "more"]
           Step(u) == IF u.out = "more" /\ u.pos < n THEN SkipByte(u, data, ended, comments) ELSE u
           X == {u \in Skips(i, n) : Skipping(u, i, n, ended)}
           F == [k \in 1 .. n |-> [u \in X |-> Step(u)]]
           G(h) == [k \in 0 .. n |-> IF k = 0 THEN first ELSE Step(h[k - 1])]
           run == CHOOSE h : h = G(h)
<1>n. n \in Nat /\ i \in 0 .. n
  OBVIOUS
<1>1. s = run[n]
  BY DEF SkipFrom, Scan
<1>2. first \in X /\ first.pos = i /\ first.out = "more" /\ first.comment = c
  BY DEF Skips, Skipping
<1>3. ASSUME NEW u \in X
      PROVE  Step(u) \in X /\ (Step(u).out = "more" /\ u.pos < n => Step(u).pos > u.pos)
  <2>1. Skipping(u, i, n, ended) /\ u.pos \in i .. n
    BY DEF Skipping, Skips
  <2>2. CASE u.out = "more" /\ u.pos < n
    <3>1. Step(u) = SkipByte(u, data, ended, comments)
      BY <2>2
    <3>2. Skipping(Step(u), i, n, ended) /\ (Step(u).out = "more" => Step(u).pos > u.pos)
      <4> HIDE DEF Step
      <4> QED BY <2>1, <2>2, <3>1, SkipByteFacts
    <3> HIDE DEF Step
    <3> QED BY <3>2 DEF Skipping
  <2>3. CASE ~(u.out = "more" /\ u.pos < n)
    BY <2>1, <2>3
  <2> QED BY <2>2, <2>3
<1>4. \A u \in Skips(i, n) : ~(u.out = "more" /\ u.pos < n) => Step(u) = u
  OBVIOUS
<1>5. run = CHOOSE h : h = G(h)
  OBVIOUS
<1>l. n = Len(data)
  OBVIOUS
<1> HIDE DEF n, first, Step, run
<1>6. \E h : h = G(h)
  <2>1. F \in [1 .. n -> [X -> X]]
    BY <1>3
  <2>2. \A k \in 1 .. n : \A u \in X : F[k][u] = Step(u)
    OBVIOUS
  <2> HIDE DEF X, F
  <2>3. PICK g : IsRun(g, X, first, n, F)
    BY <1>n, <1>2, <2>1, RunExists
  <2>4. ASSUME NEW k \in 1 .. n
        PROVE  g[k] = Step(g[k - 1])
    <3>1. k - 1 \in 0 .. n
      BY <1>n
    <3> QED BY <2>2, <2>3, <3>1 DEF IsRun
  <2>5. \A k \in 0 .. n : k # 0 => k \in 1 .. n
    OBVIOUS
  <2>6. g = G(g)
    BY <2>3, <2>4, <2>5 DEF IsRun
  <2> QED BY <2>6
<1>7. run = G(run)
  BY <1>5, <1>6
<1>8. run[0] = first /\ \A k \in 1 .. n : run[k] = Step(run[k - 1])
  <2>1. \A k \in 0 .. n : run[k] = IF k = 0 THEN first ELSE Step(run[k - 1])
    BY <1>7
  <2>2. 0 \in 0 .. n /\ \A k \in 1 .. n : k \in 0 .. n /\ k # 0
    BY <1>n
  <2> HIDE DEF G
  <2> QED BY <2>1, <2>2
<1> DEFINE S == {k \in 0 .. n : /\ run[k] \in X
                                /\ run[k].out = "more" => run[k].pos >= n \/ run[k].pos >= i + k
                                /\ i = n => run[k] = first}
<1>9. 0 \in S
  BY <1>n, <1>2, <1>8
<1>10. ASSUME NEW k \in 1 .. n, k - 1 \in S
       PROVE  k \in S
  <2> DEFINE u == run[k - 1]
             v == run[k]
  <2>1. /\ u \in X /\ (u.out = "more" => u.pos >= n \/ u.pos >= i + (k - 1))
        /\ (i = n => u = first) /\ v = Step(u)
    BY <1>8, <1>10
  <2>2. u \in Skips(i, n) /\ u.pos \in i .. n
    BY <2>1 DEF Skips
  <2> HIDE DEF u, v
  <2>3. v \in X /\ (v.out = "more" /\ u.pos < n => v.pos > u.pos)
    BY <1>3, <2>1
  <2>4. ~(u.out = "more" /\ u.pos < n) => v = u
    BY <1>4, <2>1, <2>2
  <2>5. v.pos \in i .. n
    BY <2>3 DEF Skips
  <2>6. v.out = "more" => v.pos >= n \/ v.pos >= i + k
    BY <1>n, <2>1, <2>2, <2>3, <2>4, <2>5
  <2>7. i = n => v = first
    BY <1>2, <2>1, <2>4
  <2> QED BY <2>3, <2>6, <2>7 DEF v
<1>11. n \in S
  <2> HIDE DEF S
  <2>1. 0 .. n \subseteq S
    BY <1>n, <1>9, <1>10, UpToInduction
  <2> QED BY <1>n, <2>1
<1>12. Skipping(s, i, n, ended)
  BY <1>1, <1>11
<1>13. s.pos \in i .. n
  BY <1>12 DEF Skipping, Skips
<1>14. s.out = "more" => s.pos >= n
  BY <1>1, <1>11, <1>13
<1>15. i = n => s = first
  BY <1>1, <1>11
<1> QED BY <1>l, <1>n, <1>2, <1>12, <1>13, <1>14, <1>15

-----------------------------------------------------------------------------
(* Inside a value.                                                         *)

Outs == {"more", "starved", "item", "ExceededMaxDepth", "UnexpectedCharacter"}

\* A search from i inside a value, in a buffer of n bytes.
Searches(i, n) == [out : Outs, pos : i .. n, depth : Nat, inString : BOOLEAN,
                   escaped : BOOLEAN, scalar : BOOLEAN, comment : Comments]

\* It is sound, and goes on only with progress.
Onward(t, s, i, n) == t \in Searches(i, n) /\ (t.out = "more" => t.pos > s.pos)

\* A byte inside a string moves the search on (Scanner::advance).
LEMMA StringFacts ==
  ASSUME NEW i \in Nat, NEW n \in Nat, NEW s \in Searches(i, n), s.pos < n, s.out = "more", NEW c
  PROVE  Onward(StringByte(s, c), s, i, n)
<1> DEFINE e == (c = Quote /\ ~s.escaped)
           a == (c = Backslash /\ ~s.escaped)
           q == ~e
           o == IF e /\ s.depth = 0 THEN "item" ELSE "more"
           p == s.pos + 1
           t == [s EXCEPT !.pos = p, !.escaped = a, !.inString = q, !.out = o]
<1>1. StringByte(s, c) = t
  BY DEF StringByte
<1>2. a \in BOOLEAN /\ q \in BOOLEAN
  OBVIOUS
<1>3. o \in Outs
  BY DEF Outs
<1>4. s.pos \in i .. n /\ p \in i .. n /\ p > s.pos
  BY DEF Searches
<1> HIDE DEF a, q, o, p
<1>5. t \in Searches(i, n)
  BY <1>2, <1>3, <1>4, Zenon DEF Searches
<1>6. t.pos = p
  BY DEF Searches
<1> HIDE DEF t
<1> QED BY <1>1, <1>4, <1>5, <1>6 DEF Onward

\* What the arms of the search leave, and the fields they change.
Arm(t, s, p, m, d, q, o) ==
  \/ t = [s EXCEPT !.comment = m, !.pos = p]
  \/ t = [s EXCEPT !.pos = p]
  \/ t = [[s EXCEPT !.pos = p] EXCEPT !.inString = q]
  \/ t = [[s EXCEPT !.pos = p] EXCEPT !.scalar = q]
  \/ t = [[s EXCEPT !.pos = p] EXCEPT !.depth = d]
  \/ t = [[s EXCEPT !.pos = p] EXCEPT !.depth = d, !.out = o]
  \/ o # "more" /\ t = [s EXCEPT !.out = o]
  \/ o # "more" /\ t = [s EXCEPT !.scalar = q, !.out = o]

\* Whatever an arm of the search sets, the search is sound and moved on.
LEMMA ArmFacts ==
  ASSUME NEW i \in Nat, NEW n \in Nat, NEW s \in Searches(i, n), s.out = "more",
         NEW p \in i .. n, p > s.pos, NEW m \in Comments, NEW d \in Nat, NEW q \in BOOLEAN,
         NEW o \in Outs, NEW t, Arm(t, s, p, m, d, q, o)
  PROVE  Onward(t, s, i, n)
<1> DEFINE r == [s EXCEPT !.pos = p]
<1>1. r \in Searches(i, n) /\ r.pos = p
  <2>1. r \in Searches(i, n)
    BY Zenon DEF Searches
  <2>2. r.pos = p
    BY DEF Searches
  <2> QED BY <2>1, <2>2
<1>2. Onward(r, s, i, n)
  BY <1>1 DEF Onward
<1> HIDE DEF r
<1>3. Onward([s EXCEPT !.comment = m, !.pos = p], s, i, n)
  <2>1. [s EXCEPT !.comment = m, !.pos = p] \in Searches(i, n)
    BY Zenon DEF Searches
  <2>2. [s EXCEPT !.comment = m, !.pos = p].pos = p
    BY DEF Searches
  <2> QED BY <2>1, <2>2 DEF Onward
<1>4. Onward([r EXCEPT !.inString = q], s, i, n)
  <2>1. [r EXCEPT !.inString = q] \in Searches(i, n)
    BY <1>1, Zenon DEF Searches
  <2>2. [r EXCEPT !.inString = q].pos = p
    BY <1>1 DEF Searches
  <2> QED BY <2>1, <2>2 DEF Onward
<1>5. Onward([r EXCEPT !.scalar = q], s, i, n)
  <2>1. [r EXCEPT !.scalar = q] \in Searches(i, n)
    BY <1>1, Zenon DEF Searches
  <2>2. [r EXCEPT !.scalar = q].pos = p
    BY <1>1 DEF Searches
  <2> QED BY <2>1, <2>2 DEF Onward
<1>6. Onward([r EXCEPT !.depth = d], s, i, n)
  <2>1. [r EXCEPT !.depth = d] \in Searches(i, n)
    BY <1>1, Zenon DEF Searches
  <2>2. [r EXCEPT !.depth = d].pos = p
    BY <1>1 DEF Searches
  <2> QED BY <2>1, <2>2 DEF Onward
<1>7. Onward([r EXCEPT !.depth = d, !.out = o], s, i, n)
  <2>1. [r EXCEPT !.depth = d, !.out = o] \in Searches(i, n)
    BY <1>1, Zenon DEF Searches
  <2>2. [r EXCEPT !.depth = d, !.out = o].pos = p
    BY <1>1 DEF Searches
  <2> QED BY <2>1, <2>2 DEF Onward
<1>8. ASSUME o # "more" PROVE Onward([s EXCEPT !.out = o], s, i, n)
  <2>1. [s EXCEPT !.out = o] \in Searches(i, n)
    BY Zenon DEF Searches
  <2>2. [s EXCEPT !.out = o].out = o
    BY DEF Searches
  <2> QED BY <1>8, <2>1, <2>2 DEF Onward
<1>9. ASSUME o # "more" PROVE Onward([s EXCEPT !.scalar = q, !.out = o], s, i, n)
  <2>1. [s EXCEPT !.scalar = q, !.out = o] \in Searches(i, n)
    BY Zenon DEF Searches
  <2>2. [s EXCEPT !.scalar = q, !.out = o].out = o
    BY DEF Searches
  <2> QED BY <1>9, <2>1, <2>2 DEF Onward
<1> QED
  BY <1>2, <1>3, <1>4, <1>5, <1>6, <1>7, <1>8, <1>9, Zenon DEF r, Arm

\* A bracket, a comma, a quote or a delimiter of a scalar moves the search on or
\* ends it.
LEMMA StructuralFacts ==
  ASSUME NEW i \in Nat, NEW n \in Nat, NEW s \in Searches(i, n), s.pos < n, s.out = "more", NEW c
  PROVE  Onward(StructuralByte(s, c), s, i, n)
<1> DEFINE p == s.pos + 1
           r == [s EXCEPT !.pos = p]
           o == IF s.depth = 1 THEN "item" ELSE "more"
           t == StructuralByte(s, c)
<1>1. s.pos \in i .. n /\ p \in i .. n /\ p > s.pos /\ s.depth \in Nat
  BY DEF Searches
<1>2. o \in Outs
  BY DEF Outs
<1>3. \/ t = [r EXCEPT !.inString = TRUE]
      \/ t = [r EXCEPT !.depth = s.depth + 1]
      \/ t = [s EXCEPT !.out = "ExceededMaxDepth"]
      \/ s.depth > 0 /\ t = [r EXCEPT !.depth = s.depth - 1, !.out = o]
      \/ t = [s EXCEPT !.out = "UnexpectedCharacter"]
      \/ t = r
      \/ t = [r EXCEPT !.scalar = TRUE]
  BY <1>1 DEF StructuralByte, Searches
<1>4. s.depth + 1 \in Nat /\ (s.depth > 0 => s.depth - 1 \in Nat)
  BY <1>1
<1>5. "ExceededMaxDepth" \in Outs /\ "UnexpectedCharacter" \in Outs
  BY DEF Outs
<1> HIDE DEF p, o, t
<1>6. \E d \in Nat, x \in Outs : Arm(t, s, p, s.comment, d, TRUE, x)
  <2>1. CASE t = [r EXCEPT !.depth = s.depth + 1]
    BY <1>2, <1>4, <2>1, Zenon DEF Arm
  <2>2. CASE s.depth > 0 /\ t = [r EXCEPT !.depth = s.depth - 1, !.out = o]
    BY <1>2, <1>4, <2>2, Zenon DEF Arm
  <2>3. CASE t = [s EXCEPT !.out = "ExceededMaxDepth"]
    <3>1. "ExceededMaxDepth" # "more"
      OBVIOUS
    <3> QED BY <1>1, <1>5, <2>3, <3>1, Zenon DEF Arm
  <2>4. CASE t = [s EXCEPT !.out = "UnexpectedCharacter"]
    <3>1. "UnexpectedCharacter" # "more"
      OBVIOUS
    <3> QED BY <1>1, <1>5, <2>4, <3>1, Zenon DEF Arm
  <2>5. CASE t = [r EXCEPT !.inString = TRUE] \/ t = r \/ t = [r EXCEPT !.scalar = TRUE]
    BY <1>1, <1>2, <2>5, Zenon DEF Arm
  <2> QED BY <1>3, <2>1, <2>2, <2>3, <2>4, <2>5
<1>7. s.comment \in Comments
  BY DEF Searches
<1> HIDE DEF r
<1> QED BY <1>1, <1>6, <1>7, ArmFacts DEF t

\* One byte of the search inside a value, in a comment, a string or outside.
LEMMA ScanByteFacts ==
  ASSUME NEW data, NEW n \in Nat, n = Len(data), NEW i \in Nat, NEW comments \in BOOLEAN,
         NEW s \in Searches(i, n), s.pos < n, s.out = "more"
  PROVE  Onward(ScanByte(s, data, comments), s, i, n)
<1> DEFINE c == At(data, s.pos)
           p == s.pos + 1
           w == s.pos + 2
           m == StepComment(s.comment, c)
           b == Begin(data, s.pos)
           t == ScanByte(s, data, comments)
<1>1. s.pos \in i .. n /\ p \in i .. n /\ p > s.pos /\ s.depth \in Nat /\ s.comment \in Comments
  BY DEF Searches
<1>2. \/ t = [s EXCEPT !.comment = m, !.pos = p]
      \/ t = StringByte(s, c)
      \/ t = [s EXCEPT !.pos = p]
      \/ t = [s EXCEPT !.scalar = FALSE, !.out = "item"]
      \/ b # "No" /\ t = [s EXCEPT !.comment = b, !.pos = w]
      \/ t = [s EXCEPT !.out = "starved"]
      \/ t = StructuralByte(s, c)
  BY DEF ScanByte
<1>3. m \in Comments /\ b \in Comments /\ (b # "No" => w \in i .. n /\ w > s.pos)
  <2>1. m \in Comments /\ b \in Comments /\ (b # "No" => s.pos + 1 < n)
    BY <1>1, CommentFacts, BeginFacts
  <2> HIDE DEF m, b
  <2> QED BY <1>1, <2>1
<1>4. "item" \in Outs /\ "starved" \in Outs /\ "item" # "more" /\ "starved" # "more"
  BY DEF Outs
<1>5. Onward(StringByte(s, c), s, i, n) /\ Onward(StructuralByte(s, c), s, i, n)
  BY StringFacts, StructuralFacts
<1> HIDE DEF c, p, w, m, b, t
<1>6. ASSUME \/ t = [s EXCEPT !.comment = m, !.pos = p]
             \/ t = [s EXCEPT !.pos = p]
             \/ t = [s EXCEPT !.scalar = FALSE, !.out = "item"]
             \/ t = [s EXCEPT !.out = "starved"]
      PROVE  Onward(t, s, i, n)
  <2>1. \E o \in Outs : Arm(t, s, p, m, s.depth, FALSE, o)
    BY <1>4, <1>6, Zenon DEF Arm
  <2> QED BY <1>1, <1>3, <2>1, ArmFacts
<1>7. ASSUME b # "No" /\ t = [s EXCEPT !.comment = b, !.pos = w]
      PROVE  Onward(t, s, i, n)
  <2>1. \E o \in Outs : Arm(t, s, w, b, s.depth, FALSE, o)
    BY <1>4, <1>7, Zenon DEF Arm
  <2> QED BY <1>1, <1>3, <1>7, <2>1, ArmFacts
<1>8. Onward(t, s, i, n)
  BY <1>2, <1>5, <1>6, <1>7, Zenon
<1> QED BY <1>8 DEF t

\* The search inside a value stops in the buffer, not before where it began,
\* with an end, a failure, or for more.
LEMMA AdvanceFacts ==
  ASSUME NEW data, Len(data) \in Nat, NEW scan \in Scans, scan.pos <= Len(data),
         NEW comments \in BOOLEAN, NEW r, r = Advance(scan, data, comments)
  PROVE  r.scan \in Scans /\ r.scan.pos \in scan.pos .. Len(data) /\ r.out \in Outs
<1> DEFINE n == Len(data)
           i == scan.pos
           first == Searching(scan)
           Step(u) == IF u.out = "more" /\ u.pos < n THEN ScanByte(u, data, comments) ELSE u
           X == Searches(i, n)
           F == [k \in 1 .. n |-> [u \in X |-> Step(u)]]
           G(h) == [k \in 0 .. n |-> IF k = 0 THEN first ELSE Step(h[k - 1])]
           run == CHOOSE h : h = G(h)
           s == run[n]
<1>n. n \in Nat /\ i <= n
  OBVIOUS
<1>1. r = [scan |-> Kept(s), out |-> s.out]
  BY DEF Advance, Scan
<1>i. i \in Nat
  BY DEF Scans
<1>2. first \in X
  <2>1. "more" \in Outs /\ i \in i .. n
    BY <1>i DEF Outs
  <2> QED BY <2>1 DEF Searches, Searching, Scans
<1>3. ASSUME NEW u \in X
      PROVE  Step(u) \in X
  <2>1. CASE u.out = "more" /\ u.pos < n
    <3>1. Onward(ScanByte(u, data, comments), u, i, n)
      <4> HIDE DEF i
      <4> QED BY <1>i, <2>1, ScanByteFacts
    <3> QED BY <2>1, <3>1 DEF Onward
  <2>2. CASE ~(u.out = "more" /\ u.pos < n)
    BY <2>2
  <2> QED BY <2>1, <2>2
<1>5. run = CHOOSE h : h = G(h)
  OBVIOUS
<1>l. n = Len(data)
  OBVIOUS
<1> HIDE DEF n, first, Step, run, i
<1>6. \E h : h = G(h)
  <2>1. F \in [1 .. n -> [X -> X]]
    BY <1>3
  <2>2. \A k \in 1 .. n : \A u \in X : F[k][u] = Step(u)
    OBVIOUS
  <2> HIDE DEF X, F
  <2>3. PICK g : IsRun(g, X, first, n, F)
    BY <1>n, <1>2, <2>1, RunExists
  <2>4. ASSUME NEW k \in 1 .. n
        PROVE  g[k] = Step(g[k - 1])
    <3>1. k - 1 \in 0 .. n
      BY <1>n
    <3> QED BY <2>2, <2>3, <3>1 DEF IsRun
  <2>5. \A k \in 0 .. n : k # 0 => k \in 1 .. n
    OBVIOUS
  <2>6. g = G(g)
    BY <2>3, <2>4, <2>5 DEF IsRun
  <2> QED BY <2>6
<1>7. run = G(run)
  BY <1>5, <1>6
<1>8. run[0] = first /\ \A k \in 1 .. n : run[k] = Step(run[k - 1])
  <2>1. \A k \in 0 .. n : run[k] = IF k = 0 THEN first ELSE Step(run[k - 1])
    BY <1>7
  <2>2. 0 \in 0 .. n /\ \A k \in 1 .. n : k \in 0 .. n /\ k # 0
    BY <1>n
  <2> HIDE DEF G
  <2> QED BY <2>1, <2>2
<1> DEFINE S == {k \in 0 .. n : run[k] \in X}
<1>9. 0 \in S
  BY <1>n, <1>2, <1>8
<1>10. ASSUME NEW k \in 1 .. n, k - 1 \in S
       PROVE  k \in S
  <2> HIDE DEF X
  <2> QED BY <1>3, <1>8, <1>10
<1>11. n \in S
  <2> HIDE DEF S
  <2>1. 0 .. n \subseteq S
    BY <1>n, <1>9, <1>10, UpToInduction
  <2> QED BY <1>n, <2>1
<1>12. s \in X
  BY <1>11
<1> HIDE DEF s
<1>13. Kept(s) \in Scans /\ Kept(s).pos \in i .. n /\ s.out \in Outs
  BY <1>i, <1>12 DEF Searches, Kept, Scans
<1> QED BY <1>l, <1>1, <1>13 DEF i

-----------------------------------------------------------------------------
(* Answers.                                                                *)

\* What the splitter's answers are made of.
LEMMA ReplyFacts ==
  ASSUME NEW t \in Splitters, NEW kind \in {"again", "need", "end", "fail", "item"},
         NEW code \in JsonCodes \cup {"none"}, NEW a \in Nat, NEW e \in Nat,
         NEW r, r = Reply(t, kind, code, a, e)
  PROVE  r \in Replies
<1>1. t.cursor \in Nat
  BY DEF Splitters
<1> QED BY <1>1 DEF Reply, Replies

\* Asking for more bytes, while there can be more, is an answer of the contract.
LEMMA NeedFacts ==
  ASSUME NEW n \in Nat, NEW ended, ~ended, NEW s, s.cursor \in Nat,
         NEW t, Ready(t, n), s.cursor <= t.cursor, NEW r,
         r = Reply(t, "need", "none", t.cursor, n)
  PROVE  Turned(r, s, n, ended)
<1>1. t.cursor \in s.cursor .. n
  BY DEF Ready, Splitters
<1>2. r.sp = t /\ r.out = W!Outcome("need", "none", t.cursor, t.cursor, n)
  BY DEF Reply, W!Outcome
<1>3. r.out \in W!FramerOutcomes(n, s.cursor, ended)
  BY <1>1, <1>2 DEF W!FramerOutcomes
<1>4. r.out.kind = "need" /\ r.out.cursor = t.cursor
  BY <1>2 DEF W!Outcome
<1>5. r \in Replies
  <2>1. t \in Splitters /\ t.cursor \in Nat
    BY DEF Ready, Splitters
  <2> QED BY <2>1, ReplyFacts
<1> QED BY <1>2, <1>3, <1>4, <1>5 DEF Turned, Answered

\* So is the end, with the whole buffer passed.
LEMMA EndFacts ==
  ASSUME NEW n \in Nat, NEW ended, ended, NEW s, NEW t, Ready(t, n), t.cursor = n,
         NEW r, r = Reply(t, "end", "none", t.cursor, t.cursor)
  PROVE  Turned(r, s, n, ended)
<1>2. r.sp = t /\ r.out = W!Outcome("end", "none", n, n, n)
  BY DEF Reply, W!Outcome
<1>3. r.out \in W!FramerOutcomes(n, s.cursor, ended)
  BY <1>2 DEF W!FramerOutcomes
<1>4. r.out.kind = "end" /\ r.out.cursor = t.cursor
  BY <1>2 DEF W!Outcome
<1>5. r \in Replies
  <2>1. t \in Splitters /\ t.cursor \in Nat
    BY DEF Ready, Splitters
  <2> QED BY <2>1, ReplyFacts
<1> QED BY <1>2, <1>3, <1>4, <1>5 DEF Turned, Answered

\* So is a failure at a byte the splitter has reached.
LEMMA FailFacts ==
  ASSUME NEW n \in Nat, NEW ended, NEW s, s.cursor \in Nat, NEW code \in JsonCodes,
         NEW t, t \in Splitters, t.cursor \in s.cursor .. n, t.scan.pos <= n,
         NEW r, r = Fail(t, code)
  PROVE  Turned(r, s, n, ended)
<1> DEFINE at == Position(t)
<1>1. at \in s.cursor .. n
  BY DEF Position, Splitters, Scans
<1>2. r.sp = t /\ r.out = W!Outcome("fail", code, t.cursor, at, at)
  BY DEF Fail, Reply, W!Outcome
<1> HIDE DEF at
<1>3. r.out \in W!FramerOutcomes(n, s.cursor, ended)
  BY <1>1, <1>2 DEF W!FramerOutcomes
<1>4. r.out.kind = "fail" /\ r.out.cursor = t.cursor
  BY <1>2 DEF W!Outcome
<1>5. r \in Replies
  <2>1. r = Reply(t, "fail", code, at, at)
    BY DEF Fail, at
  <2>2. at \in Nat
    BY <1>1
  <2> QED BY <2>1, <2>2, ReplyFacts
<1> QED BY <1>2, <1>3, <1>4, <1>5 DEF Turned, Answered

\* So is a value that lies between where the splitter stood and where it stands.
LEMMA ItemFacts ==
  ASSUME NEW n \in Nat, NEW ended, NEW s, s.cursor \in Nat,
         NEW t, Ready(t, n), NEW a \in s.cursor .. n, NEW e \in a .. n, a < n, e <= t.cursor,
         NEW r, r = Item(t, a, e)
  PROVE  Turned(r, s, n, ended)
<1> DEFINE o == W!Outcome("item", "none", t.cursor, a, e)
<1>1. t.cursor \in s.cursor .. n /\ e \in s.cursor .. n
  BY DEF Ready, Splitters
<1>2. r.sp = t /\ r.out = o
  BY DEF Item, Reply, W!Outcome
<1>3. o.kind = "item" /\ o.cursor = t.cursor /\ o.start = a /\ o.end = e
  BY DEF W!Outcome
<1>4. o \in {W!Outcome("item", "none", d, b, f) : d \in s.cursor .. n, b \in s.cursor .. n, f \in s.cursor .. n}
  BY <1>1
<1> HIDE DEF o
<1>5. o \in W!FramerOutcomes(n, s.cursor, ended)
  BY <1>3, <1>4 DEF W!FramerOutcomes
<1>6. r \in Replies
  <2>1. t \in Splitters /\ a \in Nat /\ e \in Nat
    BY DEF Ready
  <2>2. r = Reply(t, "item", "none", a, e)
    BY DEF Item
  <2> QED BY <2>1, <2>2, ReplyFacts
<1> QED BY <1>2, <1>3, <1>5, <1>6 DEF Turned, Answered

\* Going round the loop is sound when it leaves less to do.
LEMMA AgainFacts ==
  ASSUME NEW n \in Nat, NEW ended, NEW s, NEW t, Ready(t, n), t.mode = s.mode,
         s.cursor <= t.cursor, Left(t, n) < Left(s, n), NEW r, r = Again(t)
  PROVE  Turned(r, s, n, ended)
<1>1. r.sp = t /\ r.out.kind = "again"
  BY DEF Again, Reply
<1>2. r \in Replies
  <2>1. t \in Splitters /\ r = Reply(t, "again", "none", 0, 0)
    BY DEF Ready, Again
  <2> QED BY <2>1, ReplyFacts
<1> QED BY <1>1, <1>2 DEF Turned

\* What the states between values have left to do.
LEMMA RankFacts ==
  /\ Rank["BeforeOpen"] = 3 /\ Rank["AfterItem"] = 3
  /\ Rank["FirstItem"] = 2 /\ Rank["BeforeItem"] = 2
  /\ Rank["InItem"] = 1 /\ Rank["Done"] = 1
BY DEF Rank, States

-----------------------------------------------------------------------------
(* The states between values: skip_ws and what follows it.                 *)

\* t is s after it passed white space.
Gone(t, s, n) ==
  /\ Ready(t, n)
  /\ t.mode = s.mode /\ t.state = s.state
  /\ s.cursor <= t.cursor

\* Passing white space keeps the splitter ready, on a byte if one was found and at
\* the buffer's end if the input ended (skip_ws).
LEMMA GoneFacts ==
  ASSUME NEW data, Len(data) \in Nat, NEW ended \in BOOLEAN,
         NEW s, Ready(s, Len(data)), s.state # "InItem",
         NEW x, x = SkipFrom(data, s.cursor, s.comment, ended, s.comments),
         NEW t, t = [s EXCEPT !.cursor = x.pos, !.comment = x.comment]
  PROVE  /\ Gone(t, s, Len(data))
         /\ x.out = "byte" => t.cursor < Len(data)
         /\ x.out # "byte" /\ ended => t.cursor = Len(data)
<1> DEFINE n == Len(data)
<1>1. s \in Splitters /\ s.cursor \in 0 .. n /\ s.comment \in Comments /\ s.comments \in BOOLEAN
  BY DEF Ready, Splitters
<1>2. Skipping(x, s.cursor, n, ended) /\ (x.out = "more" => x.pos = n)
  BY <1>1, SkipFacts
<1>3. /\ x.pos \in s.cursor .. n /\ x.comment \in Comments /\ x.out \in {"more", "starved", "byte"}
      /\ (x.out = "byte" => x.pos < n) /\ (x.out = "starved" => ~ended)
  BY <1>2 DEF Skipping, Skips
<1>n. n \in Nat
  OBVIOUS
<1> HIDE DEF n
<1>4. t \in Splitters
  <2>1. x.pos \in Nat
    BY <1>1, <1>3
  <2> QED BY <1>1, <1>3, <2>1, Zenon DEF Splitters
<1>5. /\ t.cursor = x.pos /\ t.mode = s.mode /\ t.state = s.state
      /\ t.scan = s.scan /\ t.probe = s.probe
  BY <1>1 DEF Splitters
<1>6. s.probe <= n /\ s.scan.pos <= n
  BY DEF Ready, n
<1>7. Gone(t, s, n)
  BY <1>n, <1>1, <1>3, <1>4, <1>5, <1>6 DEF Gone, Ready
<1>8. (x.out = "byte" => t.cursor < n) /\ (x.out # "byte" /\ ended => t.cursor = n)
  BY <1>2, <1>3, <1>5
<1> QED BY <1>7, <1>8 DEF n

\* r is what skip_ws comes to: over to b on a byte, to e at the end.
Passed(r, s, t, x, data, ended, b, e) ==
  \/ x.out = "byte" /\ r = b
  \/ ~ended /\ r = Need(t, data)
  \/ ended /\ r = Fail(s, "UnexpectedEnd")
  \/ x.out # "byte" /\ ended /\ r = e

\* A state whose two continuations are sound is sound, for running out of bytes is.
LEMMA PassedFacts ==
  ASSUME NEW data, NEW n \in Nat, n = Len(data), NEW ended \in BOOLEAN, NEW s, Ready(s, n),
         NEW t, Gone(t, s, n), NEW x, NEW b, x.out = "byte" => Turned(b, s, n, ended),
         NEW e, x.out # "byte" /\ ended => Turned(e, s, n, ended),
         NEW r, Passed(r, s, t, x, data, ended, b, e)
  PROVE  Turned(r, s, n, ended)
<1>1. s \in Splitters /\ s.cursor \in 0 .. n /\ s.cursor \in Nat /\ s.scan.pos <= n
  BY DEF Ready, Splitters
<1>2. ASSUME ~ended /\ r = Need(t, data) PROVE Turned(r, s, n, ended)
  <2>1. r = Reply(t, "need", "none", t.cursor, n)
    BY <1>2 DEF Need
  <2> QED BY <1>1, <1>2, <2>1, NeedFacts DEF Gone
<1>3. ASSUME r = Fail(s, "UnexpectedEnd") PROVE Turned(r, s, n, ended)
  <2>1. "UnexpectedEnd" \in JsonCodes
    BY DEF JsonCodes
  <2>2. s.cursor \in s.cursor .. n
    BY <1>1
  <2> QED BY <1>1, <1>3, <2>1, <2>2, FailFacts
<1> QED BY <1>2, <1>3 DEF Passed

\* u is t after it moved on to a state, on a byte of the buffer.
Entered(u, t, n, state) ==
  /\ Ready(u, n)
  /\ u.mode = t.mode /\ u.state = state
  /\ t.cursor <= u.cursor

\* Taking a bracket or a comma enters a state, one byte on.
LEMMA TakeFacts ==
  ASSUME NEW n \in Nat, NEW t, Ready(t, n), t.cursor < n,
         NEW state \in States, state # "InItem"
  PROVE  Entered(Take(t, state), t, n, state)
<1> DEFINE p == t.cursor + 1
           u == [t EXCEPT !.cursor = p, !.state = state]
<1>1. t \in Splitters /\ t.cursor \in Nat /\ p \in Nat /\ p <= n /\ t.cursor <= p
  BY DEF Ready, Splitters
<1>2. Take(t, state) = u
  BY DEF Take
<1> HIDE DEF p
<1>3. u \in Splitters
  BY <1>1, Zenon DEF Splitters
<1>4. u.cursor = p /\ u.state = state /\ u.mode = t.mode /\ u.probe = t.probe /\ u.scan = t.scan
  BY <1>1 DEF Splitters
<1> HIDE DEF u
<1>5. Entered(u, t, n, state)
  BY <1>1, <1>3, <1>4 DEF Ready, Entered
<1> QED BY <1>2, <1>5

\* Starting a value sets the search up on its first byte (start_item).
LEMMA StartFacts ==
  ASSUME NEW n \in Nat, NEW t, Ready(t, n), t.cursor < n, t.mode # "Lines"
  PROVE  Entered(StartItem(t), t, n, "InItem")
<1> DEFINE f == FreshScan(t.cursor)
           u == [t EXCEPT !.scan = f, !.state = "InItem"]
<1>1. t \in Splitters /\ t.cursor \in Nat
  BY DEF Ready, Splitters
<1>2. StartItem(t) = u
  BY DEF StartItem
<1>3. f \in Scans /\ f.pos = t.cursor
  BY <1>1 DEF FreshScan, Scans, Comments
<1>s. "InItem" \in States
  BY DEF States
<1> HIDE DEF f
<1>4. u \in Splitters
  BY <1>1, <1>3, <1>s, Zenon DEF Splitters
<1>5. u.cursor = t.cursor /\ u.state = "InItem" /\ u.mode = t.mode /\ u.probe = t.probe /\ u.scan = f
  BY <1>1 DEF Splitters
<1> HIDE DEF u
<1>6. Entered(u, t, n, "InItem")
  BY <1>1, <1>3, <1>4, <1>5 DEF Ready, Entered
<1> QED BY <1>2, <1>6

\* Passing on to a state with less to do.
LEMMA OnFacts ==
  ASSUME NEW n \in Nat, NEW ended \in BOOLEAN, NEW s, Ready(s, n), s.mode # "Lines",
         NEW t, Gone(t, s, n), NEW state, NEW u, Entered(u, t, n, state),
         Rank[state] < Rank[s.state]
  PROVE  Turned(Again(u), s, n, ended)
<1>1. Ready(u, n) /\ u.mode = s.mode
  BY DEF Gone, Entered
<1>2. s.cursor <= u.cursor
  BY <1>1 DEF Gone, Entered, Ready, Splitters
<1>3. Left(u, n) < Left(s, n)
  BY <1>1 DEF Left, Entered
<1> QED BY <1>1, <1>2, <1>3, AgainFacts

\* Failing on a byte.
LEMMA RefusedFacts ==
  ASSUME NEW n \in Nat, NEW ended \in BOOLEAN, NEW s, Ready(s, n),
         NEW t, Gone(t, s, n), NEW code \in JsonCodes
  PROVE  Turned(Fail(t, code), s, n, ended)
<1>1. s.cursor \in Nat /\ t \in Splitters /\ t.cursor \in s.cursor .. n /\ t.scan.pos <= n
  BY DEF Gone, Ready, Splitters
<1> QED BY <1>1, FailFacts

\* The end, with everything passed.
LEMMA OverFacts ==
  ASSUME NEW n \in Nat, NEW ended \in BOOLEAN, ended, NEW s, NEW t, Gone(t, s, n), t.cursor = n
  PROVE  Turned(End(t), s, n, ended)
<1>1. Ready(t, n) /\ End(t) = Reply(t, "end", "none", t.cursor, t.cursor)
  BY DEF Gone, End
<1> QED BY <1>1, EndFacts

\* The codes a splitter fails with.
LEMMA CodeFacts ==
  {"UnexpectedEnd", "UnexpectedCharacter", "ExceededMaxDepth", "ExpectedBracket",
   "ExpectedComma", "TrailingContent"} = JsonCodes
BY DEF JsonCodes

\* The states a bracket or a comma leads to.
LEMMA StateFacts ==
  /\ "FirstItem" \in States /\ "BeforeItem" \in States /\ "Done" \in States
  /\ "FirstItem" # "InItem" /\ "BeforeItem" # "InItem" /\ "Done" # "InItem"
BY DEF States

\* A state does what skip_ws and its two continuations do.
LEMMA WsFacts ==
  ASSUME NEW data, Len(data) \in Nat, NEW ended \in BOOLEAN,
         NEW s, Ready(s, Len(data)), s.state # "InItem",
         NEW x, x = SkipFrom(data, s.cursor, s.comment, ended, s.comments),
         NEW t, t = [s EXCEPT !.cursor = x.pos, !.comment = x.comment],
         NEW b, Gone(t, s, Len(data)) /\ t.cursor < Len(data) => Turned(b, s, Len(data), ended),
         NEW e, Gone(t, s, Len(data)) /\ ended /\ t.cursor = Len(data) => Turned(e, s, Len(data), ended),
         NEW r, Passed(r, s, t, x, data, ended, b, e)
  PROVE  Turned(r, s, Len(data), ended)
<1>1. /\ Gone(t, s, Len(data))
      /\ x.out = "byte" => t.cursor < Len(data)
      /\ x.out # "byte" /\ ended => t.cursor = Len(data)
  BY GoneFacts, ZenonT(30)
<1>2. /\ x.out = "byte" => Turned(b, s, Len(data), ended)
      /\ x.out # "byte" /\ ended => Turned(e, s, Len(data), ended)
  BY <1>1
<1> DEFINE n == Len(data)
<1>3. n \in Nat /\ n = Len(data) /\ Ready(s, n) /\ Gone(t, s, n)
  BY <1>1
<1>4. /\ x.out = "byte" => Turned(b, s, n, ended)
      /\ x.out # "byte" /\ ended => Turned(e, s, n, ended)
  BY <1>2
<1> HIDE DEF n
<1>5. Turned(r, s, n, ended)
  BY <1>3, <1>4, PassedFacts
<1> QED BY <1>5 DEF n

\* The state before an array's opening bracket makes a sound turn.
LEMMA BeforeOpenFacts ==
  ASSUME NEW data, Len(data) \in Nat, NEW ended \in BOOLEAN,
         NEW s, Ready(s, Len(data)), s.mode # "Lines", s.state = "BeforeOpen"
  PROVE  Turned(BeforeOpen(s, data, ended), s, Len(data), ended)
<1> DEFINE n == Len(data)
           x == SkipFrom(data, s.cursor, s.comment, ended, s.comments)
           t == [s EXCEPT !.cursor = x.pos, !.comment = x.comment]
           b == IF At(data, t.cursor) = Bracket THEN Again(Take(t, "FirstItem"))
                ELSE Fail(t, "ExpectedBracket")
           e == End(t)
           r == BeforeOpen(s, data, ended)
<1>1. Passed(r, s, t, x, data, ended, b, e)
  BY DEF Passed, BeforeOpen, SkipWs, Starves
<1>2. x = SkipFrom(data, s.cursor, s.comment, ended, s.comments)
      /\ t = [s EXCEPT !.cursor = x.pos, !.comment = x.comment]
  OBVIOUS
<1>n. n = Len(data) /\ n \in Nat /\ Ready(s, n) /\ s.state # "InItem"
  OBVIOUS
<1> HIDE DEF n, x, t
<1>3. ASSUME Gone(t, s, n), t.cursor < n
      PROVE  Turned(b, s, n, ended)
  <2>1. Ready(t, n) /\ t.mode # "Lines"
    BY <1>3 DEF Gone
  <2>2. Turned(Again(Take(t, "FirstItem")), s, n, ended)
    <3>1. Entered(Take(t, "FirstItem"), t, n, "FirstItem")
      BY <1>n, <1>3, <2>1, TakeFacts, StateFacts
    <3>2. Rank["FirstItem"] < Rank[s.state]
      BY RankFacts
    <3> QED BY <1>n, <1>3, <3>1, <3>2, OnFacts
  <2>3. Turned(Fail(t, "ExpectedBracket"), s, n, ended)
    BY <1>n, <1>3, RefusedFacts, CodeFacts
  <2> QED BY <2>2, <2>3
<1>4. ASSUME Gone(t, s, n), ended, t.cursor = n
      PROVE  Turned(e, s, n, ended)
  BY <1>n, <1>4, OverFacts
<1> HIDE DEF b, e, r
<1>5. Turned(r, s, n, ended)
  BY <1>1, <1>2, <1>3, <1>4, <1>n, WsFacts
<1> QED BY <1>5 DEF n, r

\* So does the one before the first element, where the array may close.
LEMMA FirstItemFacts ==
  ASSUME NEW data, Len(data) \in Nat, NEW ended \in BOOLEAN,
         NEW s, Ready(s, Len(data)), s.mode # "Lines", s.state = "FirstItem"
  PROVE  Turned(FirstItem(s, data, ended), s, Len(data), ended)
<1> DEFINE n == Len(data)
           x == SkipFrom(data, s.cursor, s.comment, ended, s.comments)
           t == [s EXCEPT !.cursor = x.pos, !.comment = x.comment]
           b == Again(IF At(data, t.cursor) = Unbracket THEN Take(t, "Done") ELSE StartItem(t))
           e == Truncated(t)
           r == FirstItem(s, data, ended)
<1>1. Passed(r, s, t, x, data, ended, b, e)
  BY DEF Passed, FirstItem, SkipWs, Starves
<1>2. x = SkipFrom(data, s.cursor, s.comment, ended, s.comments)
      /\ t = [s EXCEPT !.cursor = x.pos, !.comment = x.comment]
  OBVIOUS
<1>n. n = Len(data) /\ n \in Nat /\ Ready(s, n) /\ s.state # "InItem"
  OBVIOUS
<1> HIDE DEF n, x, t
<1>3. ASSUME Gone(t, s, n), t.cursor < n
      PROVE  Turned(b, s, n, ended)
  <2>1. Ready(t, n) /\ t.mode # "Lines"
    BY <1>3 DEF Gone
  <2>2. Turned(Again(Take(t, "Done")), s, n, ended)
    <3>1. Entered(Take(t, "Done"), t, n, "Done")
      BY <1>n, <1>3, <2>1, TakeFacts, StateFacts
    <3>2. Rank["Done"] < Rank[s.state]
      BY RankFacts
    <3> QED BY <1>n, <1>3, <3>1, <3>2, OnFacts
  <2>3. Turned(Again(StartItem(t)), s, n, ended)
    <3>1. Entered(StartItem(t), t, n, "InItem")
      BY <1>n, <1>3, <2>1, StartFacts
    <3>2. Rank["InItem"] < Rank[s.state]
      BY RankFacts
    <3> QED BY <1>n, <1>3, <3>1, <3>2, OnFacts
  <2> QED BY <2>2, <2>3
<1>4. ASSUME Gone(t, s, n), ended, t.cursor = n
      PROVE  Turned(e, s, n, ended)
  <2>1. Turned(Fail(t, "UnexpectedEnd"), s, n, ended)
    BY <1>n, <1>4, RefusedFacts, CodeFacts
  <2> QED BY <2>1 DEF Truncated
<1> HIDE DEF b, e, r
<1>5. Turned(r, s, n, ended)
  BY <1>1, <1>2, <1>3, <1>4, <1>n, WsFacts
<1> QED BY <1>5 DEF n, r

\* So does the one before a value that has to come, or may.
LEMMA BeforeItemFacts ==
  ASSUME NEW data, Len(data) \in Nat, NEW ended \in BOOLEAN,
         NEW s, Ready(s, Len(data)), s.mode # "Lines", s.state = "BeforeItem"
  PROVE  Turned(BeforeItem(s, data, ended), s, Len(data), ended)
<1> DEFINE n == Len(data)
           x == SkipFrom(data, s.cursor, s.comment, ended, s.comments)
           t == [s EXCEPT !.cursor = x.pos, !.comment = x.comment]
           b == Again(StartItem(t))
           e == IF t.mode = "Values" THEN End(t) ELSE Truncated(t)
           r == BeforeItem(s, data, ended)
<1>1. Passed(r, s, t, x, data, ended, b, e)
  BY DEF Passed, BeforeItem, SkipWs, Starves
<1>2. x = SkipFrom(data, s.cursor, s.comment, ended, s.comments)
      /\ t = [s EXCEPT !.cursor = x.pos, !.comment = x.comment]
  OBVIOUS
<1>n. n = Len(data) /\ n \in Nat /\ Ready(s, n) /\ s.state # "InItem"
  OBVIOUS
<1> HIDE DEF n, x, t
<1>3. ASSUME Gone(t, s, n), t.cursor < n
      PROVE  Turned(b, s, n, ended)
  <2>1. Ready(t, n) /\ t.mode # "Lines"
    BY <1>3 DEF Gone
  <2>2. Turned(Again(StartItem(t)), s, n, ended)
    <3>1. Entered(StartItem(t), t, n, "InItem")
      BY <1>n, <1>3, <2>1, StartFacts
    <3>2. Rank["InItem"] < Rank[s.state]
      BY RankFacts
    <3> QED BY <1>n, <1>3, <3>1, <3>2, OnFacts
  <2> QED BY <2>2
<1>4. ASSUME Gone(t, s, n), ended, t.cursor = n
      PROVE  Turned(e, s, n, ended)
  <2>1. Turned(Truncated(t), s, n, ended)
    <3>1. Turned(Fail(t, "UnexpectedEnd"), s, n, ended)
      BY <1>n, <1>4, RefusedFacts, CodeFacts
    <3> QED BY <3>1 DEF Truncated
  <2>2. Turned(End(t), s, n, ended)
    BY <1>n, <1>4, OverFacts
  <2> QED BY <2>1, <2>2
<1> HIDE DEF b, e, r
<1>5. Turned(r, s, n, ended)
  BY <1>1, <1>2, <1>3, <1>4, <1>n, WsFacts
<1> QED BY <1>5 DEF n, r

\* So does the one after a value, where a comma or the closing bracket is due.
LEMMA AfterItemFacts ==
  ASSUME NEW data, Len(data) \in Nat, NEW ended \in BOOLEAN,
         NEW s, Ready(s, Len(data)), s.mode # "Lines", s.state = "AfterItem"
  PROVE  Turned(AfterItem(s, data, ended), s, Len(data), ended)
<1> DEFINE n == Len(data)
           x == SkipFrom(data, s.cursor, s.comment, ended, s.comments)
           t == [s EXCEPT !.cursor = x.pos, !.comment = x.comment]
           b == CASE At(data, t.cursor) = Comma     -> Again(Take(t, "BeforeItem"))
                  [] At(data, t.cursor) = Unbracket -> Again(Take(t, "Done"))
                  [] OTHER                         -> Fail(t, "ExpectedComma")
           e == Truncated(t)
           r == AfterItem(s, data, ended)
<1>1. Passed(r, s, t, x, data, ended, b, e)
  BY DEF Passed, AfterItem, SkipWs, Starves
<1>2. x = SkipFrom(data, s.cursor, s.comment, ended, s.comments)
      /\ t = [s EXCEPT !.cursor = x.pos, !.comment = x.comment]
  OBVIOUS
<1>n. n = Len(data) /\ n \in Nat /\ Ready(s, n) /\ s.state # "InItem"
  OBVIOUS
<1> HIDE DEF n, x, t
<1>3. ASSUME Gone(t, s, n), t.cursor < n
      PROVE  Turned(b, s, n, ended)
  <2>1. Ready(t, n) /\ t.mode # "Lines"
    BY <1>3 DEF Gone
  <2>2. Turned(Again(Take(t, "BeforeItem")), s, n, ended)
    <3>1. Entered(Take(t, "BeforeItem"), t, n, "BeforeItem")
      BY <1>n, <1>3, <2>1, TakeFacts, StateFacts
    <3>2. Rank["BeforeItem"] < Rank[s.state]
      BY RankFacts
    <3> QED BY <1>n, <1>3, <3>1, <3>2, OnFacts
  <2>3. Turned(Again(Take(t, "Done")), s, n, ended)
    <3>1. Entered(Take(t, "Done"), t, n, "Done")
      BY <1>n, <1>3, <2>1, TakeFacts, StateFacts
    <3>2. Rank["Done"] < Rank[s.state]
      BY RankFacts
    <3> QED BY <1>n, <1>3, <3>1, <3>2, OnFacts
  <2>4. Turned(Fail(t, "ExpectedComma"), s, n, ended)
    BY <1>n, <1>3, RefusedFacts, CodeFacts
  <2> QED BY <2>2, <2>3, <2>4
<1>4. ASSUME Gone(t, s, n), ended, t.cursor = n
      PROVE  Turned(e, s, n, ended)
  <2>1. Turned(Fail(t, "UnexpectedEnd"), s, n, ended)
    BY <1>n, <1>4, RefusedFacts, CodeFacts
  <2> QED BY <2>1 DEF Truncated
<1> HIDE DEF b, e, r
<1>5. Turned(r, s, n, ended)
  BY <1>1, <1>2, <1>3, <1>4, <1>n, WsFacts
<1> QED BY <1>5 DEF n, r

\* So does the one past the closing bracket, where nothing may follow.
LEMMA DoneFacts ==
  ASSUME NEW data, Len(data) \in Nat, NEW ended \in BOOLEAN,
         NEW s, Ready(s, Len(data)), s.mode # "Lines", s.state = "Done"
  PROVE  Turned(Done(s, data, ended), s, Len(data), ended)
<1> DEFINE n == Len(data)
           x == SkipFrom(data, s.cursor, s.comment, ended, s.comments)
           t == [s EXCEPT !.cursor = x.pos, !.comment = x.comment]
           b == Fail(t, "TrailingContent")
           e == End(t)
           r == Done(s, data, ended)
<1>1. Passed(r, s, t, x, data, ended, b, e)
  BY DEF Passed, Done, SkipWs, Starves
<1>2. x = SkipFrom(data, s.cursor, s.comment, ended, s.comments)
      /\ t = [s EXCEPT !.cursor = x.pos, !.comment = x.comment]
  OBVIOUS
<1>n. n = Len(data) /\ n \in Nat /\ Ready(s, n) /\ s.state # "InItem"
  OBVIOUS
<1> HIDE DEF n, x, t
<1>3. ASSUME Gone(t, s, n), t.cursor < n
      PROVE  Turned(b, s, n, ended)
  <2>1. Ready(t, n) /\ t.mode # "Lines"
    BY <1>3 DEF Gone
  <2>2. Turned(Fail(t, "TrailingContent"), s, n, ended)
    BY <1>n, <1>3, RefusedFacts, CodeFacts
  <2> QED BY <2>2
<1>4. ASSUME Gone(t, s, n), ended, t.cursor = n
      PROVE  Turned(e, s, n, ended)
  BY <1>n, <1>4, OverFacts
<1> HIDE DEF b, e, r
<1>5. Turned(r, s, n, ended)
  BY <1>1, <1>2, <1>3, <1>4, <1>n, WsFacts
<1> QED BY <1>5 DEF n, r

-----------------------------------------------------------------------------
(* Inside a value, and between lines.                                      *)

\* The value is given out, and the cursor moves past it.
LEMMA FinishFacts ==
  ASSUME NEW n \in Nat, NEW t \in Splitters, t.probe <= n, t.scan.pos <= n
  PROVE  Ready(Finish(t), n) /\ Finish(t).cursor = t.scan.pos
<1> DEFINE f == [t.scan EXCEPT !.scalar = FALSE]
           state == IF t.mode = "Array" THEN "AfterItem" ELSE "BeforeItem"
           p == t.scan.pos
           u == [t EXCEPT !.cursor = p, !.scan = f, !.state = state]
<1>1. t.scan \in Scans /\ p \in Nat /\ p <= n
  BY DEF Splitters, Scans
<1>2. f \in Scans /\ f.pos = p
  <2>1. f \in Scans
    BY <1>1, Zenon DEF Scans
  <2> QED BY <1>1, <2>1 DEF Scans
<1>3. state \in States /\ state # "InItem"
  BY DEF States
<1>4. Finish(t) = u
  BY DEF Finish, Splitters
<1> HIDE DEF f, state, p
<1>5. u \in Splitters
  BY <1>1, <1>2, <1>3, Zenon DEF Splitters
<1>6. u.cursor = p /\ u.state = state /\ u.probe = t.probe /\ u.scan = f
  BY DEF Splitters
<1> HIDE DEF u
<1>7. Ready(u, n)
  BY <1>1, <1>2, <1>3, <1>5, <1>6 DEF Ready
<1> QED BY <1>4, <1>6, <1>7 DEF p

\* So does the search inside a value, which starves, gives it out or fails.
LEMMA InItemFacts ==
  ASSUME NEW data, Len(data) \in Nat, NEW ended \in BOOLEAN,
         NEW s, Ready(s, Len(data)), s.state = "InItem"
  PROVE  Turned(InItem(s, data, ended), s, Len(data), ended)
<1> DEFINE n == Len(data)
           a == Advance(s.scan, data, s.comments)
           open == a.out \in {"more", "starved"}
           out == IF open /\ ended THEN AtEof(a.scan, s.mode) ELSE a.out
           t == [s EXCEPT !.scan = a.scan]
           e == a.scan.pos
           r == InItem(s, data, ended)
<1>1. /\ s \in Splitters /\ s.cursor \in 0 .. n /\ s.scan \in Scans /\ s.scan.pos <= n
      /\ s.cursor < n /\ s.cursor <= s.scan.pos /\ s.comments \in BOOLEAN
      /\ s.scan.pos \in Nat /\ s.probe <= n /\ s.mode # "Lines"
  BY DEF Ready, Splitters, Scans
<1>2. a.scan \in Scans /\ e \in s.scan.pos .. n /\ a.out \in Outs
  BY <1>1, AdvanceFacts
<1>3. \/ ~ended /\ r = Need(t, data)
      \/ r = Item(Finish(t), s.cursor, e)
      \/ ~(open /\ ~ended) /\ out # "item" /\ r = Fail(t, out)
  BY DEF InItem, Starves
<1>4. ~(open /\ ~ended) /\ out # "item" => out \in JsonCodes
  BY <1>2 DEF Outs, JsonCodes, AtEof
<1>n. n \in Nat /\ n = Len(data)
  OBVIOUS
<1> HIDE DEF n, a, out, open
<1>5. t \in Splitters
  BY <1>1, <1>2, Zenon DEF Splitters
<1>6. t.cursor = s.cursor /\ t.state = "InItem" /\ t.mode = s.mode /\ t.probe = s.probe /\ t.scan = a.scan
  BY <1>1 DEF Splitters
<1> HIDE DEF t
<1>7. e \in s.cursor .. n
  BY <1>n, <1>1, <1>2
<1>8. Ready(t, n)
  BY <1>1, <1>2, <1>5, <1>6, <1>7 DEF Ready
<1> HIDE DEF e
<1>9. t.scan.pos = e
  BY <1>6 DEF e
<1>10. ASSUME ~ended, r = Need(t, data) PROVE Turned(r, s, n, ended)
  <2>1. r = Reply(t, "need", "none", t.cursor, n) /\ s.cursor <= t.cursor /\ s.cursor \in Nat
    BY <1>n, <1>1, <1>6, <1>10 DEF Need
  <2> QED BY <1>n, <1>8, <1>10, <2>1, NeedFacts
<1>11. ASSUME r = Item(Finish(t), s.cursor, e) PROVE Turned(r, s, n, ended)
  <2>1. Ready(Finish(t), n) /\ Finish(t).cursor = e
    BY <1>n, <1>1, <1>5, <1>6, <1>7, <1>9, FinishFacts
  <2> DEFINE u == Finish(t)
             c == s.cursor
  <2>2. s.cursor \in Nat /\ c \in s.cursor .. n /\ e \in c .. n /\ c < n
    BY <1>n, <1>1, <1>7
  <2>3. e <= u.cursor
    BY <1>7, <1>1, <1>n, <2>1
  <2>4. Ready(u, n) /\ r = Item(u, c, e)
    BY <1>11, <2>1
  <2> HIDE DEF u, c
  <2> QED BY <1>n, <2>2, <2>3, <2>4, ItemFacts
<1>12. ASSUME out \in JsonCodes, r = Fail(t, out) PROVE Turned(r, s, n, ended)
  <2>1. s.cursor \in Nat /\ t.cursor \in s.cursor .. n /\ t.scan.pos <= n
    BY <1>n, <1>1, <1>6, <1>7, <1>9
  <2> QED BY <1>n, <1>5, <1>12, <2>1, FailFacts
<1> HIDE DEF r
<1>13. Turned(r, s, n, ended)
  BY <1>3, <1>4, <1>10, <1>11, <1>12
<1> QED BY <1>13 DEF n, r

\* A line with no byte of its own holds no value.
LEMMA BlankFacts ==
  ASSUME NEW T, NEW data \in Seq(T), NEW end \in 0 .. Len(data), NEW comments \in BOOLEAN
  PROVE  ~LineHasValue(data, end, end, comments)
<1> DEFINE line == SubSeq(data, 1, end)
           x == SkipFrom(line, end, "No", TRUE, comments)
<1>1. Len(line) = end
  OBVIOUS
<1>2. "No" \in Comments
  BY DEF Comments
<1>x. x = SkipFrom(line, end, "No", TRUE, comments)
  OBVIOUS
<1> HIDE DEF line, x
<1>3. Len(line) \in Nat /\ Len(line) \in 0 .. Len(line) 
  BY <1>1
<1> DEFINE yes == TRUE
<1>4. x = SkipFrom(line, Len(line), "No", yes, comments) /\ yes \in BOOLEAN
  BY <1>1, <1>x
<1> HIDE DEF yes
<1>5. x.out = "more" /\ x.comment = "No"
  BY <1>2, <1>3, <1>4, SkipFacts
<1> QED BY <1>5 DEF LineHasValue, x, line

\* So does a line: starved without its newline, given out, or passed if it is blank.
LEMMA LineFacts ==
  ASSUME NEW T, NEW data \in Seq(T), NEW ended \in BOOLEAN,
         NEW s, Ready(s, Len(data)), s.mode = "Lines"
  PROVE  Turned(Line(s, data, ended), s, Len(data), ended)
<1> DEFINE n       == Len(data)
           c       == s.cursor
           from    == IF s.probe > s.cursor THEN s.probe ELSE s.cursor
           breaks  == {i \in from .. n - 1 : At(data, i) = Newline}
           lineEnd == First(breaks, n)
           next    == IF lineEnd < n THEN lineEnd + 1 ELSE n
           core    == {i \in s.cursor .. lineEnd - 1 : ~IsWs(At(data, i))}
           start   == First(core, lineEnd)
           end     == IF core = {} THEN start ELSE 1 + CHOOSE i \in core : \A j \in core : j <= i
           here    == [s EXCEPT !.cursor = next, !.probe = next]
           probed  == [s EXCEPT !.probe = n]
           has     == LineHasValue(data, start, end, s.comments)
           r       == Line(s, data, ended)
<1>1. /\ s \in Splitters /\ c \in 0 .. n /\ s.probe \in 0 .. n /\ n \in Nat
      /\ s.scan.pos <= n /\ s.comments \in BOOLEAN /\ s.state # "InItem"
  BY DEF Ready, Splitters
<1>2. from \in c .. n
  BY <1>1
<1>3. lineEnd \in c .. n
  <2> HIDE DEF n, from, c
  <2>1. breaks \subseteq from .. n - 1
    OBVIOUS
  <2>2. from \in Nat /\ n - 1 \in Int
    BY <1>1, <1>2
  <2> HIDE DEF breaks
  <2>3. (breaks = {} => lineEnd = n) /\ (breaks # {} => lineEnd \in breaks)
    BY <2>1, <2>2, FirstIsLeast
  <2> HIDE DEF lineEnd
  <2>4. CASE breaks = {}
    BY <1>1, <2>3, <2>4
  <2>5. CASE breaks # {}
    <3>1. lineEnd \in from .. n - 1
      BY <2>1, <2>3, <2>5
    <3> QED BY <1>1, <1>2, <3>1
  <2> QED BY <2>4, <2>5
<1>4. \/ ~ended /\ r = Need(probed, data)
      \/ has /\ r = Item(here, start, end)
      \/ (lineEnd < n \/ ended) /\ r = IF ended /\ next >= n THEN End(here) ELSE Again(here)
  <2>1. lineEnd = n \/ lineEnd < n
    BY <1>1, <1>3
  <2> HIDE DEF lineEnd, next, core, start, end, here, probed, has
  <2>2. r = CASE Starves(lineEnd = n, ended) -> Need(probed, data)
              [] (lineEnd < n \/ ended) /\ has -> Item(here, start, end)
              [] (lineEnd < n \/ ended) /\ ~has ->
                   IF ended /\ next >= n THEN End(here) ELSE Again(here)
    BY Zenon DEF Line, lineEnd, next, core, start, end, here, probed, has
  <2> QED BY <2>1, <2>2 DEF Starves
<1>5. next \in c .. n /\ lineEnd <= next /\ (lineEnd < n => next > c) /\ (lineEnd = n => next = n)
  <2> HIDE DEF n, c, lineEnd
  <2> QED BY <1>1, <1>3
<1>6. has => start \in c .. n /\ start < n /\ end \in start .. n /\ end <= next
  <2>1. CASE core = {}
    <3>1. start = lineEnd /\ end = lineEnd
      BY <2>1 DEF First
    <3>2. lineEnd \in 0 .. Len(data)
      <4> HIDE DEF lineEnd
      <4> QED BY <1>1, <1>3
    <3>3. ~LineHasValue(data, lineEnd, lineEnd, s.comments)
      <4> HIDE DEF lineEnd
      <4> QED BY <1>1, <3>2, BlankFacts
    <3>4. ~has
      BY <3>1, <3>3, Zenon
    <3> HIDE DEF has
    <3> QED BY <3>4
  <2>2. CASE core # {}
    <3>1. core \subseteq c .. lineEnd - 1
      OBVIOUS
    <3> DEFINE m == CHOOSE i \in core : \A j \in core : j <= i
    <3>2. c \in Nat /\ lineEnd - 1 \in Int
      <4> HIDE DEF lineEnd, c, n
      <4> QED BY <1>1, <1>3
    <3>3. end = 1 + m
      BY <2>2, Zenon
    <3> HIDE DEF n, c, lineEnd, core
    <3>4. start \in core /\ \A j \in core : start <= j
      BY <2>2, <3>1, <3>2, FirstIsLeast
    <3>5. m \in core
      <4>1. \E i \in core : \A j \in core : j <= i
        BY <2>2, <3>1, <3>2, GreatestElement
      <4> QED BY <4>1
    <3>6. start \in c .. lineEnd - 1 /\ m \in c .. lineEnd - 1 /\ start <= m
      BY <3>1, <3>4, <3>5
    <3> HIDE DEF start, end, m, next
    <3>7. start \in c .. n /\ start < n /\ end \in start .. n /\ end <= next
      BY <1>1, <1>3, <1>5, <3>3, <3>6
    <3> QED BY <3>7
  <2> QED BY <2>1, <2>2
<1> HIDE DEF n, from, breaks, lineEnd, next, core, start, end, has
<1>7. Ready(here, n) /\ here.cursor = next /\ here.mode = "Lines"
  <2>1. here \in Splitters
    <3>1. next \in Nat
      BY <1>1, <1>5
    <3> QED BY <1>1, <3>1, Zenon DEF Splitters
  <2>2. /\ here.cursor = next /\ here.probe = next /\ here.scan = s.scan
        /\ here.mode = s.mode /\ here.state = s.state
    BY <1>1 DEF Splitters
  <2> HIDE DEF here
  <2> QED BY <1>1, <1>5, <2>1, <2>2 DEF Ready
<1>8. Ready(probed, n) /\ probed.cursor = c
  <2>1. probed \in Splitters
    BY <1>1, Zenon DEF Splitters
  <2>2. /\ probed.cursor = c /\ probed.probe = n /\ probed.scan = s.scan
        /\ probed.mode = s.mode /\ probed.state = s.state
    BY <1>1 DEF Splitters
  <2> HIDE DEF probed
  <2> QED BY <1>1, <2>1, <2>2 DEF Ready
<1>9. n = Len(data) /\ s.cursor = c /\ s.cursor \in Nat
  BY <1>1 DEF n
<1> HIDE DEF here, probed, r, c
<1>10. ASSUME ~ended, r = Need(probed, data) PROVE Turned(r, s, n, ended)
  <2>1. r = Reply(probed, "need", "none", probed.cursor, n) /\ s.cursor <= probed.cursor
    BY <1>1, <1>8, <1>9, <1>10 DEF Need
  <2> QED BY <1>1, <1>8, <1>9, <1>10, <2>1, NeedFacts
<1>11. ASSUME has, r = Item(here, start, end) PROVE Turned(r, s, n, ended)
  <2>1. start \in s.cursor .. n /\ end \in start .. n /\ start < n /\ end <= here.cursor
    BY <1>6, <1>7, <1>9, <1>11
  <2> QED BY <1>1, <1>7, <1>9, <1>11, <2>1, ItemFacts
<1>12. ASSUME ended, next >= n, r = End(here) PROVE Turned(r, s, n, ended)
  <2>1. here.cursor = n /\ r = Reply(here, "end", "none", here.cursor, here.cursor)
    BY <1>1, <1>5, <1>7, <1>12 DEF End
  <2> QED BY <1>1, <1>7, <1>12, <2>1, EndFacts
<1>13. ASSUME lineEnd < n \/ ended, ~(ended /\ next >= n), r = Again(here)
       PROVE  Turned(r, s, n, ended)
  <2>1. next > c
    BY <1>1, <1>3, <1>5, <1>13
  <2>2. s.cursor <= here.cursor
    BY <1>1, <1>5, <1>7, <1>9
  <2>3. Left(here, n) < Left(s, n)
    BY <1>1, <1>5, <1>7, <1>9, <2>1 DEF Left
  <2> QED BY <1>1, <1>7, <1>13, <2>2, <2>3, AgainFacts
<1>14. Turned(r, s, n, ended)
  BY <1>4, <1>10, <1>11, <1>12, <1>13
<1> QED BY <1>14 DEF n, r

-----------------------------------------------------------------------------
(* The loop.                                                               *)

\* Whatever the state, a turn of the loop is sound (Framer::next, one iteration).
LEMMA TurnFacts ==
  ASSUME NEW T, NEW data \in Seq(T), NEW ended \in BOOLEAN, NEW s, Ready(s, Len(data))
  PROVE  Turned(Turn(s, data, ended), s, Len(data), ended)
<1>1. s.state \in States /\ Len(data) \in Nat
  BY DEF Ready, Splitters
<1>2. CASE s.mode = "Lines"
  BY <1>2, LineFacts DEF Turn
<1>3. CASE s.mode # "Lines"
  <2>1. CASE s.state = "BeforeOpen"
    BY <1>1, <1>3, <2>1, BeforeOpenFacts DEF Turn
  <2>2. CASE s.state = "FirstItem"
    BY <1>1, <1>3, <2>2, FirstItemFacts DEF Turn
  <2>3. CASE s.state = "BeforeItem"
    BY <1>1, <1>3, <2>3, BeforeItemFacts DEF Turn
  <2>4. CASE s.state = "InItem"
    BY <1>1, <1>3, <2>4, InItemFacts DEF Turn
  <2>5. CASE s.state = "AfterItem"
    BY <1>1, <1>3, <2>5, AfterItemFacts DEF Turn
  <2>6. CASE s.state = "Done"
    BY <1>1, <1>3, <2>6, DoneFacts DEF Turn
  <2> QED BY <1>1, <2>1, <2>2, <2>3, <2>4, <2>5, <2>6 DEF States
<1> QED BY <1>2, <1>3

\* What is left to do is a number, and less than the turns the loop may take.
LEMMA LeftFacts ==
  ASSUME NEW n \in Nat, NEW s, Ready(s, n)
  PROVE  Left(s, n) \in 0 .. n + 3
<1>1. s.state \in States /\ s.cursor \in 0 .. n
  BY DEF Ready, Splitters
<1>2. CASE s.mode = "Lines"
  BY <1>1, <1>2 DEF Left
<1>3. CASE s.mode # "Lines"
  <2>1. Rank[s.state] \in 1 .. 3
    BY <1>1, RankFacts DEF States
  <2> QED BY <1>3, <2>1 DEF Left
<1> QED BY <1>2, <1>3

\* r is where the loop stands after k turns from s.
Looping(r, k, s, n, ended) ==
  \/ Answered(r, s.cursor, n, ended)
  \/ /\ r.out.kind = "again"
     /\ Ready(r.sp, n)
     /\ s.cursor <= r.sp.cursor
     /\ Left(r.sp, n) <= n + 3 - k

\* The contract is closed under a cursor that moved on before the answer.
LEMMA LaterFacts ==
  ASSUME NEW n \in Nat, NEW ended \in BOOLEAN, NEW c \in Nat, NEW d \in c .. n,
         NEW r, Answered(r, d, n, ended)
  PROVE  Answered(r, c, n, ended)
<1>1. d .. n \subseteq c .. n
  OBVIOUS
<1>2. r.out \in W!FramerOutcomes(n, c, ended)
  BY <1>1 DEF Answered, W!FramerOutcomes
<1> QED BY <1>2 DEF Answered

\* The loop's turns from s: each takes what the last one asked for.
IsLoop(turn, s, data, n, ended) ==
  /\ NextItem(s, data, ended) = turn[n + 4]
  /\ turn[0] = Again(s)
  /\ \A k \in 1 .. n + 4 :
       turn[k] = IF turn[k - 1].out.kind = "again" THEN Turn(turn[k - 1].sp, data, ended)
                                                   ELSE turn[k - 1]

\* The loop has such turns.
LEMMA LoopExists ==
  ASSUME NEW T, NEW data \in Seq(T), NEW ended \in BOOLEAN, NEW s, Ready(s, Len(data))
  PROVE  \E turn : IsLoop(turn, s, data, Len(data), ended)
<1> DEFINE n == Len(data)
           m == n + 4
           first == Again(s)
           Step(r) == IF r.out.kind = "again" THEN Turn(r.sp, data, ended) ELSE r
           Sound(r) == \/ Answered(r, s.cursor, n, ended)
                       \/ r.out.kind = "again" /\ Ready(r.sp, n) /\ s.cursor <= r.sp.cursor
           X == {r \in Replies : Sound(r)}
           F == [k \in 1 .. m |-> [r \in X |-> Step(r)]]
           G(h) == [k \in 0 .. m |-> IF k = 0 THEN first ELSE Step(h[k - 1])]
           turn == CHOOSE h : h = G(h)
<1>1. NextItem(s, data, ended) = turn[m]
  BY DEF NextItem
<1>n. n \in Nat /\ m \in Nat /\ m = n + 4
  OBVIOUS
<1>s. s \in Splitters /\ s.cursor \in 0 .. n /\ Ready(s, n) /\ n = Len(data)
  BY DEF Ready, Splitters
<1>2. first \in X /\ first.out.kind = "again" /\ first.sp = s
  <2>1. first.out.kind = "again" /\ first.sp = s /\ first = Reply(s, "again", "none", 0, 0)
    BY DEF Again, Reply
  <2>2. first \in Replies
    BY <1>s, <2>1, ReplyFacts
  <2> HIDE DEF first, n
  <2> QED BY <1>s, <1>n, <2>1, <2>2
<1>3. ASSUME NEW r \in X
      PROVE  /\ Step(r) \in X
             /\ Answered(r, s.cursor, n, ended) => Step(r) = r
             /\ \/ Answered(Step(r), s.cursor, n, ended)
                \/ /\ Step(r).out.kind = "again" /\ Ready(Step(r).sp, n)
                   /\ s.cursor <= Step(r).sp.cursor
                   /\ Left(Step(r).sp, n) < Left(r.sp, n)
  <2>1. CASE Answered(r, s.cursor, n, ended)
    <3>1. Step(r) = r
      BY <2>1 DEF Answered
    <3> QED BY <2>1, <3>1
  <2>2. CASE r.out.kind = "again" /\ Ready(r.sp, n) /\ s.cursor <= r.sp.cursor
    <3> DEFINE t == Turn(r.sp, data, ended)
    <3>1. Step(r) = t
      BY <2>2
    <3>2. Turned(t, r.sp, n, ended)
      BY <2>2, TurnFacts
    <3>3. r.sp.cursor \in s.cursor .. n /\ s.cursor \in Nat
      BY <2>2 DEF Ready, Splitters
    <3>4. t \in Replies
      BY <3>2 DEF Turned
    <3>5. ~Answered(r, s.cursor, n, ended)
      BY <2>2 DEF Answered
    <3> HIDE DEF t, n, Step
    <3>6. \/ Answered(t, s.cursor, n, ended)
          \/ /\ t.out.kind = "again" /\ Ready(t.sp, n)
             /\ s.cursor <= t.sp.cursor
             /\ Left(t.sp, n) < Left(r.sp, n)
      <4>1. CASE Answered(t, r.sp.cursor, n, ended)
        BY <1>n, <3>3, <4>1, LaterFacts
      <4>2. CASE /\ t.out.kind = "again" /\ Ready(t.sp, n)
                 /\ r.sp.cursor <= t.sp.cursor
                 /\ Left(t.sp, n) < Left(r.sp, n)
        <5>1. t.sp.cursor \in Nat
          BY <4>2 DEF Ready, Splitters
        <5> QED BY <1>n, <3>3, <4>2, <5>1
      <4> QED BY <3>2, <4>1, <4>2 DEF Turned
    <3> QED BY <3>1, <3>4, <3>5, <3>6
  <2> QED BY <2>1, <2>2
<1>5. turn = CHOOSE h : h = G(h)
  OBVIOUS
<1> HIDE DEF n, m, first, Step, turn
<1>6. \E h : h = G(h)
  <2>1. F \in [1 .. m -> [X -> X]]
    BY <1>3
  <2>2. \A k \in 1 .. m : \A r \in X : F[k][r] = Step(r)
    OBVIOUS
  <2> HIDE DEF X, F
  <2>3. PICK g : IsRun(g, X, first, m, F)
    BY <1>n, <1>2, <2>1, RunExists
  <2>4. ASSUME NEW k \in 1 .. m
        PROVE  g[k] = Step(g[k - 1])
    <3>1. k - 1 \in 0 .. m
      BY <1>n
    <3> QED BY <2>2, <2>3, <3>1 DEF IsRun
  <2>5. \A k \in 0 .. m : k # 0 => k \in 1 .. m
    BY <1>n
  <2>6. g = G(g)
    BY <2>3, <2>4, <2>5 DEF IsRun
  <2> QED BY <2>6
<1>7. turn = G(turn)
  BY <1>5, <1>6
<1>8. turn[0] = first /\ \A k \in 1 .. m : turn[k] = Step(turn[k - 1])
  <2>1. \A k \in 0 .. m : turn[k] = IF k = 0 THEN first ELSE Step(turn[k - 1])
    BY <1>7
  <2>2. 0 \in 0 .. m /\ \A k \in 1 .. m : k \in 0 .. m /\ k # 0
    BY <1>n
  <2> HIDE DEF G
  <2> QED BY <2>1, <2>2
<1>9. turn[m] = NextItem(s, data, ended)
  BY <1>1
<1>10. IsLoop(turn, s, data, n, ended)
  BY <1>8, <1>9 DEF IsLoop, Step, first, m
<1> QED BY <1>10 DEF n

\* The loop ends on an answer of the framer contract, for every buffer, state and end
\* (Framer::next).
LEMMA NextFacts ==
  ASSUME NEW T, NEW data \in Seq(T), NEW ended \in BOOLEAN, NEW s, Ready(s, Len(data))
  PROVE  Answered(NextItem(s, data, ended), s.cursor, Len(data), ended)
<1> DEFINE n == Len(data)
           m == n + 4
<1>n. n \in Nat /\ m \in Nat /\ m = n + 4
  OBVIOUS
<1>s. s \in Splitters /\ s.cursor \in 0 .. n /\ Ready(s, n) /\ n = Len(data)
  BY DEF Ready, Splitters
<1>1. PICK turn : IsLoop(turn, s, data, n, ended)
  BY LoopExists
<1>2. /\ NextItem(s, data, ended) = turn[m] /\ turn[0].out.kind = "again" /\ turn[0].sp = s
      /\ \A k \in 1 .. m : turn[k] = IF turn[k - 1].out.kind = "again"
                                     THEN Turn(turn[k - 1].sp, data, ended) ELSE turn[k - 1]
  BY <1>1 DEF IsLoop, Again, Reply
<1> HIDE DEF n, m
<1> DEFINE S == {k \in 0 .. m : Looping(turn[k], k, s, n, ended)}
<1>3. 0 \in S
  <2>1. Left(s, n) \in 0 .. n + 3
    BY <1>n, <1>s, LeftFacts
  <2>2. Looping(turn[0], 0, s, n, ended)
    BY <1>n, <1>s, <1>2, <2>1 DEF Looping
  <2> QED BY <1>n, <2>2
<1>4. ASSUME NEW k \in 1 .. m, k - 1 \in S
      PROVE  k \in S
  <2> DEFINE r == turn[k - 1]
             t == turn[k]
  <2>1. /\ Looping(r, k - 1, s, n, ended) /\ k \in 0 .. m
        /\ t = IF r.out.kind = "again" THEN Turn(r.sp, data, ended) ELSE r
    BY <1>2, <1>4
  <2> HIDE DEF r, t
  <2>2. CASE Answered(r, s.cursor, n, ended)
    <3>1. t = r
      BY <2>1, <2>2 DEF Answered
    <3> QED BY <2>1, <2>2, <3>1 DEF Looping, t
  <2>3. CASE ~Answered(r, s.cursor, n, ended)
    <3>1. /\ r.out.kind = "again" /\ Ready(r.sp, n) /\ s.cursor <= r.sp.cursor
          /\ Left(r.sp, n) <= n + 3 - (k - 1)
      BY <2>1, <2>3 DEF Looping
    <3>2. t = Turn(r.sp, data, ended)
      BY <2>1, <3>1
    <3>3. Turned(t, r.sp, n, ended)
      BY <1>s, <3>1, <3>2, TurnFacts
    <3>4. r.sp.cursor \in s.cursor .. n /\ s.cursor \in Nat
      BY <1>n, <1>s, <3>1 DEF Ready, Splitters
    <3>5. CASE Answered(t, r.sp.cursor, n, ended)
      <4>1. Answered(t, s.cursor, n, ended)
        BY <1>n, <3>4, <3>5, LaterFacts
      <4> QED BY <2>1, <4>1 DEF Looping, t
    <3>6. CASE /\ t.out.kind = "again" /\ Ready(t.sp, n)
               /\ r.sp.cursor <= t.sp.cursor
               /\ Left(t.sp, n) < Left(r.sp, n)
      <4>1. t.sp.cursor \in Nat /\ s.cursor <= t.sp.cursor
        BY <1>n, <3>4, <3>6 DEF Ready, Splitters
      <4>2. Left(t.sp, n) \in Int /\ Left(r.sp, n) \in Int
        BY <1>n, <3>1, <3>6, LeftFacts
      <4> DEFINE a == Left(t.sp, n)
                 b == Left(r.sp, n)
      <4>3. a \in Int /\ b \in Int /\ a < b /\ b <= n + 3 - (k - 1)
        BY <3>1, <3>6, <4>2
      <4> HIDE DEF a, b
      <4>4. a <= n + 3 - k
        BY <1>n, <4>3
      <4> QED BY <2>1, <3>6, <4>1, <4>4 DEF Looping, t, a
    <3> QED BY <3>3, <3>5, <3>6 DEF Turned
  <2> QED BY <2>2, <2>3
<1>5. m \in S
  <2> HIDE DEF S
  <2>1. 0 .. m \subseteq S
    BY <1>n, <1>3, <1>4, UpToInduction
  <2> QED BY <1>n, <2>1
<1>6. Looping(turn[m], m, s, n, ended)
  BY <1>5
<1>7. Answered(turn[m], s.cursor, n, ended)
  <2>1. SUFFICES ASSUME Ready(turn[m].sp, n), Left(turn[m].sp, n) <= n + 3 - m
                 PROVE  FALSE
    BY <1>6 DEF Looping
  <2>2. Left(turn[m].sp, n) \in 0 .. n + 3
    BY <1>n, <2>1, LeftFacts
  <2> QED BY <1>n, <2>1, <2>2
<1> QED BY <1>2, <1>7 DEF n

-----------------------------------------------------------------------------
(* The window over the splitter.                                           *)

\* What every reader keeps: its framer can be asked about its buffer.
RInv ==
  /\ setup \in Setups
  /\ stream \in Seq(Bytes) /\ buf \in Seq(Bytes)
  /\ eof \in BOOLEAN /\ failed \in BOOLEAN
  /\ ~failed => Ready(sp, Len(buf))

\* A new splitter is ready, on an empty buffer (Splitter::new).
LEMMA InitReady == ReaderInit => RInv
<1> SUFFICES ASSUME ReaderInit PROVE RInv
  OBVIOUS
<1> DEFINE f == FreshScan(0)
           state == IF setup.mode = "Array" THEN "BeforeOpen" ELSE "BeforeItem"
<1>1. setup \in Setups /\ setup.mode \in Modes /\ setup.comments \in BOOLEAN
  BY ReaderAssumption DEF ReaderInit
<1>2. sp = [mode |-> setup.mode, comments |-> setup.comments, state |-> state,
            cursor |-> 0, probe |-> 0, comment |-> "No", scan |-> f]
  BY DEF ReaderInit, NewSplitter
<1>3. f \in Scans /\ f.pos = 0
  BY DEF FreshScan, Scans, Comments
<1>4. state \in States /\ state # "InItem" /\ "No" \in Comments
  BY DEF States, Comments
<1> HIDE DEF f, state
<1>5. Ready(sp, 0)
  BY <1>1, <1>2, <1>3, <1>4 DEF Ready, Splitters
<1>6. stream = <<>> /\ buf = <<>> /\ eof = FALSE /\ failed = FALSE
  BY DEF ReaderInit, W!Init
<1>7. stream \in Seq(Bytes) /\ buf \in Seq(Bytes) /\ Len(buf) = 0
  BY <1>6
<1> QED BY <1>1, <1>5, <1>6, <1>7 DEF RInv

\* Dropping the dead bytes leaves a splitter ready for what is left.
LEMMA RebaseFacts ==
  ASSUME NEW n \in Nat, Ready(sp, n)
  PROVE  Ready(Rebase(sp), n - sp.cursor) /\ Rebase(sp).cursor = 0
<1> DEFINE c == sp.cursor
           p == IF sp.probe > c THEN sp.probe - c ELSE 0
           q == IF sp.scan.pos > c THEN sp.scan.pos - c ELSE 0
           f == [sp.scan EXCEPT !.pos = q]
           t == [sp EXCEPT !.cursor = 0, !.probe = p, !.scan = f]
<1>1. /\ sp \in Splitters /\ c \in 0 .. n /\ sp.probe \in 0 .. n /\ sp.scan \in Scans
      /\ sp.scan.pos \in 0 .. n
      /\ sp.state = "InItem" => sp.mode # "Lines" /\ c < n /\ c <= sp.scan.pos
  BY DEF Ready, Splitters, Scans
<1>2. Rebase(sp) = t
  BY <1>1 DEF Rebase, Splitters
<1>3. p \in 0 .. n - c /\ q \in 0 .. n - c /\ 0 <= n - c /\ n - c \in Nat
  BY <1>1
<1>4. f \in Scans /\ f.pos = q
  <2>1. q \in Nat
    BY <1>3
  <2> HIDE DEF q
  <2>2. f \in Scans
    BY <1>1, <2>1, Zenon DEF Scans
  <2> QED BY <1>1, <2>2 DEF Scans
<1>5. p \in Nat /\ 0 \in Nat
  BY <1>3
<1> HIDE DEF p, q, f
<1>6. t \in Splitters
  BY <1>1, <1>4, <1>5, Zenon DEF Splitters
<1>7. t.cursor = 0 /\ t.probe = p /\ t.scan = f /\ t.state = sp.state /\ t.mode = sp.mode
  BY <1>1 DEF Splitters
<1> HIDE DEF t
<1>8. Ready(t, n - c)
  BY <1>1, <1>3, <1>4, <1>6, <1>7 DEF Ready
<1> QED BY <1>2, <1>7, <1>8 DEF c

\* What the window shows the framer, and where the framer then stands.
LEMMA ViewFacts ==
  ASSUME RInv, ~failed, NEW s, s = IF W!Compacts THEN Rebase(sp) ELSE sp
  PROVE  /\ W!View \in Seq(Bytes) /\ Len(W!View) \in Nat
         /\ Ready(s, Len(W!View)) /\ s.cursor = W!ViewCursor /\ W!ViewCursor \in Nat
<1>1. buf \in Seq(Bytes) /\ Ready(sp, Len(buf)) /\ Len(buf) \in Nat
  BY DEF RInv
<1>2. sp.cursor \in 0 .. Len(buf)
  BY <1>1 DEF Ready, Splitters
<1>3. CASE W!Compacts
  <2>1. W!View = SubSeq(buf, sp.cursor + 1, Len(buf)) /\ W!ViewCursor = 0 /\ s = Rebase(sp)
    BY <1>3 DEF W!View, W!ViewCursor
  <2>2. W!View \in Seq(Bytes) /\ Len(W!View) = Len(buf) - sp.cursor
    BY <1>1, <1>2, <2>1
  <2>3. Ready(s, Len(buf) - sp.cursor) /\ s.cursor = 0
    BY <1>1, <2>1, RebaseFacts
  <2> QED BY <1>1, <1>2, <2>1, <2>2, <2>3
<1>4. CASE ~W!Compacts
  <2>1. W!View = buf /\ W!ViewCursor = sp.cursor /\ s = sp
    BY <1>4 DEF W!View, W!ViewCursor
  <2> QED BY <1>1, <1>2, <2>1
<1> QED BY <1>3, <1>4

\* The splitter's answer is one the contract allows.
LEMMA LocatedFacts ==
  ASSUME RInv, ~failed
  PROVE  Answered(Located, W!ViewCursor, Len(W!View), eof)
<1> DEFINE s == IF W!Compacts THEN Rebase(sp) ELSE sp
           v == W!View
<1>1. /\ v \in Seq(Bytes) /\ Ready(s, Len(v)) /\ s.cursor = W!ViewCursor
  BY ViewFacts
<1>2. eof \in BOOLEAN /\ Located = NextItem(s, v, eof)
  BY DEF RInv, Located
<1> HIDE DEF s, v
<1>3. Answered(NextItem(s, v, eof), s.cursor, Len(v), eof)
  BY <1>1, <1>2, NextFacts
<1> QED BY <1>1, <1>2, <1>3 DEF v

\* Asking for a value is a step of the window, and leaves a splitter that can
\* be asked again.
LEMMA TryFacts ==
  ASSUME RInv, TryNextItem
  PROVE  /\ RInv'
         /\ \/ \E out \in W!FramerOutcomes(Len(W!View), W!ViewCursor, eof) : W!TryNext(out)
            \/ W!TryNextDead
<1>1. CASE /\ ~failed /\ sp' = Located.sp /\ W!TryNext(Located.out)
           /\ UNCHANGED <<setup, late>>
  <2> DEFINE out == Located.out
             n == Len(W!View)
  <2>1. Answered(Located, W!ViewCursor, n, eof)
    BY <1>1, LocatedFacts
  <2>2. out \in W!FramerOutcomes(n, W!ViewCursor, eof) /\ (out.kind # "fail" => Ready(sp', n))
    BY <1>1, <2>1 DEF Answered
  <2>3. W!View \in Seq(Bytes)
    BY <1>1, ViewFacts
  <2>4. /\ stream' = stream /\ eof' = eof /\ setup' = setup /\ failed' \in BOOLEAN
        /\ ~failed' => buf' = W!View /\ out.kind # "fail"
        /\ failed' => buf' = <<>>
    BY <1>1 DEF W!TryNext
  <2> HIDE DEF out
  <2>5. RInv'
    <3>1. buf' \in Seq(Bytes)
      <4>1. <<>> \in Seq(Bytes)
        OBVIOUS
      <4>2. CASE failed'
        BY <2>4, <4>1, <4>2
      <4>3. CASE ~failed'
        BY <2>3, <2>4, <4>3
      <4> QED BY <4>2, <4>3
    <3>2. ~failed' => Ready(sp', Len(buf'))
      BY <2>2, <2>4
    <3> QED BY <2>4, <3>1, <3>2 DEF RInv
  <2>6. \E o \in W!FramerOutcomes(Len(W!View), W!ViewCursor, eof) : W!TryNext(o)
    BY <1>1, <2>2 DEF out
  <2> QED BY <2>5, <2>6
<1>2. CASE UNCHANGED <<setup, sp, items, late>> /\ W!TryNextDead
  BY <1>2 DEF W!TryNextDead, RInv
<1> QED BY <1>1, <1>2 DEF TryNextItem

\* What arrives at once is bytes of the stream.
LEMMA BatchFacts ==
  ASSUME RInv, NEW k, NEW bytes \in Batches(k), Len(stream) + Len(bytes) <= MaxStream
  PROVE  /\ bytes \in Seq(Bytes)
         /\ \E m \in 0 .. MaxStream - Len(stream) : bytes \in [1 .. m -> Bytes]
         /\ k \in Nat => \E m \in 0 .. k : bytes \in [1 .. m -> Bytes]
         /\ stream \o bytes \in Seq(Bytes) /\ buf \o bytes \in Seq(Bytes)
<1>1. PICK m \in 1 .. W!Smaller(k, setup.max - Len(stream)) : bytes \in [1 .. m -> setup.bytes]
  BY DEF Batches
<1>2. m \in Nat /\ setup.bytes \subseteq Bytes /\ stream \in Seq(Bytes) /\ buf \in Seq(Bytes)
  BY <1>1 DEF RInv, Bytes
<1>3. bytes \in [1 .. m -> Bytes]
  BY <1>1, <1>2
<1>4. bytes \in Seq(Bytes) /\ Len(bytes) = m
  BY <1>2, <1>3
<1>5. m \in 0 .. MaxStream - Len(stream)
  BY <1>2, <1>4, ReaderAssumption
<1>6. k \in Nat => m \in 0 .. k
  <2>1. setup.max \in Nat /\ Len(stream) \in Nat
    BY <1>2, ReaderAssumption DEF RInv
  <2> QED BY <1>1, <1>2, <2>1 DEF W!Smaller
<1>7. stream \o bytes \in Seq(Bytes) /\ buf \o bytes \in Seq(Bytes)
  BY <1>2, <1>4
<1> QED BY <1>3, <1>4, <1>5, <1>6, <1>7

\* More bytes behind those there are leave the splitter ready.
LEMMA GrowthFacts ==
  ASSUME RInv, ~failed, NEW bytes \in Seq(Bytes), buf' = buf \o bytes, sp' = sp
  PROVE  Ready(sp', Len(buf'))
<1>1. Len(buf') = Len(buf) + Len(bytes) /\ Len(buf) \in Nat /\ Len(bytes) \in Nat /\ Ready(sp, Len(buf))
  BY DEF RInv
<1>2. /\ sp.cursor \in Nat /\ sp.probe \in Nat /\ sp.scan.pos \in Nat
  BY <1>1 DEF Ready, Splitters, Scans
<1> QED BY <1>1, <1>2 DEF Ready

-----------------------------------------------------------------------------
(* Feed.                                                                   *)

\* Every step of a feed keeps its splitter ready and is a step of the window.
LEMMA FeedStep ==
  ASSUME RInv, [FeedNext]_rvars
  PROVE  RInv' /\ [W!Next]_wvars
<1>1. ASSUME NEW bytes \in Batches(Chunk), Push(bytes)
      PROVE  RInv' /\ W!Next
  <2>1. W!Extend(bytes) /\ UNCHANGED <<setup, sp>>
    BY <1>1 DEF Push
  <2>2. /\ ~failed /\ failed' = failed /\ eof' = eof
        /\ stream' = stream \o bytes /\ buf' = buf \o bytes
        /\ Len(stream) + Len(bytes) <= MaxStream
    BY <2>1 DEF W!Extend
  <2>3. /\ bytes \in Seq(Bytes) /\ bytes \in W!BytesUpTo(MaxStream - Len(stream))
        /\ stream' \in Seq(Bytes) /\ buf' \in Seq(Bytes)
    BY <1>1, <2>2, BatchFacts DEF W!BytesUpTo
  <2>4. Ready(sp', Len(buf'))
    BY <2>1, <2>2, <2>3, GrowthFacts
  <2> QED BY <2>1, <2>2, <2>3, <2>4 DEF RInv, W!Next
<1>2. ASSUME FeedEnd
      PROVE  RInv' /\ W!Next
  <2>1. W!SetEof /\ UNCHANGED <<setup, sp>>
    BY <1>2 DEF FeedEnd
  <2>2. eof' = TRUE /\ UNCHANGED <<stream, buf, failed>>
    BY <2>1 DEF W!SetEof
  <2> QED BY <2>1, <2>2 DEF RInv, W!Next
<1>3. ASSUME NextValue
      PROVE  RInv' /\ W!Next
  BY <1>3, TryFacts DEF NextValue, W!Next
<1>4. ASSUME UNCHANGED rvars
      PROVE  RInv' /\ UNCHANGED wvars
  BY <1>4 DEF rvars, wvars, RInv
<1> QED BY <1>1, <1>2, <1>3, <1>4 DEF FeedNext

\* A JSON feed is a window: whatever the bytes, the chunks and the calls, its
\* splitter keeps the framer contract, so that no answer it gives is one the
\* window does not expect (json/stream/split.rs, Framer::next).
THEOREM FeedIsWindow == FeedSpec => ImplementsWindow
<1>1. ReaderInit => W!Init
  BY DEF ReaderInit
<1>2. QED BY <1>1, InitReady, FeedStep, PTL DEF FeedSpec, ImplementsWindow, W!Spec, wvars, W!vars

-----------------------------------------------------------------------------
(* Documents.                                                              *)


\* The pull reader's copies of the window's operators are the same.
LEMMA SameView ==
  /\ D!View = W!View /\ D!ViewCursor = W!ViewCursor /\ D!ViewOrigin = W!ViewOrigin
BY DEF D!View, W!View, D!ViewCursor, W!ViewCursor, D!ViewOrigin, W!ViewOrigin, D!Compacts, W!Compacts

\* So is the framer contract.
LEMMA SameContract ==
  ASSUME NEW n, NEW c, NEW ended
  PROVE  W!FramerOutcomes(n, c, ended) = D!FramerOutcomes(n, c, ended)
BY DEF W!FramerOutcomes, D!FramerOutcomes, W!Outcome, D!Outcome

\* So is Window::try_next.
LEMMA SameTry ==
  ASSUME NEW out, W!TryNext(out)
  PROVE  D!TryNext(out)
BY SameView, Zenon DEF W!TryNext, D!TryNext

\* So is try_next on a window that failed.
LEMMA SameTryDead == W!TryNextDead => D!TryNextDead
BY DEF W!TryNextDead, D!TryNextDead, W!Offset, D!Offset

\* Every step of a pull reader over the splitter keeps it ready and is a step of
\* Documents.
LEMMA DocumentsStep ==
  ASSUME RInv, [JNext]_jvars
  PROVE  RInv' /\ [D!DNext]_(D!dvars)
<1>1. ASSUME NextDocument
      PROVE  RInv' /\ D!DNext
  <2>1. D!Call /\ UNCHANGED <<setup, sp>>
    BY <1>1 DEF NextDocument, Still
  <2>2. UNCHANGED <<stream, buf, eof, failed>>
    BY <2>1 DEF D!Call, D!vars
  <2> QED BY <2>1, <2>2 DEF RInv, D!DNext
<1>2. ASSUME TryFramer
      PROVE  RInv' /\ D!DNext
  <2>1. pc = "try" /\ TryNextItem /\ D!AfterTry
    BY <1>2 DEF TryFramer
  <2>2. RInv'
    BY <2>1, TryFacts
  <2>3. CASE W!TryNextDead
    <3>1. D!TryDead
      BY <2>1, <2>3, SameTryDead DEF D!TryDead
    <3> QED BY <2>2, <3>1 DEF D!DTry, D!DNext
  <2>4. ASSUME NEW out \in W!FramerOutcomes(Len(W!View), W!ViewCursor, eof), W!TryNext(out)
        PROVE  D!DNext
    <3>1. out \in D!FramerOutcomes(Len(D!View), D!ViewCursor, eof)
      BY SameView, SameContract
    <3>2. D!Try(out)
      BY <2>1, <2>4, SameTry DEF D!Try
    <3> QED BY <3>1, <3>2 DEF D!DTry, D!DNext
  <2> QED BY <2>1, <2>2, <2>3, <2>4, TryFacts
<1>3. ASSUME NEW bytes \in Batches(Chunk), D!ReadBytes(bytes), Still
      PROVE  RInv' /\ D!DNext
  <2>1. D!FillBytes(bytes) /\ UNCHANGED <<setup, sp>> /\ pc = "fill"
    BY <1>3 DEF D!ReadBytes, Still
  <2>2. /\ stream' = stream \o bytes /\ buf' = buf \o bytes /\ eof' = eof /\ failed' = failed
        /\ Len(stream) + Len(bytes) <= MaxStream
    BY <2>1 DEF D!FillBytes
  <2>3. /\ stream' \in Seq(Bytes) /\ buf' \in Seq(Bytes) /\ bytes \in Seq(Bytes)
        /\ bytes \in D!BytesUpTo(Chunk)
    <3>1. Chunk \in Nat
      BY ReaderAssumption
    <3> QED BY <1>3, <2>2, <3>1, BatchFacts, SMTT(30) DEF D!BytesUpTo
  <2>4. ~failed => Ready(sp', Len(buf'))
    BY <2>1, <2>2, <2>3, GrowthFacts
  <2>5. D!DNext
    BY <1>3, <2>3 DEF D!DRead, D!DNext
  <2> QED BY <2>1, <2>2, <2>3, <2>4, <2>5 DEF RInv
<1>4. ASSUME D!ReadEof \/ D!ReadInterrupted \/ D!ReadFails, Still
      PROVE  RInv' /\ D!DNext
  <2>1. (D!FillEof \/ D!FillError) /\ UNCHANGED <<setup, sp>>
    BY <1>4 DEF D!ReadEof, D!ReadInterrupted, D!ReadFails, Still
  <2>2. UNCHANGED <<stream, buf, failed>> /\ (eof' = TRUE \/ eof' = eof)
    BY <2>1 DEF D!FillEof, D!FillError
  <2>3. D!DNext
    BY <1>4 DEF D!DRead, D!DNext
  <2> QED BY <2>1, <2>2, <2>3 DEF RInv
<1>5. ASSUME UNCHANGED jvars
      PROVE  RInv' /\ UNCHANGED D!dvars
  BY <1>5 DEF jvars, rvars, D!dvars, RInv
<1> QED BY <1>1, <1>2, <1>3, <1>4, <1>5 DEF JNext, Read

\* A JSON pull reader is the pull reader of Documents.
THEOREM PullIsDocuments == JSpec => ImplementsPullReader
<1>1. JInit => D!DInit
  BY DEF JInit, ReaderInit, W!Init, D!DInit, D!Init
<1>2. JInit => RInv
  BY InitReady DEF JInit
<1>3. QED BY <1>1, <1>2, DocumentsStep, PTL DEF JSpec, ImplementsPullReader

\* Whatever was read and asked, the splitter's offsets lie in the buffer.
THEOREM FeedStaysReady == FeedSpec => []RInv
BY InitReady, FeedStep, PTL DEF FeedSpec

\* And between a pull reader's reads and calls.
THEOREM DocumentsStayReady == JSpec => []RInv
<1>1. JInit => RInv
  BY InitReady DEF JInit
<1>2. QED BY <1>1, DocumentsStep, PTL DEF JSpec

-----------------------------------------------------------------------------
(* The reference: what its recursions come to.                             *)

\* A comment begins with a slash and the byte behind it, and ends behind both.
LEMMA CommentEndFacts ==
  ASSUME NEW s, NEW n \in Nat, n = Len(s), NEW i \in Nat, IsComment(s, i)
  PROVE  i + 1 < n /\ CommentEnd(s, i) \in i + 2 .. Never(s)
<1> DEFINE L == {j \in i + 2 .. n - 1 : At(s, j) = Newline}
           B == {j + 2 : j \in {k \in i + 2 .. n - 2 : At(s, k) = "*" /\ At(s, k + 1) = "/"}}
<1>1. i + 1 < n
  BY BeginFacts DEF IsComment
<1>2. L \subseteq i + 2 .. n - 1 /\ B \subseteq i + 2 .. n
  OBVIOUS
<1>3. CommentEnd(s, i) = IF At(s, i + 1) = "/" THEN First(L, n) ELSE First(B, Never(s))
  BY DEF CommentEnd
<1> HIDE DEF L, B
<1>4. /\ L = {} => First(L, n) = n
      /\ L # {} => First(L, n) \in i + 2 .. n - 1
      /\ B = {} => First(B, Never(s)) = Never(s)
      /\ B # {} => First(B, Never(s)) \in i + 2 .. n
  <2>0. i + 2 \in Nat /\ n - 1 \in Int /\ n \in Int
    OBVIOUS
  <2>1. (L = {} => First(L, n) = n) /\ (L # {} => First(L, n) \in L)
    BY <1>2, <2>0, FirstIsLeast
  <2>2. (B = {} => First(B, Never(s)) = Never(s)) /\ (B # {} => First(B, Never(s)) \in B)
    BY <1>2, <2>0, FirstIsLeast
  <2> QED BY <1>2, <2>1, <2>2
<1>5. Never(s) = n + 1
  BY DEF Never
<1> QED BY <1>1, <1>3, <1>4, <1>5

\* The recursion of Gap.
LEMMA GapRecursion ==
  ASSUME NEW s, NEW n \in Nat, n = Len(s), NEW comments \in BOOLEAN
  PROVE  \E g :
           /\ \A i \in 0 .. n + 1 : Gap(s, i, comments) = g[i]
           /\ \A j \in 0 .. n + 1 :
                g[j] = CASE j < n /\ IsWs(At(s, j)) -> g[j + 1]
                         [] j < n /\ comments /\ IsComment(s, j) -> g[CommentEnd(s, j)]
                         [] OTHER -> j
<1> DEFINE m == n + 1
           V == 0 .. m
           Body(g, j) == CASE j < n /\ IsWs(At(s, j)) -> g[j + 1]
                           [] j < n /\ comments /\ IsComment(s, j) -> g[CommentEnd(s, j)]
                           [] OTHER -> j
           G(h) == [j \in V |-> Body(h, j)]
           E == [j \in V |-> [f \in [V -> V] |-> Body(f, j)]]
           gap == CHOOSE h : h = G(h)
<1>m. m \in Nat /\ m = n + 1 /\ Never(s) = m
  BY DEF Never
<1>1. ASSUME NEW i \in V
      PROVE  Gap(s, i, comments) = gap[i]
  BY <1>m DEF Gap
<1>2. ASSUME NEW j \in V
      PROVE  /\ j < n => j + 1 \in j + 1 .. m
             /\ j < n /\ IsComment(s, j) => CommentEnd(s, j) \in j + 1 .. m
  <2>1. IsComment(s, j) => CommentEnd(s, j) \in j + 2 .. m
    BY <1>m, CommentEndFacts
  <2> QED BY <2>1
<1>3. ASSUME NEW j \in V, NEW f \in [V -> V]
      PROVE  /\ Body(f, j) \in V
             /\ \A g \in [V -> V] : (\A l \in j + 1 .. m : f[l] = g[l]) => Body(f, j) = Body(g, j)
  <2> HIDE DEF m
  <2>1. \A l \in j + 1 .. m : l \in V
    BY <1>m
  <2> HIDE DEF V
  <2>2. CASE j < n /\ IsWs(At(s, j))
    <3>1. \A g : Body(g, j) = g[j + 1]
      <4>1. IsWs(At(s, j)) /\ IsComment(s, j) => FALSE
        BY SlashFacts DEF IsComment
      <4> QED BY <2>2, <4>1
    <3> QED BY <1>2, <2>1, <2>2, <3>1
  <2>3. CASE j < n /\ ~IsWs(At(s, j)) /\ comments /\ IsComment(s, j)
    <3>1. \A g : Body(g, j) = g[CommentEnd(s, j)]
      BY <2>3
    <3> QED BY <1>2, <2>1, <2>3, <3>1
  <2>4. CASE ~(j < n /\ IsWs(At(s, j))) /\ ~(j < n /\ comments /\ IsComment(s, j))
    <3>1. \A g : Body(g, j) = j
      BY <2>4
    <3> QED BY <3>1
  <2> QED BY <2>2, <2>3, <2>4
<1>5. gap = CHOOSE h : h = G(h)
  OBVIOUS
<1> HIDE DEF m, gap, Body
<1>6. PICK g : IsDown(g, E, V, m)
  <2>1. E \in [V -> [[V -> V] -> V]]
    BY <1>3
  <2>2. \A j \in V : \A f, g \in [V -> V] : (\A l \in j + 1 .. m : f[l] = g[l]) => E[j][f] = E[j][g]
    BY <1>3
  <2>3. 0 \in V
    BY <1>m
  <2>4. LooksAhead(E, V, m)
    BY <2>1, <2>2 DEF LooksAhead
  <2> HIDE DEF E
  <2> QED BY <1>m, <2>3, <2>4, DownExists
<1>7. g = G(g)
  <2>1. \A j \in V : g[j] = Body(g, j)
    BY <1>6 DEF IsDown
  <2>2. g \in [V -> V]
    BY <1>6 DEF IsDown
  <2> HIDE DEF V
  <2> QED BY <2>1, <2>2
<1>8. gap = G(gap)
  BY <1>5, <1>7
<1>9. \A j \in V : gap[j] = Body(gap, j)
  <2> HIDE DEF V
  <2> QED BY <1>8
<1> QED BY <1>1, <1>9, <1>m DEF Body

\* What Gap does at each offset.
LEMMA GapFacts ==
  ASSUME NEW s, NEW n \in Nat, n = Len(s), NEW comments \in BOOLEAN, NEW i \in 0 .. n + 1
  PROVE  /\ Gap(s, i, comments) \in i .. n + 1
         /\ i < n /\ IsWs(At(s, i)) => Gap(s, i, comments) = Gap(s, i + 1, comments)
         /\ i < n /\ comments /\ IsComment(s, i) =>
              Gap(s, i, comments) = Gap(s, CommentEnd(s, i), comments)
         /\ i < n => IsWs(At(s, i)) \/ (comments /\ IsComment(s, i)) \/ Gap(s, i, comments) = i
         /\ i >= n => Gap(s, i, comments) = i
<1>1. PICK g : /\ \A j \in 0 .. n + 1 : Gap(s, j, comments) = g[j]
               /\ \A j \in 0 .. n + 1 :
                    g[j] = CASE j < n /\ IsWs(At(s, j)) -> g[j + 1]
                             [] j < n /\ comments /\ IsComment(s, j) -> g[CommentEnd(s, j)]
                             [] OTHER -> j
  BY GapRecursion
<1>2. ASSUME NEW j \in 0 .. n + 1
      PROVE  /\ j < n => j + 1 \in j + 1 .. n + 1
             /\ j < n /\ IsComment(s, j) => CommentEnd(s, j) \in j + 1 .. n + 1 /\ ~IsWs(At(s, j))
  <2>1. IsComment(s, j) => CommentEnd(s, j) \in j + 2 .. n + 1
    BY CommentEndFacts DEF Never
  <2>2. IsComment(s, j) => ~IsWs(At(s, j))
    BY SlashFacts DEF IsComment
  <2> QED BY <2>1, <2>2
<1>3. ASSUME NEW j \in 0 .. n + 1
      PROVE  /\ j < n /\ IsWs(At(s, j)) => g[j] = g[j + 1]
             /\ j < n /\ comments /\ IsComment(s, j) => g[j] = g[CommentEnd(s, j)]
             /\ j < n => IsWs(At(s, j)) \/ (comments /\ IsComment(s, j)) \/ g[j] = j
             /\ j >= n => g[j] = j
  <2>1. g[j] = CASE j < n /\ IsWs(At(s, j)) -> g[j + 1]
                 [] j < n /\ comments /\ IsComment(s, j) -> g[CommentEnd(s, j)]
                 [] OTHER -> j
    BY <1>1
  <2>2. j < n /\ IsComment(s, j) => ~IsWs(At(s, j))
    BY <1>2
  <2> QED BY <2>1, <2>2
<1> DEFINE S == {j \in 0 .. n + 1 : g[j] \in j .. n + 1}
<1>4. ASSUME NEW j \in 0 .. n + 1, \A l \in j + 1 .. n + 1 : l \in S
      PROVE  j \in S
  <2>1. \A l \in j + 1 .. n + 1 : g[l] \in j .. n + 1
    BY <1>4
  <2>2. g[j] \in j .. n + 1
    BY <1>2, <1>3, <2>1
  <2> QED BY <2>2
<1>5. 0 .. n + 1 \subseteq S
  <2>1. n + 1 \in Nat
    OBVIOUS
  <2> HIDE DEF S
  <2> QED BY <1>4, <2>1, DownInduction
<1>6. \A j \in 0 .. n + 1 : Gap(s, j, comments) = g[j]
  BY <1>1
<1>7. /\ i < n => i + 1 \in 0 .. n + 1
      /\ i < n /\ IsComment(s, i) => CommentEnd(s, i) \in 0 .. n + 1
  BY <1>2
<1>8. g[i] \in i .. n + 1
  BY <1>5
<1> QED BY <1>3, <1>6, <1>7, <1>8

-----------------------------------------------------------------------------
(* Inside a comment.                                                       *)

\* The search stands at p in the comment that opened at q, in state comment.
InComment(s, q, p, comment) ==
  /\ IsComment(s, q) /\ q + 2 <= p
  /\ comment \in {"Line", "Block", "BlockStar"}
  /\ comment = "Line" <=> At(s, q + 1) = "/"
  /\ comment = "Line" => \A j \in q + 2 .. p - 1 : At(s, j) # Newline
  /\ comment # "Line" => \A j \in q + 2 .. p - 2 : ~(At(s, j) = "*" /\ At(s, j + 1) = "/")
  /\ comment # "Line" => (comment = "BlockStar" <=> (p >= q + 3 /\ At(s, p - 1) = "*"))

\* The least of a set of offsets, where it is known.
IsLeast(x, S) == x \in S /\ \A j \in S : x <= j

\* First of a set of offsets is its least member, if it has one.
LEMMA FirstIs ==
  ASSUME NEW a \in Nat, NEW b \in Int, NEW S, S \subseteq a .. b, NEW d, NEW x, IsLeast(x, S)
  PROVE  First(S, d) = x
<1> USE DEF IsLeast
<1>0. \A j \in S : j \in Int
  OBVIOUS
<1>1. First(S, d) \in S /\ \A j \in S : First(S, d) <= j
  BY FirstIsLeast
<1> DEFINE y == First(S, d)
<1>2. x \in Int /\ y \in S /\ y \in Int
  BY <1>0, <1>1
<1>3. y <= x /\ x <= y
  BY <1>1, <1>2
<1> HIDE DEF y
<1>4. y = x
  BY <1>2, <1>3
<1> QED BY <1>4 DEF y

\* Where Comment::begin says that a comment opens, it has.
LEMMA CommentOpens ==
  ASSUME NEW s, NEW q \in Nat, IsComment(s, q)
  PROVE  InComment(s, q, q + 2, Begin(s, q))
<1>1. Begin(s, q) \in {"Line", "Block"} /\ (Begin(s, q) = "Line" <=> At(s, q + 1) = "/")
  BY DEF IsComment, Begin
<1> QED BY <1>1 DEF InComment

\* A byte further the comment goes on, or it ends where the reference says
\* (Comment::step).
LEMMA CommentStep ==
  ASSUME NEW s, NEW n \in Nat, n = Len(s), NEW q \in Nat, NEW p \in Nat, p < n,
         NEW comment, InComment(s, q, p, comment), NEW d, d = StepComment(comment, At(s, p))
  PROVE  /\ d # "No" => InComment(s, q, p + 1, d)
         /\ d = "No" => \/ CommentEnd(s, q) = p + 1
                        \/ CommentEnd(s, q) = p /\ At(s, p) = Newline
<1> DEFINE c == At(s, p)
           L == {j \in q + 2 .. n - 1 : At(s, j) = Newline}
           K == {k \in q + 2 .. n - 2 : At(s, k) = "*" /\ At(s, k + 1) = "/"}
           B == {j + 2 : j \in K}
<1>0. q + 2 \in Nat /\ n - 1 \in Int /\ n \in Int /\ q + 2 <= p
  BY DEF InComment
<1>1. CommentEnd(s, q) = IF At(s, q + 1) = "/" THEN First(L, n) ELSE First(B, Never(s))
  BY DEF CommentEnd
<1>2. CASE comment = "Line" /\ c = Newline
  <2>1. d = "No"
    BY <1>2 DEF StepComment
  <2>2. IsLeast(p, L)
    BY <1>0, <1>2 DEF InComment, IsLeast
  <2>3. L \subseteq q + 2 .. n - 1
    OBVIOUS
  <2>4. First(L, n) = p
    <3> HIDE DEF L
    <3> QED BY <1>0, <2>2, <2>3, FirstIs
  <2> QED BY <1>1, <1>2, <2>1, <2>4 DEF InComment
<1>3. CASE comment = "Line" /\ c # Newline
  <2>1. d = "Line"
    BY <1>3 DEF StepComment
  <2> QED BY <1>0, <1>3, <2>1 DEF InComment
<1>4. CASE comment = "BlockStar" /\ c = "/"
  <2>1. d = "No"
    BY <1>4 DEF StepComment
  <2>2. p - 1 \in K /\ \A k \in K : p - 1 <= k
    BY <1>0, <1>4 DEF InComment
  <2>3. B \subseteq q + 2 .. n
    OBVIOUS
  <2>4. IsLeast(p + 1, B)
    BY <2>2 DEF IsLeast
  <2>5. First(B, Never(s)) = p + 1
    <3> HIDE DEF B
    <3> QED BY <1>0, <2>3, <2>4, FirstIs
  <2> QED BY <1>1, <1>4, <2>1, <2>5 DEF InComment
<1>5. CASE comment # "Line" /\ ~(comment = "BlockStar" /\ c = "/")
  <2>1. d = IF c = "*" THEN "BlockStar" ELSE "Block"
    BY <1>5 DEF StepComment, InComment
  <2>2. \A j \in q + 2 .. p - 1 : ~(At(s, j) = "*" /\ At(s, j + 1) = "/")
    <3>1. ASSUME NEW j \in q + 2 .. p - 1, At(s, j) = "*", At(s, j + 1) = "/"
          PROVE  FALSE
      <4>1. j = p - 1
        BY <1>0, <1>5, <3>1 DEF InComment
      <4>2. comment = "BlockStar" /\ c = "/"
        BY <1>0, <1>5, <3>1, <4>1 DEF InComment
      <4> QED BY <1>5, <4>2
    <3> QED BY <3>1
  <2> QED BY <1>0, <1>5, <2>1, <2>2 DEF InComment
<1> QED BY <1>2, <1>3, <1>4, <1>5 DEF InComment

\* A comment the stream stops inside ends with it, or never.
LEMMA CommentOver ==
  ASSUME NEW s, NEW n \in Nat, n = Len(s), NEW q \in Nat, NEW comment, InComment(s, q, n, comment)
  PROVE  CommentEnd(s, q) = IF comment = "Line" THEN n ELSE n + 1
<1> DEFINE L == {j \in q + 2 .. n - 1 : At(s, j) = Newline}
           K == {k \in q + 2 .. n - 2 : At(s, k) = "*" /\ At(s, k + 1) = "/"}
           B == {j + 2 : j \in K}
<1>1. CommentEnd(s, q) = IF At(s, q + 1) = "/" THEN First(L, n) ELSE First(B, Never(s))
  BY DEF CommentEnd
<1>2. comment = "Line" => L = {}
  BY DEF InComment
<1>3. comment # "Line" => B = {}
  BY DEF InComment
<1> HIDE DEF L, B
<1> QED BY <1>1, <1>2, <1>3 DEF InComment, First, Never

-----------------------------------------------------------------------------
(* Over white space, in the whole stream.                                  *)

\* data is a part of s, from offset o.
Shown(s, o, data) ==
  /\ o \in Nat /\ Len(s) \in Nat /\ Len(data) \in Nat /\ o + Len(data) <= Len(s)
  /\ \A i \in 0 .. Len(data) - 1 : At(s, o + i) = At(data, i)

\* From g a search over white space has come to p, in state comment.
Skipped(s, comments, g, p, comment) ==
  \/ comment = "No" /\ Gap(s, g, comments) = Gap(s, p, comments)
  \/ comments /\ \E q \in Nat : Gap(s, g, comments) = Gap(s, q, comments) /\ InComment(s, q, p, comment)

\* What opens a comment is seen alike in a part and in the whole, but by the
\* last byte of the part.
LEMMA BeginShown ==
  ASSUME NEW s, NEW o, NEW data, Shown(s, o, data), NEW i \in 0 .. Len(data) - 1
  PROVE  i + 1 < Len(data) => Begin(s, o + i) = Begin(data, i)
<1>1. ASSUME i + 1 < Len(data)
      PROVE  Begin(s, o + i) = Begin(data, i)
  <2>1. i + 1 \in 0 .. Len(data) - 1 /\ o + i + 1 < Len(s) /\ o + i + 1 = o + (i + 1)
    BY <1>1 DEF Shown
  <2>2. At(s, o + i + 1) = At(data, i + 1)
    BY <2>1 DEF Shown
  <2> QED BY <1>1, <2>1, <2>2 DEF Begin
<1> QED BY <1>1

\* The search is over data, a part of s from o which ends only where no comment
\* can open if no more is to come.
Searched(s, o, data, n, ended, comments) ==
  /\ Shown(s, o, data) /\ n = Len(data)
  /\ ended \in BOOLEAN /\ comments \in BOOLEAN
  /\ ended => Begin(s, o + n - 1) = "No"

\* Where it stands for the gap at g, and where it stops on a byte the gap ends.
Stood(s, o, data, n, comments, g, v) ==
  /\ Skipped(s, comments, g, o + v.pos, v.comment)
  /\ v.out = "byte" => v.comment = "No" /\ Gap(s, o + v.pos, comments) = o + v.pos
  /\ v.out = "starved" =>
       comments /\ v.comment = "No" /\ v.pos = n - 1 /\ At(data, v.pos) = "/"

\* A search over white space stays in a set that its steps do not leave.
LEMMA SkipWithin ==
  ASSUME NEW data, NEW n \in Nat, n = Len(data), NEW i, NEW c, NEW ended, NEW comments, NEW X,
         [pos |-> i, comment |-> c, out |-> "more"] \in X,
         \A u \in X : u.out = "more" /\ u.pos < n => SkipByte(u, data, ended, comments) \in X
  PROVE  SkipFrom(data, i, c, ended, comments) \in X
<1> DEFINE first == [pos |-> i, comment |-> c, out |-> "more"]
           Step(u) == IF u.out = "more" /\ u.pos < n THEN SkipByte(u, data, ended, comments) ELSE u
           F == [k \in 1 .. n |-> [u \in X |-> Step(u)]]
           G(h) == [k \in 0 .. n |-> IF k = 0 THEN first ELSE Step(h[k - 1])]
           run == CHOOSE h : h = G(h)
<1>1. SkipFrom(data, i, c, ended, comments) = run[n]
  BY DEF SkipFrom, Scan
<1>2. first \in X /\ \A u \in X : Step(u) \in X
  OBVIOUS
<1>5. run = CHOOSE h : h = G(h)
  OBVIOUS
<1> HIDE DEF first, Step, run
<1>6. \E h : h = G(h)
  <2>1. F \in [1 .. n -> [X -> X]]
    BY <1>2
  <2>2. \A k \in 1 .. n : \A u \in X : F[k][u] = Step(u)
    OBVIOUS
  <2> HIDE DEF F
  <2>3. PICK g : IsRun(g, X, first, n, F)
    BY <1>2, <2>1, RunExists
  <2>4. ASSUME NEW k \in 1 .. n
        PROVE  g[k] = Step(g[k - 1])
    <3>1. k - 1 \in 0 .. n
      OBVIOUS
    <3> QED BY <2>2, <2>3, <3>1 DEF IsRun
  <2>5. \A k \in 0 .. n : k # 0 => k \in 1 .. n
    OBVIOUS
  <2>6. g = G(g)
    BY <2>3, <2>4, <2>5 DEF IsRun
  <2> QED BY <2>6
<1>7. run = G(run)
  BY <1>5, <1>6
<1>8. run[0] = first /\ \A k \in 1 .. n : run[k] = Step(run[k - 1])
  <2>1. \A k \in 0 .. n : run[k] = IF k = 0 THEN first ELSE Step(run[k - 1])
    BY <1>7
  <2>2. 0 \in 0 .. n /\ \A k \in 1 .. n : k \in 0 .. n /\ k # 0
    OBVIOUS
  <2> HIDE DEF G
  <2> QED BY <2>1, <2>2
<1> DEFINE S == {k \in 0 .. n : run[k] \in X}
<1>9. 0 \in S
  BY <1>2, <1>8
<1>10. ASSUME NEW k \in 1 .. n, k - 1 \in S
       PROVE  k \in S
  BY <1>2, <1>8, <1>10
<1>11. n \in S
  <2> HIDE DEF S
  <2>1. 0 .. n \subseteq S
    BY <1>9, <1>10, UpToInduction
  <2> QED BY <2>1
<1> QED BY <1>1, <1>11

\* A byte further the search stands for the same gap of the whole stream, and
\* where it stops on a byte the gap ends.
LEMMA SkipByteTrace ==
  ASSUME NEW s, NEW o, NEW data, NEW n \in Nat, NEW ended, NEW comments,
         Searched(s, o, data, n, ended, comments),
         NEW i \in Nat, NEW u, Skipping(u, i, n, ended), u.out = "more", u.pos < n,
         NEW g, Skipped(s, comments, g, o + u.pos, u.comment),
         NEW v, v = SkipByte(u, data, ended, comments)
  PROVE  Stood(s, o, data, n, comments, g, v)
<1> USE DEF Stood
<1>0. /\ Shown(s, o, data) /\ n = Len(data)
      /\ ended \in BOOLEAN /\ comments \in BOOLEAN
      /\ ended => Begin(s, o + n - 1) = "No"
  BY DEF Searched
<1> DEFINE p == o + u.pos
           c == At(data, u.pos)
           N == Len(s)
<1>1. /\ u \in Skips(i, n) /\ u.pos \in Nat /\ u.comment \in Comments
      /\ p \in Nat /\ p < N /\ N \in Nat /\ p + 1 \in 0 .. N + 1 /\ p \in 0 .. N + 1
      /\ o + (u.pos + 1) = p + 1 /\ o + (u.pos + 2) = p + 2
  BY <1>0 DEF Skipping, Skips, Shown
<1>2. At(s, p) = c
  BY <1>0, <1>1, SMTT(30) DEF Shown
<1>3. CASE u.comment # "No"
  <2> DEFINE d == StepComment(u.comment, c)
  <2>1. v.comment = d /\ v.pos = u.pos + 1 /\ v.out = "more"
    BY <1>0, <1>1, <1>3 DEF SkipByte, Skips
  <2>2. comments
    BY <1>3 DEF Skipped
  <2>3. PICK q \in Nat : Gap(s, g, comments) = Gap(s, q, comments) /\ InComment(s, q, p, u.comment)
    BY <1>3 DEF Skipped
  <2>4. /\ d # "No" => InComment(s, q, p + 1, d)
        /\ d = "No" => CommentEnd(s, q) = p + 1 \/ (CommentEnd(s, q) = p /\ At(s, p) = Newline)
    <3> HIDE DEF p, c, N
    <3>1. d = StepComment(u.comment, At(s, p)) /\ N = Len(s)
      BY <1>0, <1>2 DEF N
    <3> HIDE DEF d
    <3> QED BY <1>0, <1>1, <2>3, <3>1, CommentStep
  <2>5. Gap(s, q, comments) = Gap(s, CommentEnd(s, q), comments)
    <3>1. IsComment(s, q)
      BY <2>3 DEF InComment
    <3>0. N = Len(s)
      OBVIOUS
    <3> HIDE DEF N
    <3>2. q + 1 < N
      BY <1>0, <1>1, <3>0, <3>1, CommentEndFacts
    <3>3. q \in 0 .. N + 1 /\ q < N
      BY <1>0, <1>1, <3>2
    <3> QED BY <1>0, <1>1, <2>2, <3>0, <3>1, <3>3, GapFacts, ZenonT(30)
  <2>6. At(s, p) = Newline => Gap(s, p, comments) = Gap(s, p + 1, comments)
    BY <1>0, <1>1, GapFacts DEF IsWs
  <2>7. Skipped(s, comments, g, p + 1, d)
    <3> HIDE DEF p, d
    <3>1. CASE d # "No"
      BY <2>2, <2>3, <2>4, <3>1 DEF Skipped
    <3>2. CASE d = "No"
      BY <1>0, <2>3, <2>4, <2>5, <2>6, <3>2 DEF Skipped
    <3> QED BY <3>1, <3>2
  <2> HIDE DEF d
  <2> QED BY <1>0, <1>1, <2>1, <2>7
<1>4. ASSUME u.comment = "No"
      PROVE  Gap(s, g, comments) = Gap(s, p, comments)
  <2>1. \A q : ~InComment(s, q, p, "No")
    BY DEF InComment
  <2> QED BY <1>4, <2>1 DEF Skipped
<1>5. CASE u.comment = "No" /\ IsWs(c)
  <2>1. v.comment = "No" /\ v.pos = u.pos + 1 /\ v.out = "more"
    BY <1>0, <1>1, <1>5, SlashFacts DEF SkipByte, Skips
  <2>2. Gap(s, p, comments) = Gap(s, p + 1, comments)
    BY <1>0, <1>1, <1>2, <1>5, GapFacts, ZenonT(30)
  <2> QED BY <1>0, <1>1, <1>4, <1>5, <2>1, <2>2 DEF Skipped
<1>6. CASE u.comment = "No" /\ ~IsWs(c) /\ comments /\ c = "/" /\ Begin(data, u.pos) # "No"
  <2> DEFINE d == Begin(data, u.pos)
  <2>1. u.pos + 1 < n
    BY <1>0, <1>1, <1>6, BeginFacts
  <2>2. ~Undecided(data, u.pos, ended)
    BY <1>0, <1>1, <2>1 DEF Undecided
  <2>3. v = [u EXCEPT !.comment = d, !.pos = @ + 2]
    BY <1>6, <2>2 DEF SkipByte
  <2>4. v.comment = d /\ v.pos = u.pos + 2 /\ v.out = "more"
    BY <1>0, <1>1, <2>3 DEF Skips
  <2>5. Begin(s, p) = d
    <3>1. u.pos \in 0 .. Len(data) - 1 /\ u.pos + 1 < Len(data)
      BY <1>0, <1>1, <2>1
    <3> QED BY <1>0, <3>1, BeginShown
  <2>6. IsComment(s, p)
    BY <1>0, <1>2, <1>6, <2>5 DEF IsComment
  <2>7. InComment(s, p, p + 2, d)
    BY <1>0, <1>1, <2>5, <2>6, CommentOpens
  <2> HIDE DEF d
  <2> QED BY <1>0, <1>1, <1>4, <1>6, <2>4, <2>7 DEF Skipped
<1>7. CASE /\ u.comment = "No" /\ ~IsWs(c)
           /\ ~(comments /\ c = "/" /\ Begin(data, u.pos) # "No")
           /\ comments /\ c = "/" /\ Undecided(data, u.pos, ended)
  <2>1. v = [u EXCEPT !.out = "starved"]
    BY <1>7 DEF SkipByte
  <2>2. v.out = "starved" /\ v.pos = u.pos /\ v.comment = "No"
    BY <1>0, <1>1, <1>7, <2>1 DEF Skips
  <2>3. u.pos = n - 1
    BY <1>0, <1>1, <1>7 DEF Undecided
  <2> QED BY <1>0, <1>1, <1>7, <2>2, <2>3
<1>8. CASE /\ u.comment = "No" /\ ~IsWs(c)
           /\ ~(comments /\ c = "/" /\ Begin(data, u.pos) # "No")
           /\ ~(comments /\ c = "/" /\ Undecided(data, u.pos, ended))
  <2>1. v = [u EXCEPT !.out = "byte"]
    BY <1>8 DEF SkipByte
  <2>2. v.out = "byte" /\ v.pos = u.pos /\ v.comment = "No"
    BY <1>0, <1>1, <1>8, <2>1 DEF Skips
  <2>3. ~(comments /\ IsComment(s, p))
    <3>1. SUFFICES ASSUME comments, IsComment(s, p) PROVE FALSE
      OBVIOUS
    <3>2. c = "/" /\ Begin(s, p) # "No"
      BY <1>0, <1>2, <3>1 DEF IsComment
    <3>3. Begin(data, u.pos) = "No" /\ ~Undecided(data, u.pos, ended)
      BY <1>8, <3>1, <3>2
    <3>4. CASE u.pos + 1 < n
      <4>1. u.pos \in 0 .. Len(data) - 1 /\ u.pos + 1 < Len(data)
        BY <1>0, <1>1, <3>4
      <4>2. Begin(s, p) = Begin(data, u.pos)
        BY <1>0, <4>1, BeginShown
      <4> QED BY <3>2, <3>3, <4>2
    <3>5. CASE u.pos + 1 >= n
      <4>1. ended /\ p = o + n - 1
        BY <1>0, <1>1, <3>3, <3>5 DEF Undecided
      <4> QED BY <1>0, <3>2, <4>1
    <3> QED BY <1>0, <1>1, <3>4, <3>5
  <2>4. Gap(s, p, comments) = p
    BY <1>0, <1>1, <1>2, <1>8, <2>3, GapFacts, ZenonT(30)
  <2> QED BY <1>0, <1>1, <1>4, <1>8, <2>2, <2>4
<1> QED BY <1>3, <1>5, <1>6, <1>7, <1>8

\* A search over white space that stood for the gap at g stands for it where it
\* stops, and has found its end if it stops on a byte (skip_ws).
LEMMA SkipTrace ==
  ASSUME NEW s, NEW o, NEW data, NEW n \in Nat, NEW ended, NEW comments,
         Searched(s, o, data, n, ended, comments),
         NEW i \in 0 .. n, NEW c \in Comments, NEW g, Skipped(s, comments, g, o + i, c),
         NEW u, u = SkipFrom(data, i, c, ended, comments)
  PROVE  /\ Skipped(s, comments, g, o + u.pos, u.comment)
         /\ u.out = "byte" => u.comment = "No" /\ Gap(s, g, comments) = o + u.pos
         /\ u.out = "starved" =>
              comments /\ u.comment = "No" /\ u.pos = n - 1 /\ At(data, u.pos) = "/"
<1> DEFINE X == {w \in Skips(i, n) : Skipping(w, i, n, ended) /\ Stood(s, o, data, n, comments, g, w)}
           first == [pos |-> i, comment |-> c, out |-> "more"]
<1>0. n = Len(data) /\ ended \in BOOLEAN /\ comments \in BOOLEAN /\ i \in Nat
  BY DEF Searched
<1>1. first \in X
  <2>1. first \in Skips(i, n) /\ first.pos = i /\ first.comment = c /\ first.out = "more"
    BY DEF Skips
  <2> HIDE DEF first
  <2> QED BY <2>1 DEF Skipping, Stood
<1>2. ASSUME NEW w \in X, w.out = "more", w.pos < n
      PROVE  SkipByte(w, data, ended, comments) \in X
  <2> DEFINE v == SkipByte(w, data, ended, comments)
  <2>0. /\ Skipping(w, i, n, ended) /\ Stood(s, o, data, n, comments, g, w)
        /\ v = SkipByte(w, data, ended, comments)
    OBVIOUS
  <2> HIDE DEF v, X
  <2>1. Skipping(v, i, n, ended)
    BY <1>0, <1>2, <2>0, SkipByteFacts
  <2>2. Skipped(s, comments, g, o + w.pos, w.comment)
    BY <2>0 DEF Stood
  <2>3. Stood(s, o, data, n, comments, g, v)
    BY <1>0, <1>2, <2>0, <2>2, SkipByteTrace
  <2>4. v \in Skips(i, n)
    BY <2>1 DEF Skipping
  <2>5. v \in X
    BY <2>1, <2>3, <2>4 DEF X
  <2> QED BY <2>5 DEF v
<1>3. u \in X
  <2> HIDE DEF X
  <2> QED BY <1>0, <1>1, <1>2, SkipWithin DEF first
<1> HIDE DEF first
<1>4. u.out = "byte" => Gap(s, g, comments) = Gap(s, o + u.pos, comments)
  <2>1. \A q : ~InComment(s, q, o + u.pos, "No")
    BY DEF InComment
  <2> QED BY <1>3, <2>1 DEF Skipped, Stood
<1> QED BY <1>3, <1>4 DEF Stood

\* At the end of the stream the gap is over, or it never ends.
LEMMA SkippedAll ==
  ASSUME NEW s, NEW n \in Nat, n = Len(s), NEW comments \in BOOLEAN, NEW g,
         NEW comment, Skipped(s, comments, g, n, comment)
  PROVE  Gap(s, g, comments) = IF comment \in {"Block", "BlockStar"} THEN n + 1 ELSE n
<1>1. Gap(s, n, comments) = n /\ Gap(s, n + 1, comments) = n + 1
  BY GapFacts
<1>2. CASE comment = "No"
  <2>1. \A q : ~InComment(s, q, n, "No")
    BY DEF InComment
  <2> QED BY <1>1, <1>2, <2>1 DEF Skipped
<1>3. CASE comment # "No"
  <2>1. PICK q \in Nat : Gap(s, g, comments) = Gap(s, q, comments) /\ InComment(s, q, n, comment)
    BY <1>3 DEF Skipped
  <2>2. CommentEnd(s, q) = IF comment = "Line" THEN n ELSE n + 1
    BY <2>1, CommentOver
  <2>3. comments /\ IsComment(s, q) /\ q \in 0 .. n + 1 /\ q < n
    BY <1>3, <2>1 DEF Skipped, InComment
  <2>4. Gap(s, q, comments) = Gap(s, CommentEnd(s, q), comments)
    BY <2>3, GapFacts
  <2>5. comment \in {"Line", "Block", "BlockStar"}
    BY <2>1 DEF InComment
  <2> QED BY <1>1, <2>1, <2>2, <2>4, <2>5
<1> QED BY <1>2, <1>3

-----------------------------------------------------------------------------
(* Inside a string.                                                        *)

\* The search stands at p in the string that opened at q; escaped tells whether
\* a backslash makes the byte at p part of it.
InString(s, q, p, escaped) ==
  /\ q < p
  /\ escaped = Escaped(s, q, p)
  /\ \A k \in q + 1 .. p - 1 : ~(At(s, k) = Quote /\ ~Escaped(s, q, k))

\* Every second of a run of backslashes is escaped by the one before it.
LEMMA EscapedStep ==
  ASSUME NEW s, NEW q \in Nat, NEW p \in Nat, q < p
  PROVE  Escaped(s, q, p + 1) = (At(s, p) = Backslash /\ ~Escaped(s, q, p))
<1> DEFINE Run(j) == {k \in q + 1 .. j - 1 : \A l \in k .. j - 1 : At(s, l) = Backslash}
           old == Run(p)
           new == Run(p + 1)
<1>1. Escaped(s, q, p) = (Cardinality(old) % 2 = 1) /\ Escaped(s, q, p + 1) = (Cardinality(new) % 2 = 1)
  BY DEF Escaped
<1>2. IsFiniteSet(old) /\ Cardinality(old) \in Nat
  <2>1. old \subseteq q + 1 .. p - 1
    OBVIOUS
  <2>2. IsFiniteSet(q + 1 .. p - 1)
    BY FS_Interval
  <2> HIDE DEF old
  <2>3. IsFiniteSet(old)
    BY <2>1, <2>2, FS_Subset
  <2> QED BY <2>3, FS_CardinalityType
<1>3. CASE At(s, p) # Backslash
  <2>1. new = {}
    BY <1>3
  <2>2. Cardinality(new) = 0
    BY <2>1, FS_EmptySet
  <2> HIDE DEF new
  <2> QED BY <1>1, <1>3, <2>2
<1>4. CASE At(s, p) = Backslash
  <2>1. new = old \cup {p} /\ p \notin old
    <3>1. \A k \in new : k \in old \/ k = p
      OBVIOUS
    <3>2. p \in new /\ p \notin old
      BY <1>4
    <3>3. \A k \in old : k \in new
      <4>1. ASSUME NEW k \in old
            PROVE  k \in new
        <5>1. \A l \in k .. p : l \in k .. p - 1 \/ l = p
          OBVIOUS
        <5> QED BY <1>4, <5>1
      <4> QED BY <4>1
    <3> HIDE DEF old, new
    <3> QED BY <3>1, <3>2, <3>3
  <2>2. Cardinality(new) = Cardinality(old) + 1
    <3> HIDE DEF old, new
    <3> QED BY <1>2, <2>1, FS_AddElement
  <2> DEFINE a == Cardinality(old)
             b == Cardinality(new)
  <2>3. a \in Nat /\ b = a + 1
    BY <1>2, <2>2
  <2> HIDE DEF a, b, old, new
  <2>4. (b % 2 = 1) = ~(a % 2 = 1)
    BY <2>3
  <2> QED BY <1>1, <1>4, <2>4 DEF a, b
<1> QED BY <1>3, <1>4

\* A string begins without an escape.
LEMMA StringOpens ==
  ASSUME NEW s, NEW q \in Nat
  PROVE  InString(s, q, q + 1, FALSE)
<1> DEFINE run == {k \in q + 1 .. q + 1 - 1 : \A l \in k .. q + 1 - 1 : At(s, l) = Backslash}
<1>1. run = {}
  OBVIOUS
<1>2. Cardinality(run) = 0
  BY <1>1, FS_EmptySet
<1>3. Escaped(s, q, q + 1) = (Cardinality(run) % 2 = 1)
  BY DEF Escaped
<1> DEFINE m == Cardinality(run)
<1>4. m = 0 /\ Escaped(s, q, q + 1) = (m % 2 = 1)
  BY <1>2, <1>3
<1> HIDE DEF run, m
<1>5. ~(m % 2 = 1)
  BY <1>4
<1>6. Escaped(s, q, q + 1) = FALSE
  BY <1>4, <1>5, Zenon
<1>7. \A k \in q + 1 .. q + 1 - 1 : FALSE
  OBVIOUS
<1> QED BY <1>6, <1>7 DEF InString

\* A byte further the string goes on, or it ends where the reference says
\* (Scanner::advance).
LEMMA StringStep ==
  ASSUME NEW s, NEW n \in Nat, n = Len(s), NEW q \in Nat, NEW p \in Nat, p < n,
         NEW escaped \in BOOLEAN, InString(s, q, p, escaped)
  PROVE  /\ At(s, p) = Quote /\ ~escaped => StringEnd(s, q) = p + 1
         /\ ~(At(s, p) = Quote /\ ~escaped) =>
              InString(s, q, p + 1, At(s, p) = Backslash /\ ~escaped)
<1> DEFINE K == {k \in q + 1 .. Len(s) - 1 : At(s, k) = Quote /\ ~Escaped(s, q, k)}
           B == {j + 1 : j \in K}
<1>1. CASE At(s, p) = Quote /\ ~escaped
  <2>1. p \in K /\ \A k \in K : p <= k
    BY <1>1 DEF InString
  <2>2. B \subseteq q + 1 .. n /\ q + 1 \in Nat /\ n \in Int
    OBVIOUS
  <2>3. IsLeast(p + 1, B)
    BY <2>1 DEF IsLeast
  <2>4. First(B, Never(s)) = p + 1
    <3> HIDE DEF B
    <3> QED BY <2>2, <2>3, FirstIs
  <2> QED BY <1>1, <2>4 DEF StringEnd
<1>2. CASE ~(At(s, p) = Quote /\ ~escaped)
  <2>1. Escaped(s, q, p + 1) = (At(s, p) = Backslash /\ ~escaped)
    BY EscapedStep DEF InString
  <2>2. \A k \in q + 1 .. p : ~(At(s, k) = Quote /\ ~Escaped(s, q, k))
    <3>1. \A k \in q + 1 .. p : k \in q + 1 .. p - 1 \/ k = p
      OBVIOUS
    <3> QED BY <1>2, <3>1 DEF InString
  <2> QED BY <1>2, <2>1, <2>2 DEF InString
<1> QED BY <1>1, <1>2

\* A string the stream stops inside never ends.
LEMMA StringOver ==
  ASSUME NEW s, NEW n \in Nat, n = Len(s), NEW q \in Nat, NEW escaped, InString(s, q, n, escaped)
  PROVE  StringEnd(s, q) = n + 1
<1> DEFINE K == {k \in q + 1 .. Len(s) - 1 : At(s, k) = Quote /\ ~Escaped(s, q, k)}
           B == {j + 1 : j \in K}
<1>1. B = {}
  BY DEF InString
<1>2. StringEnd(s, q) = First(B, Never(s))
  BY DEF StringEnd
<1> HIDE DEF B
<1> QED BY <1>1, <1>2 DEF First, Never

\* A string ends behind its quote.
LEMMA StringEndFacts ==
  ASSUME NEW s, NEW n \in Nat, n = Len(s), NEW q \in Nat
  PROVE  StringEnd(s, q) \in q + 2 .. n \/ StringEnd(s, q) = n + 1
<1> DEFINE K == {k \in q + 1 .. Len(s) - 1 : At(s, k) = Quote /\ ~Escaped(s, q, k)}
           B == {j + 1 : j \in K}
<1>1. B \subseteq q + 2 .. n /\ q + 2 \in Nat /\ n \in Int
  OBVIOUS
<1>2. StringEnd(s, q) = First(B, n + 1)
  BY DEF StringEnd, Never
<1> HIDE DEF B
<1>3. (B = {} => First(B, n + 1) = n + 1) /\ (B # {} => First(B, n + 1) \in B)
  BY <1>1, FirstIsLeast
<1> QED BY <1>1, <1>2, <1>3

-----------------------------------------------------------------------------
(* The reference's walk inside a container.                                *)

Spans == [code : {"none", "UnexpectedEnd", "ExceededMaxDepth", "UnexpectedCharacter"}, end : Int]

\* What the walk does at j and depth d, where it goes on as w says.
WalkByte(s, comments, w, j, d) ==
  LET c == At(s, j) IN
  IF j >= Len(s) THEN Broken("UnexpectedEnd", Len(s))
  ELSE CASE c = Quote -> w[StringEnd(s, j)][d]
         [] comments /\ IsComment(s, j) -> w[CommentEnd(s, j)][d]
         [] comments /\ c = "/" /\ j = Len(s) - 1 -> Broken("UnexpectedEnd", j)
         [] c \in Opens /\ d = MaxDepth -> Broken("ExceededMaxDepth", j)
         [] c \in Opens /\ d < MaxDepth -> w[j + 1][d + 1]
         [] c \in Closes /\ d = 1 -> Found(j + 1)
         [] c \in Closes /\ d > 1 -> w[j + 1][d - 1]
         [] OTHER -> w[j + 1][d]

\* No byte is of two kinds.
LEMMA ByteKinds ==
  ASSUME NEW c
  PROVE  /\ c = Quote => c # "/" /\ c \notin Opens /\ c \notin Closes /\ ~IsWs(c) /\ ~ScalarByte(c)
         /\ c = "/" => c # Quote /\ c \notin Opens /\ c \notin Closes /\ ~IsWs(c) /\ ~ScalarByte(c)
         /\ c \in Opens => c # Quote /\ c # "/" /\ c \notin Closes /\ ~IsWs(c) /\ ~ScalarByte(c)
         /\ c \in Closes => c # Quote /\ c # "/" /\ c \notin Opens /\ ~IsWs(c) /\ ~ScalarByte(c)
         /\ ScalarByte(c) => c # Quote /\ c # "/" /\ c \notin Opens /\ c \notin Closes /\ ~IsWs(c)
         /\ c \in Delimiters <=> c = Quote \/ c \in Opens \/ c \in Closes
BY DEF Quote, Opens, Closes, Bracket, Unbracket, Delimiters, IsWs, Newline, ScalarByte

\* v is what the walk w says of each kind of byte at j.
WalkDoes(s, comments, n, w, j, d, v) ==
  /\ j >= n => v = Broken("UnexpectedEnd", n)
  /\ j < n /\ At(s, j) = Quote => v = w[StringEnd(s, j)][d]
  /\ j < n /\ comments /\ IsComment(s, j) => v = w[CommentEnd(s, j)][d]
  /\ j = n - 1 /\ comments /\ At(s, j) = "/" => v = Broken("UnexpectedEnd", j)
  /\ j < n /\ At(s, j) \in Opens /\ d = MaxDepth => v = Broken("ExceededMaxDepth", j)
  /\ j < n /\ At(s, j) \in Opens /\ d < MaxDepth => v = w[j + 1][d + 1]
  /\ j < n /\ At(s, j) \in Closes /\ d = 1 => v = Found(j + 1)
  /\ j < n /\ At(s, j) \in Closes /\ d > 1 => v = w[j + 1][d - 1]
  /\ j < n /\ At(s, j) \in Closes /\ d = 0 => v = w[j + 1][d]
  /\ /\ j < n /\ At(s, j) \notin Delimiters
     /\ ~(comments /\ IsComment(s, j)) /\ ~(comments /\ At(s, j) = "/" /\ j = n - 1)
     => v = w[j + 1][d]

\* One step of the walk inside a container, case by case.
LEMMA WalkByteFacts ==
  ASSUME NEW s, NEW n \in Nat, n = Len(s), NEW comments \in BOOLEAN, NEW w,
         NEW j \in Nat, NEW d \in 0 .. MaxDepth
  PROVE  WalkDoes(s, comments, n, w, j, d, WalkByte(s, comments, w, j, d))
<1> DEFINE v == WalkByte(s, comments, w, j, d)
<1> SUFFICES WalkDoes(s, comments, n, w, j, d, v)
  OBVIOUS
<1> DEFINE c == At(s, j)
           k == IsComment(s, j)
<1>0. MaxDepth \in Nat /\ d \in Nat
  BY MaxDepthAssumption
<1>1. v = IF j >= n THEN Broken("UnexpectedEnd", n)
  ELSE CASE c = Quote -> w[StringEnd(s, j)][d]
         [] comments /\ k -> w[CommentEnd(s, j)][d]
         [] comments /\ c = "/" /\ j = n - 1 -> Broken("UnexpectedEnd", j)
         [] c \in Opens /\ d = MaxDepth -> Broken("ExceededMaxDepth", j)
         [] c \in Opens /\ d < MaxDepth -> w[j + 1][d + 1]
         [] c \in Closes /\ d = 1 -> Found(j + 1)
         [] c \in Closes /\ d > 1 -> w[j + 1][d - 1]
         [] OTHER -> w[j + 1][d]
  BY DEF WalkByte
<1> HIDE DEF v
<1>2. k => c = "/" /\ j + 1 < n
  BY BeginFacts DEF IsComment
<1> HIDE DEF c, k
<1>3. /\ c = Quote => c # "/" /\ c \notin Opens /\ c \notin Closes
      /\ c = "/" => c # Quote /\ c \notin Opens /\ c \notin Closes
      /\ c \in Opens => c # Quote /\ c # "/" /\ c \notin Closes
      /\ c \in Closes => c # Quote /\ c # "/" /\ c \notin Opens
      /\ c \in Delimiters <=> c = Quote \/ c \in Opens \/ c \in Closes
  BY ByteKinds
<1> HIDE DEF Broken, Found
<1>4. CASE j >= n
  BY <1>1, <1>2, <1>4 DEF WalkDoes, c, k
<1>5. CASE j < n
  <2> DEFINE a1 == w[StringEnd(s, j)][d]
             a2 == w[CommentEnd(s, j)][d]
             a3 == Broken("UnexpectedEnd", j)
             a4 == Broken("ExceededMaxDepth", j)
             a5 == w[j + 1][d + 1]
             a6 == Found(j + 1)
             a7 == w[j + 1][d - 1]
             a8 == w[j + 1][d]
             max == d = MaxDepth
             under == d < MaxDepth
             one == d = 1
             more == d > 1
             end == j = n - 1
  <2>1. v = CASE c = Quote -> a1
              [] comments /\ k -> a2
              [] comments /\ c = "/" /\ end -> a3
              [] c \in Opens /\ max -> a4
              [] c \in Opens /\ under -> a5
              [] c \in Closes /\ one -> a6
              [] c \in Closes /\ more -> a7
              [] OTHER -> a8
    BY <1>1, <1>5
  <2>2. (max => ~under) /\ (one => ~more) /\ (max \/ under) /\ (k => ~end) /\ (d = 0 => ~one /\ ~more)
    BY <1>0, <1>2
  <2> HIDE DEF a1, a2, a3, a4, a5, a6, a7, a8, max, under, one, more, end
  <2>3. /\ c = Quote => v = a1
        /\ comments /\ k => v = a2
        /\ comments /\ c = "/" /\ end => v = a3
        /\ c \in Opens /\ max => v = a4
        /\ c \in Opens /\ under => v = a5
        /\ c \in Closes /\ one => v = a6
        /\ c \in Closes /\ more => v = a7
    BY <1>2, <1>3, <2>1, <2>2
  <2>4. /\ c \notin Delimiters /\ ~(comments /\ k) /\ ~(comments /\ c = "/" /\ end) => v = a8
        /\ c \in Closes /\ d = 0 => v = a8
    BY <1>2, <1>3, <2>1, <2>2
  <2> QED
    BY <1>5, <2>3, <2>4 DEF a1, a2, a3, a4, a5, a6, a7, a8, max, under, one, more, end, c, k, WalkDoes
<1> QED BY <1>4, <1>5

\* w is the walk of s.
IsWalk(w, s, comments, n) ==
  /\ w \in [0 .. n + 1 -> [0 .. MaxDepth -> Spans]]
  /\ \A j \in 0 .. n + 1 : \A d \in 0 .. MaxDepth : w[j][d] = WalkByte(s, comments, w, j, d)

\* The walk looks ahead only, and ends in a span.
LEMMA WalkAhead ==
  ASSUME NEW s, NEW n \in Nat, n = Len(s), NEW comments \in BOOLEAN,
         NEW f \in [0 .. n + 1 -> [0 .. MaxDepth -> Spans]], NEW j \in 0 .. n + 1,
         NEW d \in 0 .. MaxDepth
  PROVE  /\ WalkByte(s, comments, f, j, d) \in Spans
         /\ \A g : (\A l \in j + 1 .. n + 1 : f[l] = g[l]) =>
                WalkByte(s, comments, f, j, d) = WalkByte(s, comments, g, j, d)
<1> DEFINE c == At(s, j)
           m == n + 1
           Goes(e, k) == /\ e \in j + 1 .. m /\ k \in 0 .. MaxDepth
                         /\ \A h : WalkByte(s, comments, h, j, d) = h[e][k]
           Stays(x) == x \in Spans /\ \A h : WalkByte(s, comments, h, j, d) = x
<1>0. MaxDepth \in Nat /\ d \in Nat /\ j \in Nat /\ m \in Nat /\ MaxDepth # 0
  BY MaxDepthAssumption
<1>1. ASSUME NEW x, Stays(x)
      PROVE  /\ WalkByte(s, comments, f, j, d) \in Spans
             /\ \A g : WalkByte(s, comments, f, j, d) = WalkByte(s, comments, g, j, d)
  BY <1>1
<1>2. ASSUME NEW e, NEW k, Goes(e, k)
      PROVE  /\ WalkByte(s, comments, f, j, d) \in Spans
             /\ \A g : (\A l \in j + 1 .. m : f[l] = g[l]) =>
                  WalkByte(s, comments, f, j, d) = WalkByte(s, comments, g, j, d)
  <2>1. e \in 0 .. m /\ f[e] \in [0 .. MaxDepth -> Spans]
    BY <1>0, <1>2
  <2>2. f[e][k] \in Spans
    BY <1>2, <2>1
  <2>3. \A h : WalkByte(s, comments, h, j, d) = h[e][k]
    BY <1>2
  <2> QED BY <1>2, <2>2, <2>3
<1>3. \A h : WalkDoes(s, comments, n, h, j, d, WalkByte(s, comments, h, j, d))
  BY <1>0, WalkByteFacts
<1>4. /\ Broken("UnexpectedEnd", n) \in Spans /\ Broken("UnexpectedEnd", j) \in Spans
      /\ Broken("ExceededMaxDepth", j) \in Spans /\ Found(j + 1) \in Spans
  BY <1>0 DEF Spans, Broken, Found
<1>5. c \in Delimiters <=> c = Quote \/ c \in Opens \/ c \in Closes
  BY ByteKinds
<1>6. /\ j < n => StringEnd(s, j) \in j + 1 .. m /\ j + 1 \in j + 1 .. m
      /\ IsComment(s, j) => CommentEnd(s, j) \in j + 1 .. m
  <2>1. StringEnd(s, j) \in j + 2 .. n \/ StringEnd(s, j) = n + 1
    BY <1>0, StringEndFacts
  <2>2. IsComment(s, j) => CommentEnd(s, j) \in j + 2 .. m
    BY <1>0, CommentEndFacts DEF Never
  <2> QED BY <1>0, <2>1, <2>2
<1> HIDE DEF c, m
<1>7. \/ \E x : Stays(x)
      \/ \E e, k : Goes(e, k)
  <2>1. CASE j >= n
    BY <1>3, <1>4, <2>1 DEF WalkDoes, c
  <2>2. CASE j < n /\ c = Quote
    <3>1. Goes(StringEnd(s, j), d)
      BY <1>0, <1>3, <1>6, <2>2 DEF WalkDoes, c
    <3> QED BY <3>1
  <2>3. CASE j < n /\ comments /\ IsComment(s, j)
    <3>1. Goes(CommentEnd(s, j), d)
      BY <1>0, <1>3, <1>6, <2>3 DEF WalkDoes, c
    <3> QED BY <3>1
  <2>4. CASE j = n - 1 /\ comments /\ c = "/"
    BY <1>3, <1>4, <2>4 DEF WalkDoes, c
  <2>5. CASE j < n /\ c \in Opens /\ d = MaxDepth
    BY <1>3, <1>4, <2>5 DEF WalkDoes, c
  <2>6. CASE j < n /\ c \in Opens /\ d < MaxDepth
    <3>1. Goes(j + 1, d + 1)
      BY <1>0, <1>3, <1>6, <2>6 DEF WalkDoes, c
    <3> QED BY <3>1
  <2>7. CASE j < n /\ c \in Closes /\ d = 1
    BY <1>3, <1>4, <2>7 DEF WalkDoes, c
  <2>8. CASE j < n /\ c \in Closes /\ d > 1
    <3>1. Goes(j + 1, d - 1)
      BY <1>0, <1>3, <1>6, <2>8 DEF WalkDoes, c
    <3> QED BY <3>1
  <2>9. CASE j < n /\ c \in Closes /\ d = 0
    <3>1. Goes(j + 1, d)
      BY <1>0, <1>3, <1>6, <2>9 DEF WalkDoes, c
    <3> QED BY <3>1
  <2>10. CASE /\ j < n /\ c \notin Delimiters
              /\ ~(comments /\ IsComment(s, j)) /\ ~(comments /\ c = "/" /\ j = n - 1)
    <3>1. Goes(j + 1, d)
      BY <1>0, <1>3, <1>6, <2>10 DEF WalkDoes, c
    <3> QED BY <3>1
  <2> HIDE DEF Stays, Goes
  <2> QED BY <1>0, <1>5, <2>1, <2>2, <2>3, <2>4, <2>5, <2>6, <2>7, <2>8, <2>9, <2>10
<1> HIDE DEF Stays, Goes
<1> QED BY <1>1, <1>2, <1>7 DEF m

\* The walk the reference chooses is the one its equation describes.
LEMMA WalkRecursion ==
  ASSUME NEW s, NEW n \in Nat, n = Len(s), NEW comments \in BOOLEAN
  PROVE  IsWalk(Walk(s, comments), s, comments, n)
<1> DEFINE m == n + 1
           V == [0 .. MaxDepth -> Spans]
           Body(g, j) == [d \in 0 .. MaxDepth |-> WalkByte(s, comments, g, j, d)]
           G(h) == [j \in 0 .. m |-> Body(h, j)]
           E == [j \in 0 .. m |-> [f \in [0 .. m -> V] |-> Body(f, j)]]
           walk == CHOOSE h : h = G(h)
<1>m. m \in Nat /\ m = n + 1 /\ Never(s) = m
  BY DEF Never
<1>1. Walk(s, comments) = walk
  BY <1>m DEF Walk, WalkByte
<1>2. walk = CHOOSE h : h = G(h)
  OBVIOUS
<1>3. ASSUME NEW j \in 0 .. m, NEW f \in [0 .. m -> V]
      PROVE  /\ Body(f, j) \in V
             /\ \A g : (\A l \in j + 1 .. m : f[l] = g[l]) => Body(f, j) = Body(g, j)
  <2>1. \A d \in 0 .. MaxDepth :
           /\ WalkByte(s, comments, f, j, d) \in Spans
           /\ \A g : (\A l \in j + 1 .. m : f[l] = g[l]) =>
                  WalkByte(s, comments, f, j, d) = WalkByte(s, comments, g, j, d)
    BY WalkAhead
  <2> HIDE DEF m
  <2> QED BY <2>1
<1> HIDE DEF m, walk, Body
<1>4. PICK g : IsDown(g, E, V, m)
  <2>1. E \in [0 .. m -> [[0 .. m -> V] -> V]]
    BY <1>3
  <2>2. \A j \in 0 .. m : \A f, g \in [0 .. m -> V] :
          (\A l \in j + 1 .. m : f[l] = g[l]) => E[j][f] = E[j][g]
    BY <1>3
  <2>3. LooksAhead(E, V, m)
    BY <2>1, <2>2 DEF LooksAhead
  <2>4. [d \in 0 .. MaxDepth |-> Found(0)] \in V
    BY DEF Spans, Found
  <2> HIDE DEF E, V
  <2> QED BY <1>m, <2>3, <2>4, DownExists
<1>5. g = G(g)
  <2>1. g \in [0 .. m -> V] /\ \A j \in 0 .. m : g[j] = Body(g, j)
    BY <1>4 DEF IsDown
  <2> HIDE DEF V
  <2> QED BY <2>1
<1>6. walk = G(walk)
  BY <1>2, <1>5
<1>7. DOMAIN walk = 0 .. m /\ \A j \in 0 .. m : walk[j] = Body(walk, j)
  BY <1>6
<1>8. \A j \in 0 .. m : \A d \in 0 .. MaxDepth : walk[j][d] = WalkByte(s, comments, walk, j, d)
  BY <1>7 DEF Body
<1> DEFINE S == {j \in 0 .. m : walk[j] = g[j]}
<1>9. ASSUME NEW j \in 0 .. m, \A l \in j + 1 .. m : l \in S
      PROVE  j \in S
  <2>1. g \in [0 .. m -> V] /\ g[j] = Body(g, j)
    <3>1. DOMAIN g = 0 .. m
      BY <1>5
    <3> QED BY <1>4, <1>5 DEF IsDown
  <2>2. \A l \in j + 1 .. m : g[l] = walk[l]
    BY <1>9
  <2> HIDE DEF V
  <2>3. Body(walk, j) = Body(g, j)
    BY <1>3, <2>1, <2>2
  <2> QED BY <1>7, <2>1, <2>3
<1>10. 0 .. m \subseteq S
  <2> HIDE DEF S
  <2> QED BY <1>m, <1>9, DownInduction
<1>11. walk \in [0 .. m -> V]
  <2>1. g \in [0 .. m -> V]
    BY <1>4 DEF IsDown
  <2>2. walk = [j \in 0 .. m |-> g[j]]
    <3>1. \A j \in 0 .. m : walk[j] = g[j]
      BY <1>10
    <3>2. walk = [j \in 0 .. m |-> Body(walk, j)]
      BY <1>6
    <3> HIDE DEF S, V
    <3> QED BY <1>7, <3>1, <3>2
  <2> HIDE DEF V
  <2> QED BY <2>1, <2>2
<1> QED BY <1>1, <1>m, <1>8, <1>11 DEF IsWalk

\* The walk goes through the bytes as it says, and a container ends behind them.
LEMMA WalkFacts ==
  ASSUME NEW s, NEW n \in Nat, n = Len(s), NEW comments \in BOOLEAN,
         NEW j \in 0 .. n + 1, NEW d \in 0 .. MaxDepth
  PROVE  /\ WalkDoes(s, comments, n, Walk(s, comments), j, d, Walk(s, comments)[j][d])
         /\ Walk(s, comments)[j][d] \in Spans
         /\ Walk(s, comments)[j][d].code = "none" => Walk(s, comments)[j][d].end \in j + 1 .. n
<1> DEFINE w == Walk(s, comments)
           m == n + 1
           Far(l) == \A k \in 0 .. MaxDepth : w[l][k].code = "none" => w[l][k].end \in l + 1 .. n
           S == {l \in 0 .. m : Far(l)}
<1>0. MaxDepth \in Nat /\ MaxDepth # 0 /\ m \in Nat
  BY MaxDepthAssumption
<1>1. IsWalk(w, s, comments, n)
  BY WalkRecursion
<1> HIDE DEF w
<1>2. ASSUME NEW l \in 0 .. m, NEW k \in 0 .. MaxDepth
      PROVE  WalkDoes(s, comments, n, w, l, k, w[l][k]) /\ w[l][k] \in Spans
  <2>1. w[l][k] = WalkByte(s, comments, w, l, k) /\ w[l][k] \in Spans
    BY <1>1 DEF IsWalk
  <2>2. l \in Nat
    BY <1>0
  <2> QED BY <2>1, <2>2, WalkByteFacts
<1>3. ASSUME NEW l \in 0 .. m, \A i \in l + 1 .. m : i \in S
      PROVE  l \in S
  <2>1. ASSUME NEW k \in 0 .. MaxDepth, w[l][k].code = "none"
        PROVE  w[l][k].end \in l + 1 .. n
    <3> DEFINE v == w[l][k]
               c == At(s, l)
    <3>1. WalkDoes(s, comments, n, w, l, k, v) /\ v \in Spans
      BY <1>2
    <3>2. \A e \in l + 1 .. m : \A i \in 0 .. MaxDepth :
            w[e][i].code = "none" => w[e][i].end \in l + 1 .. n
      <4>1. \A e \in l + 1 .. m : Far(e)
        BY <1>3
      <4> HIDE DEF m
      <4>2. \A e \in l + 1 .. m : e + 1 .. n \subseteq l + 1 .. n
        OBVIOUS
      <4> QED BY <4>1, <4>2
    <3> HIDE DEF v
    <3>4. \A e \in l + 1 .. m : \A i \in 0 .. MaxDepth : v = w[e][i] => v.end \in l + 1 .. n
      BY <2>1, <3>2 DEF v
    <3>5. /\ l < n => StringEnd(s, l) \in l + 1 .. m /\ l + 1 \in l + 1 .. m
          /\ IsComment(s, l) => CommentEnd(s, l) \in l + 1 .. m
      <4>1. StringEnd(s, l) \in l + 2 .. n \/ StringEnd(s, l) = n + 1
        BY <1>0, StringEndFacts
      <4>2. IsComment(s, l) => CommentEnd(s, l) \in l + 2 .. m
        BY <1>0, CommentEndFacts DEF Never
      <4> QED BY <1>0, <4>1, <4>2
    <3>6. c \in Delimiters <=> c = Quote \/ c \in Opens \/ c \in Closes
      BY ByteKinds
    <3>7. v.code = "none"
      BY <2>1 DEF v
    <3>8. \A code, at : Broken(code, at).code = code /\ Found(at).end = at
      BY DEF Broken, Found
    <3> HIDE DEF c, S, Far, m
    <3>9. v.end \in l + 1 .. n
      <4>1. CASE l >= n
        BY <3>1, <3>7, <3>8, <4>1 DEF WalkDoes
      <4>2. CASE l < n /\ c = Quote
        BY <1>0, <3>1, <3>4, <3>5, <4>2 DEF WalkDoes, c
      <4>3. CASE l < n /\ comments /\ IsComment(s, l)
        BY <1>0, <3>1, <3>4, <3>5, <4>3 DEF WalkDoes, c
      <4>4. CASE l = n - 1 /\ comments /\ c = "/"
        BY <3>1, <3>7, <3>8, <4>4 DEF WalkDoes, c
      <4>5. CASE l < n /\ c \in Opens /\ k = MaxDepth
        BY <3>1, <3>7, <3>8, <4>5 DEF WalkDoes, c
      <4>6. CASE l < n /\ c \in Opens /\ k < MaxDepth
        <5>1. k + 1 \in 0 .. MaxDepth /\ l + 1 \in l + 1 .. m
          BY <1>0, <3>5, <4>6
        <5> QED BY <3>1, <3>4, <5>1, <4>6 DEF WalkDoes, c
      <4>7. CASE l < n /\ c \in Closes /\ k = 1
        BY <1>0, <3>1, <3>7, <3>8, <4>7 DEF WalkDoes, c
      <4>8. CASE l < n /\ c \in Closes /\ k > 1
        <5>1. k - 1 \in 0 .. MaxDepth /\ l + 1 \in l + 1 .. m
          BY <1>0, <3>5, <4>8
        <5> QED BY <3>1, <3>4, <5>1, <4>8 DEF WalkDoes, c
      <4>9. CASE l < n /\ c \in Closes /\ k = 0
        BY <1>0, <3>1, <3>4, <3>5, <4>9 DEF WalkDoes, c
      <4>10. CASE /\ l < n /\ c \notin Delimiters
                  /\ ~(comments /\ IsComment(s, l)) /\ ~(comments /\ c = "/" /\ l = n - 1)
        BY <1>0, <3>1, <3>4, <3>5, <4>10 DEF WalkDoes, c
      <4> QED
        BY <1>0, <3>6, <4>1, <4>2, <4>3, <4>4, <4>5, <4>6, <4>7, <4>8, <4>9, <4>10
    <3> QED BY <3>9 DEF v
  <2> QED BY <2>1
<1>4. 0 .. m \subseteq S
  <2> HIDE DEF S
  <2> QED BY <1>0, <1>3, DownInduction
<1>5. Far(j)
  BY <1>4
<1> QED BY <1>2, <1>5 DEF w

\* The end of the scalar that begins at i, and where one is found.
ScalarEnd(s, i) == First({j \in i .. Len(s) - 1 : ~ScalarByte(At(s, j))}, Len(s))

\* A scalar ends where its run of scalar bytes does.
LEMMA ScalarEndFacts ==
  ASSUME NEW s, NEW n \in Nat, n = Len(s), NEW i \in Nat, i < n
  PROVE  /\ ScalarByte(At(s, i)) => ScalarEnd(s, i) \in i + 1 .. n
         /\ \A p \in i .. n : /\ \A j \in i .. p - 1 : ScalarByte(At(s, j))
                              /\ p < n => ~ScalarByte(At(s, p))
                              => ScalarEnd(s, i) = p
<1> DEFINE S == {j \in i .. n - 1 : ~ScalarByte(At(s, j))}
<1>1. ScalarEnd(s, i) = First(S, n)
  BY DEF ScalarEnd
<1>2. S \subseteq i .. n - 1 /\ n - 1 \in Int
  OBVIOUS
<1>3. /\ S = {} => First(S, n) = n
      /\ S # {} => First(S, n) \in S /\ \A j \in S : First(S, n) <= j
  <2> HIDE DEF S
  <2> QED BY <1>2, FirstIsLeast
<1>4. \A j \in S : j \in i .. n /\ (ScalarByte(At(s, i)) => j \in i + 1 .. n)
  <2>1. \A j \in S : j \in i .. n - 1 /\ ~ScalarByte(At(s, j))
    OBVIOUS
  <2>2. ASSUME NEW j \in S
        PROVE  j \in i .. n /\ (ScalarByte(At(s, i)) => j \in i + 1 .. n)
    <3>1. j = i \/ j \in i + 1 .. n
      BY <2>1
    <3> QED BY <2>1, <3>1
  <2> QED BY <2>2
<1>5. ASSUME NEW p \in i .. n, \A j \in i .. p - 1 : ScalarByte(At(s, j)),
             p < n => ~ScalarByte(At(s, p))
      PROVE  First(S, n) = p
  <2>1. CASE p < n
    <3>1. IsLeast(p, S)
      BY <1>5, <2>1 DEF IsLeast
    <3> HIDE DEF S
    <3> QED BY <1>2, <3>1, FirstIs
  <2>2. CASE p = n
    BY <1>3, <1>5, <2>2
  <2> QED BY <2>1, <2>2
<1> HIDE DEF S
<1>6. ScalarByte(At(s, i)) => First(S, n) \in i + 1 .. n
  <2>1. n \in i + 1 .. n
    OBVIOUS
  <2> QED BY <1>3, <1>4, <2>1
<1> QED BY <1>1, <1>5, <1>6

\* What a value at i is, by its first byte.
ValueIs(s, comments, n, i, mode, v) ==
  /\ At(s, i) = Quote => v = Runs(s, StringEnd(s, i))
  /\ At(s, i) \in Opens => v = Walk(s, comments)[i][0]
  /\ ScalarByte(At(s, i)) =>
       v = IF ScalarEnd(s, i) = n /\ mode = "Array" THEN Broken("UnexpectedEnd", n)
                                                    ELSE Found(ScalarEnd(s, i))
  /\ comments /\ At(s, i) = "/" /\ i = n - 1 => v = Broken("UnexpectedEnd", i)
  /\ /\ At(s, i) # Quote /\ At(s, i) \notin Opens /\ ~ScalarByte(At(s, i))
     /\ ~(comments /\ At(s, i) = "/" /\ i = n - 1)
     => v = Broken("UnexpectedCharacter", i)

\* The value at i, and that one that is found is not empty.
LEMMA ValueFacts ==
  ASSUME NEW s, NEW n \in Nat, n = Len(s), NEW comments \in BOOLEAN, NEW i \in Nat, i < n,
         NEW mode
  PROVE  /\ ValueIs(s, comments, n, i, mode, ValueAt(s, i, mode, comments))
         /\ ValueAt(s, i, mode, comments) \in Spans
         /\ ValueAt(s, i, mode, comments).code = "none" =>
              ValueAt(s, i, mode, comments).end \in i + 1 .. n
<1> DEFINE v == ValueAt(s, i, mode, comments)
           c == At(s, i)
           e == ScalarEnd(s, i)
           b1 == Runs(s, StringEnd(s, i))
           b2 == Walk(s, comments)[i][0]
           b3 == IF e = n /\ mode = "Array" THEN Broken("UnexpectedEnd", n) ELSE Found(e)
           b4 == Broken("UnexpectedEnd", i)
           b5 == Broken("UnexpectedCharacter", i)
           Sound(b) == b \in Spans /\ (b.code = "none" => b.end \in i + 1 .. n)
<1>0. MaxDepth \in Nat /\ 0 \in 0 .. MaxDepth /\ i \in 0 .. n + 1
  BY MaxDepthAssumption
<1>1. v = CASE c = Quote -> b1
            [] c \in Opens -> b2
            [] ScalarByte(c) -> b3
            [] comments /\ c = "/" /\ i = n - 1 -> b4
            [] OTHER -> b5
  BY DEF ValueAt, ContainerEnd, ScalarEnd
<1>2. Sound(b1)
  <2>1. StringEnd(s, i) \in i + 2 .. n \/ StringEnd(s, i) = n + 1
    BY StringEndFacts
  <2> QED BY <2>1 DEF Runs, Broken, Found, Spans, Never
<1>3. Sound(b2)
  BY <1>0, WalkFacts
<1>4. ScalarByte(c) => Sound(b3)
  <2>1. ScalarByte(c) => e \in i + 1 .. n
    BY ScalarEndFacts
  <2> HIDE DEF e
  <2> QED BY <2>1 DEF Broken, Found, Spans
<1>5. Sound(b4) /\ Sound(b5)
  BY DEF Broken, Spans
<1> HIDE DEF v, b1, b2, b3, b4, b5, Sound
<1>6. /\ c = Quote => c # "/" /\ c \notin Opens /\ ~ScalarByte(c)
      /\ c = "/" => c # Quote /\ c \notin Opens /\ ~ScalarByte(c)
      /\ c \in Opens => c # Quote /\ c # "/" /\ ~ScalarByte(c)
      /\ ScalarByte(c) => c # Quote /\ c # "/" /\ c \notin Opens
  BY ByteKinds
<1> HIDE DEF c
<1>7. /\ c = Quote => v = b1
      /\ c \in Opens => v = b2
      /\ ScalarByte(c) => v = b3
      /\ comments /\ c = "/" /\ i = n - 1 => v = b4
      /\ /\ c # Quote /\ c \notin Opens /\ ~ScalarByte(c)
         /\ ~(comments /\ c = "/" /\ i = n - 1)
         => v = b5
  BY <1>1, <1>6
<1>8. Sound(v)
  BY <1>2, <1>3, <1>4, <1>5, <1>7
<1>9. ValueIs(s, comments, n, i, mode, v)
  BY <1>7 DEF ValueIs, c, b1, b2, b3, b4, b5
<1> QED BY <1>8, <1>9 DEF v, Sound

-----------------------------------------------------------------------------
(* The reference's values of a whole stream.                               *)

Rests == [items : Seq(Int \X Int), code : JsonCodes \cup {"none"}, at : Int, open : Int,
          loose : BOOLEAN]

\* A stream that stops with no more values.
LEMMA StopsFacts ==
  ASSUME NEW code \in JsonCodes \cup {"none"}, NEW at \in Int, NEW open \in Int
  PROVE  /\ Stops(code, at, open) \in Rests /\ Stops(code, at, open).items = <<>>
         /\ Stops(code, at, open).code = code /\ Stops(code, at, open).at = at
         /\ Stops(code, at, open).open = open /\ ~Stops(code, at, open).loose
<1>1. <<>> \in Seq(Int \X Int)
  OBVIOUS
<1> QED BY <1>1 DEF Stops, Rests

\* A stream that stops in a comment between values.
LEMMA LooseFacts ==
  ASSUME NEW at \in Int
  PROVE  /\ Loose(at) \in Rests /\ Loose(at).items = <<>>
         /\ Loose(at).code = "UnexpectedEnd" /\ Loose(at).at = at /\ Loose(at).loose
<1> DEFINE x == Stops("UnexpectedEnd", at, -1)
<1>1. "UnexpectedEnd" \in JsonCodes \cup {"none"} /\ -1 \in Int
  BY DEF JsonCodes
<1>2. /\ x \in Rests /\ x.items = <<>> /\ x.code = "UnexpectedEnd" /\ x.at = at
  BY <1>1, StopsFacts
<1>3. Loose(at) = [x EXCEPT !.loose = TRUE]
  BY DEF Loose
<1> HIDE DEF x
<1> QED BY <1>2, <1>3 DEF Rests

\* A rest is its fields.
LEMMA RestIs ==
  ASSUME NEW r \in Rests, NEW q \in Rests, r.items = q.items, r.code = q.code, r.at = q.at,
         r.open = q.open, r.loose = q.loose
  PROVE  r = q
BY DEF Rests

\* What is behind values that were found.
LEMMA BehindIs ==
  ASSUME NEW found \in Seq(Int \X Int), NEW rest \in Rests
  PROVE  /\ Behind(found, rest) \in Rests
         /\ Behind(found, rest).items = found \o rest.items
         /\ Behind(found, rest).code = rest.code /\ Behind(found, rest).at = rest.at
         /\ Behind(found, rest).open = rest.open /\ Behind(found, rest).loose = rest.loose
<1> DEFINE P == Int \X Int
           x == found \o rest.items
           r == Behind(found, rest)
<1>1. rest.items \in Seq(P) /\ found \in Seq(P)
  BY DEF Rests
<1>2. x \in Seq(P)
  <2> HIDE DEF P
  <2> QED BY <1>1
<1>3. r = [rest EXCEPT !.items = x]
  BY DEF Behind
<1>4. x = found \o rest.items
  OBVIOUS
<1> HIDE DEF x, r
<1>5. r \in Rests /\ r.items = x /\ r.code = rest.code /\ r.at = rest.at /\ r.open = rest.open
      /\ r.loose = rest.loose
  BY <1>2, <1>3 DEF Rests
<1> QED BY <1>4, <1>5 DEF r

\* Values put before a rest add up.
LEMMA BehindFacts ==
  ASSUME NEW found \in Seq(Int \X Int), NEW rest \in Rests
  PROVE  /\ \A more \in Seq(Int \X Int) : Behind(more, Behind(found, rest)) = Behind(more \o found, rest)
         /\ Behind(<<>>, rest) = rest
<1> DEFINE P == Int \X Int
<1>1. rest.items \in Seq(P) /\ found \in Seq(P)
  BY DEF Rests
<1>2. ASSUME NEW more \in Seq(P)
      PROVE  Behind(more, Behind(found, rest)) = Behind(more \o found, rest)
  <2>0. more \in Seq(P)
    BY <1>2
  <2>1. more \o (found \o rest.items) = (more \o found) \o rest.items /\ more \o found \in Seq(P)
    <3> DEFINE r == rest.items
    <3>1. r \in Seq(P)
      BY <1>1
    <3> HIDE DEF P, r
    <3>2. more \o (found \o r) = (more \o found) \o r
      BY <1>1, <2>0, <3>1, SMTT(30)
    <3>3. more \o found \in Seq(P)
      BY <1>1, <2>0
    <3> QED BY <3>2, <3>3 DEF r
  <2> DEFINE b == Behind(found, rest)
             c == Behind(more, b)
             d == Behind(more \o found, rest)
  <2>2. /\ b \in Rests /\ b.items = found \o rest.items /\ b.code = rest.code
        /\ b.at = rest.at /\ b.open = rest.open /\ b.loose = rest.loose
    BY BehindIs
  <2>3. /\ c \in Rests /\ c.items = more \o b.items /\ c.code = b.code
        /\ c.at = b.at /\ c.open = b.open /\ c.loose = b.loose
    <3> HIDE DEF b
    <3> QED BY <2>2, BehindIs
  <2>4. /\ d \in Rests /\ d.items = (more \o found) \o rest.items /\ d.code = rest.code
        /\ d.at = rest.at /\ d.open = rest.open /\ d.loose = rest.loose
    BY <2>1, BehindIs
  <2> HIDE DEF b, c, d
  <2>5. c = d
    <3>1. c.items = d.items
      BY <2>1, <2>2, <2>3, <2>4
    <3> QED BY <2>2, <2>3, <2>4, <3>1, RestIs, ZenonT(30)
  <2> QED BY <2>5 DEF b, c, d
<1>3. Behind(<<>>, rest) = rest
  <2> DEFINE e == Behind(<<>>, rest)
  <2>1. <<>> \in Seq(P) /\ <<>> \o rest.items = rest.items
    <3> HIDE DEF P
    <3> QED BY <1>1
  <2>2. /\ e \in Rests /\ e.items = <<>> \o rest.items /\ e.code = rest.code
        /\ e.at = rest.at /\ e.open = rest.open /\ e.loose = rest.loose
    BY <2>1, BehindIs
  <2> HIDE DEF e
  <2>3. e = rest
    BY <2>1, <2>2, RestIs
  <2> QED BY <2>3 DEF e
<1> QED BY <1>2, <1>3

\* The rest from a value on.
LEMMA FromValueFacts ==
  ASSUME NEW v \in Spans, NEW g \in Int, NEW rest
  PROVE  /\ v.code # "none" =>
              FromValue(v, g, rest) = Stops(v.code, v.end, IF v.code = "UnexpectedCharacter" THEN -1 ELSE g)
         /\ v.code # "none" => FromValue(v, g, rest) \in Rests
         /\ v.code = "none" => FromValue(v, g, rest) = Behind(<<<<g, v.end>>>>, rest)
         /\ v.code = "none" /\ rest \in Rests => FromValue(v, g, rest) \in Rests
<1>1. v.code \in JsonCodes \cup {"none"} /\ v.end \in Int
  BY DEF Spans, JsonCodes
<1>2. <<<<g, v.end>>>> \in Seq(Int \X Int)
  BY <1>1
<1>3. (IF v.code = "UnexpectedCharacter" THEN -1 ELSE g) \in Int
  OBVIOUS
<1> QED BY <1>1, <1>2, <1>3, StopsFacts, BehindIs DEF FromValue

-----------------------------------------------------------------------------
(* Values.                                                                 *)

\* What is said of offset i, where f says the rest of the values.
ValuesFrom(s, comments, f, i) ==
  LET g == Gap(s, i, comments)
      v == ValueAt(s, g, "Values", comments)
  IN
  IF g = Never(s) THEN Loose(i)
  ELSE IF g = Len(s) THEN Stops("none", g, -1)
  ELSE FromValue(v, g, f[v.end])

\* The values from i on depend on those from further on alone.
LEMMA ValuesAhead ==
  ASSUME NEW s, NEW n \in Nat, n = Len(s), NEW comments \in BOOLEAN,
         NEW f \in [0 .. n -> Rests], NEW i \in 0 .. n
  PROVE  /\ ValuesFrom(s, comments, f, i) \in Rests
         /\ \A h : (\A l \in i + 1 .. n : f[l] = h[l]) =>
              ValuesFrom(s, comments, f, i) = ValuesFrom(s, comments, h, i)
<1> DEFINE g == Gap(s, i, comments)
           v == ValueAt(s, g, "Values", comments)
<1>1. g \in i .. n + 1 /\ Never(s) = n + 1
  BY GapFacts DEF Never
<1>2. \A h : ValuesFrom(s, comments, h, i) =
               IF g = Never(s) THEN Loose(i)
               ELSE IF g = n THEN Stops("none", g, -1)
               ELSE FromValue(v, g, h[v.end])
  BY DEF ValuesFrom
<1>3. g < n => v \in Spans /\ (v.code = "none" => v.end \in i + 1 .. n /\ v.end \in 0 .. n)
  <2> HIDE DEF g
  <2>1. ASSUME g < n
        PROVE  v \in Spans /\ (v.code = "none" => v.end \in g + 1 .. n)
    <3>1. g \in Nat
      BY <1>1
    <3> QED BY <2>1, <3>1, ValueFacts
  <2> QED BY <1>1, <2>1
<1> HIDE DEF g, v
<1>4. CASE g = n + 1
  <2>1. Loose(i) \in Rests
    BY LooseFacts
  <2> QED BY <1>1, <1>2, <1>4, <2>1
<1>5. CASE g = n
  <2>1. Stops("none", g, -1) \in Rests
    BY <1>1, StopsFacts
  <2> QED BY <1>1, <1>2, <1>5, <2>1
<1>6. CASE g < n
  <2>1. \A h : ValuesFrom(s, comments, h, i) = FromValue(v, g, h[v.end])
    BY <1>1, <1>2, <1>6
  <2>2. g \in Int
    BY <1>1
  <2>3. CASE v.code = "none"
    BY <1>3, <1>6, <2>1, <2>2, <2>3, FromValueFacts
  <2>4. CASE v.code # "none"
    <3>1. \A h : FromValue(v, g, h[v.end]) = Stops(v.code, v.end, IF v.code = "UnexpectedCharacter" THEN -1 ELSE g)
      BY <2>4 DEF FromValue
    <3> QED BY <1>3, <1>6, <2>1, <2>2, <2>4, <3>1, FromValueFacts
  <2> QED BY <2>3, <2>4
<1> QED BY <1>1, <1>4, <1>5, <1>6

\* The values the reference chooses are those its equation describes.
LEMMA ValuesRecursion ==
  ASSUME NEW s, NEW n \in Nat, n = Len(s), NEW comments \in BOOLEAN, NEW i \in 0 .. n
  PROVE  /\ Values(s, comments)[i] \in Rests
         /\ Values(s, comments)[i] = ValuesFrom(s, comments, Values(s, comments), i)
<1> DEFINE Body(g, j) == ValuesFrom(s, comments, g, j)
           G(h) == [j \in 0 .. n |-> Body(h, j)]
           E == [j \in 0 .. n |-> [f \in [0 .. n -> Rests] |-> Body(f, j)]]
           from == CHOOSE h : h = G(h)
<1>1. Values(s, comments) = from
  BY DEF Values, ValuesFrom
<1>2. from = CHOOSE h : h = G(h)
  OBVIOUS
<1>3. ASSUME NEW j \in 0 .. n, NEW f \in [0 .. n -> Rests]
      PROVE  /\ Body(f, j) \in Rests
             /\ \A g : (\A l \in j + 1 .. n : f[l] = g[l]) => Body(f, j) = Body(g, j)
  BY ValuesAhead
<1> HIDE DEF from, Body
<1>4. PICK g : IsDown(g, E, Rests, n)
  <2>1. E \in [0 .. n -> [[0 .. n -> Rests] -> Rests]]
    BY <1>3
  <2>2. \A j \in 0 .. n : \A f, g \in [0 .. n -> Rests] :
          (\A l \in j + 1 .. n : f[l] = g[l]) => E[j][f] = E[j][g]
    BY <1>3
  <2>3. LooksAhead(E, Rests, n)
    BY <2>1, <2>2 DEF LooksAhead
  <2>4. Loose(0) \in Rests
    BY LooseFacts
  <2> HIDE DEF E
  <2> QED BY <2>3, <2>4, DownExists
<1>5. g = G(g) /\ g \in [0 .. n -> Rests]
  <2>1. g \in [0 .. n -> Rests] /\ \A j \in 0 .. n : g[j] = Body(g, j)
    BY <1>4 DEF IsDown
  <2> QED BY <2>1
<1>6. from = G(from)
  BY <1>2, <1>5
<1>7. \A j \in 0 .. n : from[j] = Body(from, j)
  BY <1>6
<1> DEFINE S == {j \in 0 .. n : from[j] = g[j]}
<1>8. ASSUME NEW j \in 0 .. n, \A l \in j + 1 .. n : l \in S
      PROVE  j \in S
  <2>1. g[j] = Body(g, j)
    BY <1>5
  <2>2. \A l \in j + 1 .. n : g[l] = from[l]
    BY <1>8
  <2>3. Body(from, j) = Body(g, j)
    BY <1>3, <1>5, <2>2
  <2> QED BY <1>7, <2>1, <2>3
<1>9. 0 .. n \subseteq S
  <2> HIDE DEF S
  <2> QED BY <1>8, DownInduction
<1>10. from[i] \in Rests
  BY <1>5, <1>9
<1> QED BY <1>1, <1>7, <1>10 DEF Body

-----------------------------------------------------------------------------
(* Elements.                                                               *)

Stages == {"open", "first", "item", "after", "done"}

\* What is said of offset i and stage st, where f says the rest of the elements.
ElementsFrom(s, comments, f, i, st) ==
  LET g == Gap(s, i, comments)
      c == At(s, g)
      v == ValueAt(s, g, "Array", comments)
  IN
  IF g = Never(s) THEN Loose(i)
  ELSE IF g = Len(s)
  THEN Stops(IF st \in {"open", "done"} THEN "none" ELSE "UnexpectedEnd", g, -1)
  ELSE CASE st = "open" /\ c = Bracket -> f[g + 1]["first"]
         [] st = "open" /\ c # Bracket -> Stops("ExpectedBracket", g, -1)
         [] st = "first" /\ c = Unbracket -> f[g + 1]["done"]
         [] st \in {"first", "item"} /\ (st = "first" => c # Unbracket) ->
              FromValue(v, g, f[v.end]["after"])
         [] st = "after" /\ c = Comma -> f[g + 1]["item"]
         [] st = "after" /\ c = Unbracket -> f[g + 1]["done"]
         [] st = "after" /\ c \notin {Comma, Unbracket} -> Stops("ExpectedComma", g, -1)
         [] st = "done" -> Stops("TrailingContent", g, -1)

\* r is that, stage by stage, of a gap that ends at g.
ElementsDo(s, comments, n, f, i, st, g, r) ==
  LET c == At(s, g)
      v == ValueAt(s, g, "Array", comments)
  IN
  /\ g = n + 1 => r = Loose(i)
  /\ g = n => r = Stops(IF st \in {"open", "done"} THEN "none" ELSE "UnexpectedEnd", n, -1)
  /\ g < n /\ st = "open" /\ c = Bracket => r = f[g + 1]["first"]
  /\ g < n /\ st = "open" /\ c # Bracket => r = Stops("ExpectedBracket", g, -1)
  /\ g < n /\ st = "first" /\ c = Unbracket => r = f[g + 1]["done"]
  /\ g < n /\ st = "first" /\ c # Unbracket => r = FromValue(v, g, f[v.end]["after"])
  /\ g < n /\ st = "item" => r = FromValue(v, g, f[v.end]["after"])
  /\ g < n /\ st = "after" /\ c = Comma => r = f[g + 1]["item"]
  /\ g < n /\ st = "after" /\ c = Unbracket => r = f[g + 1]["done"]
  /\ g < n /\ st = "after" /\ c # Comma /\ c # Unbracket => r = Stops("ExpectedComma", g, -1)
  /\ g < n /\ st = "done" => r = Stops("TrailingContent", g, -1)

\* One step of the elements, stage by stage.
LEMMA ElementsFromFacts ==
  ASSUME NEW s, NEW n \in Nat, n = Len(s), NEW comments \in BOOLEAN, NEW f,
         NEW i \in 0 .. n, NEW st \in Stages
  PROVE  ElementsDo(s, comments, n, f, i, st, Gap(s, i, comments), ElementsFrom(s, comments, f, i, st))
<1> DEFINE g == Gap(s, i, comments)
           c == At(s, g)
           v == ValueAt(s, g, "Array", comments)
           r == ElementsFrom(s, comments, f, i, st)
           a1 == f[g + 1]["first"]
           a2 == Stops("ExpectedBracket", g, -1)
           a3 == f[g + 1]["done"]
           a4 == FromValue(v, g, f[v.end]["after"])
           a5 == f[g + 1]["item"]
           a6 == Stops("ExpectedComma", g, -1)
           a7 == Stops("TrailingContent", g, -1)
           a8 == Stops(IF st \in {"open", "done"} THEN "none" ELSE "UnexpectedEnd", g, -1)
           rest == CASE st = "open" /\ c = Bracket -> a1
                     [] st = "open" /\ c # Bracket -> a2
                     [] st = "first" /\ c = Unbracket -> a3
                     [] st \in {"first", "item"} /\ (st = "first" => c # Unbracket) -> a4
                     [] st = "after" /\ c = Comma -> a5
                     [] st = "after" /\ c = Unbracket -> a3
                     [] st = "after" /\ c \notin {Comma, Unbracket} -> a6
                     [] st = "done" -> a7
<1> SUFFICES ElementsDo(s, comments, n, f, i, st, g, r)
  OBVIOUS
<1>1. g \in i .. n + 1 /\ Never(s) = n + 1
  BY GapFacts DEF Never
<1>2. r = IF g = Never(s) THEN Loose(i) ELSE IF g = n THEN a8 ELSE rest
  BY DEF ElementsFrom
<1>3. Comma # Unbracket
  BY DEF Comma, Unbracket
<1> HIDE DEF g, r
<1>4. CASE g = n + 1
  BY <1>1, <1>2, <1>4 DEF ElementsDo
<1>5. CASE g = n
  BY <1>1, <1>2, <1>5 DEF ElementsDo
<1>6. CASE g < n
  <2>1. r = rest
    <3>1. g # Never(s) /\ g # n
      BY <1>1, <1>6
    <3> HIDE DEF rest, a8
    <3> QED BY <1>2, <3>1
  <2> HIDE DEF c, a1, a2, a3, a4, a5, a6, a7
  <2>2. /\ st = "open" /\ c = Bracket => r = a1
        /\ st = "open" /\ c # Bracket => r = a2
        /\ st = "first" /\ c = Unbracket => r = a3
        /\ st = "first" /\ c # Unbracket => r = a4
        /\ st = "item" => r = a4
    BY <2>1
  <2>3. /\ st = "after" /\ c = Comma => r = a5
        /\ st = "after" /\ c = Unbracket => r = a3
        /\ st = "after" /\ c # Comma /\ c # Unbracket => r = a6
        /\ st = "done" => r = a7
    BY <1>3, <2>1
  <2> USE <1>6 DEF c, a1, a2, a3, a4, a5, a6, a7
  <2>4. g # n + 1 /\ g # n
    BY <1>1
  <2> QED BY <2>2, <2>3, <2>4 DEF ElementsDo
<1> QED BY <1>1, <1>4, <1>5, <1>6

\* The elements from i on depend on those from further on alone.
LEMMA ElementsAhead ==
  ASSUME NEW s, NEW n \in Nat, n = Len(s), NEW comments \in BOOLEAN,
         NEW f \in [0 .. n -> [Stages -> Rests]], NEW i \in 0 .. n, NEW st \in Stages
  PROVE  /\ ElementsFrom(s, comments, f, i, st) \in Rests
         /\ \A h : (\A l \in i + 1 .. n : f[l] = h[l]) =>
              ElementsFrom(s, comments, f, i, st) = ElementsFrom(s, comments, h, i, st)
<1> DEFINE g == Gap(s, i, comments)
           c == At(s, g)
           v == ValueAt(s, g, "Array", comments)
           r(h) == ElementsFrom(s, comments, h, i, st)
           Goes(e, k) == e \in i + 1 .. n /\ k \in Stages /\ \A h : r(h) = h[e][k]
           Stays(x) == x \in Rests /\ \A h : r(h) = x
           Gives == \A h : r(h) = FromValue(v, g, h[v.end]["after"])
<1>1. g \in i .. n + 1
  BY GapFacts
<1>2. \A h : ElementsDo(s, comments, n, h, i, st, g, r(h))
  BY ElementsFromFacts
<1>3. g < n => v \in Spans /\ (v.code = "none" => v.end \in i + 1 .. n /\ v.end \in 0 .. n)
  <2> HIDE DEF g
  <2>1. ASSUME g < n
        PROVE  v \in Spans /\ (v.code = "none" => v.end \in g + 1 .. n)
    <3>1. g \in Nat
      BY <1>1
    <3> QED BY <2>1, <3>1, ValueFacts
  <2> QED BY <1>1, <2>1
<1>4. "first" \in Stages /\ "done" \in Stages /\ "item" \in Stages /\ "after" \in Stages
  BY DEF Stages
<1>5. g < n => g + 1 \in i + 1 .. n /\ g \in Int
  BY <1>1
<1>6. /\ \A code \in JsonCodes \cup {"none"} : \A at \in Int : Stops(code, at, -1) \in Rests
      /\ Loose(i) \in Rests
  <2>1. i \in Int /\ -1 \in Int
    OBVIOUS
  <2> QED BY <2>1, StopsFacts, LooseFacts
<1>7. {"ExpectedBracket", "ExpectedComma", "TrailingContent", "UnexpectedEnd", "none"}
         \subseteq JsonCodes \cup {"none"}
  BY DEF JsonCodes
<1>8. ASSUME NEW e, NEW k, Goes(e, k)
      PROVE  /\ r(f) \in Rests
             /\ \A h : (\A l \in i + 1 .. n : f[l] = h[l]) => r(f) = r(h)
  <2>1. e \in 0 .. n
    BY <1>8
  <2>2. f[e][k] \in Rests
    BY <1>8, <2>1
  <2> QED BY <1>8, <2>2
<1>9. ASSUME Gives, g < n
      PROVE  /\ r(f) \in Rests
             /\ \A h : (\A l \in i + 1 .. n : f[l] = h[l]) => r(f) = r(h)
  <2> HIDE DEF g, v, r
  <2>1. CASE v.code = "none"
    <3>1. v.end \in i + 1 .. n /\ f[v.end]["after"] \in Rests
      BY <1>3, <1>4, <1>9, <2>1
    <3>2. FromValue(v, g, f[v.end]["after"]) \in Rests
      BY <1>3, <1>5, <1>9, <2>1, <3>1, FromValueFacts
    <3> QED BY <1>9, <3>1, <3>2
  <2>2. CASE v.code # "none"
    <3>1. \A h : FromValue(v, g, h[v.end]["after"]) =
                   Stops(v.code, v.end, IF v.code = "UnexpectedCharacter" THEN -1 ELSE g)
      BY <2>2 DEF FromValue
    <3>2. FromValue(v, g, f[v.end]["after"]) \in Rests
      BY <1>3, <1>5, <1>9, <2>2, FromValueFacts
    <3> QED BY <1>9, <3>1, <3>2
  <2> QED BY <2>1, <2>2
<1> HIDE DEF g, c, v, r
<1>10. (\E x : Stays(x)) \/ (\E e, k : Goes(e, k)) \/ (Gives /\ g < n)
  <2> USE <1>2 DEF ElementsDo, c, v
  <2>1. CASE g = n + 1
    <3>1. Stays(Loose(i))
      BY <1>6, <2>1
    <3> QED BY <3>1
  <2>2. CASE g = n
    <3>1. Stays(Stops(IF st \in {"open", "done"} THEN "none" ELSE "UnexpectedEnd", n, -1))
      BY <1>6, <1>7, <2>2
    <3> QED BY <3>1
  <2>3. CASE g < n /\ st = "open" /\ c = Bracket
    <3>1. Goes(g + 1, "first")
      BY <1>4, <1>5, <2>3
    <3> QED BY <3>1
  <2>4. CASE g < n /\ st = "open" /\ c # Bracket
    <3>1. Stays(Stops("ExpectedBracket", g, -1))
      BY <1>5, <1>6, <1>7, <2>4
    <3> QED BY <3>1
  <2>5. CASE g < n /\ st = "first" /\ c = Unbracket
    <3>1. Goes(g + 1, "done")
      BY <1>4, <1>5, <2>5
    <3> QED BY <3>1
  <2>6. CASE g < n /\ st = "first" /\ c # Unbracket
    BY <2>6
  <2>7. CASE g < n /\ st = "item"
    BY <2>7
  <2>8. CASE g < n /\ st = "after" /\ c = Comma
    <3>1. Goes(g + 1, "item")
      BY <1>4, <1>5, <2>8
    <3> QED BY <3>1
  <2>9. CASE g < n /\ st = "after" /\ c = Unbracket
    <3>1. Goes(g + 1, "done")
      BY <1>4, <1>5, <2>9
    <3> QED BY <3>1
  <2>10. CASE g < n /\ st = "after" /\ c # Comma /\ c # Unbracket
    <3>1. Stays(Stops("ExpectedComma", g, -1))
      BY <1>5, <1>6, <1>7, <2>10
    <3> QED BY <3>1
  <2>11. CASE g < n /\ st = "done"
    <3>1. Stays(Stops("TrailingContent", g, -1))
      BY <1>5, <1>6, <1>7, <2>11
    <3> QED BY <3>1
  <2> HIDE DEF Stays, Goes, Gives
  <2>12. g = n + 1 \/ g = n \/ g < n
    BY <1>1
  <2>13. st = "open" \/ st = "first" \/ st = "item" \/ st = "after" \/ st = "done"
    BY DEF Stages
  <2> QED
    BY <2>1, <2>2, <2>3, <2>4, <2>5, <2>6, <2>7, <2>8, <2>9, <2>10, <2>11, <2>12, <2>13, Zenon
<1>11. ASSUME NEW x, Stays(x)
       PROVE  r(f) \in Rests /\ \A h : r(f) = r(h)
  BY <1>11
<1> HIDE DEF Stays, Goes, Gives
<1>12. /\ r(f) \in Rests
       /\ \A h : (\A l \in i + 1 .. n : f[l] = h[l]) => r(f) = r(h)
  BY <1>8, <1>9, <1>10, <1>11
<1> QED BY <1>12 DEF r

\* The elements the reference chooses are those its equation describes.
LEMMA ElementsRecursion ==
  ASSUME NEW s, NEW n \in Nat, n = Len(s), NEW comments \in BOOLEAN, NEW i \in 0 .. n,
         NEW st \in Stages
  PROVE  /\ Elements(s, comments)[i][st] \in Rests
         /\ Elements(s, comments)[i][st] = ElementsFrom(s, comments, Elements(s, comments), i, st)
<1> DEFINE V == [Stages -> Rests]
           Body(g, j) == [k \in Stages |-> ElementsFrom(s, comments, g, j, k)]
           G(h) == [j \in 0 .. n |-> Body(h, j)]
           E == [j \in 0 .. n |-> [f \in [0 .. n -> V] |-> Body(f, j)]]
           from == CHOOSE h : h = G(h)
<1>1. Elements(s, comments) = from
  BY DEF Elements, ElementsFrom, Stages
<1>2. from = CHOOSE h : h = G(h)
  OBVIOUS
<1>3. ASSUME NEW j \in 0 .. n, NEW f \in [0 .. n -> V]
      PROVE  /\ Body(f, j) \in V
             /\ \A g : (\A l \in j + 1 .. n : f[l] = g[l]) => Body(f, j) = Body(g, j)
  <2>1. \A k \in Stages :
           /\ ElementsFrom(s, comments, f, j, k) \in Rests
           /\ \A g : (\A l \in j + 1 .. n : f[l] = g[l]) =>
                  ElementsFrom(s, comments, f, j, k) = ElementsFrom(s, comments, g, j, k)
    BY ElementsAhead, SMTT(30)
  <2> QED BY <2>1
<1> HIDE DEF from, Body
<1>4. PICK g : IsDown(g, E, V, n)
  <2>1. E \in [0 .. n -> [[0 .. n -> V] -> V]]
    BY <1>3
  <2>2. \A j \in 0 .. n : \A f, g \in [0 .. n -> V] :
          (\A l \in j + 1 .. n : f[l] = g[l]) => E[j][f] = E[j][g]
    BY <1>3
  <2>3. LooksAhead(E, V, n)
    BY <2>1, <2>2 DEF LooksAhead
  <2>4. [k \in Stages |-> Loose(0)] \in V
    BY LooseFacts
  <2> HIDE DEF E, V
  <2> QED BY <2>3, <2>4, DownExists
<1>5. g = G(g) /\ g \in [0 .. n -> V]
  <2>1. g \in [0 .. n -> V] /\ \A j \in 0 .. n : g[j] = Body(g, j)
    BY <1>4 DEF IsDown
  <2> HIDE DEF V
  <2> QED BY <2>1
<1>6. from = G(from)
  BY <1>2, <1>5
<1>7. \A j \in 0 .. n : from[j] = Body(from, j)
  BY <1>6
<1> DEFINE S == {j \in 0 .. n : from[j] = g[j]}
<1>8. ASSUME NEW j \in 0 .. n, \A l \in j + 1 .. n : l \in S
      PROVE  j \in S
  <2>1. g[j] = Body(g, j)
    BY <1>5
  <2>2. \A l \in j + 1 .. n : g[l] = from[l]
    BY <1>8
  <2> HIDE DEF V
  <2>3. Body(from, j) = Body(g, j)
    BY <1>3, <1>5, <2>2
  <2> QED BY <1>7, <2>1, <2>3
<1>9. 0 .. n \subseteq S
  <2> HIDE DEF S
  <2> QED BY <1>8, DownInduction
<1>10. from[i][st] \in Rests
  BY <1>5, <1>9
<1>11. from[i][st] = ElementsFrom(s, comments, from, i, st)
  BY <1>7 DEF Body
<1> QED BY <1>1, <1>10, <1>11

-----------------------------------------------------------------------------
(* The rest of a stream that is scanned byte by byte.                      *)

RestAt(s, mode, comments, i, st) ==
  IF mode = "Values" THEN Values(s, comments)[i] ELSE Elements(s, comments)[i][st]

\* The rest from the value at g on.
OfValue(s, mode, comments, g) ==
  LET v == ValueAt(s, g, mode, comments) IN
  FromValue(v, g, RestAt(s, mode, comments, v.end, "after"))

\* A value may come: in any stage of a Values stream, and two of an array.
Expects(mode, st, c) == mode = "Values" \/ st = "item" \/ (st = "first" /\ c # Unbracket)

\* r is what the reference says is left at i in stage st, with a gap up to g.
RestDoes(s, mode, comments, n, i, st, g, r) ==
  LET c == At(s, g)
      Next(stage) == RestAt(s, mode, comments, g + 1, stage)
  IN
  /\ g = n + 1 => r = Loose(i)
  /\ g = n => r = Stops(IF mode = "Values" \/ st \in {"open", "done"} THEN "none"
                                                                   ELSE "UnexpectedEnd", n, -1)
  /\ g < n /\ Expects(mode, st, c) => r = OfValue(s, mode, comments, g)
  /\ mode # "Values" /\ g < n =>
       /\ st = "open" /\ c = Bracket => r = Next("first")
       /\ st = "open" /\ c # Bracket => r = Stops("ExpectedBracket", g, -1)
       /\ st = "first" /\ c = Unbracket => r = Next("done")
       /\ st = "after" /\ c = Comma => r = Next("item")
       /\ st = "after" /\ c = Unbracket => r = Next("done")
       /\ st = "after" /\ c # Comma /\ c # Unbracket => r = Stops("ExpectedComma", g, -1)
       /\ st = "done" => r = Stops("TrailingContent", g, -1)

\* The rest of a scanned stream, in one form for both its modes.
LEMMA RestFacts ==
  ASSUME NEW s, NEW n \in Nat, n = Len(s), NEW comments \in BOOLEAN,
         NEW mode \in {"Values", "Array"}, NEW i \in 0 .. n, NEW st \in Stages
  PROVE  /\ RestAt(s, mode, comments, i, st) \in Rests
         /\ RestDoes(s, mode, comments, n, i, st, Gap(s, i, comments), RestAt(s, mode, comments, i, st))
<1> DEFINE g == Gap(s, i, comments)
           r == RestAt(s, mode, comments, i, st)
<1> SUFFICES r \in Rests /\ RestDoes(s, mode, comments, n, i, st, g, r)
  OBVIOUS
<1>1. g \in i .. n + 1 /\ Never(s) = n + 1
  BY GapFacts DEF Never
<1>2. CASE mode = "Values"
  <2>1. r = Values(s, comments)[i]
    BY <1>2 DEF RestAt
  <2>2. r \in Rests /\ r = ValuesFrom(s, comments, Values(s, comments), i)
    BY <2>1, ValuesRecursion
  <2>3. r = IF g = Never(s) THEN Loose(i) ELSE IF g = n THEN Stops("none", g, -1)
            ELSE FromValue(ValueAt(s, g, "Values", comments), g,
                           Values(s, comments)[ValueAt(s, g, "Values", comments).end])
    BY <2>2 DEF ValuesFrom
  <2>4. OfValue(s, mode, comments, g) =
           FromValue(ValueAt(s, g, "Values", comments), g,
                     Values(s, comments)[ValueAt(s, g, "Values", comments).end])
    BY <1>2 DEF OfValue, RestAt
  <2> HIDE DEF g, r
  <2>5. r = IF g = n + 1 THEN Loose(i) ELSE IF g = n THEN Stops("none", g, -1)
            ELSE OfValue(s, mode, comments, g)
    BY <1>1, <2>3, <2>4
  <2> QED BY <1>1, <1>2, <2>2, <2>5 DEF RestDoes
<1>3. CASE mode = "Array"
  <2>1. r = Elements(s, comments)[i][st] /\ mode # "Values"
    BY <1>3 DEF RestAt
  <2>2. r \in Rests /\ r = ElementsFrom(s, comments, Elements(s, comments), i, st)
    BY <2>1, ElementsRecursion
  <2>3. ElementsDo(s, comments, n, Elements(s, comments), i, st, g, r)
    BY <2>2, ElementsFromFacts
  <2>4. OfValue(s, mode, comments, g) =
           FromValue(ValueAt(s, g, "Array", comments), g,
                     Elements(s, comments)[ValueAt(s, g, "Array", comments).end]["after"])
    BY <1>3 DEF OfValue, RestAt
  <2>5. \A stage : RestAt(s, mode, comments, g + 1, stage) = Elements(s, comments)[g + 1][stage]
    BY <1>3 DEF RestAt
  <2> HIDE DEF g, r
  <2> QED BY <2>1, <2>2, <2>3, <2>4, <2>5 DEF RestDoes, ElementsDo, Expects
<1> QED BY <1>2, <1>3

\* Every value of r ends past g.
Ahead(r, g) == \A k \in 1 .. Len(r.items) : r.items[k][2] > g

\* A value and what is behind it.
LEMMA OneBehind ==
  ASSUME NEW g \in Int, NEW e \in Int, NEW h \in Int, h < e, NEW rest \in Rests, Ahead(rest, h)
  PROVE  Ahead(Behind(<<<<g, e>>>>, rest), h)
<1> DEFINE P == Int \X Int
           x == rest.items
           y == <<<<g, e>>>> \o x
<1>0. <<<<g, e>>>> \in Seq(P)
  OBVIOUS
<1>1. Behind(<<<<g, e>>>>, rest).items = y
  BY <1>0, BehindIs
<1>2. x \in Seq(P)
  BY DEF Rests
<1>3. Len(y) = 1 + Len(x) /\ y[1] = <<g, e>> /\ \A k \in 2 .. Len(y) : y[k] = x[k - 1]
  <2> HIDE DEF x
  <2> QED BY <1>2
<1>4. \A k \in 1 .. Len(x) : x[k][2] > h
  BY DEF Ahead
<1>5. Len(x) \in Nat
  BY <1>2
<1> HIDE DEF x, y
<1>6. ASSUME NEW k \in 1 .. Len(y)
      PROVE  y[k][2] > h
  <2>1. CASE k = 1
    BY <1>3, <2>1
  <2>2. CASE k # 1
    <3>1. k \in 2 .. Len(y) /\ k - 1 \in 1 .. Len(x)
      BY <1>3, <1>5, <2>2
    <3> QED BY <1>3, <1>4, <3>1
  <2> QED BY <2>1, <2>2
<1> QED BY <1>1, <1>6 DEF Ahead

\* Where no value is left, all of them are ahead.
LEMMA NoneAhead == ASSUME NEW r, r.items = <<>>, NEW g PROVE Ahead(r, g)
BY DEF Ahead

\* Every value that is left ends past where the gap does.
LEMMA RestAhead ==
  ASSUME NEW s, NEW n \in Nat, n = Len(s), NEW comments \in BOOLEAN,
         NEW mode \in {"Values", "Array"}, NEW i \in 0 .. n, NEW st \in Stages
  PROVE  Ahead(RestAt(s, mode, comments, i, st), Gap(s, i, comments))
<1> DEFINE Beyond(j) == \A k \in Stages : Ahead(RestAt(s, mode, comments, j, k), Gap(s, j, comments))
           S == {j \in 0 .. n : Beyond(j)}
<1>1. ASSUME NEW j \in 0 .. n, \A l \in j + 1 .. n : l \in S
      PROVE  j \in S
  <2>1. ASSUME NEW k \in Stages
        PROVE  Ahead(RestAt(s, mode, comments, j, k), Gap(s, j, comments))
    <3> DEFINE g == Gap(s, j, comments)
               r == RestAt(s, mode, comments, j, k)
               v == ValueAt(s, g, mode, comments)
               c == At(s, g)
    <3>1. r \in Rests /\ RestDoes(s, mode, comments, n, j, k, g, r)
      BY RestFacts
    <3>2. g \in j .. n + 1
      BY GapFacts
    <3>3. ASSUME NEW l \in g + 1 .. n, NEW m \in Stages
          PROVE  RestAt(s, mode, comments, l, m) \in Rests /\ Ahead(RestAt(s, mode, comments, l, m), g)
      <4>1. l \in j + 1 .. n /\ l \in 0 .. n /\ g < l
        BY <3>2
      <4>2. Ahead(RestAt(s, mode, comments, l, m), Gap(s, l, comments))
        BY <1>1, <4>1
      <4>3. Gap(s, l, comments) \in l .. n + 1
        BY <4>1, GapFacts
      <4>4. RestAt(s, mode, comments, l, m) \in Rests
        BY <4>1, RestFacts
      <4> DEFINE x == RestAt(s, mode, comments, l, m).items
      <4>5. x \in Seq(Int \X Int) /\ \A q \in 1 .. Len(x) : x[q][2] \in Int
        BY <4>4, SMTT(30) DEF Rests
      <4> HIDE DEF x, g
      <4> DEFINE e == Gap(s, l, comments)
      <4>6. e \in Int /\ g \in Int /\ g < e /\ \A q \in 1 .. Len(x) : x[q][2] > e
        BY <3>2, <4>1, <4>2, <4>3 DEF Ahead, x
      <4> HIDE DEF e
      <4>7. \A q \in 1 .. Len(x) : x[q][2] > g
        <5> TAKE q \in 1 .. Len(x)
        <5> DEFINE z == x[q][2]
        <5>1. z \in Int /\ z > e /\ e \in Int /\ g \in Int /\ g < e
          BY <4>5, <4>6
        <5> HIDE DEF z
        <5>2. z > g
          BY ONLY <5>1
        <5> QED BY <5>2 DEF z
      <4> QED BY <4>4, <4>7 DEF Ahead, x
    <3>4. \A code, at, open : Stops(code, at, open).items = <<>>
      BY DEF Stops
    <3>5. Loose(j).items = <<>>
      <4>1. j \in Int
        OBVIOUS
      <4> QED BY <4>1, LooseFacts
    <3>6. {"ExpectedBracket", "ExpectedComma", "TrailingContent", "UnexpectedEnd", "none"}
             \subseteq JsonCodes \cup {"none"}
      BY DEF JsonCodes
    <3>7. "first" \in Stages /\ "done" \in Stages /\ "item" \in Stages /\ "after" \in Stages
      BY DEF Stages
    <3>8. g < n => v \in Spans /\ (v.code = "none" => v.end \in g + 1 .. n)
      <4> HIDE DEF g
      <4>1. ASSUME g < n
            PROVE  v \in Spans /\ (v.code = "none" => v.end \in g + 1 .. n)
        <5>1. g \in Nat
          BY <3>2
        <5> QED BY <4>1, <5>1, ValueFacts
      <4> QED BY <4>1
    <3>9. ASSUME g < n
          PROVE  Ahead(OfValue(s, mode, comments, g), g)
      <4> DEFINE rest == RestAt(s, mode, comments, v.end, "after")
      <4>1. OfValue(s, mode, comments, g) = FromValue(v, g, rest)
        BY DEF OfValue
      <4>2. g \in Int
        BY <3>2
      <4>3. CASE v.code = "none"
        <5>1. v.end \in Int /\ g < v.end /\ rest \in Rests /\ Ahead(rest, g)
          <6> HIDE DEF g, v
          <6> QED BY <3>3, <3>7, <3>8, <3>9, <4>2, <4>3
        <5>2. FromValue(v, g, rest) = Behind(<<<<g, v.end>>>>, rest)
          <6> HIDE DEF rest, g, v
          <6> QED BY <3>8, <3>9, <4>2, <4>3, FromValueFacts
        <5> HIDE DEF rest, g, v
        <5> QED BY <4>1, <4>2, <5>1, <5>2, OneBehind
      <4>4. CASE v.code # "none"
        <5> HIDE DEF rest, g, v
        <5>1. FromValue(v, g, rest) = Stops(v.code, v.end, IF v.code = "UnexpectedCharacter" THEN -1 ELSE g)
          BY <4>4 DEF FromValue
        <5>2. v.code \in JsonCodes /\ v.end \in Int
          BY <3>8, <3>9, <4>4 DEF Spans, JsonCodes
        <5>3. (IF v.code = "UnexpectedCharacter" THEN -1 ELSE g) \in Int
          BY <4>2
        <5> QED BY <4>1, <5>1, <5>2, <5>3, StopsFacts, NoneAhead
      <4> QED BY <4>3, <4>4
    <3>10. ASSUME g < n, NEW m \in Stages
           PROVE  Ahead(RestAt(s, mode, comments, g + 1, m), g)
      <4>1. g + 1 \in g + 1 .. n
        BY <3>2, <3>10
      <4> QED BY <3>3, <4>1
    <3> HIDE DEF g, r, c, v
    <3>11. \/ r.items = <<>>
           \/ g < n /\ (r = OfValue(s, mode, comments, g) \/ \E m \in Stages : r = RestAt(s, mode, comments, g + 1, m))
      <4>1. CASE g = n + 1
        BY <3>1, <3>5, <4>1 DEF RestDoes
      <4>2. CASE g = n
        BY <3>1, <3>4, <3>6, <4>2 DEF RestDoes
      <4>3. CASE g < n /\ Expects(mode, k, c)
        BY <3>1, <4>3 DEF RestDoes, c
      <4>4. CASE g < n /\ ~Expects(mode, k, c)
        <5>1. g \in Int /\ mode # "Values"
          BY <3>2, <4>4 DEF Expects
        <5>2. CASE k = "open"
          BY <3>1, <3>4, <3>6, <3>7, <4>4, <5>1, <5>2 DEF RestDoes
        <5>3. CASE k = "first"
          BY <3>1, <3>7, <4>4, <5>1, <5>3 DEF RestDoes, Expects, c
        <5>4. CASE k = "after"
          BY <3>1, <3>4, <3>6, <3>7, <4>4, <5>1, <5>4 DEF RestDoes
        <5>5. CASE k = "done"
          BY <3>1, <3>4, <3>6, <4>4, <5>1, <5>5 DEF RestDoes
        <5>6. k # "item"
          BY <4>4 DEF Expects
        <5> QED BY <5>2, <5>3, <5>4, <5>5, <5>6 DEF Stages
      <4> QED BY <3>2, <4>1, <4>2, <4>3, <4>4
    <3>12. Ahead(r, g)
      BY <3>9, <3>10, <3>11, NoneAhead
    <3> QED BY <3>12 DEF r, g
  <2> QED BY <2>1
<1>2. 0 .. n \subseteq S
  <2> HIDE DEF S
  <2> QED BY <1>1, DownInduction
<1>3. Beyond(i)
  BY <1>2
<1> QED BY <1>3

-----------------------------------------------------------------------------
(* Inside a value, in the whole stream.                                    *)

\* A value begins at p.
Begins(t, comments, p) ==
  /\ p \in Nat /\ Len(t) \in Nat /\ p < Len(t)
  /\ ~IsWs(At(t, p)) /\ ~(comments /\ IsComment(t, p))

\* The walk of the value at p has come to q, at depth d.
Reached(t, comments, p, q, d) ==
  /\ Walk(t, comments)[p][0] = Walk(t, comments)[q][d]
  /\ q \in Nat /\ p <= q /\ q <= Len(t) /\ d \in 0 .. MaxDepth
  /\ d = 0 <=> q = p
  /\ d > 0 => At(t, p) \in Opens

\* The search u stands at x for the value at p: outside strings and comments, in
\* a string, in a comment, or in a scalar.
AtUnit(t, comments, p, x, u) ==
  /\ ~u.scalar /\ ~u.inString /\ u.comment = "No" /\ ~u.escaped
  /\ Reached(t, comments, p, x, u.depth)

AtString(t, comments, p, x, u) ==
  /\ ~u.scalar /\ u.inString /\ u.comment = "No"
  /\ \E q \in Nat : /\ Reached(t, comments, p, q, u.depth)
                    /\ q < Len(t) /\ At(t, q) = Quote
                    /\ InString(t, q, x, u.escaped)

AtComment(t, comments, p, x, u) ==
  /\ ~u.scalar /\ ~u.inString /\ u.comment # "No" /\ comments /\ ~u.escaped
  /\ \E q \in Nat : /\ Reached(t, comments, p, q, u.depth)
                    /\ InComment(t, q, x, u.comment)

AtScalar(t, p, x, u) ==
  /\ u.scalar /\ ~u.inString /\ u.comment = "No" /\ ~u.escaped
  /\ u.depth = 0 /\ p < x
  /\ \A j \in p .. x - 1 : ScalarByte(At(t, j))

Traced(t, comments, p, x, u) ==
  \/ AtUnit(t, comments, p, x, u)
  \/ AtString(t, comments, p, x, u)
  \/ AtComment(t, comments, p, x, u)
  \/ AtScalar(t, p, x, u)

\* Where the search u stops, at y, it has found what the reference says.
Scanned(t, comments, p, mode, y, u) ==
  /\ u.out \in {"more", "starved"} => Traced(t, comments, p, y, u)
  /\ u.out = "item" => ValueAt(t, p, mode, comments) = Found(y)
  /\ u.out \in {"UnexpectedCharacter", "ExceededMaxDepth"} =>
       ValueAt(t, p, mode, comments) = Broken(u.out, y)
  /\ u.out = "starved" => /\ ~u.inString /\ ~u.scalar /\ u.comment = "No"
                          /\ comments /\ At(t, y) = "/"

\* The value at p is what the walk of it comes to.
LEMMA ReachedValue ==
  ASSUME NEW t, NEW comments \in BOOLEAN, NEW p, Begins(t, comments, p), NEW q, NEW d,
         Reached(t, comments, p, q, d), d # 0, NEW mode
  PROVE  ValueAt(t, p, mode, comments) = Walk(t, comments)[q][d]
<1>1. d > 0
  BY MaxDepthAssumption DEF Reached
<1>2. ValueIs(t, comments, Len(t), p, mode, ValueAt(t, p, mode, comments))
  BY ValueFacts DEF Begins
<1> QED BY <1>1, <1>2 DEF Reached, ValueIs

\* What a byte of a comment and one of a scalar do to the search.
CommentByte(u, c) == [u EXCEPT !.comment = StepComment(@, c), !.pos = @ + 1]
NumberByte(u, c)  == IF ScalarByte(c) THEN [u EXCEPT !.pos = @ + 1]
                                      ELSE [u EXCEPT !.scalar = FALSE, !.out = "item"]

\* In a comment, a byte on (Comment::step).
LEMMA CommentArm ==
  ASSUME NEW t, NEW comments \in BOOLEAN, NEW p, Begins(t, comments, p), NEW mode,
         NEW o \in Nat, NEW i \in Nat, NEW n \in Nat, NEW u \in Searches(i, n), u.out = "more",
         NEW x, x = o + u.pos, x < Len(t), AtComment(t, comments, p, x, u),
         NEW w, w = CommentByte(u, At(t, x))
  PROVE  Scanned(t, comments, p, mode, o + w.pos, w)
<1> DEFINE N == Len(t)
           d == u.depth
           k == StepComment(u.comment, At(t, x))
<1>0. N \in Nat /\ x \in Nat /\ N = Len(t) /\ MaxDepth \in Nat /\ p \in Nat
  BY MaxDepthAssumption DEF Begins, Searches
<1>1. /\ w.out = "more" /\ w.comment = k /\ w.depth = d /\ w.inString = u.inString
      /\ w.escaped = u.escaped /\ w.scalar = u.scalar /\ o + w.pos = x + 1
  BY DEF Searches, CommentByte
<1>2. PICK q \in Nat : Reached(t, comments, p, q, d) /\ InComment(t, q, x, u.comment)
  BY DEF AtComment
<1> HIDE DEF N, k, d
<1>3. /\ k # "No" => InComment(t, q, x + 1, k)
      /\ k = "No" => CommentEnd(t, q) = x + 1 \/ (CommentEnd(t, q) = x /\ At(t, x) = Newline)
  BY <1>0, <1>2, CommentStep DEF k
<1>4. IsComment(t, q) /\ comments /\ q < x
  BY <1>0, <1>2 DEF InComment, AtComment
<1>5. d > 0 /\ d \in 0 .. MaxDepth
  BY <1>0, <1>2, <1>4 DEF Reached, Begins
<1>6. CASE k # "No"
  <2>1. AtComment(t, comments, p, x + 1, w)
    BY <1>1, <1>2, <1>3, <1>6 DEF AtComment, d
  <2> QED BY <1>1, <2>1 DEF Scanned, Traced
<1>7. CASE k = "No"
  <2>1. q \in 0 .. N + 1 /\ q < N
    BY <1>0, <1>4
  <2>2. Walk(t, comments)[q][d] = Walk(t, comments)[CommentEnd(t, q)][d]
    <3>1. WalkDoes(t, comments, N, Walk(t, comments), q, d, Walk(t, comments)[q][d])
      BY <1>0, <1>5, <2>1, WalkFacts
    <3> QED BY <1>4, <2>1, <3>1 DEF WalkDoes
  <2>3. At(t, x) = Newline => Walk(t, comments)[x][d] = Walk(t, comments)[x + 1][d]
    <3>1. WalkDoes(t, comments, N, Walk(t, comments), x, d, Walk(t, comments)[x][d])
      <4>1. x \in 0 .. N + 1
        BY <1>0
      <4> QED BY <1>0, <1>5, <4>1, WalkFacts
    <3>2. At(t, x) = Newline => At(t, x) \notin Delimiters /\ ~IsComment(t, x) /\ At(t, x) # "/"
      BY DEF Newline, Delimiters, IsComment, Opens, Closes, Quote, Bracket, Unbracket
    <3>3. x < N
      BY <1>0
    <3> QED BY <3>1, <3>2, <3>3 DEF WalkDoes
  <2>4. Walk(t, comments)[p][0] = Walk(t, comments)[x + 1][d]
    BY <1>2, <1>3, <1>7, <2>2, <2>3 DEF Reached
  <2>5. Reached(t, comments, p, x + 1, d)
    <3>1. p <= q /\ (d > 0 => At(t, p) \in Opens) /\ p \in Nat
      BY <1>0, <1>2 DEF Reached
    <3>2. x + 1 \in Nat /\ p <= x + 1 /\ x + 1 # p /\ d # 0 /\ x + 1 <= Len(t)
      BY <1>0, <1>2, <1>4, <1>5, <3>1, SMTT(30) DEF InComment
    <3> QED BY <1>5, <2>4, <3>1, <3>2 DEF Reached
  <2>6. AtUnit(t, comments, p, x + 1, w)
    BY <1>1, <1>7, <2>5 DEF AtUnit, AtComment, d
  <2> QED BY <1>1, <2>6 DEF Scanned, Traced
<1> QED BY <1>6, <1>7

\* In a string, a byte on.
LEMMA StringArm ==
  ASSUME NEW t, NEW comments \in BOOLEAN, NEW p, Begins(t, comments, p), NEW mode,
         NEW o \in Nat, NEW i \in Nat, NEW n \in Nat, NEW u \in Searches(i, n), u.out = "more",
         NEW x, x = o + u.pos, x < Len(t), AtString(t, comments, p, x, u),
         NEW w, w = StringByte(u, At(t, x))
  PROVE  Scanned(t, comments, p, mode, o + w.pos, w)
<1> DEFINE N == Len(t)
           d == u.depth
           c == At(t, x)
           ends == c = Quote /\ ~u.escaped
<1>0. /\ N \in Nat /\ x \in Nat /\ N = Len(t) /\ MaxDepth \in Nat /\ p \in Nat
      /\ u.escaped \in BOOLEAN /\ d \in Nat /\ x < N
  BY MaxDepthAssumption DEF Begins, Searches
<1>1. /\ w.out = IF ends /\ d = 0 THEN "item" ELSE "more"
      /\ w.comment = u.comment /\ w.depth = d /\ w.inString = ~ends
      /\ w.escaped = (c = Backslash /\ ~u.escaped) /\ w.scalar = u.scalar /\ o + w.pos = x + 1
  BY DEF Searches, StringByte
<1>2. PICK q \in Nat : /\ Reached(t, comments, p, q, d) /\ q < N /\ At(t, q) = Quote
                       /\ InString(t, q, x, u.escaped)
  BY DEF AtString
<1> HIDE DEF N, d
<1>3. /\ ends => StringEnd(t, q) = x + 1
      /\ ~ends => InString(t, q, x + 1, c = Backslash /\ ~u.escaped)
  BY <1>0, <1>2, StringStep, SMTT(30)
<1>4. q < x
  BY <1>2 DEF InString
<1>5. CASE ~ends
  <2>1. AtString(t, comments, p, x + 1, w)
    <3>1. InString(t, q, x + 1, w.escaped)
      BY <1>1, <1>3, <1>5
    <3> HIDE DEF ends
    <3> QED BY <1>1, <1>2, <1>5, <3>1 DEF AtString, d, N
  <2> HIDE DEF ends
  <2>2. w.out = "more"
    BY <1>1, <1>5
  <2> QED BY <1>1, <2>1, <2>2 DEF Scanned, Traced
<1>6. CASE ends /\ d = 0
  <2>1. q = p
    BY <1>2, <1>6 DEF Reached
  <2>2. ValueIs(t, comments, N, p, mode, ValueAt(t, p, mode, comments))
    BY <1>0, ValueFacts DEF Begins
  <2>3. ValueAt(t, p, mode, comments) = Runs(t, x + 1)
    BY <1>2, <1>3, <1>6, <2>1, <2>2 DEF ValueIs
  <2>4. Runs(t, x + 1) = Found(x + 1)
    BY <1>0 DEF Runs, Never
  <2> HIDE DEF ends
  <2>5. w.out = "item"
    BY <1>1, <1>6
  <2> QED BY <1>1, <2>3, <2>4, <2>5 DEF Scanned
<1>7. CASE ends /\ d # 0
  <2>1. d \in 0 .. MaxDepth /\ q \in 0 .. N + 1
    BY <1>0, <1>2 DEF Reached
  <2>2. Walk(t, comments)[q][d] = Walk(t, comments)[x + 1][d]
    <3>1. WalkDoes(t, comments, N, Walk(t, comments), q, d, Walk(t, comments)[q][d])
      BY <1>0, <2>1, WalkFacts
    <3> QED BY <1>2, <1>3, <1>7, <3>1 DEF WalkDoes
  <2>3. Reached(t, comments, p, x + 1, d)
    BY <1>0, <1>2, <1>4, <1>7, <2>2 DEF Reached, N
  <2>4. ~w.inString /\ ~w.escaped /\ w.out = "more"
    BY <1>1, <1>7 DEF Quote, Backslash
  <2>5. AtUnit(t, comments, p, x + 1, w)
    BY <1>1, <2>3, <2>4 DEF AtUnit, AtString, d
  <2> QED BY <1>1, <2>4, <2>5 DEF Scanned, Traced
<1> QED BY <1>5, <1>6, <1>7

\* Outside, a byte that opens, closes or is none of the walk's (the structural arm).
LEMMA StructuralArm ==
  ASSUME NEW t, NEW comments \in BOOLEAN, NEW p, Begins(t, comments, p), NEW mode,
         NEW o \in Nat, NEW i \in Nat, NEW n \in Nat, NEW u \in Searches(i, n), u.out = "more",
         NEW x, x = o + u.pos, x < Len(t), AtUnit(t, comments, p, x, u),
         ~(comments /\ IsComment(t, x)), ~(comments /\ At(t, x) = "/" /\ x = Len(t) - 1),
         NEW w, w = StructuralByte(u, At(t, x))
  PROVE  Scanned(t, comments, p, mode, o + w.pos, w)
<1> DEFINE N == Len(t)
           d == u.depth
           c == At(t, x)
           v == ValueAt(t, p, mode, comments)
           next == [u EXCEPT !.pos = @ + 1]
<1>0. /\ N \in Nat /\ x \in Nat /\ N = Len(t) /\ MaxDepth \in Nat /\ MaxDepth # 0 /\ p \in Nat
      /\ d \in Nat /\ x < N /\ p < N
  BY MaxDepthAssumption DEF Begins, Searches
<1>1. /\ w = CASE c = Quote -> [next EXCEPT !.inString = TRUE]
               [] c \in Opens /\ d < MaxDepth -> [next EXCEPT !.depth = @ + 1]
               [] c \in Opens /\ d >= MaxDepth -> [u EXCEPT !.out = "ExceededMaxDepth"]
               [] c \in Closes /\ d > 0 ->
                    [next EXCEPT !.depth = @ - 1, !.out = IF d = 1 THEN "item" ELSE "more"]
               [] c \in Closes /\ d = 0 -> [u EXCEPT !.out = "UnexpectedCharacter"]
               [] c \notin Delimiters /\ (d > 0 \/ IsWs(c)) -> next
               [] c \notin Delimiters /\ d = 0 /\ ScalarByte(c) -> [next EXCEPT !.scalar = TRUE]
               [] OTHER -> [u EXCEPT !.out = "UnexpectedCharacter"]
  BY DEF StructuralByte
<1>2. /\ Reached(t, comments, p, x, d) /\ ~u.scalar /\ ~u.inString /\ u.comment = "No" /\ ~u.escaped
      /\ d \in 0 .. MaxDepth /\ p <= x /\ (d = 0 <=> x = p) /\ (d > 0 => At(t, p) \in Opens)
      /\ Walk(t, comments)[p][0] = Walk(t, comments)[x][d]
  BY DEF AtUnit, Reached
<1>3. WalkDoes(t, comments, N, Walk(t, comments), x, d, Walk(t, comments)[x][d])
  <2>1. x \in 0 .. N + 1
    BY <1>0
  <2> QED BY <1>0, <1>2, <2>1, WalkFacts
<1>4. ValueIs(t, comments, N, p, mode, v)
  BY <1>0, ValueFacts
<1>5. d # 0 => v = Walk(t, comments)[x][d]
  BY <1>2, ReachedValue
<1>6. /\ c = Quote => c # "/" /\ c \notin Opens /\ c \notin Closes
      /\ c = "/" => c # Quote /\ c \notin Opens /\ c \notin Closes /\ ~ScalarByte(c)
      /\ c \in Opens => c # Quote /\ c # "/" /\ c \notin Closes
      /\ c \in Closes => c # Quote /\ c # "/" /\ c \notin Opens /\ ~ScalarByte(c)
      /\ ScalarByte(c) => c # Quote /\ c # "/" /\ c \notin Opens /\ c \notin Closes
      /\ c \in Delimiters <=> c = Quote \/ c \in Opens \/ c \in Closes
  BY ByteKinds
<1>7. d = 0 => ~IsWs(c)
  BY <1>2 DEF Begins
<1>8. /\ next.pos = u.pos + 1 /\ o + (u.pos + 1) = x + 1 /\ next.out = "more"
      /\ next.depth = d /\ next.inString = u.inString /\ next.escaped = u.escaped
      /\ next.scalar = u.scalar /\ next.comment = u.comment
      /\ DOMAIN next = DOMAIN u
      /\ DOMAIN u = {"out", "pos", "depth", "inString", "escaped", "scalar", "comment"}
  BY DEF Searches
<1> HIDE DEF N, d, c, v, next
<1>9. CASE c = Quote
  <2>1. w = [next EXCEPT !.inString = TRUE]
    BY <1>1, <1>6, <1>9
  <2>2. /\ w.out = "more" /\ o + w.pos = x + 1 /\ w.depth = d /\ w.inString
        /\ ~w.escaped /\ ~w.scalar /\ w.comment = "No"
    BY <1>2, <1>8, <2>1
  <2>3. InString(t, x, x + 1, FALSE)
    BY <1>0, StringOpens
  <2>4. AtString(t, comments, p, x + 1, w)
    <3>1. w.escaped = FALSE
      BY <1>2, <1>8, <2>1 DEF Searches
    <3> QED BY <1>0, <1>2, <1>9, <2>2, <2>3, <3>1 DEF AtString, c, N
  <2> QED BY <2>2, <2>4 DEF Scanned, Traced
<1>10. CASE c \in Opens /\ d < MaxDepth
  <2>1. w = [next EXCEPT !.depth = d + 1]
    <3>1. c # Quote /\ c \notin Closes /\ c \in Delimiters /\ ~(d >= MaxDepth)
      BY <1>0, <1>6, <1>10
    <3>2. w = [next EXCEPT !.depth = @ + 1]
      BY ONLY <1>1, <1>10, <3>1
    <3> QED BY <1>8, <3>2
  <2>2. /\ w.out = "more" /\ o + w.pos = x + 1 /\ w.depth = d + 1 /\ ~w.inString
        /\ ~w.escaped /\ ~w.scalar /\ w.comment = "No"
    BY <1>2, <1>8, <2>1
  <2>3. Walk(t, comments)[x][d] = Walk(t, comments)[x + 1][d + 1]
    BY <1>0, <1>3, <1>10 DEF WalkDoes, c
  <2>4. At(t, p) \in Opens
    BY <1>0, <1>2, <1>10 DEF c
  <2>5. Reached(t, comments, p, x + 1, d + 1)
    BY <1>0, <1>2, <1>10, <2>3, <2>4 DEF Reached, N
  <2>6. AtUnit(t, comments, p, x + 1, w)
    BY <2>2, <2>5 DEF AtUnit
  <2> QED BY <2>2, <2>6 DEF Scanned, Traced
<1>11. CASE c \in Opens /\ d >= MaxDepth
  <2>1. d = MaxDepth /\ d # 0 /\ ~(d < MaxDepth)
    BY <1>0, <1>2, <1>11
  <2>2. w = [u EXCEPT !.out = "ExceededMaxDepth"]
    BY <1>1, <1>6, <1>11, <2>1
  <2>3. w.out = "ExceededMaxDepth" /\ o + w.pos = x
    BY <1>8, <2>2
  <2>4. v = Broken("ExceededMaxDepth", x)
    BY <1>0, <1>3, <1>5, <1>11, <2>1 DEF WalkDoes, c
  <2> QED BY <2>3, <2>4 DEF Scanned, v
<1>12. CASE c \in Closes /\ d > 0
  <2>1. w = [next EXCEPT !.depth = d - 1, !.out = IF d = 1 THEN "item" ELSE "more"]
    BY <1>1, <1>6, <1>8, <1>12
  <2>2. /\ w.out = (IF d = 1 THEN "item" ELSE "more") /\ o + w.pos = x + 1 /\ w.depth = d - 1
        /\ ~w.inString /\ ~w.escaped /\ ~w.scalar /\ w.comment = "No"
    BY <1>2, <1>8, <2>1, ZenonT(30)
  <2>3. CASE d = 1
    <3>1. v = Found(x + 1)
      BY <1>0, <1>3, <1>5, <1>12, <2>3 DEF WalkDoes, c
    <3> QED BY <2>2, <2>3, <3>1 DEF Scanned, v
  <2>4. CASE d > 1
    <3>1. Walk(t, comments)[x][d] = Walk(t, comments)[x + 1][d - 1]
      BY <1>0, <1>3, <1>12, <2>4 DEF WalkDoes, c
    <3>2. Reached(t, comments, p, x + 1, d - 1)
      BY <1>0, <1>2, <1>12, <2>4, <3>1 DEF Reached, N
    <3>3. AtUnit(t, comments, p, x + 1, w)
      BY <2>2, <3>2 DEF AtUnit
    <3>4. w.out = "more"
      BY <1>0, <2>2, <2>4
    <3> QED BY <2>2, <3>3, <3>4 DEF Scanned, Traced
  <2> QED BY <1>0, <1>12, <2>3, <2>4
<1>13. CASE c \in Closes /\ d = 0
  <2>1. w = [u EXCEPT !.out = "UnexpectedCharacter"]
    BY <1>0, <1>1, <1>6, <1>13
  <2>2. w.out = "UnexpectedCharacter" /\ o + w.pos = x
    BY <1>8, <2>1
  <2>3. v = Broken("UnexpectedCharacter", x)
    BY <1>2, <1>4, <1>6, <1>13 DEF ValueIs, c
  <2> QED BY <2>2, <2>3 DEF Scanned, v
<1>14. CASE c \notin Delimiters /\ d > 0
  <2>1. w = next
    BY <1>0, <1>1, <1>6, <1>14
  <2>2. Walk(t, comments)[x][d] = Walk(t, comments)[x + 1][d]
    BY <1>0, <1>3, <1>14 DEF WalkDoes, c
  <2>3. Reached(t, comments, p, x + 1, d)
    BY <1>0, <1>2, <1>14, <2>2 DEF Reached, N
  <2>4. AtUnit(t, comments, p, x + 1, w)
    BY <1>2, <1>8, <2>1, <2>3 DEF AtUnit
  <2> QED BY <1>8, <2>1, <2>4 DEF Scanned, Traced
<1>15. CASE c \notin Delimiters /\ d = 0 /\ ScalarByte(c)
  <2>1. w = [next EXCEPT !.scalar = TRUE]
    <3>1. ~(d > 0) /\ ~IsWs(c) /\ c # Quote /\ c \notin Opens /\ c \notin Closes
      BY <1>0, <1>6, <1>7, <1>15
    <3> QED BY <1>1, <1>15, <3>1
  <2>2. /\ w.out = "more" /\ o + w.pos = x + 1 /\ w.depth = 0
        /\ ~w.inString /\ ~w.escaped /\ w.scalar /\ w.comment = "No"
    BY <1>2, <1>8, <1>15, <2>1
  <2>3. \A j \in p .. x + 1 - 1 : ScalarByte(At(t, j))
    BY <1>0, <1>2, <1>15 DEF c
  <2>4. AtScalar(t, p, x + 1, w)
    BY <1>0, <1>2, <2>2, <2>3 DEF AtScalar
  <2> QED BY <2>2, <2>4 DEF Scanned, Traced
<1>16. CASE c \notin Delimiters /\ d = 0 /\ ~ScalarByte(c)
  <2>1. w = [u EXCEPT !.out = "UnexpectedCharacter"]
    BY <1>0, <1>1, <1>6, <1>7, <1>16
  <2>2. w.out = "UnexpectedCharacter" /\ o + w.pos = x
    BY <1>8, <2>1
  <2>3. v = Broken("UnexpectedCharacter", x)
    BY <1>2, <1>4, <1>6, <1>16 DEF ValueIs, c, N
  <2> QED BY <2>2, <2>3 DEF Scanned, v
<1> QED BY <1>0, <1>6, <1>9, <1>10, <1>11, <1>12, <1>13, <1>14, <1>15, <1>16

\* In a scalar, a byte on.
LEMMA ScalarArm ==
  ASSUME NEW t, NEW comments \in BOOLEAN, NEW p, Begins(t, comments, p), NEW mode,
         NEW o \in Nat, NEW i \in Nat, NEW n \in Nat, NEW u \in Searches(i, n), u.out = "more",
         NEW x, x = o + u.pos, x < Len(t), AtScalar(t, p, x, u),
         NEW w, w = NumberByte(u, At(t, x))
  PROVE  Scanned(t, comments, p, mode, o + w.pos, w)
<1> DEFINE N == Len(t)
           v == ValueAt(t, p, mode, comments)
<1>0. N \in Nat /\ x \in Nat /\ N = Len(t) /\ p \in Nat /\ x < N /\ p < N /\ p < x
  BY DEF Begins, Searches, AtScalar
<1>1. CASE ScalarByte(At(t, x))
  <2>1. /\ w.out = "more" /\ w.comment = u.comment /\ w.depth = u.depth /\ w.inString = u.inString
        /\ w.escaped = u.escaped /\ w.scalar = u.scalar /\ o + w.pos = x + 1
    BY <1>1 DEF Searches, NumberByte
  <2>2. \A j \in p .. x + 1 - 1 : ScalarByte(At(t, j))
    BY <1>0, <1>1 DEF AtScalar
  <2>3. AtScalar(t, p, x + 1, w)
    <3>1. w.scalar /\ ~w.inString /\ w.comment = "No" /\ ~w.escaped /\ w.depth = 0
      BY <2>1 DEF AtScalar
    <3>2. p < x + 1
      BY <1>0
    <3> QED BY <2>2, <3>1, <3>2 DEF AtScalar
  <2> QED BY <2>1, <2>3 DEF Scanned, Traced
<1>2. CASE ~ScalarByte(At(t, x))
  <2>1. w.out = "item" /\ o + w.pos = x
    BY <1>2 DEF Searches, NumberByte
  <2>2. ScalarEnd(t, p) = x
    <3>1. x \in p .. N /\ \A j \in p .. x - 1 : ScalarByte(At(t, j))
      BY <1>0 DEF AtScalar
    <3> HIDE DEF N
    <3> QED BY <1>0, <1>2, <3>1, ScalarEndFacts
  <2>3. ValueIs(t, comments, N, p, mode, v)
    BY <1>0, ValueFacts
  <2>4. ScalarByte(At(t, p))
    BY <1>0 DEF AtScalar
  <2> HIDE DEF v, N
  <2>5. v = Found(x)
    BY <1>0, <2>2, <2>3, <2>4 DEF ValueIs
  <2> QED BY <2>1, <2>5 DEF Scanned, v
<1> QED BY <1>1, <1>2

\* Outside, a slash (Comment::begin, and a buffer that stops on it).
LEMMA SlashArm ==
  ASSUME NEW t, NEW o, NEW data, Shown(t, o, data), NEW n \in Nat, n = Len(data),
         NEW p, Begins(t, TRUE, p), NEW mode,
         NEW i \in Nat, NEW u \in Searches(i, n), u.out = "more", u.pos < n,
         NEW x, x = o + u.pos, AtUnit(t, TRUE, p, x, u), At(data, u.pos) = "/",
         NEW b, b = Begin(data, u.pos)
  PROVE  /\ b # "No" =>
              Scanned(t, TRUE, p, mode, x + 2, [u EXCEPT !.comment = b, !.pos = @ + 2])
         /\ Scanned(t, TRUE, p, mode, x, [u EXCEPT !.out = "starved"])
<1>0. /\ x \in Nat /\ o \in Nat /\ u.pos \in 0 .. Len(data) - 1 /\ Len(t) \in Nat
      /\ At(t, x) = At(data, u.pos)
  <2>1. u.pos \in 0 .. Len(data) - 1
    BY DEF Searches
  <2> QED BY <2>1 DEF Shown
<1>1. ASSUME b # "No"
      PROVE  Scanned(t, TRUE, p, mode, x + 2, [u EXCEPT !.comment = b, !.pos = @ + 2])
  <2> DEFINE w == [u EXCEPT !.comment = b, !.pos = @ + 2]
  <2>1. /\ w.out = "more" /\ w.comment = b /\ w.depth = u.depth /\ w.inString = u.inString
        /\ w.escaped = u.escaped /\ w.scalar = u.scalar
    BY DEF Searches
  <2>2. Begin(t, x) = b
    <3>1. u.pos + 1 < Len(data)
      BY <1>1, BeginFacts
    <3> QED BY <1>0, <3>1, BeginShown
  <2>3. IsComment(t, x)
    BY <1>0, <1>1, <2>2 DEF IsComment
  <2>4. InComment(t, x, x + 2, b)
    BY <1>0, <2>2, <2>3, CommentOpens
  <2> HIDE DEF w
  <2>5. AtComment(t, TRUE, p, x + 2, w)
    BY <1>0, <1>1, <2>1, <2>4 DEF AtComment, AtUnit
  <2>6. Scanned(t, TRUE, p, mode, x + 2, w)
    BY <2>1, <2>5 DEF Scanned, Traced
  <2> QED BY <2>6 DEF w
<1>2. Scanned(t, TRUE, p, mode, x, [u EXCEPT !.out = "starved"])
  <2> DEFINE w == [u EXCEPT !.out = "starved"]
  <2>1. /\ w.out = "starved" /\ w.comment = u.comment /\ w.depth = u.depth /\ w.inString = u.inString
        /\ w.escaped = u.escaped /\ w.scalar = u.scalar
    BY DEF Searches
  <2> HIDE DEF w
  <2>2. AtUnit(t, TRUE, p, x, w)
    BY <2>1 DEF AtUnit
  <2>3. Scanned(t, TRUE, p, mode, x, w)
    BY <1>0, <2>1, <2>2 DEF Scanned, Traced, AtUnit
  <2> QED BY <2>3 DEF w
<1> QED BY <1>1, <1>2

\* Where the search over data, a part of t from o, stops.
Stopped(t, o, n, comments, p, mode, w) ==
  /\ Scanned(t, comments, p, mode, o + w.pos, w)
  /\ w.out = "starved" => w.pos = n - 1

\* A byte on, wherever it stands (Scanner::advance).
LEMMA ScanByteTrace ==
  ASSUME NEW t, NEW o, NEW data, Shown(t, o, data), NEW n \in Nat, n = Len(data),
         NEW comments \in BOOLEAN, NEW p, Begins(t, comments, p), NEW mode,
         NEW i \in Nat, NEW u \in Searches(i, n), u.out = "more", u.pos < n,
         Traced(t, comments, p, o + u.pos, u)
  PROVE  Stopped(t, o, n, comments, p, mode, ScanByte(u, data, comments))
<1> DEFINE x == o + u.pos
           c == At(data, u.pos)
           b == Begin(data, u.pos)
           w == ScanByte(u, data, comments)
           slash == ~u.inString /\ ~u.scalar /\ u.comment = "No" /\ comments /\ c = "/"
<1>0. /\ x \in Nat /\ o \in Nat /\ u.pos \in 0 .. n - 1 /\ Len(t) \in Nat
      /\ At(t, x) = c /\ x < Len(t) /\ x = o + u.pos
  <2>1. u.pos \in 0 .. Len(data) - 1
    BY DEF Searches
  <2> QED BY <2>1 DEF Shown
<1>1. /\ u.comment # "No" /\ ~u.inString /\ ~u.scalar => w = CommentByte(u, c)
      /\ u.comment = "No" /\ u.inString /\ ~u.scalar => w = StringByte(u, c)
      /\ u.comment = "No" /\ ~u.inString /\ u.scalar => w = NumberByte(u, c)
      /\ slash /\ b # "No" => w = [u EXCEPT !.comment = b, !.pos = @ + 2]
      /\ slash /\ b = "No" /\ u.pos + 1 >= n => w = [u EXCEPT !.out = "starved"]
      /\ slash /\ b = "No" /\ ~(u.pos + 1 >= n) => w = StructuralByte(u, c)
      /\ u.comment = "No" /\ ~u.inString /\ ~u.scalar /\ ~slash => w = StructuralByte(u, c)
  <2> DEFINE inComment == u.comment # "No"
             opens == slash /\ b # "No"
             ends == slash /\ u.pos + 1 >= n
             w1 == CommentByte(u, c)
             w2 == StringByte(u, c)
             w3 == NumberByte(u, c)
             w4 == [u EXCEPT !.comment = b, !.pos = @ + 2]
             w5 == [u EXCEPT !.out = "starved"]
             w6 == StructuralByte(u, c)
  <2>1. w = CASE inComment -> w1
              [] u.inString -> w2
              [] u.scalar -> w3
              [] opens -> w4
              [] ends -> w5
              [] OTHER -> w6
    BY DEF ScanByte, CommentByte, NumberByte
  <2>2. /\ slash => ~inComment /\ ~u.inString /\ ~u.scalar
        /\ opens <=> slash /\ b # "No"
        /\ ends <=> slash /\ u.pos + 1 >= n
        /\ inComment <=> u.comment # "No"
    OBVIOUS
  <2> HIDE DEF w, slash, inComment, opens, ends, w1, w2, w3, w4, w5, w6
  <2>3. u.inString \in BOOLEAN /\ u.scalar \in BOOLEAN /\ slash \in BOOLEAN
    BY DEF Searches, slash
  <2>4. /\ inComment /\ ~u.inString /\ ~u.scalar => w = w1
        /\ ~inComment /\ u.inString /\ ~u.scalar => w = w2
        /\ ~inComment /\ ~u.inString /\ u.scalar => w = w3
    BY <2>1, <2>2, <2>3
  <2>5. slash /\ b # "No" /\ ~ends => w = w4
    BY <2>1, <2>2, <2>3
  <2>6. slash /\ b = "No" /\ ends => w = w5
    BY <2>1, <2>2, <2>3
  <2>7. slash /\ b = "No" /\ ~ends => w = w6
    BY <2>1, <2>2, <2>3
  <2>8. ~inComment /\ ~u.inString /\ ~u.scalar /\ ~slash => w = w6
    BY <2>1, <2>2, <2>3
  <2>9. b # "No" => ~(u.pos + 1 >= n)
    <3>1. b # "No" => u.pos + 1 < n
      BY BeginFacts DEF b
    <3>2. u.pos \in Int
      BY <1>0
    <3> QED BY <3>1, <3>2
  <2> QED BY <2>2, <2>4, <2>5, <2>6, <2>7, <2>8, <2>9 DEF inComment, w1, w2, w3, w4, w5, w6
<1>2. \A v \in {StringByte(u, c), StructuralByte(u, c)} : v.out # "starved"
  <2>1. StringByte(u, c).out # "starved"
    BY DEF StringByte, Searches
  <2>2. StructuralByte(u, c).out # "starved"
    BY DEF StructuralByte, Searches
  <2> QED BY <2>1, <2>2
<1> HIDE DEF x, c, b, w, slash
<1>3. CASE AtComment(t, comments, p, x, u)
  <2>1. w = CommentByte(u, At(t, x))
    BY <1>0, <1>1, <1>3 DEF AtComment
  <2>2. Scanned(t, comments, p, mode, o + w.pos, w)
    BY <1>0, <1>3, <2>1, CommentArm
  <2>3. w.out # "starved"
    BY <2>1 DEF Searches, CommentByte, NumberByte
  <2> QED BY <2>2, <2>3 DEF Stopped, w
<1>4. CASE AtString(t, comments, p, x, u)
  <2>1. w = StringByte(u, At(t, x))
    BY <1>0, <1>1, <1>4 DEF AtString
  <2>2. Scanned(t, comments, p, mode, o + w.pos, w)
    BY <1>0, <1>4, <2>1, StringArm
  <2>3. w.out # "starved"
    BY <1>0, <1>2, <2>1
  <2> QED BY <2>2, <2>3 DEF Stopped, w
<1>5. CASE AtScalar(t, p, x, u)
  <2>1. w = NumberByte(u, At(t, x))
    BY <1>0, <1>1, <1>5 DEF AtScalar
  <2>2. Scanned(t, comments, p, mode, o + w.pos, w)
    BY <1>0, <1>5, <2>1, ScalarArm
  <2>3. w.out # "starved"
    BY <2>1 DEF Searches, CommentByte, NumberByte
  <2> QED BY <2>2, <2>3 DEF Stopped, w
<1>6. CASE AtUnit(t, comments, p, x, u)
  <2>1. ~u.scalar /\ ~u.inString /\ u.comment = "No"
    BY <1>6 DEF AtUnit
  <2>2. CASE slash /\ b # "No"
    <3>1. w = [u EXCEPT !.comment = b, !.pos = @ + 2] /\ comments = TRUE /\ c = "/"
      BY <1>1, <2>2 DEF slash
    <3>2. o + w.pos = x + 2 /\ w.out # "starved"
      BY <1>0, <3>1 DEF Searches
    <3>3. Scanned(t, comments, p, mode, x + 2, w)
      BY <1>0, <1>6, <2>2, <3>1, SlashArm DEF c, b
    <3> QED BY <3>2, <3>3 DEF Stopped, w
  <2>3. CASE slash /\ b = "No" /\ u.pos + 1 >= n
    <3>1. w = [u EXCEPT !.out = "starved"] /\ comments = TRUE /\ c = "/"
      BY <1>1, <2>3 DEF slash
    <3>2. o + w.pos = x /\ w.pos = n - 1
      BY <1>0, <2>3, <3>1 DEF Searches
    <3>3. Scanned(t, comments, p, mode, x, w)
      BY <1>0, <1>6, <3>1, SlashArm DEF c
    <3> QED BY <3>2, <3>3 DEF Stopped, w
  <2>4. CASE ~slash \/ (b = "No" /\ ~(u.pos + 1 >= n))
    <3>1. w = StructuralByte(u, At(t, x))
      BY <1>0, <1>1, <2>1, <2>4
    <3>2. ~(comments /\ At(t, x) = "/" /\ x = Len(t) - 1)
      <4>1. u.pos + 1 < n => x # Len(t) - 1
        BY <1>0 DEF Shown
      <4>2. u.pos + 1 < n <=> ~(u.pos + 1 >= n)
        BY <1>0
      <4> QED BY <1>0, <2>1, <2>4, <4>1, <4>2 DEF slash
    <3>3. ~(comments /\ IsComment(t, x))
      <4>1. u.pos + 1 < n => Begin(t, x) = b
        BY <1>0, BeginShown DEF b
      <4>2. u.pos + 1 < n <=> ~(u.pos + 1 >= n)
        BY <1>0
      <4> QED BY <1>0, <2>1, <2>4, <4>1, <4>2 DEF slash, IsComment
    <3>4. Scanned(t, comments, p, mode, o + w.pos, w)
      BY <1>0, <1>6, <3>1, <3>2, <3>3, StructuralArm
    <3>5. w.out # "starved"
      BY <1>0, <1>2, <3>1
    <3> QED BY <3>4, <3>5 DEF Stopped, w
  <2> QED
    <3>1. slash \in BOOLEAN
      BY DEF slash
    <3> QED BY <2>2, <2>3, <2>4
<1> QED BY <1>3, <1>4, <1>5, <1>6 DEF Traced, x

\* A search inside a value stays in a set that its steps do not leave, and stops
\* at the end of the buffer if it asks for more.
LEMMA AdvanceWithin ==
  ASSUME NEW data, NEW n \in Nat, n = Len(data), NEW comments \in BOOLEAN,
         NEW scan \in Scans, scan.pos <= n, NEW X, X \subseteq Searches(scan.pos, n),
         Searching(scan) \in X,
         \A u \in X : u.out = "more" /\ u.pos < n => ScanByte(u, data, comments) \in X
  PROVE  \E s \in X : /\ Advance(scan, data, comments) = [scan |-> Kept(s), out |-> s.out]
                      /\ s.out = "more" => s.pos = n
<1> DEFINE i == scan.pos
           first == Searching(scan)
           Step(u) == IF u.out = "more" /\ u.pos < n THEN ScanByte(u, data, comments) ELSE u
           F == [k \in 1 .. n |-> [u \in X |-> Step(u)]]
           G(h) == [k \in 0 .. n |-> IF k = 0 THEN first ELSE Step(h[k - 1])]
           run == CHOOSE h : h = G(h)
<1>1. Advance(scan, data, comments) = [scan |-> Kept(run[n]), out |-> run[n].out]
  BY DEF Advance, Scan
<1>2. first \in X /\ \A u \in X : Step(u) \in X
  OBVIOUS
<1>3. i \in Nat /\ i <= n
  BY DEF Scans
<1>4. ASSUME NEW u \in X
      PROVE  /\ u.pos \in i .. n
             /\ Step(u).pos \in i .. n
             /\ Step(u).out = "more" => u.out = "more" /\ (u.pos < n => Step(u).pos > u.pos)
                                                     /\ (u.pos = n => Step(u).pos = n)
  <2>1. u \in Searches(i, n) /\ u.pos \in i .. n
    BY DEF Searches
  <2>2. CASE u.out = "more" /\ u.pos < n
    <3>1. Onward(ScanByte(u, data, comments), u, i, n)
      <4> HIDE DEF i
      <4> QED BY <1>3, <2>1, <2>2, ScanByteFacts
    <3>2. Step(u) = ScanByte(u, data, comments) /\ u.pos # n
      BY <1>3, <2>1, <2>2
    <3> HIDE DEF Step
    <3> QED BY <2>1, <2>2, <3>1, <3>2 DEF Onward, Searches
  <2>3. CASE ~(u.out = "more" /\ u.pos < n)
    <3>1. Step(u) = u
      BY <2>3
    <3> HIDE DEF Step
    <3> QED BY <2>1, <2>3, <3>1
  <2> QED BY <2>2, <2>3
<1>5. run = CHOOSE h : h = G(h)
  OBVIOUS
<1> HIDE DEF first, Step, run, i
<1>6. \E h : h = G(h)
  <2>1. F \in [1 .. n -> [X -> X]]
    BY <1>2
  <2>2. \A k \in 1 .. n : \A u \in X : F[k][u] = Step(u)
    OBVIOUS
  <2> HIDE DEF F
  <2>3. PICK g : IsRun(g, X, first, n, F)
    BY <1>2, <2>1, RunExists
  <2>4. ASSUME NEW k \in 1 .. n
        PROVE  g[k] = Step(g[k - 1])
    <3>1. k - 1 \in 0 .. n
      OBVIOUS
    <3> QED BY <2>2, <2>3, <3>1 DEF IsRun
  <2>5. \A k \in 0 .. n : k # 0 => k \in 1 .. n
    OBVIOUS
  <2>6. g = G(g)
    BY <2>3, <2>4, <2>5 DEF IsRun
  <2> QED BY <2>6
<1>7. run = G(run)
  BY <1>5, <1>6
<1>8. run[0] = first /\ \A k \in 1 .. n : run[k] = Step(run[k - 1])
  <2>1. \A k \in 0 .. n : run[k] = IF k = 0 THEN first ELSE Step(run[k - 1])
    BY <1>7
  <2>2. 0 \in 0 .. n /\ \A k \in 1 .. n : k \in 0 .. n /\ k # 0
    OBVIOUS
  <2> HIDE DEF G
  <2> QED BY <2>1, <2>2
<1> DEFINE S == {k \in 0 .. n : run[k] \in X /\ (run[k].out = "more" => run[k].pos >= k)}
<1>9. 0 \in S
  BY <1>2, <1>3, <1>4, <1>8
<1>10. ASSUME NEW k \in 1 .. n, k - 1 \in S
       PROVE  k \in S
  <2> DEFINE u == run[k - 1]
  <2>1. u \in X /\ (u.out = "more" => u.pos >= k - 1) /\ run[k] = Step(u) /\ k \in 0 .. n
    BY <1>8, <1>10
  <2>2. /\ u.pos \in i .. n /\ Step(u).pos \in i .. n
        /\ Step(u).out = "more" => u.out = "more" /\ (u.pos < n => Step(u).pos > u.pos)
                                                  /\ (u.pos = n => Step(u).pos = n)
    BY <1>4, <2>1
  <2>3. Step(u) \in X
    BY <1>2, <2>1
  <2> HIDE DEF u
  <2>4. Step(u).out = "more" => Step(u).pos >= k
    BY <1>3, <2>1, <2>2
  <2> QED BY <2>1, <2>3, <2>4
<1>11. n \in S
  <2> HIDE DEF S
  <2>1. 0 .. n \subseteq S
    BY <1>9, <1>10, UpToInduction
  <2> QED BY <2>1
<1>12. run[n] \in X /\ (run[n].out = "more" => run[n].pos = n)
  <2>1. run[n].pos \in i .. n
    BY <1>4, <1>11
  <2> QED BY <1>3, <1>11, <2>1
<1> QED BY <1>1, <1>12

\* What the search inside the value at p came to, over data of n bytes from o.
Advanced(t, o, n, comments, p, mode, r) ==
  /\ r.out \in {"more", "starved"} => Traced(t, comments, p, o + r.scan.pos, r.scan)
  /\ r.out = "item" => ValueAt(t, p, mode, comments) = Found(o + r.scan.pos)
  /\ r.out \in {"UnexpectedCharacter", "ExceededMaxDepth"} =>
       ValueAt(t, p, mode, comments) = Broken(r.out, o + r.scan.pos)
  /\ r.out = "more" => r.scan.pos = n
  /\ r.out = "starved" =>
       /\ r.scan.pos = n - 1 /\ comments /\ At(t, o + n - 1) = "/"
       /\ ~r.scan.inString /\ ~r.scan.scalar /\ r.scan.comment = "No"

\* Where a search stands is told by the fields that are kept of it.
LEMMA SameTrace ==
  ASSUME NEW t, NEW comments, NEW p, NEW x, NEW u, NEW v, Traced(t, comments, p, x, u),
         v.depth = u.depth, v.inString = u.inString, v.escaped = u.escaped,
         v.scalar = u.scalar, v.comment = u.comment
  PROVE  Traced(t, comments, p, x, v)
<1>1. AtUnit(t, comments, p, x, u) => AtUnit(t, comments, p, x, v)
  BY DEF AtUnit
<1>2. AtString(t, comments, p, x, u) => AtString(t, comments, p, x, v)
  BY DEF AtString
<1>3. AtComment(t, comments, p, x, u) => AtComment(t, comments, p, x, v)
  BY DEF AtComment
<1>4. AtScalar(t, p, x, u) => AtScalar(t, p, x, v)
  BY DEF AtScalar
<1> QED BY <1>1, <1>2, <1>3, <1>4 DEF Traced

\* The search inside the value at p finds what the reference says, or stands
\* for it at the end of the buffer (Scanner::advance).
LEMMA AdvanceTrace ==
  ASSUME NEW t, NEW o, NEW data, Shown(t, o, data), NEW n \in Nat, n = Len(data),
         NEW comments \in BOOLEAN, NEW p, Begins(t, comments, p), NEW mode,
         NEW scan \in Scans, scan.pos <= n, Traced(t, comments, p, o + scan.pos, scan)
  PROVE  Advanced(t, o, n, comments, p, mode, Advance(scan, data, comments))
<1> DEFINE i == scan.pos
           X == {u \in Searches(i, n) : Stopped(t, o, n, comments, p, mode, u)}
           first == Searching(scan)
           r == Advance(scan, data, comments)
<1>0. i \in Nat /\ i <= n /\ o \in Nat
  BY DEF Scans, Shown
<1>1. first \in X
  <2>1. first \in Searches(i, n)
    <3>1. "more" \in Outs /\ i \in i .. n
      BY <1>0 DEF Outs
    <3> QED BY <3>1 DEF Searches, Searching, Scans
  <2>2. /\ first.out = "more" /\ first.pos = i /\ first.depth = scan.depth
        /\ first.inString = scan.inString /\ first.escaped = scan.escaped
        /\ first.scalar = scan.scalar /\ first.comment = scan.comment
    BY DEF Searching
  <2> HIDE DEF first, i
  <2>3. Traced(t, comments, p, o + i, first)
    BY <2>2, SameTrace DEF i
  <2>4. Stopped(t, o, n, comments, p, mode, first)
    BY <2>2, <2>3 DEF Stopped, Scanned
  <2> QED BY <2>1, <2>4
<1>2. ASSUME NEW u \in X, u.out = "more", u.pos < n
      PROVE  ScanByte(u, data, comments) \in X
  <2>1. u \in Searches(i, n) /\ Traced(t, comments, p, o + u.pos, u)
    BY <1>2 DEF Stopped, Scanned
  <2> HIDE DEF i
  <2>2. Stopped(t, o, n, comments, p, mode, ScanByte(u, data, comments))
    BY <1>0, <1>2, <2>1, ScanByteTrace
  <2>3. Onward(ScanByte(u, data, comments), u, i, n)
    BY <1>0, <1>2, <2>1, ScanByteFacts
  <2> QED BY <2>2, <2>3 DEF Onward
<1>3. PICK s \in X : r = [scan |-> Kept(s), out |-> s.out] /\ (s.out = "more" => s.pos = n)
  <2>1. X \subseteq Searches(scan.pos, n)
    OBVIOUS
  <2> HIDE DEF X
  <2> QED BY <1>0, <1>1, <1>2, <2>1, AdvanceWithin
<1>4. s \in Searches(i, n) /\ Stopped(t, o, n, comments, p, mode, s)
  OBVIOUS
<1>5. /\ r.out = s.out /\ r.scan.pos = s.pos /\ r.scan.depth = s.depth
      /\ r.scan.inString = s.inString /\ r.scan.escaped = s.escaped
      /\ r.scan.scalar = s.scalar /\ r.scan.comment = s.comment
  BY <1>3 DEF Kept
<1> DEFINE q == r.scan
<1> HIDE DEF X, r, first, i, q
<1>6. Traced(t, comments, p, o + s.pos, s) => Traced(t, comments, p, o + q.pos, q)
  <2>1. /\ q.depth = s.depth /\ q.inString = s.inString /\ q.escaped = s.escaped
        /\ q.scalar = s.scalar /\ q.comment = s.comment /\ q.pos = s.pos
    BY <1>5 DEF q
  <2> QED BY <2>1, SameTrace
<1>7. s.out = "starved" => o + s.pos = o + n - 1
  BY <1>0, <1>4 DEF Stopped
<1> QED BY <1>3, <1>4, <1>5, <1>6, <1>7 DEF Advanced, Stopped, Scanned, q, r

\* Where the stream ends inside a value, the reference says what at_eof does.
LEMMA TracedOver ==
  ASSUME NEW t, NEW n \in Nat, n = Len(t), NEW comments \in BOOLEAN, NEW p, Begins(t, comments, p),
         NEW mode \in {"Values", "Array"}, NEW u, Traced(t, comments, p, n, u)
  PROVE  ValueAt(t, p, mode, comments) =
           IF u.scalar /\ mode = "Values" THEN Found(n) ELSE Broken("UnexpectedEnd", n)
<1> DEFINE v == ValueAt(t, p, mode, comments)
           d == u.depth
           w == Walk(t, comments)
<1>0. p \in Nat /\ p < n /\ MaxDepth \in Nat
  BY MaxDepthAssumption DEF Begins
<1>1. ValueIs(t, comments, n, p, mode, v)
  BY <1>0, ValueFacts
<1>2. \A j \in {n, n + 1} : \A e \in 0 .. MaxDepth : w[j][e] = Broken("UnexpectedEnd", n)
  <2>1. ASSUME NEW j \in {n, n + 1}, NEW e \in 0 .. MaxDepth
        PROVE  w[j][e] = Broken("UnexpectedEnd", n)
    <3>1. j \in 0 .. n + 1 /\ j >= n
      OBVIOUS
    <3>2. WalkDoes(t, comments, n, w, j, e, w[j][e])
      BY <3>1, WalkFacts
    <3> QED BY <3>1, <3>2 DEF WalkDoes
  <2> QED BY <2>1
<1> HIDE DEF v, d, w
<1>3. CASE AtUnit(t, comments, p, n, u)
  <2>1. Reached(t, comments, p, n, d) /\ ~u.scalar
    BY <1>3 DEF AtUnit, d
  <2>2. d # 0 /\ d \in 0 .. MaxDepth
    BY <1>0, <2>1 DEF Reached
  <2>3. v = w[n][d]
    BY <2>1, <2>2, ReachedValue DEF v, w
  <2> QED BY <1>2, <2>1, <2>2, <2>3 DEF v
<1>4. CASE AtString(t, comments, p, n, u)
  <2>1. PICK q \in Nat : /\ Reached(t, comments, p, q, d) /\ q < n /\ At(t, q) = Quote
                         /\ InString(t, q, n, u.escaped)
    BY <1>4 DEF AtString, d
  <2>2. StringEnd(t, q) = n + 1 /\ ~u.scalar
    BY <1>4, <2>1, StringOver DEF AtString
  <2>3. CASE d = 0
    <3>1. v = Runs(t, n + 1)
      BY <1>1, <2>1, <2>2, <2>3 DEF ValueIs, Reached
    <3> QED BY <2>2, <3>1 DEF v, Runs, Never
  <2>4. CASE d # 0
    <3>1. d \in 0 .. MaxDepth /\ q \in 0 .. n + 1
      BY <2>1 DEF Reached
    <3>2. v = w[q][d]
      BY <2>1, <2>4, ReachedValue DEF v, w
    <3>3. WalkDoes(t, comments, n, w, q, d, w[q][d])
      BY <3>1, WalkFacts DEF w
    <3>4. w[q][d] = w[n + 1][d]
      BY <2>1, <2>2, <3>3 DEF WalkDoes
    <3> QED BY <1>2, <2>2, <3>1, <3>2, <3>4 DEF v
  <2> QED BY <2>3, <2>4
<1>5. CASE AtComment(t, comments, p, n, u)
  <2>1. PICK q \in Nat : Reached(t, comments, p, q, d) /\ InComment(t, q, n, u.comment)
    BY <1>5 DEF AtComment, d
  <2>2. CommentEnd(t, q) \in {n, n + 1} /\ ~u.scalar /\ comments
    BY <1>5, <2>1, CommentOver DEF AtComment
  <2>3. IsComment(t, q) /\ q < n
    BY <2>1 DEF InComment
  <2>4. d # 0 /\ d \in 0 .. MaxDepth /\ q \in 0 .. n + 1
    BY <1>0, <2>1, <2>2, <2>3 DEF Reached, Begins
  <2>5. v = w[q][d]
    BY <2>1, <2>4, ReachedValue DEF v, w
  <2>6. WalkDoes(t, comments, n, w, q, d, w[q][d])
    BY <2>4, WalkFacts DEF w
  <2>7. w[q][d] = w[CommentEnd(t, q)][d]
    BY <2>2, <2>3, <2>6 DEF WalkDoes
  <2> QED BY <1>2, <2>2, <2>4, <2>5, <2>7 DEF v
<1>6. CASE AtScalar(t, p, n, u)
  <2>1. u.scalar /\ ScalarByte(At(t, p))
    BY <1>0, <1>6 DEF AtScalar
  <2>2. ScalarEnd(t, p) = n
    <3>1. n \in p .. n /\ \A j \in p .. n - 1 : ScalarByte(At(t, j))
      BY <1>0, <1>6 DEF AtScalar
    <3> QED BY <1>0, <3>1, ScalarEndFacts
  <2>3. v = IF n = n /\ mode = "Array" THEN Broken("UnexpectedEnd", n) ELSE Found(n)
    BY <1>1, <2>1, <2>2 DEF ValueIs
  <2> QED BY <2>1, <2>3 DEF v
<1> QED BY <1>3, <1>4, <1>5, <1>6 DEF Traced

\* The stream ends on a slash that may open a comment.
EndsOnSlash(t, comments, n) == comments /\ At(t, n - 1) = "/"

\* So it does where the stream ends on a slash inside a value.
LEMMA StarvedOver ==
  ASSUME NEW t, NEW n \in Nat, n = Len(t), NEW comments \in BOOLEAN, EndsOnSlash(t, comments, n),
         NEW p, Begins(t, comments, p), NEW mode,
         NEW u, ~u.inString, ~u.scalar, u.comment = "No",
         Traced(t, comments, p, n - 1, u)
  PROVE  ValueAt(t, p, mode, comments) = Broken("UnexpectedEnd", n - 1)
<1> DEFINE d == u.depth
           w == Walk(t, comments)
           v == ValueAt(t, p, mode, comments)
           x == n - 1
<1>0. p \in Nat /\ p < n /\ MaxDepth \in Nat /\ x \in 0 .. n + 1
  BY MaxDepthAssumption DEF Begins
<1>7. x = n - 1
  OBVIOUS
<1>1. Reached(t, comments, p, x, d)
  BY DEF Traced, AtString, AtComment, AtScalar, AtUnit
<1>2. ValueIs(t, comments, n, p, mode, v)
  BY <1>0, ValueFacts
<1> HIDE DEF d, w, v, x
<1>3. CASE d = 0
  <2>1. x = p
    BY <1>1, <1>3 DEF Reached
  <2> QED BY <1>2, <1>7, <2>1 DEF ValueIs, v, x, EndsOnSlash
<1>4. CASE d # 0
  <2>1. d \in 0 .. MaxDepth
    BY <1>1 DEF Reached
  <2>2. v = w[x][d]
    BY <1>0, <1>1, <1>4, ReachedValue DEF v, w
  <2>3. WalkDoes(t, comments, n, w, x, d, w[x][d])
    BY <1>0, <2>1, WalkFacts DEF w
  <2>4. w[x][d] = Broken("UnexpectedEnd", x)
    BY <1>0, <1>7, <2>3 DEF WalkDoes, EndsOnSlash, x
  <2> QED BY <1>7, <2>2, <2>4 DEF v, x
<1> QED BY <1>3, <1>4, <1>7

-----------------------------------------------------------------------------
(* Where the splitter stands in the whole stream.                          *)

Stage == [state \in States \ {"InItem"} |->
  CASE state = "BeforeOpen" -> "open"
    [] state = "FirstItem"  -> "first"
    [] state = "BeforeItem" -> "item"
    [] state = "AfterItem"  -> "after"
    [] state = "Done"       -> "done"]

\* The stage of the reference each state between values stands for.
LEMMA StageIs ==
  /\ Stage["BeforeOpen"] = "open" /\ Stage["FirstItem"] = "first"
  /\ Stage["BeforeItem"] = "item" /\ Stage["AfterItem"] = "after" /\ Stage["Done"] = "done"
BY DEF Stage, States

\* Between values: it has come through the gap at g, where the rest is r.
Between(t, o, s, r) ==
  /\ s.state \in States \ {"InItem"}
  /\ s.mode = "Values" => s.state = "BeforeItem"
  /\ s.scan.pos <= s.cursor
  /\ \E g \in 0 .. Len(t) :
       /\ g <= o + s.cursor
       /\ r = RestAt(t, s.mode, s.comments, g, Stage[s.state])
       /\ Skipped(t, s.comments, g, o + s.cursor, s.comment)

\* Inside a value: its search is on the way through it.
Inside(t, o, s, r) ==
  /\ s.state = "InItem" /\ s.comment = "No"
  /\ Begins(t, s.comments, o + s.cursor)
  /\ Traced(t, s.comments, o + s.cursor, o + s.scan.pos, s.scan)
  /\ r = OfValue(t, s.mode, s.comments, o + s.cursor)

\* At a line, of which the part up to the probe has no end.
OnLine(t, o, s, r) ==
  /\ s.mode = "Lines"
  /\ r = Behind(Lines(t, s.comments)[o + s.cursor], Stops("none", Len(t), -1))
  /\ \A j \in s.cursor .. s.probe - 1 : At(t, o + j) # Newline

\* The splitter s, at offset o of t, has r still to find.
Standing(t, o, s, r) ==
  /\ r \in Rests
  /\ IF s.mode = "Lines" THEN OnLine(t, o, s, r)
     ELSE Between(t, o, s, r) \/ Inside(t, o, s, r)

\* A value that only the end of the stream finishes.
OnlyAtEnd(t, mode, v) ==
  IF mode = "Lines" THEN \A i \in v[1] .. Len(t) - 1 : At(t, i) # Newline
  ELSE v[2] = Len(t) /\ ScalarByte(At(t, v[1]))

\* A value that is awaited when the stream is over is the one that is left, up
\* to its end, or one the stream stops inside; there may be a lone byte that is
\* none.
Held(t, o, n, mode, r, y) ==
  y.out.kind = "need" /\ Len(t) = o + n /\ mode # "Lines" =>
    \/ n - y.out.start <= 1
    \/ r.open = o + y.out.start
    \/ r.items = <<<<o + y.out.start, Len(t)>>>>

\* The answer y, over n bytes from o, follows what was still to find.
Followed(t, o, n, mode, r, y) ==
  /\ y.out.kind \in {"again", "need", "end"} => Standing(t, o, y.sp, r)
  /\ y.out.kind = "need" /\ Len(t) = o + n =>
       \A k \in 1 .. Len(r.items) : OnlyAtEnd(t, mode, r.items[k])
  /\ Held(t, o, n, mode, r, y)
  /\ y.out.kind = "item" =>
       /\ Ahead(r, o + y.out.start)
       /\ \E rest \in Rests : /\ r = Behind(<<<<o + y.out.start, o + y.out.end>>>>, rest)
                              /\ Standing(t, o, y.sp, rest)
  /\ y.out.kind = "end" => r.items = <<>> /\ r.code = "none"
  /\ y.out.kind = "fail" => /\ r.items = <<>> /\ r.code = y.out.code
                            /\ IF r.loose THEN r.at <= o + y.out.start ELSE r.at = o + y.out.start

\* The splitter s, asked about data, stands in the stream t and is to find r.
Asked(t, o, data, n, ended, s, r) ==
  /\ Shown(t, o, data) /\ n = Len(data) /\ n \in Nat /\ ended \in BOOLEAN
  /\ ended => o + n = Len(t)
  /\ Ready(s, n)
  /\ Standing(t, o, s, r)

-----------------------------------------------------------------------------
(* Between values.                                                         *)

\* The offset where a gap ends is not in white space or a comment.
LEMMA GapOver ==
  ASSUME NEW t, NEW n \in Nat, n = Len(t), NEW comments \in BOOLEAN, NEW g \in Nat, g < n,
         Gap(t, g, comments) = g
  PROVE  Begins(t, comments, g)
<1>1. g \in 0 .. n + 1 /\ g + 1 \in 0 .. n + 1
  OBVIOUS
<1>2. ~IsWs(At(t, g))
  <2> SUFFICES ASSUME IsWs(At(t, g)) PROVE FALSE
    OBVIOUS
  <2>1. Gap(t, g, comments) = Gap(t, g + 1, comments)
    BY <1>1, GapFacts
  <2>2. Gap(t, g + 1, comments) \in g + 1 .. n + 1
    BY <1>1, GapFacts
  <2> QED BY <2>1, <2>2
<1>3. ~(comments /\ IsComment(t, g))
  <2> DEFINE e == CommentEnd(t, g)
             h == Gap(t, e, comments)
             in == comments /\ IsComment(t, g)
  <2>1. in => g = h
    BY <1>1, GapFacts
  <2>2. in => e \in g + 2 .. n + 1
    BY CommentEndFacts DEF Never
  <2>3. e \in 0 .. n + 1 => h \in e .. n + 1
    BY GapFacts
  <2> HIDE DEF e, h, in
  <2>4. ~in
    BY <2>1, <2>2, <2>3
  <2> QED BY <2>4 DEF in
<1> QED BY <1>2, <1>3 DEF Begins

\* A comment ends no sooner than where the search stands in it.
LEMMA CommentReaches ==
  ASSUME NEW t, NEW n \in Nat, n = Len(t), NEW q \in Nat, NEW p \in Nat, p <= n, NEW comment,
         InComment(t, q, p, comment)
  PROVE  CommentEnd(t, q) >= p
<1> DEFINE L == {j \in q + 2 .. n - 1 : At(t, j) = Newline}
           K == {k \in q + 2 .. n - 2 : At(t, k) = "*" /\ At(t, k + 1) = "/"}
           B == {j + 2 : j \in K}
<1>1. CommentEnd(t, q) = IF At(t, q + 1) = "/" THEN First(L, n) ELSE First(B, n + 1)
  BY DEF CommentEnd, Never
<1>2. CASE At(t, q + 1) = "/"
  <2>1. \A j \in L : j >= p
    BY <1>2 DEF InComment
  <2>2. L \subseteq q + 2 .. n - 1 /\ q + 2 \in Nat /\ n - 1 \in Int
    OBVIOUS
  <2> HIDE DEF L
  <2>3. First(L, n) = n \/ First(L, n) \in L
    BY <2>2, FirstIsLeast, ZenonT(30)
  <2> QED BY <1>1, <1>2, <2>1, <2>3
<1>3. CASE At(t, q + 1) # "/"
  <2>1. \A j \in B : j >= p
    <3>1. \A j \in q + 2 .. p - 2 : ~(At(t, j) = "*" /\ At(t, j + 1) = "/")
      BY <1>3 DEF InComment
    <3>2. \A k \in K : k \in Nat /\ k > p - 2
      BY <3>1
    <3> QED BY <3>2
  <2>2. B \subseteq q + 4 .. n /\ q + 4 \in Nat /\ n \in Int
    OBVIOUS
  <2> HIDE DEF B
  <2>3. First(B, n + 1) = n + 1 \/ First(B, n + 1) \in B
    BY <2>2, FirstIsLeast
  <2> QED BY <1>1, <1>3, <2>1, <2>3
<1> QED BY <1>2, <1>3

\* A search that has come to p stands no further than where the gap ends.
LEMMA SkippedBehind ==
  ASSUME NEW t, NEW n \in Nat, n = Len(t), NEW comments \in BOOLEAN, NEW g,
         NEW p \in 0 .. n, NEW comment, Skipped(t, comments, g, p, comment)
  PROVE  Gap(t, g, comments) \in p .. n + 1
<1>1. CASE Gap(t, g, comments) = Gap(t, p, comments)
  BY <1>1, GapFacts
<1>2. CASE Gap(t, g, comments) # Gap(t, p, comments)
  <2>1. PICK q \in Nat : Gap(t, g, comments) = Gap(t, q, comments) /\ InComment(t, q, p, comment)
    BY <1>2 DEF Skipped
  <2>2. comments
    BY <1>2 DEF Skipped
  <2> DEFINE e == CommentEnd(t, q)
  <2>3. IsComment(t, q) /\ q + 2 <= p /\ e \in q + 2 .. n + 1 /\ q < n
    BY <2>1, CommentEndFacts DEF InComment, Never
  <2>4. e >= p
    BY <2>1, CommentReaches DEF e
  <2> HIDE DEF e
  <2>5. Gap(t, q, comments) = Gap(t, e, comments)
    <3>1. q \in 0 .. n + 1
      BY <2>3
    <3> QED BY <2>2, <2>3, <3>1, GapFacts DEF e
  <2>6. Gap(t, e, comments) \in e .. n + 1
    <3>1. e \in 0 .. n + 1
      BY <2>3
    <3> QED BY <3>1, GapFacts
  <2> QED BY <2>1, <2>3, <2>4, <2>5, <2>6
<1> QED BY <1>1, <1>2

\* At p, past a gap, r is what the reference says of the byte there.
Landed(t, s, p, r) ==
  /\ Begins(t, s.comments, p)
  /\ \E i \in Nat : RestDoes(t, s.mode, s.comments, Len(t), i, Stage[s.state], p, r)

\* The stream's values are over: between them, or in a comment that never closes.
Over(t, o, n, s, comment, r) ==
  /\ r.items = <<>>
  /\ comment \in {"Block", "BlockStar"} =>
       r.loose /\ r.code = "UnexpectedEnd" /\ r.at <= o + s.cursor
  /\ comment \notin {"Block", "BlockStar"} =>
       /\ ~r.loose /\ r.at = o + n
       /\ r.code = IF s.mode = "Values" \/ Stage[s.state] \in {"open", "done"} THEN "none"
                                                                            ELSE "UnexpectedEnd"

\* What is left where the stream stops on a slash has no value in it.
LEMMA SlashOver ==
  ASSUME NEW t, NEW n \in Nat, n = Len(t), NEW comments \in BOOLEAN, EndsOnSlash(t, comments, n),
         NEW mode \in {"Values", "Array"}, NEW i \in Nat, NEW st \in Stages, NEW r,
         0 < n, RestDoes(t, mode, comments, n, i, st, n - 1, r)
  PROVE  r.items = <<>>
<1> DEFINE p == n - 1
           v == ValueAt(t, p, mode, comments)
<1>0. p \in Nat /\ p < n /\ p = n - 1
  OBVIOUS
<1>1. ValueIs(t, comments, n, p, mode, v) /\ v \in Spans
  BY <1>0, ValueFacts
<1>2. v = Broken("UnexpectedEnd", p)
  BY <1>0, <1>1 DEF ValueIs, EndsOnSlash
<1>3. At(t, p) = "/"
  BY DEF EndsOnSlash
<1>4. OfValue(t, mode, comments, p).items = <<>>
  <2>1. v.code = "UnexpectedEnd"
    BY <1>2 DEF Broken
  <2>2. OfValue(t, mode, comments, p) = Stops("UnexpectedEnd", v.end, p)
    <3>1. OfValue(t, mode, comments, p) = FromValue(v, p, RestAt(t, mode, comments, v.end, "after"))
      BY DEF OfValue
    <3> HIDE DEF v
    <3> QED BY <2>1, <3>1 DEF FromValue
  <2> QED BY <2>2 DEF Stops
<1> HIDE DEF v, p
<1>5. \/ r = OfValue(t, mode, comments, p)
      \/ \E code : r = Stops(code, p, -1)
  <2>1. At(t, p) # Bracket /\ At(t, p) # Unbracket /\ At(t, p) # Comma
    BY <1>3 DEF Bracket, Unbracket, Comma
  <2>2. RestDoes(t, mode, comments, n, i, st, p, r)
    BY DEF p
  <2> QED BY <1>0, <2>1, <2>2 DEF RestDoes, Expects, Stages
<1> QED BY <1>4, <1>5 DEF Stops

\* What the search x over white space, at here, comes to.
Passes(t, o, n, ended, s, r, x, here) ==
  /\ Between(t, o, here, r)
  /\ x.out = "byte" => x.comment = "No" /\ Landed(t, s, o + x.pos, r)
  /\ x.out # "byte" /\ o + n = Len(t) => r.items = <<>>
  /\ x.out # "byte" /\ ended => Over(t, o, n, s, x.comment, r)
  /\ x.out = "starved" => x.pos = n - 1

\* Over white space: what it comes to, wherever it stops (skip_ws).
LEMMA PassTrace ==
  ASSUME NEW t, NEW o, NEW data, NEW n, NEW ended, NEW s, NEW r, Asked(t, o, data, n, ended, s, r),
         s.mode # "Lines", s.state # "InItem",
         NEW x, x = SkipFrom(data, s.cursor, s.comment, ended, s.comments),
         NEW here, here = [s EXCEPT !.cursor = x.pos, !.comment = x.comment]
  PROVE  Passes(t, o, n, ended, s, r, x, here)
<1> DEFINE N == Len(t)
           cm == s.comments
           st == Stage[s.state]
           md == s.mode
           c == s.cursor
<1>0. /\ N = Len(t) /\ N \in Nat /\ n \in Nat /\ n = Len(data) /\ o \in Nat /\ o + n <= N
      /\ Shown(t, o, data) /\ ended \in BOOLEAN /\ (ended => o + n = N)
  BY DEF Asked, Shown
<1>1. /\ s \in Splitters /\ cm \in BOOLEAN /\ md \in {"Values", "Array"} /\ c \in 0 .. n /\ c <= n
      /\ s.comment \in Comments /\ s.state \in States \ {"InItem"} /\ s.scan.pos \in Nat
  BY <1>0 DEF Asked, Ready, Splitters, Scans, Modes
<1>2. st \in Stages
  <2>1. \A state \in States \ {"InItem"} : Stage[state] \in Stages
    BY DEF Stage, States, Stages
  <2> QED BY <1>1, <2>1
<1>3. Between(t, o, s, r)
  BY DEF Asked, Standing, Inside
<1>4. PICK g \in 0 .. N : /\ g <= o + c /\ r = RestAt(t, md, cm, g, st)
                          /\ Skipped(t, cm, g, o + c, s.comment)
  BY <1>3 DEF Between
<1>5. /\ here.cursor = x.pos /\ here.comment = x.comment /\ here.state = s.state /\ here.mode = md
      /\ here.comments = cm /\ here.scan = s.scan
  BY <1>1 DEF Splitters
<1>6. s.scan.pos <= c /\ (md = "Values" => s.state = "BeforeItem")
  BY <1>3 DEF Between
<1> HIDE DEF N, cm, st, md, c
<1>7. /\ x.pos \in c .. n /\ x.comment \in Comments /\ x.out \in {"more", "starved", "byte"}
      /\ x.out = "starved" => ~ended
      /\ x.out = "byte" => x.pos < n
      /\ x.out = "more" => x.pos = n
  <2>1. x = SkipFrom(data, c, s.comment, ended, cm)
    BY DEF c, cm
  <2>2. Skipping(x, c, n, ended) /\ (x.out = "more" => x.pos = n)
    BY <1>0, <1>1, <2>1, SkipFacts
  <2> QED BY <2>2 DEF Skipping, Skips
<1>8. /\ Skipped(t, cm, g, o + x.pos, x.comment)
      /\ x.out = "byte" => x.comment = "No" /\ Gap(t, g, cm) = o + x.pos
      /\ x.out = "starved" =>
           cm /\ x.comment = "No" /\ x.pos = n - 1 /\ At(data, x.pos) = "/"
  <2>1. Searched(t, o, data, n, ended, cm)
    <3>1. ended => Begin(t, o + n - 1) = "No"
      BY <1>0 DEF Begin
    <3> QED BY <1>0, <1>1, <3>1 DEF Searched
  <2>2. x = SkipFrom(data, c, s.comment, ended, cm)
    BY DEF c, cm
  <2> QED BY <1>0, <1>1, <1>4, <2>1, <2>2, SkipTrace
<1>9. RestDoes(t, md, cm, N, g, st, Gap(t, g, cm), r)
  BY <1>0, <1>1, <1>2, <1>4, RestFacts
<1>10. g \in Nat /\ g <= o + x.pos
  BY <1>0, <1>1, <1>4, <1>7
<1>11. Between(t, o, here, r)
  <2>1. s.scan.pos <= x.pos
    BY <1>1, <1>6, <1>7
  <2> QED BY <1>1, <1>4, <1>5, <1>6, <1>8, <1>10, <2>1 DEF Between, st, N
<1>12. x.out = "byte" => x.comment = "No" /\ Landed(t, s, o + x.pos, r)
  <2> SUFFICES ASSUME x.out = "byte" PROVE x.comment = "No" /\ Landed(t, s, o + x.pos, r)
    OBVIOUS
  <2> DEFINE p == o + x.pos
  <2>1. p \in Nat /\ p < N /\ p \in 0 .. N + 1
    <3> DEFINE q == x.pos
    <3>1. q \in c .. n /\ q < n /\ c \in 0 .. n /\ n \in Nat /\ o \in Nat /\ N \in Nat /\ o + n <= N
      BY <1>0, <1>1, <1>7
    <3> HIDE DEF q
    <3>2. o + q \in Nat /\ o + q < N /\ o + q \in 0 .. N + 1
      BY ONLY <3>1
    <3> QED BY <3>2 DEF q
  <2>2. x.comment = "No" /\ Gap(t, g, cm) = p /\ Skipped(t, cm, g, p, "No")
    BY <1>8
  <2> HIDE DEF p
  <2>3. Gap(t, p, cm) = p
    <3>1. Gap(t, g, cm) = Gap(t, p, cm)
      BY <2>2 DEF Skipped, InComment
    <3> QED BY <2>2, <3>1, Zenon
  <2>4. Begins(t, cm, p)
    BY <1>0, <1>1, <2>1, <2>3, GapOver
  <2> QED BY <1>9, <1>10, <2>2, <2>4 DEF Landed, p, N, cm, st, md
<1>13. x.out = "more" /\ o + n = N => r.items = <<>> /\ Over(t, o, n, s, x.comment, r)
  <2> SUFFICES ASSUME x.out = "more", o + n = N
               PROVE  r.items = <<>> /\ Over(t, o, n, s, x.comment, r)
    OBVIOUS
  <2>1. Skipped(t, cm, g, N, x.comment)
    BY <1>7, <1>8
  <2>2. Gap(t, g, cm) = IF x.comment \in {"Block", "BlockStar"} THEN N + 1 ELSE N
    BY <1>0, <1>1, <2>1, SkippedAll
  <2>3. CASE x.comment \in {"Block", "BlockStar"}
    <3>1. r = Loose(g)
      BY <1>9, <2>2, <2>3 DEF RestDoes
    <3>2. r.items = <<>> /\ r.code = "UnexpectedEnd" /\ r.at = g /\ r.loose
      <4>1. g \in Int
        BY <1>10
      <4> QED BY <3>1, <4>1, LooseFacts
    <3> QED BY <1>4, <2>3, <3>2 DEF Over, c
  <2>4. CASE x.comment \notin {"Block", "BlockStar"}
    <3> DEFINE code == IF md = "Values" \/ st \in {"open", "done"} THEN "none" ELSE "UnexpectedEnd"
    <3>1. r = Stops(code, N, -1)
      BY <1>9, <2>2, <2>4 DEF RestDoes
    <3> HIDE DEF code
    <3>2. r.items = <<>> /\ r.code = code /\ r.at = N /\ ~r.loose
      BY <3>1 DEF Stops
    <3> QED BY <2>4, <3>2 DEF Over, code, md, st
  <2> QED BY <2>3, <2>4
<1>14. x.out = "starved" /\ o + n = N => r.items = <<>>
  <2> SUFFICES ASSUME x.out = "starved", o + n = N PROVE r.items = <<>>
    OBVIOUS
  <2>1. x.pos \in 0 .. n - 1 /\ 0 < N /\ o + x.pos = N - 1 /\ N - 1 \in 0 .. N + 1
    <3> DEFINE q == x.pos
    <3>1. q \in c .. n /\ q = n - 1 /\ c \in 0 .. n /\ n \in Nat /\ o \in Nat /\ N \in Nat /\ o + n = N
      BY <1>0, <1>1, <1>7, <1>8
    <3> HIDE DEF q
    <3>2. q \in 0 .. n - 1 /\ 0 < N /\ o + q = N - 1 /\ N - 1 \in 0 .. N + 1
      BY ONLY <3>1
    <3> QED BY <3>2 DEF q
  <2>2. At(t, N - 1) = "/"
    <3>1. At(t, o + x.pos) = At(data, x.pos)
      BY <1>0, <2>1 DEF Shown
    <3> QED BY <1>8, <2>1, <3>1
  <2>3. EndsOnSlash(t, cm, N)
    BY <1>8, <2>2 DEF EndsOnSlash
  <2>4. Gap(t, g, cm) = Gap(t, N - 1, cm)
    BY <1>8, <2>1 DEF Skipped, InComment
  <2>5. Gap(t, N - 1, cm) = N - 1
    <3>1. ~IsWs(At(t, N - 1)) /\ ~IsComment(t, N - 1)
      <4>1. ~(N - 1 + 1 < Len(t))
        BY <1>0
      <4>2. Begin(t, N - 1) = "No"
        BY <4>1 DEF Begin
      <4> QED BY <2>2, <4>2 DEF IsWs, Newline, IsComment
    <3>2. N - 1 < N
      BY <1>0
    <3> QED BY <1>0, <1>1, <2>1, <3>1, <3>2, GapFacts
  <2>6. RestDoes(t, md, cm, N, g, st, N - 1, r)
    BY <1>9, <2>4, <2>5
  <2> QED BY <1>0, <1>1, <1>2, <1>10, <2>1, <2>3, <2>6, SlashOver
<1> QED BY <1>0, <1>7, <1>8, <1>11, <1>12, <1>13, <1>14 DEF N, Passes

-----------------------------------------------------------------------------
(* What the states between values answer.                                  *)

\* The parts of an answer.
LEMMA ReplyIs ==
  ASSUME NEW u, NEW kind, NEW code, NEW a, NEW e
  PROVE  /\ Reply(u, kind, code, a, e).sp = u
         /\ Reply(u, kind, code, a, e).out.kind = kind
         /\ Reply(u, kind, code, a, e).out.code = code
         /\ Reply(u, kind, code, a, e).out.start = a
         /\ Reply(u, kind, code, a, e).out.end = e
BY DEF Reply

\* here is s past white space, on byte p of the stream or at the end of the buffer.
Here(t, o, n, s, here, p) ==
  /\ here \in Splitters
  /\ here.mode = s.mode /\ here.state = s.state /\ here.comments = s.comments
  /\ here.scan.pos <= here.cursor
  /\ o \in Nat /\ p = o + here.cursor /\ p <= Len(t) /\ Len(t) \in Nat

\* A bracket or a comma is taken.
LEMMA TakeTrace ==
  ASSUME NEW t, NEW o, NEW n, NEW s, NEW p, NEW here, Here(t, o, n, s, here, p), p < Len(t),
         here.comment = "No", s.mode # "Values", s.mode # "Lines",
         NEW state \in States \ {"InItem"}, NEW r \in Rests,
         r = RestAt(t, s.mode, s.comments, p + 1, Stage[state])
  PROVE  Followed(t, o, n, s.mode, r, Again(Take(here, state)))
<1> DEFINE u == Take(here, state)
           c == here.cursor
<1>1. /\ u.cursor = c + 1 /\ u.state = state /\ u.mode = s.mode /\ u.comments = s.comments
      /\ u.scan = here.scan /\ u.comment = "No" /\ c \in Nat /\ o \in Nat /\ p = o + c
      /\ Len(t) \in Nat /\ here.scan.pos \in Nat /\ here.scan.pos <= c
  BY DEF Take, Here, Splitters, Scans
<1> HIDE DEF u, c
<1>2. p + 1 \in 0 .. Len(t) /\ p + 1 = o + (c + 1) /\ p + 1 <= o + (c + 1)
  BY <1>1
<1>3. Skipped(t, s.comments, p + 1, p + 1, "No")
  BY DEF Skipped
<1>4. u.scan.pos <= c + 1
  BY <1>1
<1>5. Between(t, o, u, r)
  BY <1>1, <1>2, <1>3, <1>4 DEF Between
<1>6. Standing(t, o, u, r)
  BY <1>1, <1>5 DEF Standing
<1> QED BY <1>6, ReplyIs DEF Followed, Held, Again, u

\* A value begins (start_item).
LEMMA StartTrace ==
  ASSUME NEW t, NEW o, NEW n, NEW s, NEW p, NEW here, Here(t, o, n, s, here, p),
         here.comment = "No", s.mode # "Lines", Begins(t, s.comments, p), NEW r \in Rests,
         r = OfValue(t, s.mode, s.comments, p)
  PROVE  Followed(t, o, n, s.mode, r, Again(StartItem(here)))
<1> DEFINE u == StartItem(here)
           f == FreshScan(here.cursor)
<1>1. /\ u.cursor = here.cursor /\ u.state = "InItem" /\ u.mode = s.mode /\ u.comments = s.comments
      /\ u.scan = f /\ u.comment = "No" /\ o \in Nat /\ p = o + here.cursor /\ Len(t) \in Nat
  BY DEF StartItem, Here, Splitters
<1>2. /\ f.pos = here.cursor /\ f.depth = 0 /\ ~f.inString /\ ~f.escaped /\ ~f.scalar /\ f.comment = "No"
  BY DEF FreshScan
<1> HIDE DEF u, f
<1>3. Reached(t, s.comments, p, p, 0)
  BY MaxDepthAssumption DEF Reached, Begins
<1>4. Traced(t, s.comments, p, p, f)
  BY <1>2, <1>3 DEF Traced, AtUnit
<1>5. Inside(t, o, u, r)
  BY <1>1, <1>2, <1>4 DEF Inside
<1>6. Standing(t, o, u, r)
  BY <1>1, <1>5 DEF Standing
<1> QED BY <1>6, ReplyIs DEF Followed, Held, Again, u

\* A byte that may not stand there is refused.
LEMMA RefuseTrace ==
  ASSUME NEW t, NEW o, NEW n, NEW s, NEW p, NEW here, Here(t, o, n, s, here, p), NEW mode,
         NEW r, NEW code, r.items = <<>>, r.code = code, r.at = p, ~r.loose
  PROVE  Followed(t, o, n, mode, r, Fail(here, code))
<1>1. Position(here) = here.cursor
  BY DEF Position, Here, Splitters, Scans
<1>2. o + here.cursor = p
  BY DEF Here
<1> DEFINE y == Fail(here, code)
<1>3. y.out.kind = "fail" /\ y.out.code = code /\ y.out.start = here.cursor
  BY <1>1, ReplyIs DEF Fail
<1> HIDE DEF y
<1> QED BY <1>2, <1>3 DEF Followed, Held, y

\* The end of the stream's values.
LEMMA EndTrace ==
  ASSUME NEW t, NEW o, NEW n, NEW mode, NEW r, r.items = <<>>, r.code = "none",
         NEW here, Standing(t, o, here, r)
  PROVE  Followed(t, o, n, mode, r, End(here))
BY ReplyIs DEF Followed, Held, End

\* y is what skip_ws answers: b on a byte, e at the end.
WsReply(y, x, s, here, data, ended, b, e) ==
  y = CASE x.out = "byte" -> b
        [] Starves(x.out # "byte", ended) -> Need(here, data)
        [] x.out # "byte" /\ ended /\ x.comment \in {"Block", "BlockStar"} -> Fail(s, "UnexpectedEnd")
        [] OTHER -> e

\* A state between values follows what is to find if its two continuations do.
LEMMA WsTrace ==
  ASSUME NEW t, NEW o, NEW data, NEW n, NEW ended, NEW s, NEW r, Asked(t, o, data, n, ended, s, r),
         s.mode # "Lines", s.state # "InItem",
         NEW x, x = SkipFrom(data, s.cursor, s.comment, ended, s.comments),
         NEW here, here = [s EXCEPT !.cursor = x.pos, !.comment = x.comment],
         NEW b,
         \A p \in Nat : /\ Here(t, o, n, s, here, p) /\ here.comment = "No"
                        /\ Landed(t, s, p, r) /\ p < Len(t) /\ At(data, here.cursor) = At(t, p)
                        => Followed(t, o, n, s.mode, r, b),
         NEW e,
         \A p \in Nat : /\ Here(t, o, n, s, here, p) /\ p = o + n
                        /\ Over(t, o, n, s, "No", r) /\ Standing(t, o, here, r)
                        => Followed(t, o, n, s.mode, r, e),
         NEW y, WsReply(y, x, s, here, data, ended, b, e)
  PROVE  Followed(t, o, n, s.mode, r, y)
<1> DEFINE p == o + here.cursor
<1>0. /\ n \in Nat /\ n = Len(data) /\ o \in Nat /\ o + n <= Len(t) /\ Len(t) \in Nat
      /\ Shown(t, o, data) /\ ended \in BOOLEAN /\ (ended => o + n = Len(t)) /\ r \in Rests
  BY DEF Asked, Shown, Standing
<1>1. /\ s \in Splitters /\ s.comments \in BOOLEAN /\ s.cursor \in 0 .. n
      /\ s.comment \in Comments /\ s.state \in States \ {"InItem"}
  BY <1>0 DEF Asked, Ready, Splitters
<1>2. /\ Between(t, o, here, r)
      /\ x.out = "byte" => x.comment = "No" /\ Landed(t, s, o + x.pos, r)
      /\ x.out # "byte" /\ o + n = Len(t) => r.items = <<>>
      /\ x.out # "byte" /\ ended => Over(t, o, n, s, x.comment, r)
      /\ x.out = "starved" => x.pos = n - 1
  <2>1. Passes(t, o, n, ended, s, r, x, here)
    BY PassTrace
  <2> QED BY <2>1 DEF Passes
<1>3. /\ x.pos \in s.cursor .. n /\ x.comment \in Comments /\ x.out \in {"more", "starved", "byte"}
      /\ x.out = "starved" => ~ended
      /\ x.out = "byte" => x.pos < n
      /\ x.out = "more" => x.pos = n
  <2>1. Skipping(x, s.cursor, n, ended) /\ (x.out = "more" => x.pos = n)
    BY <1>0, <1>1, SkipFacts
  <2> QED BY <2>1 DEF Skipping, Skips
<1>4. /\ here.cursor = x.pos /\ here.comment = x.comment /\ here.state = s.state /\ here.mode = s.mode
      /\ here.comments = s.comments /\ here.scan = s.scan /\ here \in Splitters
  <2>1. x.pos \in Nat
    BY <1>0, <1>1, <1>3
  <2> QED BY <1>1, <1>3, <2>1 DEF Splitters
<1>5. /\ p \in Nat /\ p <= o + n /\ p <= Len(t) /\ p = o + x.pos
      /\ x.out = "byte" => p < Len(t) /\ At(data, here.cursor) = At(t, p)
      /\ x.out = "more" => p = o + n
  <2>1. x.pos \in 0 .. n
    BY <1>1, <1>3
  <2>2. x.out = "byte" => At(t, o + x.pos) = At(data, x.pos)
    BY <1>0, <1>3, <2>1 DEF Shown
  <2> QED BY <1>0, <1>3, <1>4, <2>1, <2>2
<1>6. Here(t, o, n, s, here, p)
  BY <1>0, <1>2, <1>4, <1>5 DEF Here, Between
<1> HIDE DEF p
<1>7. y = CASE x.out = "byte" -> b
            [] x.out # "byte" /\ ~ended -> Need(here, data)
            [] x.out # "byte" /\ ended /\ x.comment \in {"Block", "BlockStar"} -> Fail(s, "UnexpectedEnd")
            [] OTHER -> e
  BY DEF WsReply, Starves
<1>8. CASE x.out = "byte"
  <2>1. y = b
    BY <1>7, <1>8
  <2> QED BY <1>2, <1>4, <1>5, <1>6, <1>8, <2>1
<1>9. CASE x.out # "byte" /\ ~ended
  <2>1. y = Need(here, data)
    BY <1>7, <1>9
  <2>2. y.out.kind = "need" /\ y.sp = here
    BY <2>1, ReplyIs DEF Need
  <2>3. Standing(t, o, here, r)
    BY <1>0, <1>2, <1>4 DEF Standing
  <2>4. o + n = Len(t) => \A k \in 1 .. Len(r.items) : OnlyAtEnd(t, s.mode, r.items[k])
    BY <1>2, <1>9
  <2>5. y.out.start = here.cursor
    BY <2>1, ReplyIs DEF Need
  <2>6. Held(t, o, n, s.mode, r, y)
    <3>1. n - here.cursor <= 1
      BY <1>0, <1>2, <1>3, <1>4, <1>9
    <3> QED BY <2>5, <3>1 DEF Held
  <2> QED BY <2>2, <2>3, <2>4, <2>6 DEF Followed
<1>10. CASE x.out # "byte" /\ ended /\ x.comment \in {"Block", "BlockStar"}
  <2>1. y = Fail(s, "UnexpectedEnd")
    BY <1>7, <1>10
  <2>2. /\ r.items = <<>> /\ r.loose /\ r.code = "UnexpectedEnd" /\ r.at <= o + s.cursor
    BY <1>2, <1>10 DEF Over
  <2>3. Position(s) = s.cursor
    <3>1. s.scan.pos <= s.cursor /\ s.scan.pos \in Nat /\ s.cursor \in Nat
      BY <1>1 DEF Asked, Standing, Between, Inside, Splitters, Scans
    <3> QED BY <3>1 DEF Position
  <2>4. y.out.kind = "fail" /\ y.out.code = "UnexpectedEnd" /\ y.out.start = s.cursor
    BY <2>1, <2>3, ReplyIs DEF Fail
  <2> QED BY <2>2, <2>4 DEF Followed, Held
<1>11. CASE x.out # "byte" /\ ended /\ x.comment \notin {"Block", "BlockStar"}
  <2>1. y = e
    BY <1>7, <1>11
  <2>2. Over(t, o, n, s, "No", r) /\ p = o + n
    <3>1. Over(t, o, n, s, x.comment, r)
      BY <1>2, <1>11
    <3> QED BY <1>3, <1>5, <1>11, <3>1 DEF Over
  <2>3. Standing(t, o, here, r)
    BY <1>0, <1>2, <1>4 DEF Standing
  <2> QED BY <1>5, <1>6, <2>1, <2>2, <2>3
<1> QED BY <1>0, <1>8, <1>9, <1>10, <1>11

\* A state before or after a value takes the byte it is for, and no other.
LEMMA BeforeOpenTrace ==
  ASSUME NEW t, NEW o, NEW data, NEW n, NEW ended, NEW s, NEW r, Asked(t, o, data, n, ended, s, r),
         s.mode # "Lines", s.state = "BeforeOpen"
  PROVE  Followed(t, o, n, s.mode, r, BeforeOpen(s, data, ended))
<1> DEFINE x == SkipFrom(data, s.cursor, s.comment, ended, s.comments)
           here == [s EXCEPT !.cursor = x.pos, !.comment = x.comment]
           b == IF At(data, here.cursor) = Bracket THEN Again(Take(here, "FirstItem"))
                                                   ELSE Fail(here, "ExpectedBracket")
           y == BeforeOpen(s, data, ended)
<1>1. WsReply(y, x, s, here, data, ended, b, End(here))
  BY DEF BeforeOpen, SkipWs, WsReply
<1>2. s.mode # "Values" /\ r \in Rests
  BY DEF Asked, Standing, Between, Inside
<1>3. Stage["BeforeOpen"] = "open" /\ Stage["FirstItem"] = "first"
  BY StageIs
<1> SUFFICES Followed(t, o, n, s.mode, r, y)
  OBVIOUS
<1> HIDE DEF y
<1>4. ASSUME NEW p \in Nat, Here(t, o, n, s, here, p), here.comment = "No", Landed(t, s, p, r),
             p < Len(t), At(data, here.cursor) = At(t, p)
      PROVE  Followed(t, o, n, s.mode, r, b)
  <2> HIDE DEF here, x
  <2>1. CASE At(t, p) = Bracket
    <3>1. b = Again(Take(here, "FirstItem"))
      BY <1>4, <2>1
    <3>2. r = RestAt(t, s.mode, s.comments, p + 1, Stage["FirstItem"])
      BY <1>2, <1>3, <1>4, <2>1 DEF Landed, RestDoes
    <3>3. "FirstItem" \in States \ {"InItem"}
      BY DEF States
    <3> QED BY <1>2, <1>4, <3>1, <3>2, <3>3, TakeTrace
  <2>2. CASE At(t, p) # Bracket
    <3>1. b = Fail(here, "ExpectedBracket")
      BY <1>4, <2>2
    <3>2. r = Stops("ExpectedBracket", p, -1)
      BY <1>2, <1>3, <1>4, <2>2 DEF Landed, RestDoes
    <3>3. r.items = <<>> /\ r.code = "ExpectedBracket" /\ r.at = p /\ ~r.loose
      BY <3>2 DEF Stops
    <3> QED BY <1>4, <3>1, <3>3, RefuseTrace
  <2> QED BY <2>1, <2>2
<1>5. ASSUME NEW p \in Nat, Here(t, o, n, s, here, p), p = o + n, Over(t, o, n, s, "No", r),
             Standing(t, o, here, r)
      PROVE  Followed(t, o, n, s.mode, r, End(here))
  <2>1. r.items = <<>> /\ r.code = "none"
    BY <1>3, <1>5 DEF Over
  <2> QED BY <1>5, <2>1, EndTrace
<1>6. s.state # "InItem" /\ x = SkipFrom(data, s.cursor, s.comment, ended, s.comments)
      /\ here = [s EXCEPT !.cursor = x.pos, !.comment = x.comment]
  OBVIOUS
<1> HIDE DEF b, x, here
<1> QED BY <1>1, <1>4, <1>5, <1>6, WsTrace

\* Before the first element (State::FirstItem).
LEMMA FirstItemTrace ==
  ASSUME NEW t, NEW o, NEW data, NEW n, NEW ended, NEW s, NEW r, Asked(t, o, data, n, ended, s, r),
         s.mode # "Lines", s.state = "FirstItem"
  PROVE  Followed(t, o, n, s.mode, r, FirstItem(s, data, ended))
<1> DEFINE x == SkipFrom(data, s.cursor, s.comment, ended, s.comments)
           here == [s EXCEPT !.cursor = x.pos, !.comment = x.comment]
           b == Again(IF At(data, here.cursor) = Unbracket THEN Take(here, "Done") ELSE StartItem(here))
           e == Truncated(here)
           y == FirstItem(s, data, ended)
<1>1. WsReply(y, x, s, here, data, ended, b, e)
  BY DEF FirstItem, SkipWs, WsReply
<1>2. s.mode # "Values" /\ r \in Rests
  BY DEF Asked, Standing, Between, Inside
<1>3. Stage["FirstItem"] = "first" /\ Stage["Done"] = "done"
  BY StageIs
<1> SUFFICES Followed(t, o, n, s.mode, r, y)
  OBVIOUS
<1> HIDE DEF y
<1>4. ASSUME NEW p \in Nat, Here(t, o, n, s, here, p), here.comment = "No", Landed(t, s, p, r),
             p < Len(t), At(data, here.cursor) = At(t, p)
      PROVE  Followed(t, o, n, s.mode, r, b)
  <2> HIDE DEF here, x
  <2>1. CASE At(t, p) = Unbracket
    <3>1. b = Again(Take(here, "Done"))
      BY <1>4, <2>1 DEF Comma, Unbracket, Bracket
    <3>2. r = RestAt(t, s.mode, s.comments, p + 1, Stage["Done"])
      BY <1>2, <1>3, <1>4, <2>1 DEF Landed, RestDoes
    <3>3. "Done" \in States \ {"InItem"}
      BY DEF States
    <3> QED BY <1>2, <1>4, <3>1, <3>2, <3>3, TakeTrace
  <2>2. CASE At(t, p) # Unbracket
    <3>1. b = Again(StartItem(here))
      BY <1>4, <2>2
    <3>2. r = OfValue(t, s.mode, s.comments, p)
      BY <1>2, <1>3, <1>4, <2>2 DEF Landed, RestDoes, Expects
    <3> QED BY <1>2, <1>4, <3>1, <3>2, StartTrace DEF Landed
  <2> QED BY <2>1, <2>2
<1>5. ASSUME NEW p \in Nat, Here(t, o, n, s, here, p), p = o + n, Over(t, o, n, s, "No", r),
             Standing(t, o, here, r)
      PROVE  Followed(t, o, n, s.mode, r, e)
  <2> HIDE DEF here, x
  <2>1. r.items = <<>> /\ r.code = "UnexpectedEnd" /\ r.at = p /\ ~r.loose
    BY <1>2, <1>3, <1>5 DEF Over
  <2>2. e = Fail(here, "UnexpectedEnd")
    BY <1>5 DEF Truncated, Here
  <2> QED BY <1>5, <2>1, <2>2, RefuseTrace
<1>6. s.state # "InItem" /\ x = SkipFrom(data, s.cursor, s.comment, ended, s.comments)
      /\ here = [s EXCEPT !.cursor = x.pos, !.comment = x.comment]
  OBVIOUS
<1> HIDE DEF b, e, x, here
<1> QED BY <1>1, <1>4, <1>5, <1>6, WsTrace

\* Before a value (State::BeforeItem).
LEMMA BeforeItemTrace ==
  ASSUME NEW t, NEW o, NEW data, NEW n, NEW ended, NEW s, NEW r, Asked(t, o, data, n, ended, s, r),
         s.mode # "Lines", s.state = "BeforeItem"
  PROVE  Followed(t, o, n, s.mode, r, BeforeItem(s, data, ended))
<1> DEFINE x == SkipFrom(data, s.cursor, s.comment, ended, s.comments)
           here == [s EXCEPT !.cursor = x.pos, !.comment = x.comment]
           b == Again(StartItem(here))
           e == IF here.mode = "Values" THEN End(here) ELSE Truncated(here)
           y == BeforeItem(s, data, ended)
<1>1. WsReply(y, x, s, here, data, ended, b, e)
  BY DEF BeforeItem, SkipWs, WsReply
<1>2. r \in Rests
  BY DEF Asked, Standing, Between, Inside
<1>3. Stage["BeforeItem"] = "item"
  BY StageIs
<1> SUFFICES Followed(t, o, n, s.mode, r, y)
  OBVIOUS
<1> HIDE DEF y
<1>4. ASSUME NEW p \in Nat, Here(t, o, n, s, here, p), here.comment = "No", Landed(t, s, p, r),
             p < Len(t), At(data, here.cursor) = At(t, p)
      PROVE  Followed(t, o, n, s.mode, r, b)
  <2> HIDE DEF here, x
  <2>1. b = Again(StartItem(here))
    BY <1>4
  <2>2. r = OfValue(t, s.mode, s.comments, p)
    BY <1>2, <1>3, <1>4 DEF Landed, RestDoes, Expects
  <2> QED BY <1>2, <1>4, <2>1, <2>2, StartTrace DEF Landed
<1>5. ASSUME NEW p \in Nat, Here(t, o, n, s, here, p), p = o + n, Over(t, o, n, s, "No", r),
             Standing(t, o, here, r)
      PROVE  Followed(t, o, n, s.mode, r, e)
  <2> HIDE DEF here, x
  <2>1. CASE s.mode = "Values"
    <3>1. r.items = <<>> /\ r.code = "none"
      BY <1>2, <1>3, <1>5, <2>1 DEF Over
    <3>2. e = End(here)
      BY <1>5, <2>1 DEF Here
    <3> QED BY <1>5, <3>1, <3>2, EndTrace
  <2>2. CASE s.mode # "Values"
    <3>1. r.items = <<>> /\ r.code = "UnexpectedEnd" /\ r.at = p /\ ~r.loose
      BY <1>2, <1>3, <1>5, <2>2 DEF Over
    <3>2. e = Fail(here, "UnexpectedEnd")
      BY <1>5, <2>2 DEF Truncated, Here
    <3> QED BY <1>5, <3>1, <3>2, RefuseTrace
  <2> QED BY <2>1, <2>2
<1>6. s.state # "InItem" /\ x = SkipFrom(data, s.cursor, s.comment, ended, s.comments)
      /\ here = [s EXCEPT !.cursor = x.pos, !.comment = x.comment]
  OBVIOUS
<1> HIDE DEF b, e, x, here
<1> QED BY <1>1, <1>4, <1>5, <1>6, WsTrace

\* Behind an element (State::AfterItem).
LEMMA AfterItemTrace ==
  ASSUME NEW t, NEW o, NEW data, NEW n, NEW ended, NEW s, NEW r, Asked(t, o, data, n, ended, s, r),
         s.mode # "Lines", s.state = "AfterItem"
  PROVE  Followed(t, o, n, s.mode, r, AfterItem(s, data, ended))
<1> DEFINE x == SkipFrom(data, s.cursor, s.comment, ended, s.comments)
           here == [s EXCEPT !.cursor = x.pos, !.comment = x.comment]
           b == CASE At(data, here.cursor) = Comma -> Again(Take(here, "BeforeItem"))
                  [] At(data, here.cursor) = Unbracket -> Again(Take(here, "Done"))
                  [] OTHER -> Fail(here, "ExpectedComma")
           e == Truncated(here)
           y == AfterItem(s, data, ended)
<1>1. WsReply(y, x, s, here, data, ended, b, e)
  BY DEF AfterItem, SkipWs, WsReply
<1>2. s.mode # "Values" /\ r \in Rests
  BY DEF Asked, Standing, Between, Inside
<1>3. /\ Stage["AfterItem"] = "after" /\ Stage["Done"] = "done"
      /\ Stage["BeforeItem"] = "item"
  BY StageIs
<1> SUFFICES Followed(t, o, n, s.mode, r, y)
  OBVIOUS
<1> HIDE DEF y
<1>4. ASSUME NEW p \in Nat, Here(t, o, n, s, here, p), here.comment = "No", Landed(t, s, p, r),
             p < Len(t), At(data, here.cursor) = At(t, p)
      PROVE  Followed(t, o, n, s.mode, r, b)
  <2> HIDE DEF here, x
  <2>1. CASE At(t, p) = Comma
    <3>1. b = Again(Take(here, "BeforeItem"))
      BY <1>4, <2>1 DEF Comma, Unbracket, Bracket
    <3>2. r = RestAt(t, s.mode, s.comments, p + 1, Stage["BeforeItem"])
      BY <1>2, <1>3, <1>4, <2>1 DEF Landed, RestDoes
    <3>3. "BeforeItem" \in States \ {"InItem"}
      BY DEF States
    <3> QED BY <1>2, <1>4, <3>1, <3>2, <3>3, TakeTrace
  <2>2. CASE At(t, p) = Unbracket
    <3>1. b = Again(Take(here, "Done"))
      BY <1>4, <2>2 DEF Comma, Unbracket, Bracket
    <3>2. r = RestAt(t, s.mode, s.comments, p + 1, Stage["Done"])
      BY <1>2, <1>3, <1>4, <2>2 DEF Landed, RestDoes
    <3>3. "Done" \in States \ {"InItem"}
      BY DEF States
    <3> QED BY <1>2, <1>4, <3>1, <3>2, <3>3, TakeTrace
  <2>3. CASE At(t, p) # Comma /\ At(t, p) # Unbracket
    <3>1. b = Fail(here, "ExpectedComma")
      BY <1>4, <2>3
    <3>2. r = Stops("ExpectedComma", p, -1)
      BY <1>2, <1>3, <1>4, <2>3 DEF Landed, RestDoes
    <3>3. r.items = <<>> /\ r.code = "ExpectedComma" /\ r.at = p /\ ~r.loose
      BY <3>2 DEF Stops
    <3> QED BY <1>4, <3>1, <3>3, RefuseTrace
  <2> QED BY <2>1, <2>2, <2>3
<1>5. ASSUME NEW p \in Nat, Here(t, o, n, s, here, p), p = o + n, Over(t, o, n, s, "No", r),
             Standing(t, o, here, r)
      PROVE  Followed(t, o, n, s.mode, r, e)
  <2> HIDE DEF here, x
  <2>1. r.items = <<>> /\ r.code = "UnexpectedEnd" /\ r.at = p /\ ~r.loose
    BY <1>2, <1>3, <1>5 DEF Over
  <2>2. e = Fail(here, "UnexpectedEnd")
    BY <1>5 DEF Truncated, Here
  <2> QED BY <1>5, <2>1, <2>2, RefuseTrace
<1>6. s.state # "InItem" /\ x = SkipFrom(data, s.cursor, s.comment, ended, s.comments)
      /\ here = [s EXCEPT !.cursor = x.pos, !.comment = x.comment]
  OBVIOUS
<1> HIDE DEF b, e, x, here
<1> QED BY <1>1, <1>4, <1>5, <1>6, WsTrace

\* Past the array (State::Done).
LEMMA DoneTrace ==
  ASSUME NEW t, NEW o, NEW data, NEW n, NEW ended, NEW s, NEW r, Asked(t, o, data, n, ended, s, r),
         s.mode # "Lines", s.state = "Done"
  PROVE  Followed(t, o, n, s.mode, r, Done(s, data, ended))
<1> DEFINE x == SkipFrom(data, s.cursor, s.comment, ended, s.comments)
           here == [s EXCEPT !.cursor = x.pos, !.comment = x.comment]
           b == Fail(here, "TrailingContent")
           e == End(here)
           y == Done(s, data, ended)
<1>1. WsReply(y, x, s, here, data, ended, b, e)
  BY DEF Done, SkipWs, WsReply
<1>2. s.mode # "Values" /\ r \in Rests
  BY DEF Asked, Standing, Between, Inside
<1>3. Stage["Done"] = "done"
  BY StageIs
<1> SUFFICES Followed(t, o, n, s.mode, r, y)
  OBVIOUS
<1> HIDE DEF y
<1>4. ASSUME NEW p \in Nat, Here(t, o, n, s, here, p), here.comment = "No", Landed(t, s, p, r),
             p < Len(t), At(data, here.cursor) = At(t, p)
      PROVE  Followed(t, o, n, s.mode, r, b)
  <2> HIDE DEF here, x
  <2>1. b = Fail(here, "TrailingContent")
    BY <1>4
  <2>2. r = Stops("TrailingContent", p, -1)
    BY <1>2, <1>3, <1>4 DEF Landed, RestDoes
  <2>3. r.items = <<>> /\ r.code = "TrailingContent" /\ r.at = p /\ ~r.loose
    BY <2>2 DEF Stops
  <2> QED BY <1>4, <2>1, <2>3, RefuseTrace
<1>5. ASSUME NEW p \in Nat, Here(t, o, n, s, here, p), p = o + n, Over(t, o, n, s, "No", r),
             Standing(t, o, here, r)
      PROVE  Followed(t, o, n, s.mode, r, e)
  <2> HIDE DEF here, x
  <2>1. r.items = <<>> /\ r.code = "none"
    BY <1>2, <1>3, <1>5 DEF Over
  <2>2. e = End(here)
    BY <1>5 DEF Here
  <2> QED BY <1>5, <2>1, <2>2, EndTrace
<1>6. s.state # "InItem" /\ x = SkipFrom(data, s.cursor, s.comment, ended, s.comments)
      /\ here = [s EXCEPT !.cursor = x.pos, !.comment = x.comment]
  OBVIOUS
<1> HIDE DEF b, e, x, here
<1> QED BY <1>1, <1>4, <1>5, <1>6, WsTrace

-----------------------------------------------------------------------------
(* Inside a value.                                                         *)

\* here is s inside the value at p of t, its search moved on in n bytes from o.
On(t, o, n, s, here, p) ==
  /\ here \in Splitters /\ s \in Splitters
  /\ here.mode = s.mode /\ here.state = s.state /\ here.comments = s.comments
  /\ here.cursor = s.cursor /\ here.comment = s.comment /\ here.probe = s.probe
  /\ s.mode \in {"Values", "Array"} /\ s.state = "InItem" /\ s.comment = "No"
  /\ o \in Nat /\ n \in Nat /\ p = o + s.cursor /\ Len(t) \in Nat /\ o + n <= Len(t)
  /\ s.cursor <= here.scan.pos /\ here.scan.pos <= n
  /\ Begins(t, s.comments, p)

\* The value is given out.
LEMMA GivenTrace ==
  ASSUME NEW t, NEW o, NEW n, NEW s, NEW here, NEW p, On(t, o, n, s, here, p),
         NEW r, r = OfValue(t, s.mode, s.comments, p),
         ValueAt(t, p, s.mode, s.comments) = Found(o + here.scan.pos)
  PROVE  Followed(t, o, n, s.mode, r, Item(Finish(here), s.cursor, here.scan.pos))
<1> DEFINE N == Len(t)
           e == o + here.scan.pos
           v == ValueAt(t, p, s.mode, s.comments)
           rest == RestAt(t, s.mode, s.comments, e, "after")
           u == Finish(here)
           y == Item(u, s.cursor, here.scan.pos)
<1>0. /\ N \in Nat /\ N = Len(t) /\ p \in Nat /\ p < N /\ o \in Nat /\ p = o + s.cursor
      /\ s.comments \in BOOLEAN /\ s.mode \in {"Values", "Array"} /\ s.cursor \in Nat
      /\ here.scan.pos \in Nat /\ e \in Nat /\ e <= N
  BY DEF On, Begins, Splitters, Scans
<1>1. v.code = "none" /\ v.end = e /\ e \in p + 1 .. N
  <2>1. v.code = "none" /\ v.end = e
    BY DEF Found
  <2>2. v.code = "none" => v.end \in p + 1 .. N
    BY <1>0, ValueFacts
  <2> QED BY <2>1, <2>2
<1>2. "after" \in Stages /\ e \in 0 .. N
  BY <1>0, <1>1 DEF Stages
<1>3. rest \in Rests /\ Ahead(rest, Gap(t, e, s.comments))
  <2> HIDE DEF e, N
  <2> QED BY <1>0, <1>2, RestFacts, RestAhead
<1>4. Gap(t, e, s.comments) \in e .. N + 1
  <2>1. e \in 0 .. N + 1
    BY <1>0, <1>2
  <2> HIDE DEF e, N
  <2> QED BY <1>0, <2>1, GapFacts
<1>5. Ahead(rest, p)
  <2>1. \A k \in 1 .. Len(rest.items) : rest.items[k][2] > Gap(t, e, s.comments)
    BY <1>3 DEF Ahead
  <2>2. rest.items \in Seq(Int \X Int)
    BY <1>3 DEF Rests
  <2> HIDE DEF rest
  <2>3. \A k \in 1 .. Len(rest.items) : rest.items[k][2] \in Int
    BY <2>2
  <2>4. Gap(t, e, s.comments) > p /\ Gap(t, e, s.comments) \in Int
    <3> DEFINE g == Gap(t, e, s.comments)
    <3>1. g \in e .. N + 1 /\ e \in p + 1 .. N /\ p \in Nat /\ N \in Nat
      BY <1>0, <1>1, <1>4
    <3> HIDE DEF g, e, N
    <3>2. g > p /\ g \in Int
      BY ONLY <3>1
    <3> QED BY <3>2 DEF g
  <2> HIDE DEF e
  <2>5. p \in Int
    BY <1>0
  <2> QED BY <2>1, <2>3, <2>4, <2>5 DEF Ahead
<1>6. r = Behind(<<<<p, e>>>>, rest)
  <2>1. r = FromValue(v, p, RestAt(t, s.mode, s.comments, v.end, "after"))
    BY DEF OfValue
  <2> HIDE DEF v, rest, e
  <2> QED BY <1>1, <2>1 DEF FromValue, rest
<1>7. /\ u.cursor = here.scan.pos /\ u.mode = s.mode /\ u.comments = s.comments /\ u.comment = "No"
      /\ u.state = (IF s.mode = "Array" THEN "AfterItem" ELSE "BeforeItem")
      /\ u.scan.pos = here.scan.pos
  BY DEF Finish, On, Splitters, Scans
<1> HIDE DEF u, rest, v
<1>8. Between(t, o, u, rest)
  <2>1. u.state \in States \ {"InItem"} /\ (u.mode = "Values" => u.state = "BeforeItem")
    BY <1>0, <1>7 DEF States
  <2>2. rest = RestAt(t, u.mode, u.comments, e, Stage[u.state])
    <3>1. u.mode # "Values" => Stage[u.state] = "after"
      BY <1>0, <1>7, StageIs
    <3> QED BY <1>7, <3>1 DEF rest, RestAt
  <2>3. Skipped(t, u.comments, e, e, u.comment)
    BY <1>7 DEF Skipped
  <2>4. e = o + u.cursor /\ u.scan.pos <= u.cursor /\ e <= e
    BY <1>0, <1>7
  <2> HIDE DEF e
  <2> QED BY <1>2, <2>1, <2>2, <2>3, <2>4 DEF Between
<1>9. Standing(t, o, u, rest)
  BY <1>0, <1>3, <1>7, <1>8 DEF Standing
<1>10. Ahead(r, p)
  <2>1. p \in Int /\ e \in Int /\ p < e
    BY <1>0, <1>1
  <2> HIDE DEF e
  <2> QED BY <1>3, <1>5, <1>6, <2>1, OneBehind
<1>11. y.sp = u /\ y.out.kind = "item" /\ y.out.start = s.cursor /\ y.out.end = here.scan.pos
  BY ReplyIs DEF Item
<1> HIDE DEF y
<1>12. o + y.out.start = p /\ o + y.out.end = e
  BY <1>0, <1>11
<1> HIDE DEF e
<1>13. Followed(t, o, n, s.mode, r, y)
  BY <1>3, <1>6, <1>9, <1>10, <1>11, <1>12 DEF Followed, Held
<1> QED BY <1>13 DEF y, u

\* The value cannot be framed, or the stream ends inside it.
LEMMA BrokenTrace ==
  ASSUME NEW t, NEW o, NEW n, NEW s, NEW here, NEW p, On(t, o, n, s, here, p),
         NEW r, r = OfValue(t, s.mode, s.comments, p), NEW code, code # "none",
         ValueAt(t, p, s.mode, s.comments) = Broken(code, o + here.scan.pos)
  PROVE  Followed(t, o, n, s.mode, r, Fail(here, code))
<1> DEFINE v == ValueAt(t, p, s.mode, s.comments)
           e == o + here.scan.pos
           y == Fail(here, code)
<1>1. v.code = code /\ v.end = e
  BY DEF Broken
<1>2. r = FromValue(v, p, RestAt(t, s.mode, s.comments, v.end, "after"))
  BY DEF OfValue
<1>3. \E open : r = Stops(code, e, open)
  <2> HIDE DEF v, e
  <2> QED BY <1>1, <1>2 DEF FromValue
<1>4. r.items = <<>> /\ r.code = code /\ r.at = e /\ ~r.loose
  BY <1>3 DEF Stops
<1>5. Position(here) = here.scan.pos
  BY DEF Position, On, Splitters, Scans
<1>6. y.out.kind = "fail" /\ y.out.code = code /\ y.out.start = here.scan.pos
  BY <1>5, ReplyIs DEF Fail
<1> HIDE DEF y
<1> QED BY <1>4, <1>6 DEF Followed, Held, y

\* Bytes are awaited inside the value: if there are none, it has not been
\* found, but for a scalar that only the end finishes.
LEMMA AwaitTrace ==
  ASSUME NEW t, NEW o, NEW n, NEW s, NEW here, NEW p, On(t, o, n, s, here, p),
         NEW r \in Rests, r = OfValue(t, s.mode, s.comments, p), NEW data, NEW out \in {"more", "starved"},
         Advanced(t, o, n, s.comments, p, s.mode, [scan |-> here.scan, out |-> out])
  PROVE  Followed(t, o, n, s.mode, r, Need(here, data))
<1> DEFINE N == Len(t)
           v == ValueAt(t, p, s.mode, s.comments)
           u == here.scan
           cm == s.comments
<1>0. /\ N \in Nat /\ N = Len(t) /\ p \in Nat /\ p < N /\ o \in Nat /\ p = o + s.cursor /\ n \in Nat
      /\ cm \in BOOLEAN /\ s.mode \in {"Values", "Array"} /\ u.pos \in Nat /\ Begins(t, cm, p)
  BY DEF On, Begins, Splitters, Scans
<1>1. /\ Traced(t, cm, p, o + u.pos, u)
      /\ out = "more" => u.pos = n
      /\ out = "starved" => /\ u.pos = n - 1 /\ cm /\ At(t, o + n - 1) = "/"
                            /\ ~u.inString /\ ~u.scalar /\ u.comment = "No"
  <2> DEFINE a == [scan |-> here.scan, out |-> out]
  <2>1. a.scan = u /\ a.out = out
    OBVIOUS
  <2> HIDE DEF a, u, cm
  <2>2. Advanced(t, o, n, cm, p, s.mode, a)
    BY DEF a, cm
  <2> QED BY <2>1, <2>2 DEF Advanced
<1>2. Standing(t, o, here, r)
  <2>1. Inside(t, o, here, r)
    BY <1>0, <1>1 DEF Inside, On
  <2> QED BY <1>0, <2>1 DEF Standing, On
<1>3. ASSUME o + n = N
      PROVE  /\ \A k \in 1 .. Len(r.items) : OnlyAtEnd(t, s.mode, r.items[k])
             /\ r.open = p \/ r.items = <<<<p, N>>>>
  <2>1. CASE out = "starved"
    <3>1. v = Broken("UnexpectedEnd", N - 1)
      <4>1. EndsOnSlash(t, cm, N)
        <5>1. o + n - 1 = N - 1
          BY <1>0, <1>3
        <5> QED BY <1>1, <2>1, <5>1 DEF EndsOnSlash
      <4>2. o + u.pos = N - 1 /\ ~u.inString /\ ~u.scalar /\ u.comment = "No"
        BY <1>0, <1>1, <1>3, <2>1
      <4>3. Traced(t, cm, p, N - 1, u)
        BY <1>1, <4>2
      <4> HIDE DEF N, cm, u
      <4> QED BY <1>0, <4>1, <4>2, <4>3, StarvedOver DEF cm
    <3>2. v.code = "UnexpectedEnd"
      BY <3>1 DEF Broken
    <3>3. r = FromValue(v, p, RestAt(t, s.mode, s.comments, v.end, "after"))
      BY DEF OfValue
    <3> HIDE DEF v
    <3>4. r.items = <<>> /\ r.open = p
      BY <3>2, <3>3 DEF FromValue, Stops
    <3> QED BY <3>4
  <2>2. CASE out = "more"
    <3>1. Traced(t, cm, p, N, u)
      BY <1>0, <1>1, <1>3, <2>2
    <3>2. v = IF u.scalar /\ s.mode = "Values" THEN Found(N) ELSE Broken("UnexpectedEnd", N)
      <4> HIDE DEF N, cm, u
      <4> QED BY <1>0, <3>1, TracedOver DEF cm
    <3>3. r = FromValue(v, p, RestAt(t, s.mode, s.comments, v.end, "after"))
      BY DEF OfValue
    <3>4. CASE ~(u.scalar /\ s.mode = "Values")
      <4>1. v.code = "UnexpectedEnd"
        BY <3>2, <3>4 DEF Broken
      <4> HIDE DEF v
      <4>2. r.items = <<>> /\ r.open = p
        BY <3>3, <4>1 DEF FromValue, Stops
      <4> QED BY <4>2
    <3>5. CASE u.scalar /\ s.mode = "Values"
      <4> DEFINE rest == RestAt(t, s.mode, s.comments, N, "after")
      <4>1. v.code = "none" /\ v.end = N
        BY <3>2, <3>5 DEF Found
      <4>2. r = Behind(<<<<p, N>>>>, rest)
        <5> HIDE DEF v, N
        <5> QED BY <3>3, <4>1 DEF FromValue
      <4>3. rest \in Rests /\ rest.items = <<>>
        <5>1. Gap(t, N, cm) = N
          <6>1. N \in 0 .. N + 1 /\ N >= N
            BY <1>0
          <6> HIDE DEF N, cm
          <6> QED BY <1>0, <6>1, GapFacts
        <5>2. rest \in Rests /\ RestDoes(t, s.mode, cm, N, N, "after", N, rest)
          <6>1. N \in 0 .. N /\ "after" \in Stages
            BY <1>0 DEF Stages
          <6>2. RestDoes(t, s.mode, cm, N, N, "after", Gap(t, N, cm), RestAt(t, s.mode, cm, N, "after"))
            <7> HIDE DEF N, cm
            <7> QED BY <1>0, <6>1, RestFacts
          <6>3. RestAt(t, s.mode, cm, N, "after") \in Rests
            <7> HIDE DEF N, cm
            <7> QED BY <1>0, <6>1, RestFacts
          <6> QED BY <5>1, <6>2, <6>3
        <5> HIDE DEF rest, N, cm
        <5> QED BY <5>2 DEF RestDoes, Stops
      <4> HIDE DEF rest
      <4>4. r.items = <<<<p, N>>>>
        <5> DEFINE f == <<<<p, N>>>>
                   P == Int \X Int
        <5>1. f \in Seq(P) /\ r = Behind(f, rest)
          BY <1>0, <4>2
        <5> HIDE DEF f
        <5>4. Behind(f, rest).items = f \o rest.items
          BY <4>3, <5>1, BehindIs
        <5>2. r.items = f \o rest.items
          BY <5>1, <5>4
        <5>3. r.items = f
          BY <4>3, <5>1, <5>2
        <5> QED BY <5>3 DEF f
      <4>5. ScalarByte(At(t, p))
        BY <1>0, <3>1, <3>5 DEF Traced, AtUnit, AtString, AtComment, AtScalar
      <4> QED BY <3>5, <4>4, <4>5 DEF OnlyAtEnd
    <3> QED BY <3>4, <3>5
  <2> QED BY <2>1, <2>2
<1> DEFINE y == Need(here, data)
<1>4. y.out.kind = "need" /\ y.sp = here /\ o + y.out.start = p
  BY <1>0, ReplyIs DEF Need, On
<1> HIDE DEF y
<1>5. Held(t, o, n, s.mode, r, y)
  BY <1>0, <1>3, <1>4 DEF Held
<1> QED BY <1>2, <1>3, <1>4, <1>5 DEF Followed, y

\* A turn inside a value (the InItem arm of next_scanned).
LEMMA InItemTrace ==
  ASSUME NEW t, NEW o, NEW data, NEW n, NEW ended, NEW s, NEW r, Asked(t, o, data, n, ended, s, r),
         s.mode # "Lines", s.state = "InItem"
  PROVE  Followed(t, o, n, s.mode, r, InItem(s, data, ended))
<1> DEFINE a == Advance(s.scan, data, s.comments)
           open == a.out \in {"more", "starved"}
           out == IF open /\ ended THEN AtEof(a.scan, s.mode) ELSE a.out
           here == [s EXCEPT !.scan = a.scan]
           p == o + s.cursor
           v == ValueAt(t, p, s.mode, s.comments)
           y == InItem(s, data, ended)
<1>0. /\ n \in Nat /\ n = Len(data) /\ o \in Nat /\ o + n <= Len(t) /\ Len(t) \in Nat
      /\ Shown(t, o, data) /\ ended \in BOOLEAN /\ (ended => o + n = Len(t)) /\ r \in Rests
      /\ Ready(s, n)
  BY DEF Asked, Shown, Standing
<1>1. /\ s \in Splitters /\ s.comments \in BOOLEAN /\ s.cursor \in Nat /\ s.scan \in Scans
      /\ s.scan.pos <= n /\ s.cursor <= s.scan.pos /\ s.scan.pos \in Nat
      /\ s.mode \in {"Values", "Array"}
  BY <1>0 DEF Ready, Splitters, Scans, Modes
<1>2. Inside(t, o, s, r)
  BY DEF Asked, Standing, Between
<1>3. a.scan \in Scans /\ a.scan.pos \in s.scan.pos .. n /\ a.out \in Outs
  <2> HIDE DEF a
  <2> QED BY <1>0, <1>1, AdvanceFacts DEF a
<1>4. Advanced(t, o, n, s.comments, p, s.mode, a)
  <2>1. Begins(t, s.comments, p) /\ Traced(t, s.comments, p, o + s.scan.pos, s.scan)
    BY <1>2 DEF Inside
  <2> HIDE DEF p
  <2> QED BY <1>0, <1>1, <2>1, AdvanceTrace
<1>5. y = CASE Starves(open, ended) -> Need(here, data)
            [] out = "item" -> Item(Finish(here), s.cursor, a.scan.pos)
            [] OTHER -> Fail(here, out)
  BY DEF InItem
<1>6. here.scan = a.scan
  BY <1>1 DEF Splitters
<1>7. On(t, o, n, s, here, p)
  <2>1. here \in Splitters /\ s.cursor <= here.scan.pos /\ here.scan.pos <= n
    BY <1>1, <1>3, <1>6 DEF Splitters, Scans
  <2>2. s.comment = "No" /\ Begins(t, s.comments, p)
    BY <1>2 DEF Inside
  <2>3. /\ here.mode = s.mode /\ here.state = s.state /\ here.comments = s.comments
        /\ here.cursor = s.cursor /\ here.comment = s.comment /\ here.probe = s.probe
    BY <1>1 DEF Splitters
  <2> HIDE DEF here, p
  <2>4. p = o + s.cursor
    BY DEF p
  <2> QED BY <1>0, <1>1, <2>1, <2>2, <2>3, <2>4 DEF On
<1>8. r = OfValue(t, s.mode, s.comments, p)
  BY <1>2 DEF Inside
<1> HIDE DEF a, here, p, v, y
<1>9. v = Found(o + here.scan.pos) => Followed(t, o, n, s.mode, r, Item(Finish(here), s.cursor, a.scan.pos))
  BY <1>6, <1>7, <1>8, GivenTrace DEF v
<1>10. \A code : code # "none" /\ v = Broken(code, o + here.scan.pos) =>
         Followed(t, o, n, s.mode, r, Fail(here, code))
  BY <1>7, <1>8, BrokenTrace DEF v
<1>11. CASE open /\ ~ended
  <2>1. y = Need(here, data)
    BY <1>5, <1>11 DEF Starves
  <2>2. Advanced(t, o, n, s.comments, p, s.mode, [scan |-> here.scan, out |-> a.out])
    BY <1>4, <1>6 DEF Advanced
  <2> QED BY <1>0, <1>7, <1>8, <1>11, <2>1, <2>2, AwaitTrace DEF y
<1>12. CASE ~open
  <2>1. y = IF a.out = "item" THEN Item(Finish(here), s.cursor, a.scan.pos) ELSE Fail(here, a.out)
    BY <1>5, <1>12 DEF Starves
  <2>2. CASE a.out = "item"
    <3>1. v = Found(o + here.scan.pos)
      BY <1>4, <1>6, <2>2 DEF Advanced, v
    <3> QED BY <1>9, <2>1, <2>2, <3>1 DEF y
  <2>3. CASE a.out # "item"
    <3>1. a.out \in {"UnexpectedCharacter", "ExceededMaxDepth"}
      BY <1>3, <1>12, <2>3 DEF Outs
    <3>2. v = Broken(a.out, o + here.scan.pos)
      BY <1>4, <1>6, <3>1 DEF Advanced, v
    <3>3. a.out # "none"
      BY <3>1
    <3> QED BY <1>10, <2>1, <2>3, <3>2, <3>3 DEF y
  <2> QED BY <2>2, <2>3
<1>13. CASE open /\ ended
  <2> DEFINE f == AtEof(a.scan, s.mode)
             N == Len(t)
  <2>1. y = IF f = "item" THEN Item(Finish(here), s.cursor, a.scan.pos) ELSE Fail(here, f)
    BY <1>5, <1>13 DEF Starves
  <2>2. f = IF a.scan.scalar /\ s.mode = "Values" THEN "item" ELSE "UnexpectedEnd"
    BY DEF AtEof
  <2>3. v = IF a.scan.scalar /\ s.mode = "Values" THEN Found(o + here.scan.pos)
                                                  ELSE Broken("UnexpectedEnd", o + here.scan.pos)
    <3>1. /\ Traced(t, s.comments, p, o + a.scan.pos, a.scan)
          /\ a.out = "more" => a.scan.pos = n
          /\ a.out = "starved" =>
               /\ a.scan.pos = n - 1 /\ s.comments /\ At(t, o + n - 1) = "/"
               /\ ~a.scan.inString /\ ~a.scan.scalar /\ a.scan.comment = "No"
      BY <1>4, <1>13 DEF Advanced
    <3>2. Begins(t, s.comments, p) /\ o + n = N /\ N = Len(t)
      BY <1>0, <1>2, <1>13 DEF Inside, p
    <3>3. CASE a.out = "more"
      <4>1. o + a.scan.pos = N
        BY <1>0, <3>1, <3>2, <3>3
      <4>2. Traced(t, s.comments, p, N, a.scan)
        BY <3>1, <4>1
      <4>3. v = IF a.scan.scalar /\ s.mode = "Values" THEN Found(N) ELSE Broken("UnexpectedEnd", N)
        <5> HIDE DEF N
        <5>1. N \in Nat
          BY <1>0 DEF N
        <5> QED BY <1>1, <3>2, <4>2, <5>1, TracedOver DEF v
      <4> HIDE DEF N
      <4> QED BY <1>6, <4>1, <4>3
    <3>4. CASE a.out = "starved"
      <4>1. o + a.scan.pos = N - 1 /\ o + n - 1 = N - 1
        BY <1>0, <3>1, <3>2, <3>4
      <4>2. Traced(t, s.comments, p, N - 1, a.scan)
        BY <3>1, <4>1
      <4>3. EndsOnSlash(t, s.comments, N)
        BY <3>1, <3>4, <4>1 DEF EndsOnSlash
      <4>4. v = Broken("UnexpectedEnd", N - 1) /\ ~a.scan.scalar
        <5> HIDE DEF N
        <5>1. N \in Nat /\ ~a.scan.scalar /\ ~a.scan.inString /\ a.scan.comment = "No"
          BY <1>0, <3>1, <3>4 DEF N
        <5> QED BY <1>1, <3>2, <4>2, <4>3, <5>1, StarvedOver DEF v
      <4> HIDE DEF N
      <4> QED BY <1>6, <4>1, <4>4
    <3> QED BY <1>13, <3>3, <3>4
  <2> HIDE DEF f
  <2>4. CASE a.scan.scalar /\ s.mode = "Values"
    <3>1. v = Found(o + here.scan.pos) /\ f = "item"
      BY <2>2, <2>3, <2>4
    <3> QED BY <1>9, <2>1, <3>1 DEF y
  <2>5. CASE ~(a.scan.scalar /\ s.mode = "Values")
    <3>1. v = Broken("UnexpectedEnd", o + here.scan.pos) /\ f = "UnexpectedEnd"
      BY <2>2, <2>3, <2>5
    <3> QED BY <1>10, <2>1, <3>1 DEF y
  <2> QED BY <2>4, <2>5
<1> QED
  <2>1. open \in BOOLEAN
    OBVIOUS
  <2> QED BY <1>0, <1>11, <1>12, <1>13

-----------------------------------------------------------------------------
(* Lines: what the reference says of one.                                  *)

LineEnd(s, i) == First({j \in i .. Len(s) - 1 : At(s, j) = Newline}, Len(s))
Core(s, i, e) == {j \in i .. e - 1 : ~IsWs(At(s, j))}
Past(core)    == 1 + CHOOSE j \in core : \A k \in core : k <= j

\* The value of the line from i to e, if it has one.
OneLine(s, comments, i, e) ==
  IF Gap(SubSeq(s, 1, e), i, comments) = e THEN <<>>
  ELSE <<<<First(Core(s, i, e), i), Past(Core(s, i, e))>>>>

LinesFrom(s, comments, f, i) ==
  OneLine(s, comments, i, LineEnd(s, i))
  \o (IF LineEnd(s, i) = Len(s) THEN <<>> ELSE f[LineEnd(s, i) + 1])

\* White space leads on to where the gap behind it ends.
LEMMA GapOfSpace ==
  ASSUME NEW s, NEW n \in Nat, n = Len(s), NEW comments \in BOOLEAN,
         NEW a \in 0 .. n, NEW b \in a .. n, \A j \in a .. b - 1 : IsWs(At(s, j))
  PROVE  Gap(s, a, comments) = Gap(s, b, comments)
<1> DEFINE g(k) == Gap(s, k, comments)
           S == {k \in 0 .. b : k >= a => g(k) = g(b)}
<1>1. ASSUME NEW k \in 0 .. b, \A l \in k + 1 .. b : l \in S
      PROVE  k \in S
  <2>1. CASE k = b \/ k < a
    BY <2>1
  <2>2. CASE k # b /\ k >= a
    <3>1. k \in a .. b - 1 /\ k + 1 \in k + 1 .. b /\ k \in 0 .. n + 1 /\ k < n /\ k + 1 >= a
      BY <2>2
    <3>2. g(k) = g(k + 1)
      BY <3>1, GapFacts
    <3>3. g(k + 1) = g(b)
      BY <1>1, <3>1
    <3> QED BY <3>2, <3>3
  <2> QED BY <2>1, <2>2
<1>2. b \in Nat
  OBVIOUS
<1>3. 0 .. b \subseteq S
  <2> HIDE DEF S
  <2> QED BY <1>1, <1>2, DownInduction
<1>4. a \in 0 .. b /\ a >= a
  OBVIOUS
<1> QED BY <1>3, <1>4

\* A comment with nothing but space after it ends with the line, or never.
LEMMA SpaceInComment ==
  ASSUME NEW s, NEW n \in Nat, n = Len(s), NEW q \in Nat, NEW p \in Nat, p <= n, NEW comment,
         InComment(s, q, p, comment),
         \A j \in p .. n - 1 : IsWs(At(s, j)) /\ At(s, j) # Newline
  PROVE  CommentEnd(s, q) = IF comment = "Line" THEN n ELSE n + 1
<1> DEFINE L == {j \in q + 2 .. n - 1 : At(s, j) = Newline}
           K == {k \in q + 2 .. n - 2 : At(s, k) = "*" /\ At(s, k + 1) = "/"}
           B == {j + 2 : j \in K}
<1>1. CommentEnd(s, q) = IF At(s, q + 1) = "/" THEN First(L, n) ELSE First(B, n + 1)
  BY DEF CommentEnd, Never
<1>2. comment = "Line" => L = {}
  <2>1. comment = "Line" => \A j \in q + 2 .. p - 1 : At(s, j) # Newline
    BY DEF InComment
  <2>2. \A j \in q + 2 .. n - 1 : j \in q + 2 .. p - 1 \/ j \in p .. n - 1
    OBVIOUS
  <2> QED BY <2>1, <2>2
<1>3. comment # "Line" => B = {}
  <2> SUFFICES ASSUME comment # "Line" PROVE K = {}
    OBVIOUS
  <2>1. \A j \in q + 2 .. p - 2 : ~(At(s, j) = "*" /\ At(s, j + 1) = "/")
    BY DEF InComment
  <2>2. \A k \in q + 2 .. n - 2 : k \in q + 2 .. p - 2 \/ k + 1 \in p .. n - 1
    OBVIOUS
  <2>3. ~IsWs("/")
    BY SlashFacts
  <2> QED BY <2>1, <2>2, <2>3
<1> HIDE DEF L, B
<1> QED BY <1>1, <1>2, <1>3 DEF InComment, First

\* A search over a whole line, to which nothing is to come.
Search(part, i, comments) == SkipFrom(part, i, "No", TRUE, comments)

\* A line holds a value, seen up to the space that ends it, just where the
\* reference finds one (line_has_value).
LEMMA ValueOfLine ==
  ASSUME NEW s, NEW n \in Nat, n = Len(s), NEW o, NEW part, Shown(s, o, part), NEW m, m = Len(part),
         NEW a \in 0 .. m, NEW comments \in BOOLEAN,
         \A j \in o + m .. n - 1 : IsWs(At(s, j)) /\ At(s, j) # Newline,
         NEW x, x = Search(part, a, comments)
  PROVE  x.out = "byte" \/ x.comment \in {"Block", "BlockStar"} <=> Gap(s, o + a, comments) # n
<1> DEFINE yes == TRUE
           g == o + a
<1>0. /\ m \in Nat /\ o \in Nat /\ o + m <= n /\ yes \in BOOLEAN /\ g \in Nat /\ g = o + a
      /\ x = SkipFrom(part, a, "No", yes, comments) /\ "No" \in Comments /\ o + m \in 0 .. n
  BY DEF Shown, Comments, Search
<1>7. Skipping(x, a, m, yes) /\ (x.out = "more" => x.pos = m)
  <2>1. Len(part) \in Nat /\ a \in 0 .. Len(part) /\ "No" \in Comments /\ yes \in BOOLEAN
    BY <1>0
  <2> HIDE DEF yes
  <2>2. Skipping(x, a, Len(part), yes) /\ (x.out = "more" => x.pos = Len(part))
    BY <1>0, <2>1, SkipFacts
  <2> QED BY <2>2
<1>1. x.out = "starved" => ~yes
  <2> HIDE DEF yes
  <2> QED BY <1>7 DEF Skipping
<1>2. x.out # "starved"
  BY <1>1
<1>3. Begin(s, o + m - 1) = "No"
  <2>1. CASE o + m < n
    <3>1. IsWs(At(s, o + m - 1 + 1))
      <4>1. o + m - 1 + 1 = o + m /\ o + m \in o + m .. n - 1
        BY <1>0, <2>1
      <4> QED BY <4>1
    <3>2. ~IsWs("/") /\ ~IsWs("*")
      BY DEF IsWs, Newline
    <3> QED BY <3>1, <3>2 DEF Begin
  <2>2. CASE ~(o + m < n)
    <3>1. ~(o + m - 1 + 1 < Len(s))
      BY <1>0, <2>2
    <3> QED BY <3>1 DEF Begin
  <2> QED BY <2>1, <2>2
<1>4. Searched(s, o, part, m, yes, comments)
  BY <1>0, <1>3 DEF Searched
<1>5. Skipped(s, comments, g, o + a, "No")
  BY <1>0 DEF Skipped
<1> HIDE DEF yes, g
<1>6. /\ Skipped(s, comments, g, o + x.pos, x.comment)
      /\ x.out = "byte" => x.comment = "No" /\ Gap(s, g, comments) = o + x.pos
  <2>1. m \in Nat /\ a \in 0 .. m /\ "No" \in Comments
    BY <1>0
  <2>2. x = SkipFrom(part, a, "No", yes, comments)
    BY <1>0
  <2> QED BY <1>4, <1>5, <2>1, <2>2, SkipTrace
<1>71. /\ x.pos \in a .. m /\ x.comment \in Comments /\ x.out \in {"more", "starved", "byte"}
       /\ x.out = "byte" => x.pos < m
       /\ x.out = "more" => x.pos = m
       /\ x.pos \in Nat
  BY <1>0, <1>7 DEF Skipping, Skips
<1>8. CASE x.out = "byte"
  <2>1. o + x.pos # n
    <3>1. x.pos < m /\ x.pos \in Nat /\ m \in Nat /\ o \in Nat /\ o + m <= n
      BY <1>0, <1>71, <1>8
    <3> HIDE <1>0
    <3> QED BY <3>1
  <2> QED BY <1>6, <1>8, <2>1 DEF g
<1>9. CASE x.out = "more"
  <2> DEFINE p == o + m
  <2>0. x.pos = m
    BY <1>71, <1>9
  <2>1. Skipped(s, comments, g, p, x.comment) /\ p \in Nat /\ p <= n
    BY <1>0, <1>6, <2>0, SMTT(30)
  <2>2. \A j \in p .. n - 1 : IsWs(At(s, j)) /\ At(s, j) # Newline
    OBVIOUS
  <2>3. Gap(s, n, comments) = n /\ Gap(s, n + 1, comments) = n + 1
    BY GapFacts
  <2> HIDE DEF p
  <2>4. Gap(s, g, comments) = IF x.comment \in {"Block", "BlockStar"} THEN n + 1 ELSE n
    <3>1. CASE x.comment = "No" /\ Gap(s, g, comments) = Gap(s, p, comments)
      <4>1. p \in 0 .. n /\ n \in p .. n
        BY <2>1
      <4>2. Gap(s, p, comments) = Gap(s, n, comments)
        BY <2>2, <4>1, GapOfSpace
      <4> QED BY <2>3, <3>1, <4>2
    <3>2. CASE ~(x.comment = "No" /\ Gap(s, g, comments) = Gap(s, p, comments))
      <4>1. PICK q \in Nat : Gap(s, g, comments) = Gap(s, q, comments) /\ InComment(s, q, p, x.comment)
        BY <2>1, <3>2 DEF Skipped
      <4>2. CommentEnd(s, q) = IF x.comment = "Line" THEN n ELSE n + 1
        BY <2>1, <2>2, <4>1, SpaceInComment
      <4>31. x.comment \in {"Line", "Block", "BlockStar"} /\ IsComment(s, q) /\ q + 2 <= p
        BY <4>1 DEF InComment
      <4>32. q < n
        BY <2>1, <4>31
      <4>3. x.comment \in {"Line", "Block", "BlockStar"} /\ IsComment(s, q) /\ q < n
        BY <4>31, <4>32
      <4>4. q \in 0 .. n + 1
        BY <4>3
      <4>5. comments => Gap(s, q, comments) = Gap(s, CommentEnd(s, q), comments)
        BY <4>3, <4>4, GapFacts
      <4>6. comments
        BY <2>1, <3>2 DEF Skipped
      <4> QED BY <2>3, <4>1, <4>2, <4>3, <4>5, <4>6
    <3> QED BY <3>1, <3>2
  <2> QED BY <1>9, <2>4 DEF g
<1> QED BY <1>2, <1>71, <1>8, <1>9

\* A line ends on its newline, or with the stream.
LEMMA LineEndFacts ==
  ASSUME NEW s, NEW n \in Nat, n = Len(s), NEW i \in 0 .. n
  PROVE  /\ LineEnd(s, i) \in i .. n
         /\ \A j \in i .. LineEnd(s, i) - 1 : At(s, j) # Newline
         /\ LineEnd(s, i) < n => At(s, LineEnd(s, i)) = Newline
<1> DEFINE S == {j \in i .. n - 1 : At(s, j) = Newline}
<1>1. LineEnd(s, i) = First(S, n)
  BY DEF LineEnd
<1>2. i \in Nat /\ n - 1 \in Int /\ S \subseteq i .. n - 1
  OBVIOUS
<1>3. \A j \in i .. n - 1 : At(s, j) = Newline <=> j \in S
  OBVIOUS
<1> HIDE DEF S
<1>4. /\ S = {} => First(S, n) = n
      /\ S # {} => First(S, n) \in S /\ \A j \in S : First(S, n) <= j
  BY <1>2, FirstIsLeast
<1>5. CASE S = {}
  BY <1>1, <1>3, <1>4, <1>5
<1>6. CASE S # {}
  <2> DEFINE e == First(S, n)
  <2>1. e \in S /\ e \in i .. n - 1 /\ \A j \in S : e <= j
    BY <1>2, <1>4, <1>6
  <2> HIDE DEF e
  <2>2. At(s, e) = Newline
    BY <1>3, <2>1
  <2>3. \A j \in i .. e - 1 : At(s, j) # Newline
    <3>1. \A j \in i .. e - 1 : j \in i .. n - 1 /\ ~(e <= j)
      BY <2>1
    <3> QED BY <1>3, <2>1, <3>1
  <2>4. e \in i .. n
    BY <2>1
  <2>5. LineEnd(s, i) = e
    BY <1>1 DEF e
  <2> QED BY <2>2, <2>3, <2>4, <2>5
<1> QED BY <1>5, <1>6

\* A line ends at its first newline, or with the stream.
LEMMA LineEndIs ==
  ASSUME NEW s, NEW n \in Nat, n = Len(s), NEW i \in 0 .. n, NEW e \in i .. n,
         \A j \in i .. e - 1 : At(s, j) # Newline, e < n => At(s, e) = Newline
  PROVE  LineEnd(s, i) = e
<1> DEFINE f == LineEnd(s, i)
<1>1. /\ f \in i .. n
      /\ \A j \in i .. f - 1 : At(s, j) # Newline
      /\ f < n => At(s, f) = Newline
  BY LineEndFacts
<1> HIDE DEF f
<1>2. ~(f < e)
  <2>1. f < e => f \in i .. e - 1 /\ f < n
    BY <1>1
  <2> QED BY <1>1, <2>1
<1>3. ~(e < f)
  <2>1. e < f => e \in i .. f - 1 /\ e < n
    BY <1>1
  <2> QED BY <1>1, <2>1
<1>4. f = e
  BY <1>1, <1>2, <1>3
<1> QED BY <1>4 DEF f

\* The bytes of a line that are not space lie between its first and its last.
LEMMA CoreFacts ==
  ASSUME NEW i \in Nat, NEW e \in Nat, NEW core, core \subseteq i .. e - 1, core # {}, NEW d
  PROVE  /\ First(core, d) \in core /\ \A j \in core : First(core, d) <= j
         /\ Past(core) - 1 \in core /\ Past(core) \in i + 1 .. e /\ \A j \in core : j < Past(core)
         /\ First(core, d) < Past(core)
<1>1. First(core, d) \in core /\ \A j \in core : First(core, d) <= j
  <2>1. e - 1 \in Int
    OBVIOUS
  <2> QED BY <2>1, FirstIsLeast
<1> DEFINE m == CHOOSE j \in core : \A k \in core : k <= j
<1>2. m \in core /\ \A k \in core : k <= m
  <2>1. e - 1 \in Int
    OBVIOUS
  <2> QED BY <2>1, GreatestElement
<1>3. Past(core) = 1 + m
  BY DEF Past
<1> HIDE DEF m
<1>4. m \in i .. e - 1
  BY <1>2
<1>5. First(core, d) \in i .. e - 1 /\ First(core, d) <= m
  BY <1>1, <1>2
<1>6. \A j \in core : j \in Int
  OBVIOUS
<1> DEFINE f == First(core, d)
<1> HIDE DEF f
<1>7. Past(core) - 1 = m /\ Past(core) \in i + 1 .. e
  BY <1>3, <1>4
<1>8. \A j \in core : j < Past(core)
  BY <1>2, <1>3, <1>4, <1>6
<1> QED BY <1>1, <1>2, <1>7, <1>8

\* The part of a stream before e.
LEMMA PartFacts ==
  ASSUME NEW T, NEW s \in Seq(T), NEW e \in 0 .. Len(s)
  PROVE  /\ SubSeq(s, 1, e) \in Seq(T) /\ Len(SubSeq(s, 1, e)) = e
         /\ \A j \in 0 .. e - 1 : At(SubSeq(s, 1, e), j) = At(s, j)
<1> DEFINE p == SubSeq(s, 1, e)
<1>1. Len(s) \in Nat /\ 1 \in 1 .. Len(s) + 1 /\ e \in 0 .. Len(s)
  OBVIOUS
<1>2. p \in Seq(T) /\ Len(p) = e /\ \A k \in 1 .. e : p[k] = s[k]
  <2>1. CASE e = 0
    BY <1>1, <2>1
  <2>2. CASE e # 0
    BY <1>1, <2>2
  <2> QED BY <2>1, <2>2
<1> HIDE DEF p
<1>3. \A j \in 0 .. e - 1 : j + 1 \in 1 .. e
  BY <1>1
<1>4. \A j \in 0 .. e - 1 : p[j + 1] = s[j + 1]
  BY <1>2, <1>3
<1>5. \A j \in 0 .. e - 1 : At(p, j) = At(s, j)
  BY <1>4 DEF At
<1> QED BY <1>2, <1>5 DEF p

\* A line has at most one value, which ends on the line.
LEMMA OneLineFacts ==
  ASSUME NEW T, NEW s \in Seq(T), NEW n \in Nat, n = Len(s), NEW comments \in BOOLEAN,
         NEW i \in 0 .. n, NEW e \in i .. n
  PROVE  /\ OneLine(s, comments, i, e) \in Seq(Int \X Int)
         /\ \/ OneLine(s, comments, i, e) = <<>> /\ Gap(SubSeq(s, 1, e), i, comments) = e
            \/ /\ Gap(SubSeq(s, 1, e), i, comments) # e /\ Core(s, i, e) # {}
               /\ OneLine(s, comments, i, e) = <<<<First(Core(s, i, e), i), Past(Core(s, i, e))>>>>
               /\ First(Core(s, i, e), i) \in Int /\ Past(Core(s, i, e)) \in i + 1 .. e
<1> DEFINE core == Core(s, i, e)
           p == SubSeq(s, 1, e)
<1>1. i \in Nat /\ e \in Nat /\ e \in 0 .. Len(s) /\ i \in 0 .. e /\ e \in i .. e
  OBVIOUS
<1>2. core \subseteq i .. e - 1 /\ \A j \in i .. e - 1 : j \notin core => IsWs(At(s, j))
  BY DEF Core
<1>3. Len(p) = e /\ \A j \in 0 .. e - 1 : At(p, j) = At(s, j)
  BY <1>1, PartFacts
<1> HIDE DEF core, p
<1>4. core = {} => Gap(p, i, comments) = e
  <2> SUFFICES ASSUME core = {} PROVE Gap(p, i, comments) = e
    OBVIOUS
  <2>1. \A j \in i .. e - 1 : IsWs(At(p, j))
    <3>1. \A j \in i .. e - 1 : j \in 0 .. e - 1
      BY <1>1
    <3> QED BY <1>2, <1>3, <3>1
  <2>2. Gap(p, i, comments) = Gap(p, e, comments)
    BY <1>1, <1>3, <2>1, GapOfSpace
  <2>3. Gap(p, e, comments) = e
    <3>1. e \in 0 .. e + 1
      BY <1>1
    <3> QED BY <1>1, <1>3, <3>1, GapFacts
  <2> QED BY <2>2, <2>3
<1> DEFINE a == First(core, i)
           b == Past(core)
<1>5. core # {} => a \in Int /\ b \in i + 1 .. e
  <2> SUFFICES ASSUME core # {} PROVE a \in Int /\ b \in i + 1 .. e
    OBVIOUS
  <2>1. a \in core /\ b \in i + 1 .. e
    BY <1>1, <1>2, CoreFacts
  <2> HIDE DEF a, b
  <2> QED BY <1>2, <2>1
<1>6. OneLine(s, comments, i, e) = IF Gap(p, i, comments) = e THEN <<>> ELSE <<<<a, b>>>>
  BY DEF OneLine, core, p
<1> HIDE DEF a, b
<1> DEFINE P == Int \X Int
<1>7. <<>> \in Seq(P)
  OBVIOUS
<1>8. core # {} => <<<<a, b>>>> \in Seq(P)
  <2>1. core # {} => <<a, b>> \in P
    <3>1. core # {} => b \in Int
      BY <1>5
    <3> QED BY <1>5, <3>1
  <2> HIDE DEF P
  <2> QED BY <2>1
<1> HIDE DEF P
<1>9. OneLine(s, comments, i, e) \in Seq(P)
  BY <1>4, <1>6, <1>7, <1>8
<1> QED BY <1>4, <1>5, <1>6, <1>9 DEF P, a, b, core, p

\* The values of the lines from i on depend on those from further on alone.
LEMMA LinesAhead ==
  ASSUME NEW T, NEW s \in Seq(T), NEW n \in Nat, n = Len(s), NEW comments \in BOOLEAN,
         NEW f \in [0 .. n -> Seq(Int \X Int)], NEW i \in 0 .. n
  PROVE  /\ LinesFrom(s, comments, f, i) \in Seq(Int \X Int)
         /\ \A h : (\A l \in i + 1 .. n : f[l] = h[l]) =>
              LinesFrom(s, comments, f, i) = LinesFrom(s, comments, h, i)
<1> DEFINE e == LineEnd(s, i)
           P == Int \X Int
           one == OneLine(s, comments, i, e)
           Then(h) == IF e = n THEN <<>> ELSE h[e + 1]
<1>1. e \in i .. n
  BY LineEndFacts
<1>2. \A h : LinesFrom(s, comments, h, i) = one \o Then(h)
  BY DEF LinesFrom
<1>3. one \in Seq(P)
  <2> HIDE DEF e
  <2> QED BY <1>1, OneLineFacts
<1> HIDE DEF e, one
<1>4. Then(f) \in Seq(P)
  <2>1. e # n => e + 1 \in 0 .. n
    BY <1>1
  <2>2. <<>> \in Seq(P) /\ f \in [0 .. n -> Seq(P)]
    OBVIOUS
  <2> HIDE DEF P
  <2> QED BY <2>1, <2>2
<1>5. \A h : (\A l \in i + 1 .. n : f[l] = h[l]) => Then(f) = Then(h)
  <2>1. e # n => e + 1 \in i + 1 .. n
    BY <1>1
  <2> QED BY <2>1
<1>6. one \o Then(f) \in Seq(P)
  <2> HIDE DEF P, Then
  <2> QED BY <1>3, <1>4
<1> HIDE DEF Then
<1> QED BY <1>2, <1>5, <1>6

\* The lines the reference chooses are those its equation describes.
LEMMA LinesRecursion ==
  ASSUME NEW T, NEW s \in Seq(T), NEW n \in Nat, n = Len(s), NEW comments \in BOOLEAN, NEW i \in 0 .. n
  PROVE  /\ Lines(s, comments)[i] \in Seq(Int \X Int)
         /\ Lines(s, comments)[i] = LinesFrom(s, comments, Lines(s, comments), i)
<1> DEFINE V == Seq(Int \X Int)
           Body(g, j) == LinesFrom(s, comments, g, j)
           G(h) == [j \in 0 .. n |-> Body(h, j)]
           E == [j \in 0 .. n |-> [f \in [0 .. n -> V] |-> Body(f, j)]]
           from == CHOOSE h : h = G(h)
<1>1. Lines(s, comments) = from
  BY DEF Lines, LinesFrom, OneLine, LineEnd, Core, Past
<1>2. from = CHOOSE h : h = G(h)
  OBVIOUS
<1>3. ASSUME NEW j \in 0 .. n, NEW f \in [0 .. n -> V]
      PROVE  /\ Body(f, j) \in V
             /\ \A g : (\A l \in j + 1 .. n : f[l] = g[l]) => Body(f, j) = Body(g, j)
  BY LinesAhead
<1>0. <<>> \in V
  OBVIOUS
<1> HIDE DEF from, Body, V
<1>4. PICK g : IsDown(g, E, V, n)
  <2>1. E \in [0 .. n -> [[0 .. n -> V] -> V]]
    BY <1>3
  <2>2. \A j \in 0 .. n : \A f, g \in [0 .. n -> V] :
          (\A l \in j + 1 .. n : f[l] = g[l]) => E[j][f] = E[j][g]
    BY <1>3
  <2>3. LooksAhead(E, V, n)
    BY <2>1, <2>2 DEF LooksAhead
  <2> HIDE DEF E
  <2> QED BY <1>0, <2>3, DownExists
<1>5. g = G(g) /\ g \in [0 .. n -> V]
  <2>1. g \in [0 .. n -> V] /\ \A j \in 0 .. n : g[j] = Body(g, j)
    BY <1>4 DEF IsDown
  <2> QED BY <2>1
<1>6. from = G(from)
  BY <1>2, <1>5
<1>7. \A j \in 0 .. n : from[j] = Body(from, j)
  BY <1>6
<1> DEFINE S == {j \in 0 .. n : from[j] = g[j]}
<1>8. ASSUME NEW j \in 0 .. n, \A l \in j + 1 .. n : l \in S
      PROVE  j \in S
  <2>1. g[j] = Body(g, j)
    BY <1>5
  <2>2. \A l \in j + 1 .. n : g[l] = from[l]
    BY <1>8
  <2>3. Body(from, j) = Body(g, j)
    BY <1>3, <1>5, <2>2
  <2> QED BY <1>7, <2>1, <2>3
<1>9. 0 .. n \subseteq S
  <2> HIDE DEF S
  <2> QED BY <1>8, DownInduction
<1>10. from[i] \in V
  BY <1>5, <1>9
<1> QED BY <1>1, <1>7, <1>10 DEF Body, V

\* What is behind the line at i.
LEMMA LinesFacts ==
  ASSUME NEW T, NEW s \in Seq(T), NEW n \in Nat, n = Len(s), NEW comments \in BOOLEAN,
         NEW i \in 0 .. n, NEW e \in i .. n, e = LineEnd(s, i)
  PROVE  /\ Lines(s, comments)[i] \in Seq(Int \X Int)
         /\ e = n => Lines(s, comments)[i] = OneLine(s, comments, i, e)
         /\ e < n => /\ e + 1 \in 0 .. n /\ Lines(s, comments)[e + 1] \in Seq(Int \X Int)
                     /\ Lines(s, comments)[i] = OneLine(s, comments, i, e) \o Lines(s, comments)[e + 1]
<1> DEFINE L == Lines(s, comments)
           one == OneLine(s, comments, i, e)
           P == Int \X Int
<1>1. L[i] \in Seq(P) /\ L[i] = LinesFrom(s, comments, L, i)
  BY LinesRecursion
<1>2. one \in Seq(P)
  BY OneLineFacts
<1>3. e < n => e + 1 \in 0 .. n /\ L[e + 1] \in Seq(P)
  <2>1. e < n => e + 1 \in 0 .. n
    OBVIOUS
  <2> QED BY <2>1, LinesRecursion
<1>4. LinesFrom(s, comments, L, i) = one \o (IF e = n THEN <<>> ELSE L[e + 1])
  BY DEF LinesFrom
<1> HIDE DEF L, one, P
<1>5. one \o <<>> = one
  BY <1>2
<1>6. e = n => L[i] = one
  BY <1>1, <1>4, <1>5
<1>7. e < n => e # n
  OBVIOUS
<1>8. e < n => L[i] = one \o L[e + 1]
  BY <1>1, <1>4, <1>7
<1> QED BY <1>1, <1>3, <1>6, <1>8 DEF L, one, P

\* The members of two sequences put together.
LEMMA Joined ==
  ASSUME NEW P, NEW a \in Seq(P), NEW b \in Seq(P), NEW k \in 1 .. Len(a \o b)
  PROVE  \/ k \in 1 .. Len(a) /\ (a \o b)[k] = a[k]
         \/ k - Len(a) \in 1 .. Len(b) /\ (a \o b)[k] = b[k - Len(a)]
OBVIOUS

\* Every value of the lines from i on ends past i.
LEMMA LinesPast ==
  ASSUME NEW T, NEW s \in Seq(T), NEW n \in Nat, n = Len(s), NEW comments \in BOOLEAN,
         NEW i \in 0 .. n
  PROVE  \A k \in 1 .. Len(Lines(s, comments)[i]) : Lines(s, comments)[i][k][2] > i
<1> DEFINE L == Lines(s, comments)
           P == Int \X Int
           S == {j \in 0 .. n : \A k \in 1 .. Len(L[j]) : L[j][k][2] > j}
<1>1. ASSUME NEW j \in 0 .. n, \A l \in j + 1 .. n : l \in S
      PROVE  j \in S
  <2> DEFINE e == LineEnd(s, j)
             one == OneLine(s, comments, j, e)
  <2>1. e \in j .. n /\ e = LineEnd(s, j)
    BY LineEndFacts
  <2> HIDE DEF e
  <2>2. /\ L[j] \in Seq(P)
        /\ e = n => L[j] = one
        /\ e < n => e + 1 \in 0 .. n /\ L[e + 1] \in Seq(P) /\ L[j] = one \o L[e + 1]
    BY <2>1, LinesFacts, ZenonT(30)
  <2>3. one \in Seq(P) /\ \A k \in 1 .. Len(one) : one[k][2] > j
    <3> DEFINE a == First(Core(s, j, e), j)
               b == Past(Core(s, j, e))
    <3>1. /\ one \in Seq(P)
          /\ one = <<>> \/ (one = <<<<a, b>>>> /\ b \in j + 1 .. e)
      BY <2>1, OneLineFacts
    <3> HIDE DEF a, b, one
    <3>2. CASE one = <<>>
      BY <3>1, <3>2
    <3>3. CASE one = <<<<a, b>>>> /\ b \in j + 1 .. e
      BY <3>1, <3>3
    <3> QED BY <3>1, <3>2, <3>3
  <2> HIDE DEF one, L, P
  <2>4. CASE e = n
    BY <2>2, <2>3, <2>4
  <2>5. CASE e < n
    <3>1. \A k \in 1 .. Len(L[e + 1]) : L[e + 1][k][2] > e + 1
      <4>1. e + 1 \in j + 1 .. n
        BY <2>1, <2>5
      <4> QED BY <1>1, <4>1
    <3>2. \A k \in 1 .. Len(L[e + 1]) : L[e + 1][k][2] > j
      <4>1. \A k \in 1 .. Len(L[e + 1]) : L[e + 1][k][2] \in Int
        <5> DEFINE y == L[e + 1]
        <5>1. y \in Seq(P)
          BY <2>2, <2>5
        <5> HIDE DEF y
        <5>2. \A k \in 1 .. Len(y) : y[k] \in P
          BY <5>1
        <5>3. \A k \in 1 .. Len(y) : y[k][2] \in Int
          BY <5>2 DEF P
        <5> QED BY <5>3 DEF y
      <4>2. e + 1 > j /\ e + 1 \in Int /\ j \in Int
        BY <2>1
      <4> QED BY <3>1, <4>1, <4>2
    <3> DEFINE x == L[e + 1]
    <3>3. x \in Seq(P) /\ L[j] = one \o x /\ \A k \in 1 .. Len(x) : x[k][2] > j
      BY <2>2, <2>5, <3>2
    <3> HIDE DEF x
    <3>4. ASSUME NEW k \in 1 .. Len(one \o x)
          PROVE  (one \o x)[k][2] > j
      <4>1. \/ k \in 1 .. Len(one) /\ (one \o x)[k] = one[k]
            \/ k - Len(one) \in 1 .. Len(x) /\ (one \o x)[k] = x[k - Len(one)]
        BY <2>3, <3>3, Joined
      <4> QED BY <2>3, <3>3, <4>1
    <3> QED BY <3>3, <3>4
  <2> QED BY <2>1, <2>4, <2>5
<1>2. 0 .. n \subseteq S
  <2> HIDE DEF S
  <2> QED BY <1>1, DownInduction
<1> QED BY <1>2

\* Nothing is left at the end.
LEMMA LinesOver ==
  ASSUME NEW T, NEW s \in Seq(T), NEW n \in Nat, n = Len(s), NEW comments \in BOOLEAN
  PROVE  Lines(s, comments)[n] = <<>>
<1>1. n \in 0 .. n /\ n \in n .. n
  OBVIOUS
<1>2. LineEnd(s, n) = n
  <2>1. LineEnd(s, n) \in n .. n
    BY <1>1, LineEndFacts
  <2> QED BY <2>1
<1>3. Lines(s, comments)[n] = OneLine(s, comments, n, n)
  BY <1>1, <1>2, LinesFacts
<1>4. Core(s, n, n) = {}
  BY DEF Core
<1>5. OneLine(s, comments, n, n) = <<>>
  BY <1>1, <1>4, OneLineFacts
<1> QED BY <1>3, <1>5

-----------------------------------------------------------------------------
(* Lines: what the splitter does about one.                                *)

\* y is what next_line answers about the line that goes up to e.
LineIs(s, data, n, ended, e, y) ==
  LET core  == Core(data, s.cursor, e)
      next  == IF e < n THEN e + 1 ELSE n
      start == First(core, e)
      end   == IF core = {} THEN start ELSE Past(core)
      here  == [s EXCEPT !.cursor = next, !.probe = next]
  IN
  /\ e \in s.cursor .. n
  /\ \A j \in s.cursor .. e - 1 : At(data, j) # Newline
  /\ e < n => At(data, e) = Newline
  /\ e = n /\ ~ended => y = Need([s EXCEPT !.probe = n], data)
  /\ e < n \/ ended =>
       y = IF LineHasValue(data, start, end, s.comments) THEN Item(here, start, end)
           ELSE IF ended /\ next >= n THEN End(here) ELSE Again(here)

\* What the splitter does with a line, case by case (Splitter::next_line).
LEMMA LineParts ==
  ASSUME NEW data, NEW n \in Nat, n = Len(data), NEW ended \in BOOLEAN, NEW s, Ready(s, n),
         \A j \in s.cursor .. s.probe - 1 : At(data, j) # Newline
  PROVE  \E e : LineIs(s, data, n, ended, e, Line(s, data, ended))
<1> DEFINE c      == s.cursor
           from   == IF s.probe > s.cursor THEN s.probe ELSE s.cursor
           breaks == {i \in from .. n - 1 : At(data, i) = Newline}
           e      == First(breaks, n)
<1>1. c \in 0 .. n /\ s.probe \in 0 .. n
  BY DEF Ready, Splitters
<1>2. from \in c .. n /\ from \in Nat
  BY <1>1
<1>3. e \in from .. n /\ (e < n => At(data, e) = Newline) /\ \A j \in from .. e - 1 : At(data, j) # Newline
  <2>1. breaks \subseteq from .. n - 1 /\ n - 1 \in Int
    OBVIOUS
  <2>2. \A j \in from .. n - 1 : j \in breaks <=> At(data, j) = Newline
    OBVIOUS
  <2> HIDE DEF from, breaks
  <2>3. (breaks = {} => e = n) /\ (breaks # {} => e \in breaks /\ \A j \in breaks : e <= j)
    BY <1>2, <2>1, FirstIsLeast
  <2> HIDE DEF e
  <2>4. CASE breaks = {}
    BY <1>2, <1>1, <2>2, <2>3, <2>4
  <2>5. CASE breaks # {}
    <3>1. e \in from .. n - 1 /\ At(data, e) = Newline
      BY <2>1, <2>2, <2>3, <2>5
    <3>2. \A j \in from .. e - 1 : j \in from .. n - 1 /\ ~(e <= j)
      BY <1>2, <3>1
    <3>3. \A j \in from .. e - 1 : j \notin breaks
      BY <2>3, <2>5, <3>2
    <3> QED BY <1>2, <2>2, <3>1, <3>2, <3>3
  <2> QED BY <2>4, <2>5
<1>4. e \in c .. n /\ \A j \in c .. e - 1 : At(data, j) # Newline
  <2>1. \A j \in c .. from - 1 : At(data, j) # Newline
    BY <1>1
  <2> HIDE DEF from, c, e
  <2>2. \A j \in c .. e - 1 : j \in c .. from - 1 \/ j \in from .. e - 1
    BY <1>1, <1>2, <1>3
  <2>3. e \in c .. n
    BY <1>1, <1>2, <1>3
  <2> QED BY <1>3, <2>1, <2>2, <2>3
<1> DEFINE core  == Core(data, c, e)
           next  == IF e < n THEN e + 1 ELSE n
           start == First(core, e)
           end   == IF core = {} THEN start ELSE Past(core)
           here  == [s EXCEPT !.cursor = next, !.probe = next]
           has   == LineHasValue(data, start, end, s.comments)
           probed == Need([s EXCEPT !.probe = n], data)
           y == Line(s, data, ended)
<1>5. y = CASE Starves(e = n, ended) -> probed
            [] (e < n \/ ended) /\ has -> Item(here, start, end)
            [] (e < n \/ ended) /\ ~has ->
                 IF ended /\ next >= n THEN End(here) ELSE Again(here)
  BY DEF Line, Core, Past
<1> HIDE DEF from, breaks, e, y, core, start, end, here, has, probed
<1>6. e = n \/ e < n
  BY <1>4
<1>7. e < n => e # n
  BY <1>4
<1>8. e = n /\ ~ended => y = probed
  BY <1>5 DEF Starves
<1>9. (e < n \/ ended) => y = IF has THEN Item(here, start, end)
           ELSE IF ended /\ next >= n THEN End(here) ELSE Again(here)
  <2> DEFINE x == IF ended /\ next >= n THEN End(here) ELSE Again(here)
             both == e < n \/ ended
  <2>1. both => ~Starves(e = n, ended)
    BY <1>7 DEF Starves
  <2>2. y = CASE Starves(e = n, ended) -> probed [] both /\ has -> Item(here, start, end)
              [] both /\ ~has -> x
    BY <1>5
  <2>3. has \in BOOLEAN
    BY DEF has, LineHasValue
  <2> HIDE DEF x, both, next
  <2>4. both => y = IF has THEN Item(here, start, end) ELSE x
    BY <2>1, <2>2, <2>3
  <2> QED BY <2>4 DEF both, x
<1>10. LineIs(s, data, n, ended, e, y)
  BY <1>3, <1>4, <1>8, <1>9 DEF LineIs, core, next, start, end, here, has, probed
<1> QED BY <1>10 DEF y

\* What is left of a line without the space in it.
LEMMA CoreIs ==
  ASSUME NEW s, NEW i, NEW e
  PROVE  /\ Core(s, i, e) \subseteq i .. e - 1
         /\ \A j : j \in Core(s, i, e) <=> j \in i .. e - 1 /\ ~IsWs(At(s, j))
BY DEF Core

\* A line is seen alike in a part of the stream and in the whole.
LEMMA CoreShown ==
  ASSUME NEW t, NEW o, NEW data, Shown(t, o, data), NEW n, n = Len(data), NEW c \in 0 .. n,
         NEW e \in c .. n, NEW d
  PROVE  /\ Core(t, o + c, o + e) = {} <=> Core(data, c, e) = {}
         /\ Core(data, c, e) # {} =>
              /\ First(Core(t, o + c, o + e), o + c) = o + First(Core(data, c, e), d)
              /\ Past(Core(t, o + c, o + e)) = o + Past(Core(data, c, e))
<1> DEFINE X == Core(t, o + c, o + e)
           Y == Core(data, c, e)
           i == o + c
           f == o + e
<1>0. /\ o \in Nat /\ n \in Nat /\ c \in Nat /\ e \in Nat /\ i \in Nat /\ f \in Nat
      /\ \A k \in 0 .. n - 1 : At(t, o + k) = At(data, k)
  BY DEF Shown
<1>1. X \subseteq i .. f - 1 /\ Y \subseteq c .. e - 1
  BY CoreIs
<1>x. \A j : j \in X <=> j \in i .. f - 1 /\ ~IsWs(At(t, j))
  BY CoreIs
<1>y. \A j : j \in Y <=> j \in c .. e - 1 /\ ~IsWs(At(data, j))
  BY CoreIs
<1> HIDE DEF X, Y
<1>2. ASSUME NEW j \in X
      PROVE  j - o \in Y /\ j \in Int
  <2>1. j \in o + c .. o + e - 1 /\ ~IsWs(At(t, j))
    BY <1>0, <1>x DEF i, f
  <2>2. j - o \in c .. e - 1 /\ j - o \in 0 .. n - 1 /\ o + (j - o) = j
    BY <1>0, <2>1
  <2>3. At(t, j) = At(data, j - o)
    BY <1>0, <2>2
  <2> QED BY <1>y, <2>1, <2>2, <2>3
<1>3. ASSUME NEW k \in Y
      PROVE  o + k \in X /\ k \in Int
  <2>1. k \in c .. e - 1 /\ ~IsWs(At(data, k))
    BY <1>y
  <2>2. o + k \in o + c .. o + e - 1 /\ k \in 0 .. n - 1
    BY <1>0, <2>1
  <2>3. At(t, o + k) = At(data, k)
    BY <1>0, <2>2
  <2> QED BY <1>0, <1>x, <2>1, <2>2, <2>3, SMTT(30)
<1> HIDE DEF i, f
<1>4. X = {} <=> Y = {}
  BY <1>2, <1>3
<1>5. ASSUME Y # {}
      PROVE  First(X, i) = o + First(Y, d) /\ Past(X) = o + Past(Y)
  <2> DEFINE a == First(X, i)
             b == Past(X)
             x == First(Y, d)
             z == Past(Y)
  <2>1. /\ a \in X /\ \A j \in X : a <= j
        /\ b - 1 \in X /\ b \in i + 1 .. f /\ \A j \in X : j < b
    BY <1>0, <1>1, <1>4, <1>5, CoreFacts
  <2>2. /\ x \in Y /\ \A j \in Y : x <= j
        /\ z - 1 \in Y /\ z \in c + 1 .. e /\ \A j \in Y : j < z
    BY <1>0, <1>1, <1>5, CoreFacts
  <2> HIDE DEF a, b, x, z
  <2>3. a - o \in Y /\ o + x \in X /\ a \in Int /\ x \in Int
    BY <1>2, <1>3, <2>1, <2>2
  <2>4. a <= o + x /\ x <= a - o
    BY <2>1, <2>2, <2>3
  <2>5. b - 1 - o \in Y /\ o + (z - 1) \in X /\ b \in Int /\ z \in Int
    BY <1>2, <1>3, <2>1, <2>2
  <2>6. b - 1 - o < z /\ o + (z - 1) < b
    BY <2>1, <2>2, <2>5
  <2>7. a = o + x /\ b = o + z
    BY <1>0, <2>3, <2>4, <2>5, <2>6
  <2> QED BY <2>7 DEF a, b, x, z
<1> QED BY <1>4, <1>5 DEF X, Y, i

\* The splitter finds a value on a line just where the reference does
\* (line_has_value of the trimmed line).
LEMMA ValueShown ==
  ASSUME NEW T, NEW t \in Seq(T), NEW o, NEW data \in Seq(T), Shown(t, o, data), NEW n, n = Len(data),
         NEW c \in 0 .. n, NEW e \in c .. n, NEW comments \in BOOLEAN,
         \A j \in c .. e - 1 : At(data, j) # Newline,
         NEW core, core = Core(data, c, e), core # {}
  PROVE  LineHasValue(data, First(core, e), Past(core), comments)
           <=> Gap(SubSeq(t, 1, o + e), o + c, comments) # o + e
<1> DEFINE a == First(core, e)
           m == Past(core)
           s == SubSeq(t, 1, o + e)
           part == SubSeq(data, 1, m)
           x == Search(part, a, comments)
           E == o + e
<1>0. /\ o \in Nat /\ n \in Nat /\ c \in Nat /\ e \in Nat /\ E \in Nat /\ E \in 0 .. Len(t) /\ n \in 0 .. n
      /\ \A k \in 0 .. n - 1 : At(t, o + k) = At(data, k)
  BY DEF Shown
<1>1. /\ a \in core /\ \A j \in core : a <= j
      /\ m - 1 \in core /\ m \in c + 1 .. e /\ \A j \in core : j < m
      /\ a < m
  <2>1. core \subseteq c .. e - 1 /\ c \in Nat /\ e \in Nat
    BY <1>0 DEF Core
  <2> HIDE DEF s, part, x, E
  <2>2. /\ First(core, e) \in core /\ \A j \in core : First(core, e) <= j
        /\ Past(core) - 1 \in core /\ Past(core) \in c + 1 .. e /\ \A j \in core : j < Past(core)
        /\ First(core, e) < Past(core)
    BY <2>1, CoreFacts, ZenonT(30)
  <2> QED BY <2>2
<1>2. \A j \in c .. e - 1 : j \notin core => IsWs(At(data, j))
  BY DEF Core
<1>3. core \subseteq c .. e - 1
  BY DEF Core
<1> HIDE DEF a, m
<1>4. a \in c .. e - 1 /\ m \in 0 .. n /\ a \in 0 .. m /\ m <= e /\ m \in Nat /\ a \in Nat
  BY <1>0, <1>1, <1>3
<1>5. Len(part) = m /\ \A j \in 0 .. m - 1 : At(part, j) = At(data, j)
  <2>1. m \in 0 .. Len(data)
    BY <1>4
  <2> QED BY <2>1, PartFacts
<1>6. Len(s) = E /\ \A j \in 0 .. E - 1 : At(s, j) = At(t, j)
  <2> HIDE DEF E
  <2>1. s = SubSeq(t, 1, E)
    BY DEF E
  <2> HIDE DEF s
  <2> QED BY <1>0, <2>1, PartFacts
<1> HIDE DEF s, part, x
<1>7. \A k \in 0 .. e - 1 : At(s, o + k) = At(data, k)
  <2>1. \A k \in 0 .. e - 1 : o + k \in 0 .. E - 1 /\ k \in 0 .. n - 1
    BY <1>0
  <2> HIDE DEF E
  <2> QED BY <1>0, <1>6, <2>1
<1>8. Shown(s, o, part)
  <2>1. \A j \in 0 .. m - 1 : j \in 0 .. e - 1
    BY <1>4
  <2>2. \A j \in 0 .. m - 1 : At(s, o + j) = At(part, j)
    BY <1>5, <1>7, <2>1
  <2>3. o + m <= E
    BY <1>0, <1>4
  <2> HIDE DEF E
  <2> QED BY <1>0, <1>4, <1>5, <1>6, <2>2, <2>3 DEF Shown
<1>9. \A j \in o + m .. E - 1 : IsWs(At(s, j)) /\ At(s, j) # Newline
  <2>1. ASSUME NEW j \in o + m .. E - 1
        PROVE  IsWs(At(s, j)) /\ At(s, j) # Newline
    <3>1. j - o \in c .. e - 1 /\ j - o \in 0 .. e - 1 /\ o + (j - o) = j /\ m <= j - o /\ j - o \in Int /\ m \in Int
      BY <1>0, <1>1, <1>4
    <3>2. j - o \notin core
      BY <1>1, <3>1
    <3>3. At(s, j) = At(data, j - o)
      BY <1>7, <3>1
    <3> QED BY <1>2, <3>1, <3>2, <3>3
  <2> QED BY <2>1
<1>10. x.out = "byte" \/ x.comment \in {"Block", "BlockStar"} <=> Gap(s, o + a, comments) # E
  <2>1. x = Search(part, a, comments)
    BY DEF x
  <2> HIDE DEF E
  <2>2. E \in Nat /\ E = Len(s) /\ Shown(s, o, part) /\ m = Len(part) /\ a \in 0 .. m
    BY <1>0, <1>4, <1>5, <1>6, <1>8
  <2> QED BY <1>9, <2>1, <2>2, ValueOfLine
<1>11. Gap(s, o + c, comments) = Gap(s, o + a, comments)
  <2> DEFINE i == o + c
             k == o + a
  <2>1. \A j \in i .. k - 1 : IsWs(At(s, j))
    <3>1. ASSUME NEW j \in o + c .. o + a - 1
          PROVE  IsWs(At(s, j))
      <4>1. j - o \in c .. e - 1 /\ j - o \in 0 .. e - 1 /\ o + (j - o) = j /\ ~(a <= j - o)
        BY <1>0, <1>4
      <4>2. j - o \notin core
        BY <1>1, <4>1
      <4>3. At(s, j) = At(data, j - o)
        BY <1>7, <4>1
      <4> QED BY <1>2, <4>1, <4>2, <4>3
    <3> QED BY <1>0, <1>4, <3>1
  <2>2. i \in 0 .. E /\ k \in i .. E
    BY <1>0, <1>4
  <2> HIDE DEF i, k, E
  <2>4. Gap(s, i, comments) = Gap(s, k, comments)
    BY <1>0, <1>6, <2>1, <2>2, GapOfSpace
  <2> QED BY <2>4 DEF i, k
<1>12. LineHasValue(data, a, m, comments) <=> x.out = "byte" \/ x.comment \in {"Block", "BlockStar"}
  BY DEF LineHasValue, x, Search, part
<1> QED BY <1>10, <1>11, <1>12 DEF a, m, s, E

-----------------------------------------------------------------------------
(* Lines: the splitter follows the reference.                              *)

Last(t) == Stops("none", Len(t), -1)

\* The line from c to e of data has its bytes but space from a to b, and the
\* next one begins at next.
LineAt(data, n, c, e, next, core, a, b) ==
  /\ n = Len(data) /\ c \in 0 .. n /\ e \in c .. n
  /\ \A j \in c .. e - 1 : At(data, j) # Newline
  /\ e < n => At(data, e) = Newline
  /\ next = IF e < n THEN e + 1 ELSE n
  /\ core = Core(data, c, e)
  /\ a = First(core, e)
  /\ b = IF core = {} THEN a ELSE Past(core)

\* L says of the line at c that it has one value, from a to b, or none.
LineLeaves(data, o, c, next, a, b, comments, L) ==
  /\ L[o + c] \in Seq(Int \X Int) /\ L[o + next] \in Seq(Int \X Int)
  /\ LineHasValue(data, a, b, comments) =>
       /\ a \in c .. next /\ b \in a + 1 .. next
       /\ L[o + c] = <<<<o + a, o + b>>>> \o L[o + next]
  /\ ~LineHasValue(data, a, b, comments) => L[o + c] = L[o + next]

\* The line at i and what is behind it, where the splitter finds a value from a
\* to b on it or none.
LEMMA LineRest ==
  ASSUME NEW T, NEW t \in Seq(T), NEW o, NEW data \in Seq(T), Shown(t, o, data),
         NEW n, NEW c, NEW e, NEW next, NEW core, NEW a, NEW b,
         LineAt(data, n, c, e, next, core, a, b), e = n => o + n = Len(t),
         NEW comments \in BOOLEAN, NEW L, L = Lines(t, comments)
  PROVE  LineLeaves(data, o, c, next, a, b, comments, L)
<1> DEFINE i == o + c
           f == o + e
           g == o + next
           N == Len(t)
           P == Int \X Int
           X == Core(t, i, f)
           one == OneLine(t, comments, i, f)
           has == LineHasValue(data, a, b, comments)
<1>a. /\ n = Len(data) /\ c \in 0 .. n /\ e \in c .. n
      /\ \A j \in c .. e - 1 : At(data, j) # Newline
      /\ e < n => At(data, e) = Newline
  BY DEF LineAt
<1>b. /\ next = (IF e < n THEN e + 1 ELSE n)
      /\ core = Core(data, c, e)
      /\ a = First(core, e)
      /\ b = (IF core = {} THEN a ELSE Past(core))
  BY DEF LineAt
<1> USE <1>a, <1>b
<1>0. /\ o \in Nat /\ n \in Nat /\ c \in Nat /\ e \in Nat /\ N \in Nat /\ o + n <= N
      /\ \A k \in 0 .. n - 1 : At(t, o + k) = At(data, k)
  BY <1>a DEF Shown
<1>1. i \in 0 .. N /\ f \in i .. N /\ f \in 0 .. N
  BY <1>0
<1>2. f = LineEnd(t, i)
  <2>1. \A j \in i .. f - 1 : At(t, j) # Newline
    <3>1. ASSUME NEW j \in o + c .. o + e - 1
          PROVE  At(t, j) # Newline
      <4>1. j - o \in c .. e - 1 /\ j - o \in 0 .. n - 1 /\ o + (j - o) = j
        BY <1>0
      <4>2. At(t, j) = At(data, j - o)
        BY <1>0, <4>1
      <4> QED BY <4>1, <4>2
    <3> QED BY <1>0, <3>1
  <2>2. f < N => At(t, f) = Newline
    <3>1. CASE e < n
      <4>1. e \in 0 .. n - 1
        BY <1>0, <3>1
      <4> QED BY <1>0, <3>1, <4>1
    <3>2. CASE e = n
      BY <1>0, <3>2
    <3> QED BY <3>1, <3>2
  <2> HIDE DEF i, f
  <2>3. LineEnd(t, i) = f
    <3> HIDE DEF N
    <3>1. N = Len(t)
      BY DEF N
    <3> QED BY <1>0, <1>1, <2>1, <2>2, <3>1, LineEndIs
  <2> QED BY <2>3
<1>3. next \in e .. n /\ (e < n => g = f + 1 /\ f < N) /\ (e = n => f = N /\ g = N) /\ g \in 0 .. N
  BY <1>0
<1> HIDE DEF i, f, g, X, one
<1>4. /\ L[i] \in Seq(P)
      /\ f = N => L[i] = one
      /\ f < N => L[f + 1] \in Seq(P) /\ L[i] = one \o L[f + 1]
  <2> HIDE DEF N
  <2>1. N = Len(t)
    BY DEF N
  <2> DEFINE M == Lines(t, comments)
  <2>2. /\ M[i] \in Seq(Int \X Int)
        /\ f = N => M[i] = OneLine(t, comments, i, f)
        /\ f < N => M[f + 1] \in Seq(Int \X Int) /\ M[i] = OneLine(t, comments, i, f) \o M[f + 1]
    <3> HIDE DEF P
    <3>1. N \in Nat
      BY <1>0
    <3>2. t \in Seq(T) /\ comments \in BOOLEAN
      OBVIOUS
    <3> QED BY ONLY <1>1, <1>2, <2>1, <3>1, <3>2, LinesFacts, ZenonT(30)
  <2>3. M = L
    OBVIOUS
  <2> HIDE DEF M
  <2> QED BY <2>2, <2>3 DEF one
<1>5. L[N] = <<>>
  BY <1>0, LinesOver
<1>6. /\ one \in Seq(P)
      /\ \/ one = <<>> /\ Gap(SubSeq(t, 1, f), i, comments) = f
         \/ /\ Gap(SubSeq(t, 1, f), i, comments) # f /\ X # {}
            /\ one = <<<<First(X, i), Past(X)>>>>
  BY <1>0, <1>1, OneLineFacts DEF one, X
<1> HIDE DEF P
<1>7. L[i] = one \o L[g] /\ L[g] \in Seq(P)
  <2>1. CASE e < n
    BY <1>3, <1>4, <2>1
  <2>2. CASE e = n
    <3>1. one \o <<>> = one /\ <<>> \in Seq(P)
      BY <1>6
    <3> QED BY <1>3, <1>4, <1>5, <2>2, <3>1
  <2> QED BY <2>1, <2>2
<1>8. core = {} <=> X = {}
  BY CoreShown DEF X, i, f
<1>9. core # {} => First(X, i) = o + a /\ Past(X) = o + b
  <2>1. core # {} => First(X, i) = o + First(core, e) /\ Past(X) = o + Past(core)
    BY CoreShown DEF X, i, f
  <2> QED BY <2>1
<1>10. core # {} => (has <=> Gap(SubSeq(t, 1, f), i, comments) # f)
  <2>1. core # {} => (LineHasValue(data, First(core, e), Past(core), comments)
           <=> Gap(SubSeq(t, 1, o + e), o + c, comments) # o + e)
    BY ValueShown
  <2> QED BY <2>1 DEF i, f
<1>11. core = {} => ~has
  <2> SUFFICES ASSUME core = {} PROVE ~has
    OBVIOUS
  <2>1. a = e /\ b = e
    BY DEF First
  <2>2. e \in 0 .. Len(data)
    BY <1>0
  <2>3. ~LineHasValue(data, e, e, comments)
    BY <2>2, BlankFacts
  <2> QED BY <2>1, <2>3, Zenon
<1>12. has => core # {} /\ one = <<<<o + a, o + b>>>>
  <2> HIDE DEF has
  <2> QED BY <1>6, <1>8, <1>9, <1>10, <1>11
<1>13. ~has => one = <<>>
  <2> HIDE DEF has
  <2> QED BY <1>6, <1>8, <1>10
<1>14. core # {} => a \in c .. next /\ b \in a + 1 .. next
  <2> SUFFICES ASSUME core # {} PROVE a \in c .. next /\ b \in a + 1 .. next
    OBVIOUS
  <2>1. core \subseteq c .. e - 1
    BY CoreIs
  <2>2. a \in core /\ b \in c + 1 .. e /\ a < b
    BY <1>0, <2>1, CoreFacts, ZenonT(30)
  <2>3. a \in c .. e - 1
    BY <2>1, <2>2
  <2>4. next \in e .. n /\ e \in c .. n /\ c \in Nat /\ n \in Nat /\ e \in Nat
    BY <1>0, <1>3
  <2> HIDE <1>a, <1>b
  <2> QED BY <2>2, <2>3, <2>4
<1>15. <<>> \o L[g] = L[g]
  BY <1>7
<1> HIDE DEF has
<1>16. /\ L[i] \in Seq(P) /\ L[g] \in Seq(P)
       /\ has => a \in c .. next /\ b \in a + 1 .. next /\ L[i] = <<<<o + a, o + b>>>> \o L[g]
       /\ ~has => L[i] = L[g]
  BY <1>4, <1>7, <1>12, <1>13, <1>14, <1>15
<1> QED BY <1>16 DEF i, g, P, has, LineLeaves

\* Where lines stop, no value is left and nothing failed.
LEMMA LastFacts ==
  ASSUME NEW t, Len(t) \in Nat
  PROVE  Last(t) \in Rests /\ Last(t).items = <<>> /\ Last(t).code = "none"
<1> DEFINE n == Len(t)
           m == -1
<1>1. n \in Int /\ m \in Int /\ "none" \in JsonCodes \cup {"none"}
  OBVIOUS
<1>2. Last(t) = Stops("none", n, m)
  BY DEF Last
<1> HIDE DEF n, m
<1> QED BY <1>1, <1>2, StopsFacts

\* A line without an end has at most one value, which only the end finishes.
LEMMA LastLine ==
  ASSUME NEW T, NEW t \in Seq(T), NEW N \in Nat, N = Len(t), NEW comments \in BOOLEAN,
         NEW i \in 0 .. N, \A j \in i .. N - 1 : At(t, j) # Newline,
         NEW r, r = Behind(Lines(t, comments)[i], Last(t))
  PROVE  \A k \in 1 .. Len(r.items) : OnlyAtEnd(t, "Lines", r.items[k])
<1> DEFINE one == OneLine(t, comments, i, N)
           P == Int \X Int
           X == Core(t, i, N)
           a == First(X, i)
           b == Past(X)
<1>1. N \in i .. N /\ i \in Nat
  OBVIOUS
<1>2. N = LineEnd(t, i)
  <2>1. LineEnd(t, i) = N
    BY <1>1, LineEndIs
  <2> QED BY <2>1
<1>3. Lines(t, comments)[i] = one
  <2> HIDE DEF one
  <2>1. Lines(t, comments)[i] = OneLine(t, comments, i, N)
    BY <1>1, <1>2, LinesFacts
  <2> QED BY <2>1 DEF one
<1>4. one \in Seq(P) /\ (one = <<>> \/ (X # {} /\ one = <<<<a, b>>>>))
  BY <1>1, OneLineFacts
<1>5. Last(t) \in Rests /\ Last(t).items = <<>>
  BY LastFacts
<1>6. r.items = one
  <2> HIDE DEF one
  <2>1. one \in Seq(Int \X Int)
    BY <1>4
  <2>2. Behind(one, Last(t)).items = one \o Last(t).items
    BY <1>5, <2>1, BehindIs
  <2>3. one \o <<>> = one
    BY <2>1
  <2> QED BY <1>3, <1>5, <2>2, <2>3
<1>7. X # {} => a \in i .. N - 1
  <2>1. X \subseteq i .. N - 1
    BY CoreIs
  <2>2. X # {} => a \in X
    <3> HIDE DEF X
    <3> QED BY <1>1, <2>1, CoreFacts
  <2> QED BY <2>1, <2>2
<1> HIDE DEF one, a, b, X
<1>8. CASE one = <<>>
  BY <1>6, <1>8
<1>9. CASE X # {} /\ one = <<<<a, b>>>>
  <2>1. a \in i .. N - 1
    BY <1>7, <1>9
  <2>2. \A j \in a .. N - 1 : At(t, j) # Newline
    <3>1. \A j \in a .. N - 1 : j \in i .. N - 1
      BY <2>1
    <3> QED BY <3>1
  <2>3. \A j \in <<a, b>>[1] .. Len(t) - 1 : At(t, j) # Newline
    BY <2>2
  <2>4. OnlyAtEnd(t, "Lines", <<a, b>>)
    BY <2>3 DEF OnlyAtEnd
  <2> QED BY <1>6, <1>9, <2>4, SMTT(30)
<1> QED BY <1>4, <1>8, <1>9

\* A turn at a line (next_line).
LEMMA LineTrace ==
  ASSUME NEW T, NEW t \in Seq(T), NEW o, NEW data \in Seq(T), NEW n, NEW ended, NEW s, NEW r,
         Asked(t, o, data, n, ended, s, r), s.mode = "Lines"
  PROVE  Followed(t, o, n, s.mode, r, Line(s, data, ended))
<1> DEFINE c == s.cursor
           cm == s.comments
           L == Lines(t, cm)
           y == Line(s, data, ended)
           N == Len(t)
<1>0. /\ n \in Nat /\ n = Len(data) /\ o \in Nat /\ N \in Nat /\ o + n <= N
      /\ Shown(t, o, data) /\ ended \in BOOLEAN /\ (ended => o + n = N) /\ r \in Rests
      /\ Ready(s, n) /\ \A k \in 0 .. n - 1 : At(t, o + k) = At(data, k)
  BY DEF Asked, Shown, Standing
<1>1. s \in Splitters /\ cm \in BOOLEAN /\ c \in 0 .. n /\ s.probe \in 0 .. n
  BY <1>0 DEF Ready, Splitters
<1>2. /\ r = Behind(L[o + c], Last(t))
      /\ \A j \in c .. s.probe - 1 : At(t, o + j) # Newline
  BY DEF Asked, Standing, OnLine, Last
<1>3. \A j \in c .. s.probe - 1 : At(data, j) # Newline
  <2>1. \A j \in c .. s.probe - 1 : j \in 0 .. n - 1
    BY <1>0, <1>1
  <2> QED BY <1>0, <1>2, <2>1
<1>4. PICK e : LineIs(s, data, n, ended, e, y)
  <2> HIDE DEF y
  <2>1. \E e : LineIs(s, data, n, ended, e, Line(s, data, ended))
    BY <1>0, <1>3, LineParts
  <2> QED BY <2>1 DEF y
<1> DEFINE core  == Core(data, c, e)
           next  == IF e < n THEN e + 1 ELSE n
           a     == First(core, e)
           b     == IF core = {} THEN a ELSE Past(core)
           here  == [s EXCEPT !.cursor = next, !.probe = next]
           probed == [s EXCEPT !.probe = n]
           has   == LineHasValue(data, a, b, cm)
           g     == o + next
           rest  == Behind(L[g], Last(t))
<1>5. /\ e \in c .. n
      /\ \A j \in c .. e - 1 : At(data, j) # Newline
      /\ e < n => At(data, e) = Newline
      /\ e = n /\ ~ended => y = Need(probed, data)
  BY <1>4 DEF LineIs
<1>6. (e < n \/ ended) =>
        y = IF has THEN Item(here, a, b) ELSE IF ended /\ next >= n THEN End(here) ELSE Again(here)
  BY <1>4 DEF LineIs
<1>7. /\ here.cursor = next /\ here.probe = next /\ here.mode = "Lines" /\ here.comments = cm
      /\ probed.cursor = c /\ probed.probe = n /\ probed.mode = "Lines" /\ probed.comments = cm
  BY <1>1 DEF Splitters
<1>8. next \in e .. n /\ next \in c .. n /\ g \in 0 .. N /\ (next >= n => next = n)
  <2>1. /\ n \in Nat /\ o \in Nat /\ N \in Nat /\ o + n <= N /\ c \in 0 .. n /\ e \in c .. n
        /\ next = IF e < n THEN e + 1 ELSE n
        /\ g = o + next
    BY <1>0, <1>1, <1>5
  <2> HIDE DEF N, c, next, g
  <2> QED BY ONLY <2>1
<1>9. Last(t) \in Rests /\ Last(t).items = <<>> /\ Last(t).code = "none"
  BY <1>0, LastFacts
<1> HIDE DEF y, here, probed
<1>10. CASE e = n /\ ~ended
  <2>1. \A j \in c .. n - 1 : At(t, o + j) # Newline
    <3>1. \A j \in c .. n - 1 : j \in 0 .. n - 1
      BY <1>0, <1>1
    <3> QED BY <1>0, <1>5, <1>10, <3>1
  <2>2. Standing(t, o, probed, r)
    BY <1>0, <1>2, <1>7, <2>1 DEF Standing, OnLine, Last
  <2>3. N = o + n => \A k \in 1 .. Len(r.items) : OnlyAtEnd(t, "Lines", r.items[k])
    <3> SUFFICES ASSUME N = o + n PROVE \A k \in 1 .. Len(r.items) : OnlyAtEnd(t, "Lines", r.items[k])
      OBVIOUS
    <3> DEFINE i == o + c
    <3>1. i \in 0 .. N
      BY <1>0, <1>1
    <3>2. \A j \in i .. N - 1 : At(t, j) # Newline
      <4>1. ASSUME NEW j \in o + c .. o + n - 1
            PROVE  At(t, j) # Newline
        <5>1. j - o \in c .. n - 1 /\ o + (j - o) = j
          BY <1>0, <1>1
        <5> QED BY <2>1, <5>1
      <4> QED BY <1>0, <1>1, <4>1
    <3>3. r = Behind(L[i], Last(t))
      BY <1>2
    <3> HIDE DEF i, N
    <3>4. N = Len(t)
      BY DEF N
    <3> QED BY <1>0, <1>1, <3>1, <3>2, <3>3, <3>4, LastLine
  <2>4. y = Need(probed, data)
    BY <1>5, <1>10
  <2>5. y.sp = probed /\ y.out.kind = "need"
    BY <2>4, ReplyIs DEF Need
  <2> QED BY <2>2, <2>3, <2>5 DEF Followed, Held, y
<1>11. CASE e < n \/ ended
  <2>1. e = n => o + n = Len(t)
    BY <1>0, <1>11
  <2>2. /\ L[o + c] \in Seq(Int \X Int) /\ L[g] \in Seq(Int \X Int)
        /\ has => /\ a \in c .. next /\ b \in a + 1 .. next
                  /\ L[o + c] = <<<<o + a, o + b>>>> \o L[g]
        /\ ~has => L[o + c] = L[g]
    <3> HIDE DEF core, next, a, b, has, L, c, cm
    <3>1. /\ next = (IF e < n THEN e + 1 ELSE n) /\ core = Core(data, c, e)
          /\ a = First(core, e) /\ b = (IF core = {} THEN a ELSE Past(core)) /\ L = Lines(t, cm)
      BY DEF next, core, a, b, L
    <3>2. has <=> LineHasValue(data, a, b, cm)
      BY DEF has
    <3>3. LineLeaves(data, o, c, next, a, b, cm, L)
      <4>1. /\ c \in 0 .. n /\ e \in c .. n /\ cm \in BOOLEAN /\ n = Len(data) /\ Shown(t, o, data)
            /\ t \in Seq(T) /\ data \in Seq(T)
            /\ \A j \in c .. e - 1 : At(data, j) # Newline
            /\ e < n => At(data, e) = Newline
        BY <1>0, <1>1, <1>5 DEF c, cm
      <4>2. LineAt(data, n, c, e, next, core, a, b)
        BY <3>1, <4>1 DEF LineAt
      <4> QED BY <2>1, <3>1, <4>1, <4>2, LineRest
    <3> QED BY <3>2, <3>3 DEF LineLeaves
  <2> HIDE DEF L, a, b, core, has, next, c, rest
  <2>3. rest \in Rests /\ rest.items = L[g] /\ rest.code = "none"
    <3> DEFINE x == L[g]
    <3>1. x \in Seq(Int \X Int)
      BY <2>2
    <3> HIDE DEF x, g
    <3>2. /\ Behind(x, Last(t)) \in Rests /\ Behind(x, Last(t)).items = x \o Last(t).items
          /\ Behind(x, Last(t)).code = "none"
      BY <1>9, <3>1, BehindIs
    <3>3. x \o <<>> = x
      BY <3>1
    <3> QED BY <1>9, <3>2, <3>3 DEF rest, x
  <2>4. Standing(t, o, here, rest)
    <3>1. \A j \in here.cursor .. here.probe - 1 : At(t, o + j) # Newline
      <4>1. here.cursor .. here.probe - 1 = {}
        BY <1>0, <1>7, <1>8
      <4> QED BY <4>1
    <3> QED BY <1>7, <2>3, <3>1 DEF Standing, OnLine, rest, Last, L, g
  <2>5. CASE has
    <3>1. y = Item(here, a, b)
      BY <1>6, <1>11, <2>5
    <3>2. y.sp = here /\ y.out.kind = "item" /\ y.out.start = a /\ y.out.end = b
      BY <3>1, ReplyIs DEF Item
    <3> DEFINE x == L[g]
               u == o + a
               v == o + b
               f == <<<<u, v>>>>
    <3>3. u \in Int /\ v \in Int /\ u < v /\ v <= g /\ g \in Int
      <4>1. a \in c .. next /\ b \in a + 1 .. next /\ next \in Int /\ c \in Int /\ o \in Nat
        BY <1>0, <1>1, <1>8, <2>2, <2>5 DEF c
      <4> QED BY <4>1
    <3>4. x \in Seq(Int \X Int)
      BY <2>2
    <3>5. L[o + c] = f \o x
      BY <2>2, <2>5
    <3>6. \A k \in 1 .. Len(x) : x[k][2] > g
      <4> HIDE DEF g
      <4>1. \A k \in 1 .. Len(Lines(t, cm)[g]) : Lines(t, cm)[g][k][2] > g
        <5> HIDE DEF N
        <5>1. N = Len(t)
          BY DEF N
        <5> QED BY <1>0, <1>1, <1>8, <5>1, LinesPast
      <4> QED BY <4>1 DEF L
    <3> HIDE DEF x, u, v, g, f
    <3>7. f \in Seq(Int \X Int)
      BY <3>3 DEF f
    <3>8. r = Behind(f, rest)
      <4>1. Behind(f, Behind(x, Last(t))) = Behind(f \o x, Last(t))
        BY <1>9, <3>4, <3>7, BehindFacts
      <4> QED BY <1>2, <3>5, <4>1 DEF rest, x
    <3>9. Ahead(rest, u)
      <4>1. rest.items = x
        BY <2>3 DEF x
      <4>2. \A k \in 1 .. Len(x) : x[k] \in Int \X Int
        BY <3>4
      <4>3. \A k \in 1 .. Len(x) : x[k][2] \in Int
        BY <4>2
      <4>4. \A k \in 1 .. Len(x) : x[k][2] > u
        BY <3>3, <3>6, <4>3
      <4> QED BY <4>1, <4>4 DEF Ahead
    <3>10. Ahead(r, u)
      BY <2>3, <3>3, <3>8, <3>9, OneBehind DEF f
    <3>11. f = <<<<o + y.out.start, o + y.out.end>>>> /\ u = o + y.out.start
      BY <3>2 DEF f, u, v
    <3>12. \E q \in Rests : /\ r = Behind(<<<<o + y.out.start, o + y.out.end>>>>, q)
                            /\ Standing(t, o, y.sp, q)
      BY <2>3, <2>4, <3>2, <3>8, <3>11
    <3> QED BY <3>2, <3>10, <3>11, <3>12 DEF Followed, Held, y
  <2>6. CASE ~has
    <3>1. r = rest
      BY <1>2, <2>2, <2>6 DEF rest
    <3>2. y = IF ended /\ next >= n THEN End(here) ELSE Again(here)
      BY <1>6, <1>11, <2>6
    <3>3. CASE ended /\ next >= n
      <4>1. g = N
        BY <1>0, <1>8, <3>3
      <4>2. L[N] = <<>>
        <5> HIDE DEF N
        <5>1. N = Len(t)
          BY DEF N
        <5> QED BY <1>0, <1>1, <5>1, LinesOver DEF L
      <4>3. r.items = <<>> /\ r.code = "none"
        BY <2>3, <3>1, <4>1, <4>2
      <4> QED BY <2>4, <3>1, <3>2, <3>3, <4>3, EndTrace DEF y
    <3>4. CASE ~(ended /\ next >= n)
      <4>1. y = Again(here)
        BY <3>2, <3>4
      <4>2. y.sp = here /\ y.out.kind = "again"
        BY <4>1, ReplyIs DEF Again
      <4> QED BY <2>4, <3>1, <4>2 DEF Followed, Held, y
    <3> QED BY <3>3, <3>4
  <2> QED BY <2>5, <2>6
<1>12. e = n \/ e < n
  BY <1>0, <1>1, <1>5
<1> QED BY <1>0, <1>10, <1>11, <1>12 DEF y

-----------------------------------------------------------------------------
(* One turn, and the loop.                                                 *)

\* A turn of the splitter follows what is to find.
LEMMA TurnTrace ==
  ASSUME NEW T, NEW t \in Seq(T), NEW o, NEW data \in Seq(T), NEW n, NEW ended, NEW s, NEW r,
         Asked(t, o, data, n, ended, s, r)
  PROVE  Followed(t, o, n, s.mode, r, Turn(s, data, ended))
<1>1. s.state \in States
  BY DEF Asked, Ready, Splitters
<1>2. CASE s.mode = "Lines"
  BY <1>2, LineTrace DEF Turn
<1>3. CASE s.mode # "Lines"
  <2>1. CASE s.state = "BeforeOpen"
    BY <1>3, <2>1, BeforeOpenTrace DEF Turn
  <2>2. CASE s.state = "FirstItem"
    BY <1>3, <2>2, FirstItemTrace DEF Turn
  <2>3. CASE s.state = "BeforeItem"
    BY <1>3, <2>3, BeforeItemTrace DEF Turn
  <2>4. CASE s.state = "InItem"
    BY <1>3, <2>4, InItemTrace DEF Turn
  <2>5. CASE s.state = "AfterItem"
    BY <1>3, <2>5, AfterItemTrace DEF Turn
  <2>6. CASE s.state = "Done"
    BY <1>3, <2>6, DoneTrace DEF Turn
  <2> QED BY <1>1, <2>1, <2>2, <2>3, <2>4, <2>5, <2>6 DEF States
<1> QED BY <1>2, <1>3

\* u is a splitter for what s is one for.
SameSetup(u, s) == u.mode = s.mode /\ u.comments = s.comments

\* skip_ws leaves what the splitter is for, if its two continuations do.
LEMMA WsKeeps ==
  ASSUME NEW s \in Splitters, NEW x, NEW data, NEW ended, NEW here,
         here = [s EXCEPT !.cursor = x.pos, !.comment = x.comment],
         NEW b, SameSetup(b.sp, s), NEW e, SameSetup(e.sp, s),
         NEW y, WsReply(y, x, s, here, data, ended, b, e)
  PROVE  SameSetup(y.sp, s)
<1>1. SameSetup(here, s) /\ SameSetup(s, s)
  BY DEF SameSetup, Splitters
<1>2. Need(here, data).sp = here /\ Fail(s, "UnexpectedEnd").sp = s
  BY ReplyIs DEF Need, Fail
<1> DEFINE nd == Need(here, data)
           fl == Fail(s, "UnexpectedEnd")
<1> HIDE DEF nd, fl
<1>3. SameSetup(nd.sp, s) /\ SameSetup(fl.sp, s)
  BY <1>1, <1>2 DEF nd, fl
<1>4. y = CASE x.out = "byte" -> b
            [] Starves(x.out # "byte", ended) -> nd
            [] x.out # "byte" /\ ended /\ x.comment \in {"Block", "BlockStar"} -> fl
            [] OTHER -> e
  BY DEF WsReply, nd, fl
<1>5. y = b \/ y = nd \/ y = fl \/ y = e
  BY <1>4 DEF Starves
<1> QED BY <1>3, <1>5

\* A turn leaves what the splitter is for.
LEMMA TurnKeeps ==
  ASSUME NEW T, NEW data \in Seq(T), NEW ended \in BOOLEAN, NEW s \in Splitters
  PROVE  SameSetup(Turn(s, data, ended).sp, s)
<1> DEFINE x == SkipFrom(data, s.cursor, s.comment, ended, s.comments)
           here == [s EXCEPT !.cursor = x.pos, !.comment = x.comment]
<1>1. s.state \in States
  BY DEF Splitters
<1>2. \A u : Again(u).sp = u /\ End(u).sp = u
             /\ (\A code : Fail(u, code).sp = u) /\ (\A a, e : Item(u, a, e).sp = u)
             /\ Need(u, data).sp = u
  BY ReplyIs DEF Again, End, Fail, Item, Need
<1>3. /\ SameSetup(here, s) /\ SameSetup(StartItem(here), s)
      /\ \A state : SameSetup(Take(here, state), s)
  BY DEF SameSetup, StartItem, Take, Splitters
<1>4. SameSetup(End(here).sp, s) /\ SameSetup(Truncated(here).sp, s)
      /\ \A code : SameSetup(Fail(here, code).sp, s)
  BY <1>2, <1>3 DEF Truncated
<1>5. SameSetup(BeforeOpen(s, data, ended).sp, s)
  <2> DEFINE b == IF At(data, here.cursor) = Bracket THEN Again(Take(here, "FirstItem"))
                                                     ELSE Fail(here, "ExpectedBracket")
  <2>1. WsReply(BeforeOpen(s, data, ended), x, s, here, data, ended, b, End(here))
    BY DEF BeforeOpen, SkipWs, WsReply
  <2>2. SameSetup(b.sp, s)
    <3> HIDE DEF here
    <3> QED BY <1>2, <1>3, <1>4
  <2> HIDE DEF b, x
  <2> QED BY <1>4, <2>1, <2>2, WsKeeps
<1>6. SameSetup(FirstItem(s, data, ended).sp, s)
  <2> DEFINE b == Again(IF At(data, here.cursor) = Unbracket THEN Take(here, "Done") ELSE StartItem(here))
  <2>1. WsReply(FirstItem(s, data, ended), x, s, here, data, ended, b, Truncated(here))
    BY DEF FirstItem, SkipWs, WsReply
  <2>2. SameSetup(b.sp, s)
    <3> HIDE DEF here
    <3> QED BY <1>2, <1>3, <1>4
  <2> HIDE DEF b, x
  <2> QED BY <1>4, <2>1, <2>2, WsKeeps
<1>7. SameSetup(BeforeItem(s, data, ended).sp, s)
  <2> DEFINE b == Again(StartItem(here))
             e == IF here.mode = "Values" THEN End(here) ELSE Truncated(here)
  <2>1. WsReply(BeforeItem(s, data, ended), x, s, here, data, ended, b, e)
    BY DEF BeforeItem, SkipWs, WsReply
  <2>2. SameSetup(b.sp, s) /\ SameSetup(e.sp, s)
    <3> HIDE DEF here
    <3> QED BY <1>2, <1>3, <1>4
  <2> HIDE DEF b, e, x
  <2> QED BY <1>4, <2>1, <2>2, WsKeeps
<1>8. SameSetup(AfterItem(s, data, ended).sp, s)
  <2> DEFINE b == CASE At(data, here.cursor) = Comma -> Again(Take(here, "BeforeItem"))
                    [] At(data, here.cursor) = Unbracket -> Again(Take(here, "Done"))
                    [] OTHER -> Fail(here, "ExpectedComma")
  <2>1. WsReply(AfterItem(s, data, ended), x, s, here, data, ended, b, Truncated(here))
    BY DEF AfterItem, SkipWs, WsReply
  <2>2. SameSetup(b.sp, s)
    <3> HIDE DEF here
    <3>1. \/ b = Again(Take(here, "BeforeItem")) \/ b = Again(Take(here, "Done"))
          \/ b = Fail(here, "ExpectedComma")
      OBVIOUS
    <3> HIDE DEF b
    <3> QED BY <1>2, <1>3, <1>4, <3>1
  <2> HIDE DEF b, x
  <2> QED BY <1>4, <2>1, <2>2, WsKeeps
<1>9. SameSetup(Done(s, data, ended).sp, s)
  <2> DEFINE b == Fail(here, "TrailingContent")
  <2>1. WsReply(Done(s, data, ended), x, s, here, data, ended, b, End(here))
    BY DEF Done, SkipWs, WsReply
  <2>2. SameSetup(b.sp, s)
    BY <1>4
  <2> HIDE DEF b, x
  <2> QED BY <1>4, <2>1, <2>2, WsKeeps
<1>10. SameSetup(InItem(s, data, ended).sp, s)
  <2> DEFINE a == Advance(s.scan, data, s.comments)
             on == [s EXCEPT !.scan = a.scan]
             y == InItem(s, data, ended)
  <2>1. SameSetup(on, s) /\ SameSetup(Finish(on), s)
    BY DEF SameSetup, Finish, Splitters
  <2>2. \/ y = Need(on, data) \/ y = Item(Finish(on), s.cursor, a.scan.pos)
        \/ \E code : y = Fail(on, code)
    BY DEF InItem
  <2> HIDE DEF a, on, y
  <2>3. y.sp = on \/ y.sp = Finish(on)
    BY <1>2, <2>2
  <2> QED BY <2>1, <2>3 DEF y
<1>11. CASE s.mode = "Lines"
  <2> DEFINE y == Line(s, data, ended)
  <2> DEFINE n      == Len(data)
             from   == IF s.probe > s.cursor THEN s.probe ELSE s.cursor
             breaks == {i \in from .. n - 1 : At(data, i) = Newline}
             e      == First(breaks, n)
             next   == IF e < n THEN e + 1 ELSE n
             core   == {i \in s.cursor .. e - 1 : ~IsWs(At(data, i))}
             start  == First(core, e)
             end    == IF core = {} THEN start ELSE 1 + CHOOSE i \in core : \A j \in core : j <= i
             on     == [s EXCEPT !.cursor = next, !.probe = next]
             probed == [s EXCEPT !.probe = n]
             has    == LineHasValue(data, start, end, s.comments)
             found  == Item(on, start, end)
             none   == IF ended /\ next >= n THEN End(on) ELSE Again(on)
  <2>1. e = n \/ e < n
    <3>1. breaks = {} \/ e \in breaks
      <4>1. from \in Nat /\ n - 1 \in Int /\ breaks \subseteq from .. n - 1
        BY DEF Splitters
      <4> HIDE DEF breaks, from, n
      <4> QED BY <4>1, FirstIsLeast DEF e
    <3>2. e \in breaks => e < n
      <4> HIDE DEF e
      <4> QED BY DEF Splitters
    <3> QED BY <3>1, <3>2 DEF First
  <2>2. y = CASE Starves(e = n, ended) -> Need(probed, data)
              [] (e < n \/ ended) /\ has -> found
              [] (e < n \/ ended) /\ ~has -> none
    BY DEF Line
  <2>3. SameSetup(on, s) /\ SameSetup(probed, s)
    BY DEF SameSetup, Splitters
  <2> HIDE DEF e, on, probed, has, n
  <2>4. found.sp = on /\ none.sp = on /\ Need(probed, data).sp = probed
    BY <1>2
  <2> HIDE DEF found, none, y
  <2>5. y = Need(probed, data) \/ y = found \/ y = none
    BY <2>1, <2>2 DEF Starves
  <2>6. SameSetup(y.sp, s)
    BY <2>3, <2>4, <2>5
  <2> QED BY <1>11, <2>6 DEF Turn, y
<1>12. CASE s.mode # "Lines"
  <2>1. \/ Turn(s, data, ended) = BeforeOpen(s, data, ended)
        \/ Turn(s, data, ended) = FirstItem(s, data, ended)
        \/ Turn(s, data, ended) = BeforeItem(s, data, ended)
        \/ Turn(s, data, ended) = InItem(s, data, ended)
        \/ Turn(s, data, ended) = AfterItem(s, data, ended)
        \/ Turn(s, data, ended) = Done(s, data, ended)
    BY <1>1, <1>12 DEF Turn, States
  <2> QED BY <1>5, <1>6, <1>7, <1>8, <1>9, <1>10, <2>1
<1> QED BY <1>11, <1>12

\* The splitter's answer follows what is to find (Framer::next).
LEMMA NextTrace ==
  ASSUME NEW T, NEW t \in Seq(T), NEW o, NEW data \in Seq(T), NEW n, NEW ended, NEW s, NEW r,
         Asked(t, o, data, n, ended, s, r)
  PROVE  /\ Followed(t, o, n, s.mode, r, NextItem(s, data, ended))
         /\ SameSetup(NextItem(s, data, ended).sp, s)
         /\ Answered(NextItem(s, data, ended), s.cursor, n, ended)
<1> DEFINE m == n + 4
<1>0. /\ n \in Nat /\ m \in Nat /\ n = Len(data) /\ ended \in BOOLEAN /\ Ready(s, n)
      /\ s \in Splitters /\ m = n + 4
  BY DEF Asked, Ready
<1>1. PICK turn : IsLoop(turn, s, data, n, ended)
  BY <1>0, LoopExists
<1>2. /\ NextItem(s, data, ended) = turn[m] /\ turn[0].out.kind = "again" /\ turn[0].sp = s
      /\ \A k \in 1 .. m : turn[k] = IF turn[k - 1].out.kind = "again"
                                     THEN Turn(turn[k - 1].sp, data, ended) ELSE turn[k - 1]
  BY <1>1 DEF IsLoop, Again, Reply
<1>3. Answered(NextItem(s, data, ended), s.cursor, n, ended)
  BY <1>0, NextFacts
<1> HIDE DEF m
<1> DEFINE Good(y) == /\ Followed(t, o, n, s.mode, r, y) /\ SameSetup(y.sp, s)
                      /\ y.out.kind = "again" => Asked(t, o, data, n, ended, y.sp, r)
           S == {k \in 0 .. m : Good(turn[k])}
<1>4. 0 \in S
  <2>1. SameSetup(s, s)
    BY DEF SameSetup
  <2>2. Standing(t, o, s, r)
    BY DEF Asked
  <2>3. Followed(t, o, n, s.mode, r, turn[0])
    BY <1>2, <2>2 DEF Followed, Held
  <2>4. Good(turn[0])
    BY <1>2, <2>1, <2>3
  <2> HIDE DEF Good
  <2> QED BY <1>0, <2>4
<1>5. ASSUME NEW k \in 1 .. m, k - 1 \in S
      PROVE  k \in S
  <2> DEFINE u == turn[k - 1]
             v == turn[k]
  <2>1. /\ Good(u) /\ k \in 0 .. m
        /\ v = IF u.out.kind = "again" THEN Turn(u.sp, data, ended) ELSE u
    <3> HIDE DEF Good
    <3> QED BY <1>2, <1>5
  <2> HIDE DEF u, v
  <2>2. CASE u.out.kind = "again"
    <3>1. Asked(t, o, data, n, ended, u.sp, r) /\ SameSetup(u.sp, s) /\ v = Turn(u.sp, data, ended)
      BY <2>1, <2>2
    <3>2. Ready(u.sp, n) /\ u.sp \in Splitters
      BY <3>1 DEF Asked, Ready
    <3>3. Followed(t, o, n, u.sp.mode, r, v)
      BY <3>1, TurnTrace
    <3>4. SameSetup(v.sp, u.sp)
      BY <1>0, <3>1, <3>2, TurnKeeps
    <3>5. Turned(v, u.sp, n, ended)
      BY <1>0, <3>1, <3>2, TurnFacts
    <3>6. Followed(t, o, n, s.mode, r, v) /\ SameSetup(v.sp, s)
      BY <3>1, <3>3, <3>4 DEF SameSetup
    <3>7. ASSUME v.out.kind = "again"
          PROVE  Asked(t, o, data, n, ended, v.sp, r)
      <4>1. Ready(v.sp, n)
        BY <3>5, <3>7 DEF Turned, Answered
      <4>2. Standing(t, o, v.sp, r)
        BY <3>6, <3>7 DEF Followed
      <4> QED BY <4>1, <4>2 DEF Asked
    <3>8. Good(v)
      BY <3>6, <3>7
    <3> HIDE DEF Good
    <3> QED BY <2>1, <3>8 DEF v
  <2>3. CASE u.out.kind # "again"
    <3> HIDE DEF Good
    <3>1. v = u
      BY <2>1, <2>3
    <3> QED BY <2>1, <3>1 DEF v
  <2> QED BY <2>2, <2>3
<1>6. m \in S
  <2> HIDE DEF S
  <2>1. 0 .. m \subseteq S
    BY <1>0, <1>4, <1>5, UpToInduction
  <2> QED BY <1>0, <2>1
<1>7. Good(turn[m])
  BY <1>6
<1> QED BY <1>2, <1>3, <1>7

-----------------------------------------------------------------------------
(* Between two questions.                                                  *)

\* The value at p, and what is behind it, end behind p.
LEMMA ValueAhead ==
  ASSUME NEW t, NEW comments \in BOOLEAN, NEW mode \in {"Values", "Array"},
         NEW p, Begins(t, comments, p), NEW r, r = OfValue(t, mode, comments, p)
  PROVE  Ahead(r, p)
<1> DEFINE N == Len(t)
           v == ValueAt(t, p, mode, comments)
           e == v.end
           rest == RestAt(t, mode, comments, e, "after")
<1>0. N \in Nat /\ N = Len(t) /\ p \in Nat /\ p < N
  BY DEF Begins
<1>1. v.code = "none" => e \in p + 1 .. N
  BY <1>0, ValueFacts
<1>2. r = FromValue(v, p, rest)
  BY DEF OfValue
<1>3. CASE v.code # "none"
  <2>1. r.items = <<>>
    <3> HIDE DEF v, rest
    <3> QED BY <1>2, <1>3 DEF FromValue, Stops
  <2> QED BY <2>1 DEF Ahead
<1>4. CASE v.code = "none"
  <2>1. "after" \in Stages /\ e \in 0 .. N /\ e \in p + 1 .. N
    BY <1>0, <1>1, <1>4 DEF Stages
  <2> HIDE DEF e, N
  <2>2. rest \in Rests /\ Ahead(rest, Gap(t, e, comments))
    BY <1>0, <2>1, RestFacts, RestAhead
  <2>3. Gap(t, e, comments) \in e .. N + 1
    <3>1. e \in 0 .. N + 1
      BY <1>0, <2>1
    <3> QED BY <1>0, <3>1, GapFacts
  <2>4. rest.items \in Seq(Int \X Int)
    BY <2>2 DEF Rests
  <2> HIDE DEF rest
  <2>5. \A k \in 1 .. Len(rest.items) : rest.items[k][2] \in Int
    BY <2>4
  <2>6. Gap(t, e, comments) > p /\ Gap(t, e, comments) \in Int /\ p \in Int /\ e \in Int /\ p < e
    BY <1>0, <2>1, <2>3
  <2>7. Ahead(rest, p)
    BY <2>2, <2>5, <2>6 DEF Ahead
  <2>8. r = Behind(<<<<p, e>>>>, rest)
    <3> HIDE DEF v
    <3> QED BY <1>2, <1>4 DEF FromValue, e
  <2> QED BY <2>2, <2>6, <2>7, <2>8, OneBehind
<1> QED BY <1>3, <1>4

\* What is ahead of an offset is ahead of those before it.
LEMMA AheadBefore ==
  ASSUME NEW r \in Rests, NEW a \in Int, NEW b \in Int, b <= a, Ahead(r, a)
  PROVE  Ahead(r, b)
<1>1. r.items \in Seq(Int \X Int)
  BY DEF Rests
<1>2. \A k \in 1 .. Len(r.items) : r.items[k][2] \in Int
  BY <1>1
<1> QED BY <1>2 DEF Ahead

\* What is still to find ends behind where the splitter stands.
LEMMA StandingAhead ==
  ASSUME NEW T, NEW t \in Seq(T), NEW o \in Nat, NEW n \in Nat, o + n <= Len(t), NEW s, Ready(s, n),
         NEW r, Standing(t, o, s, r)
  PROVE  Ahead(r, o + s.cursor)
<1> DEFINE N == Len(t)
           p == o + s.cursor
           cm == s.comments
<1>0. /\ N \in Nat /\ N = Len(t) /\ p \in Nat /\ p <= N /\ p \in 0 .. N /\ cm \in BOOLEAN
      /\ s.mode \in Modes /\ r \in Rests
  BY DEF Ready, Splitters, Standing
<1>1. CASE s.mode = "Lines"
  <2> DEFINE x == Lines(t, cm)[p]
  <2>1. r = Behind(x, Last(t))
    BY <1>1 DEF Standing, OnLine, Last
  <2>2. x \in Seq(Int \X Int)
    <3> HIDE DEF N, p
    <3> QED BY <1>0, LinesRecursion
  <2>3. \A k \in 1 .. Len(x) : x[k][2] > p
    <3> HIDE DEF N, p
    <3> QED BY <1>0, LinesPast
  <2>4. Last(t) \in Rests /\ Last(t).items = <<>>
    BY <1>0, LastFacts
  <2> HIDE DEF x
  <2>5. r.items = x
    <3>1. Behind(x, Last(t)).items = x \o Last(t).items
      BY <2>2, <2>4, BehindIs
    <3> QED BY <2>1, <2>2, <2>4, <3>1
  <2> HIDE DEF p
  <2>6. Ahead(r, p)
    BY <2>3, <2>5 DEF Ahead
  <2> QED BY <2>6 DEF p
<1>2. CASE s.mode # "Lines" /\ Between(t, o, s, r)
  <2>1. PICK g \in 0 .. N : /\ g <= p
                            /\ r = RestAt(t, s.mode, cm, g, Stage[s.state])
                            /\ Skipped(t, cm, g, p, s.comment)
    BY <1>2 DEF Between
  <2>2. s.mode \in {"Values", "Array"} /\ Stage[s.state] \in Stages
    BY <1>0, <1>2, StageIs DEF Modes, Stages, Between, States
  <2> HIDE DEF N, p, cm
  <2>3. Ahead(r, Gap(t, g, cm))
    BY <1>0, <2>1, <2>2, RestAhead
  <2>4. Gap(t, g, cm) \in p .. N + 1
    BY <1>0, <2>1, SkippedBehind
  <2>5. Gap(t, g, cm) \in Int /\ p \in Int /\ p <= Gap(t, g, cm)
    BY <1>0, <2>4
  <2>6. Ahead(r, p)
    BY <1>0, <2>3, <2>5, AheadBefore
  <2> QED BY <2>6 DEF p
<1>3. CASE s.mode # "Lines" /\ Inside(t, o, s, r)
  <2>1. s.mode \in {"Values", "Array"}
    BY <1>0, <1>3 DEF Modes
  <2>2. Begins(t, cm, p) /\ r = OfValue(t, s.mode, cm, p)
    BY <1>3 DEF Inside
  <2> QED BY <1>0, <2>1, <2>2, ValueAhead
<1> QED BY <1>1, <1>2, <1>3 DEF Standing

\* What Rebase leaves of a splitter.
LEMMA RebaseIs ==
  ASSUME NEW n \in Nat, NEW s, Ready(s, n), NEW u, u = Rebase(s)
  PROVE  /\ u.cursor = 0 /\ u.state = s.state /\ u.comment = s.comment /\ SameSetup(u, s)
         /\ u.probe = IF s.probe > s.cursor THEN s.probe - s.cursor ELSE 0
         /\ u.scan = [s.scan EXCEPT !.pos = IF s.scan.pos > s.cursor THEN s.scan.pos - s.cursor ELSE 0]
  BY DEF Rebase, SameSetup, Ready, Splitters

\* Where the search is does not depend on where the buffer begins.
LEMMA TracedSame ==
  ASSUME NEW t, NEW comments, NEW p, NEW x, NEW u \in Scans, Traced(t, comments, p, x, u),
         NEW q, NEW v, v = [u EXCEPT !.pos = q]
  PROVE  Traced(t, comments, p, x, v)
<1>1. /\ v.depth = u.depth /\ v.inString = u.inString /\ v.escaped = u.escaped
      /\ v.scalar = u.scalar /\ v.comment = u.comment
  BY DEF Scans
<1> QED BY <1>1, Zenon DEF Traced, AtUnit, AtString, AtComment, AtScalar

\* Dropping the consumed bytes leaves it standing where it stood (Framer::rebase).
LEMMA RebaseTrace ==
  ASSUME NEW t, NEW o \in Nat, NEW n \in Nat, o + n <= Len(t), NEW s, Ready(s, n),
         NEW r, Standing(t, o, s, r)
  PROVE  Standing(t, o + s.cursor, Rebase(s), r) /\ SameSetup(Rebase(s), s)
<1> DEFINE u == Rebase(s)
           c == s.cursor
           p == o + c
           q == IF s.scan.pos > c THEN s.scan.pos - c ELSE 0
<1>1. /\ u.cursor = 0 /\ u.state = s.state /\ u.comment = s.comment /\ SameSetup(u, s)
      /\ u.probe = IF s.probe > c THEN s.probe - c ELSE 0
      /\ u.scan = [s.scan EXCEPT !.pos = q]
  BY RebaseIs
<1>2. u.mode = s.mode /\ u.comments = s.comments
  BY <1>1 DEF SameSetup
<1>3. /\ c \in Nat /\ s.probe \in Nat /\ s.scan \in Scans /\ s.scan.pos \in Nat /\ p \in Nat
      /\ s.state = "InItem" => c <= s.scan.pos
  BY DEF Ready, Splitters, Scans
<1> SUFFICES Standing(t, p, u, r)
  BY <1>1
<1> HIDE DEF u
<1>4. u.scan.pos = q /\ p + u.cursor = p /\ r \in Rests
  BY <1>1, <1>3 DEF Scans, Standing
<1>5. CASE s.mode = "Lines"
  <2>1. \A j \in u.cursor .. u.probe - 1 : At(t, p + j) # Newline
    <3> TAKE j \in u.cursor .. u.probe - 1
    <3>1. c + j \in c .. s.probe - 1 /\ o + (c + j) = p + j
      <4>1. u.cursor = 0 /\ (u.probe = s.probe - c \/ u.probe = 0)
        BY <1>1
      <4>2. j \in Int /\ 0 <= j /\ j <= u.probe - 1
        BY <1>3, <4>1
      <4>3. u.probe = s.probe - c
        BY <4>1, <4>2
      <4>4. c + j \in Int /\ c <= c + j /\ c + j <= s.probe - 1
        <5> DEFINE h == s.probe
                   d == u.probe
        <5>1. c \in Nat /\ h \in Nat /\ d = h - c /\ j \in Int /\ 0 <= j /\ j <= d - 1
          BY <1>3, <4>2, <4>3
        <5> HIDE DEF c, h, d
        <5>2. c + j \in Int /\ c <= c + j /\ c + j <= h - 1
          BY ONLY <5>1
        <5> QED BY <5>2 DEF h
      <4>5. c + j \in c .. s.probe - 1
        BY <1>3, <4>4
      <4>6. o + (c + j) = p + j
        BY <1>3, <4>2
      <4> QED BY <4>5, <4>6
    <3>2. \A i \in c .. s.probe - 1 : At(t, o + i) # Newline
      BY <1>5 DEF Standing, OnLine
    <3> QED BY <3>1, <3>2
  <2> QED BY <1>1, <1>2, <1>4, <1>5, <2>1 DEF Standing, OnLine
<1>6. CASE s.mode # "Lines" /\ Between(t, o, s, r)
  <2>1. u.scan.pos <= u.cursor
    BY <1>1, <1>3, <1>4, <1>6 DEF Between
  <2>2. Between(t, p, u, r)
    BY <1>1, <1>2, <1>4, <1>6, <2>1 DEF Between
  <2> QED BY <1>1, <1>2, <1>4, <1>6, <2>2 DEF Standing
<1>7. CASE s.mode # "Lines" /\ Inside(t, o, s, r)
  <2>1. p + u.scan.pos = o + s.scan.pos
    BY <1>3, <1>4, <1>7 DEF Inside
  <2>2. Traced(t, s.comments, p, o + s.scan.pos, u.scan)
    <3> DEFINE x  == o + s.scan.pos
               cm == s.comments
               v  == s.scan
    <3>1. Traced(t, cm, p, x, v)
      BY <1>7 DEF Inside
    <3>2. v \in Scans /\ u.scan = [v EXCEPT !.pos = q]
      BY <1>1, <1>3
    <3> HIDE DEF p, q, x, cm, v
    <3> DEFINE w == u.scan
    <3> HIDE DEF w
    <3>3. Traced(t, cm, p, x, w)
      BY <3>1, <3>2, TracedSame DEF w
    <3> QED BY <3>3 DEF x, cm, w
  <2> HIDE DEF p, q
  <2>3. Inside(t, p, u, r)
    <3>1. Begins(t, s.comments, p) /\ r = OfValue(t, s.mode, s.comments, p)
      BY <1>7 DEF Inside, p
    <3> QED BY <1>1, <1>2, <1>4, <1>7, <2>1, <2>2, <3>1 DEF Inside
  <2> QED BY <1>1, <1>2, <1>4, <1>7, <2>3 DEF Standing, p
<1> QED BY <1>5, <1>6, <1>7 DEF Standing

-----------------------------------------------------------------------------
(* What a reader has of the whole stream.                                  *)

\* t is a stream this one may still turn out to be.
MayBe(t) ==
  /\ t \in Seq(Bytes) /\ Len(stream) <= Len(t)
  /\ \A k \in 1 .. Len(stream) : t[k] = stream[k]
  /\ eof => t = stream

\* Whatever is still to come, the values given out and those the splitter is
\* still to find are the values of the whole.
Tracks ==
  \A t : MayBe(t) =>
    \E r \in Rests : /\ Standing(t, origin, sp, r)
                     /\ Frame(setup.mode, t, setup.comments) = Behind(items, r)

\* The buffer is the end of the stream, and nothing given out lies in what is
\* still to be searched.
Place ==
  /\ origin \in Nat /\ origin + Len(buf) = Len(stream) /\ Shown(stream, origin, buf)
  /\ \A i \in 1 .. Len(items) : items[i][2] <= origin + sp.cursor
  /\ reports = <<>>

\* What the latest answer says of the reader.
Answering ==
  /\ failed => last.kind \in {"error", "end"}
  /\ last.kind = "error" => failed
  /\ last.kind = "end" => failed \/ eof
  /\ last.kind = "need" => last.end \in Nat /\ last.end <= Len(stream)

CInv ==
  /\ RInv
  /\ items \in Seq(Int \X Int) /\ late \in BOOLEAN /\ (late => eof)
  /\ ~failed => Place
  /\ ~failed /\ ~late => Tracks /\ SameSetup(sp, setup)
  /\ Answering
  /\ ChunkingIsInvisible

-----------------------------------------------------------------------------
(* The reader starts with everything still to find.                        *)

\* A new splitter stands where the stream begins (Splitter::new).
LEMMA NewStanding ==
  ASSUME NEW T, NEW t \in Seq(T), NEW mode \in Modes, NEW comments \in BOOLEAN,
         NEW s, s = NewSplitter(mode, comments), NEW r, r = Frame(mode, t, comments)
  PROVE  r \in Rests /\ Standing(t, 0, s, r)
<1> DEFINE N == Len(t)
<1>0. N \in Nat /\ N = Len(t) /\ 0 \in 0 .. N /\ 0 + 0 = 0
  OBVIOUS
<1>1. /\ s.mode = mode /\ s.comments = comments /\ s.cursor = 0 /\ s.probe = 0 /\ s.comment = "No"
      /\ s.state = (IF mode = "Array" THEN "BeforeOpen" ELSE "BeforeItem") /\ s.scan.pos = 0
  BY DEF NewSplitter, FreshScan
<1> HIDE DEF N
<1>2. CASE mode = "Lines"
  <2> DEFINE x == Lines(t, comments)[0]
  <2>1. r = Behind(x, Last(t))
    BY <1>2 DEF Frame, Last
  <2>2. x \in Seq(Int \X Int) /\ Last(t) \in Rests
    BY <1>0, LinesRecursion, LastFacts
  <2> HIDE DEF x
  <2>3. r \in Rests
    BY <2>1, <2>2, BehindIs
  <2>4. 0 .. 0 - 1 = {}
    OBVIOUS
  <2>5. OnLine(t, 0, s, r)
    BY <1>0, <1>1, <1>2, <2>1, <2>4 DEF OnLine, x, Last
  <2> QED BY <1>1, <1>2, <2>3, <2>5 DEF Standing
<1>3. CASE mode # "Lines"
  <2>1. mode \in {"Values", "Array"}
    BY <1>3 DEF Modes
  <2>2. s.state \in States \ {"InItem"} /\ (s.mode = "Values" => s.state = "BeforeItem")
    BY <1>1 DEF States
  <2> DEFINE st == Stage[s.state]
  <2>3. st \in Stages /\ (mode = "Array" => st = "open")
    BY <1>1, <2>1, StageIs DEF Stages
  <2>4. r = RestAt(t, mode, comments, 0, st)
    BY <2>1, <2>3 DEF Frame, RestAt
  <2> HIDE DEF st
  <2>5. r \in Rests
    BY <1>0, <2>1, <2>3, <2>4, RestFacts
  <2>6. Skipped(t, comments, 0, 0, "No")
    BY DEF Skipped
  <2>7. Between(t, 0, s, r)
    BY <1>0, <1>1, <2>2, <2>4, <2>6 DEF Between, st, N
  <2> QED BY <1>1, <1>3, <2>5, <2>7 DEF Standing
<1> QED BY <1>2, <1>3

\* A reader that has just been made has its whole stream still to find.
LEMMA InitTracks == ReaderInit => CInv
<1> SUFFICES ASSUME ReaderInit PROVE CInv
  OBVIOUS
<1>1. /\ setup \in Setups /\ setup.mode \in Modes /\ setup.comments \in BOOLEAN
      /\ sp = NewSplitter(setup.mode, setup.comments) /\ items = <<>> /\ late = FALSE
      /\ stream = <<>> /\ buf = <<>> /\ origin = 0 /\ eof = FALSE /\ failed = FALSE /\ reports = <<>>
      /\ last.kind = "none"
  BY ReaderAssumption DEF ReaderInit, W!Init
<1>2. RInv
  BY InitReady
<1>s. SameSetup(sp, setup)
  BY <1>1 DEF SameSetup, NewSplitter
<1>3. Place
  <2>2. Shown(stream, origin, buf) /\ origin + Len(buf) = Len(stream)
    BY <1>1 DEF Shown
  <2> QED BY <1>1, <2>2 DEF Place
<1>4. Tracks
  <2> SUFFICES ASSUME NEW t, MayBe(t)
               PROVE  \E r \in Rests : /\ Standing(t, origin, sp, r)
                                       /\ Frame(setup.mode, t, setup.comments) = Behind(items, r)
    BY DEF Tracks
  <2> DEFINE r == Frame(setup.mode, t, setup.comments)
  <2>1. t \in Seq(Bytes)
    BY DEF MayBe
  <2>2. r \in Rests /\ Standing(t, 0, sp, r)
    BY <1>1, <2>1, NewStanding
  <2> HIDE DEF r
  <2>3. Behind(<<>>, r) = r
    <3>1. <<>> \in Seq(Int \X Int)
      OBVIOUS
    <3> QED BY <2>2, <3>1, BehindFacts
  <2> QED BY <1>1, <2>2, <2>3 DEF r
<1>5. Answering /\ ~ReadThrough
  BY <1>1 DEF Answering, ReadThrough
<1>6. ChunkingIsInvisible
  BY <1>1, <1>5 DEF ChunkingIsInvisible, SameValuesHoweverChunked, SameFailureHoweverChunked,
                    NoValueHeldBack
<1>7. items \in Seq(Int \X Int) /\ late \in BOOLEAN /\ ~late
  <2>1. <<>> \in Seq(Int \X Int)
    OBVIOUS
  <2> QED BY <1>1, <2>1
<1> QED BY <1>2, <1>3, <1>4, <1>5, <1>6, <1>7, <1>s DEF CInv

-----------------------------------------------------------------------------
(* Steps that ask nothing.                                                 *)

\* The end is declared, a read brings nothing, or nothing happens.
LEMMA QuietStep ==
  ASSUME CInv, RInv', UNCHANGED <<setup, stream, buf, origin, failed, last, reports, sp, items, late>>,
         eof' = eof \/ eof' = TRUE
  PROVE  CInv'
<1>1. Answering' /\ (~failed' => Place') /\ (late' => eof') /\ eof' \in BOOLEAN
  BY DEF CInv, Answering, Place, RInv
<1>2. ASSUME ~failed', ~late' PROVE Tracks' /\ SameSetup(sp, setup)'
  <2>1. Tracks
    BY <1>2 DEF CInv
  <2>2. \A t : MayBe(t)' => MayBe(t)
    BY DEF MayBe, CInv, RInv
  <2> QED BY <1>2, <2>1, <2>2 DEF Tracks, CInv, SameSetup
<1>3. ReadThrough' => ReadThrough
  BY DEF ReadThrough, CInv, Answering
<1>4. ChunkingIsInvisible'
  <2>1. Whole' = Whole /\ TooLarge' = TooLarge
    BY DEF Whole, TooLarge
  <2>2. SameValuesHoweverChunked'
    BY <1>3, <2>1 DEF CInv, ChunkingIsInvisible, SameValuesHoweverChunked
  <2>3. SameFailureHoweverChunked'
    BY <1>3, <2>1 DEF CInv, ChunkingIsInvisible, SameFailureHoweverChunked
  <2>4. \A v : OnlyEndFinishes(v)' = OnlyEndFinishes(v)
    BY DEF OnlyEndFinishes
  <2>5. NoValueHeldBack'
    BY <2>1, <2>4 DEF CInv, ChunkingIsInvisible, NoValueHeldBack, RInv
  <2> QED BY <2>2, <2>3, <2>5 DEF ChunkingIsInvisible
<1> QED BY <1>1, <1>2, <1>4 DEF CInv

\* Bytes behind both keep a part a part.
LEMMA ShownGrows ==
  ASSUME NEW T, NEW s \in Seq(T), NEW b \in Seq(T), NEW x \in Seq(T), NEW o,
         Shown(s, o, b), o + Len(b) = Len(s)
  PROVE  Shown(s \o x, o, b \o x) /\ o + Len(b \o x) = Len(s \o x)
<1>1. /\ o \in Nat /\ Len(s) \in Nat /\ Len(b) \in Nat /\ Len(x) \in Nat
      /\ Len(s \o x) = Len(s) + Len(x) /\ Len(b \o x) = Len(b) + Len(x)
  BY DEF Shown
<1>2. ASSUME NEW i \in 0 .. Len(b \o x) - 1
      PROVE  At(s \o x, o + i) = At(b \o x, i)
  <2>1. CASE i < Len(b)
    <3>1. i \in 0 .. Len(b) - 1 /\ i + 1 \in 1 .. Len(b) /\ (o + i) + 1 \in 1 .. Len(s)
      BY <1>1, <2>1
    <3>2. s[(o + i) + 1] = b[i + 1]
      BY <3>1 DEF Shown, At
    <3>3. (s \o x)[(o + i) + 1] = s[(o + i) + 1] /\ (b \o x)[i + 1] = b[i + 1]
      BY <3>1
    <3> QED BY <3>2, <3>3 DEF At
  <2>2. CASE ~(i < Len(b))
    <3> DEFINE k == i - Len(b) + 1
    <3>1. k \in 1 .. Len(x) /\ i + 1 = Len(b) + k /\ (o + i) + 1 = Len(s) + k
      <4> DEFINE m == Len(b)
                 l == Len(x)
                 q == Len(s)
      <4>1. /\ i \in 0 .. (m + l) - 1 /\ m \in Nat /\ l \in Nat /\ q \in Nat /\ o \in Nat /\ ~(i < m)
            /\ o + m = q /\ k = i - m + 1
        BY <1>1, <2>2
      <4> HIDE DEF m, l, q, k
      <4>2. k \in 1 .. l /\ i + 1 = m + k /\ (o + i) + 1 = q + k
        BY ONLY <4>1
      <4> QED BY <4>2 DEF m, l, q
    <3> HIDE DEF k
    <3>2. (s \o x)[Len(s) + k] = x[k] /\ (b \o x)[Len(b) + k] = x[k]
      BY <3>1
    <3> QED BY <3>1, <3>2 DEF At
  <2> QED BY <2>1, <2>2
<1>3. o + Len(b \o x) = Len(s \o x)
  BY <1>1
<1> QED BY <1>1, <1>2, <1>3 DEF Shown

\* Bytes arrive: the streams this one may be are fewer, and none is over.
LEMMA ArrivalStep ==
  ASSUME CInv, RInv', ~failed, NEW bytes \in Seq(Bytes), Len(bytes) >= 1,
         stream' = stream \o bytes, buf' = buf \o bytes, late' = (late \/ eof),
         UNCHANGED <<setup, origin, eof, failed, last, reports, sp, items>>
  PROVE  CInv'
<1>0. /\ stream \in Seq(Bytes) /\ buf \in Seq(Bytes) /\ Len(stream) \in Nat /\ Len(buf) \in Nat
      /\ Len(bytes) \in Nat /\ Len(stream') = Len(stream) + Len(bytes)
      /\ Len(buf') = Len(buf) + Len(bytes) /\ eof \in BOOLEAN /\ late \in BOOLEAN
  BY DEF CInv, RInv
<1>1. Answering'
  BY <1>0 DEF CInv, Answering
<1>2. Place'
  <2>1. Place
    BY DEF CInv
  <2>2. Shown(stream', origin, buf') /\ origin + Len(buf') = Len(stream')
    BY <1>0, <2>1, ShownGrows, ZenonT(30) DEF Place
  <2> QED BY <2>1, <2>2 DEF Place
<1>3. ASSUME ~late'
      PROVE  Tracks' /\ ~eof /\ ~late /\ SameSetup(sp, setup)'
  <2>1. ~eof /\ ~late /\ ~eof'
    BY <1>0, <1>3
  <2>2. Tracks
    BY <2>1 DEF CInv
  <2>3. ASSUME NEW t, MayBe(t)'
        PROVE  MayBe(t)
    <3>1. t \in Seq(Bytes) /\ Len(stream') <= Len(t) /\ \A k \in 1 .. Len(stream') : t[k] = stream'[k]
      BY <2>1, <1>3, <2>3 DEF MayBe, Bytes
    <3>2. \A k \in 1 .. Len(stream) : k \in 1 .. Len(stream') /\ stream'[k] = stream[k]
      BY <1>0
    <3>3. Len(stream) <= Len(t)
      <4>1. Len(t) \in Nat
        BY <3>1
      <4> QED BY <1>0, <3>1, <4>1
    <3> QED BY <2>1, <3>1, <3>2, <3>3 DEF MayBe
  <2> QED BY <2>1, <2>2, <2>3 DEF Tracks, CInv, SameSetup
<1>4. ~ReadThrough'
  BY <1>3 DEF ReadThrough, CInv, Answering
<1>5. ChunkingIsInvisible'
  BY <1>0, <1>4 DEF ChunkingIsInvisible, SameValuesHoweverChunked, SameFailureHoweverChunked,
                    NoValueHeldBack, CInv, Answering
<1>6. items' \in Seq(Int \X Int) /\ late' \in BOOLEAN /\ (late' => eof')
  BY <1>0 DEF CInv
<1> QED BY <1>1, <1>2, <1>3, <1>5, <1>6 DEF CInv

-----------------------------------------------------------------------------
(* Asking for a value.                                                     *)

\* What is left of b without its first c bytes (Window::compact).
Dropped(b, c) == SubSeq(b, c + 1, Len(b))

\* The part of a part from offset c on.
LEMMA ShownLater ==
  ASSUME NEW T, NEW s, NEW b \in Seq(T), NEW o \in Nat, Shown(s, o, b), NEW c \in 0 .. Len(b)
  PROVE  /\ Dropped(b, c) \in Seq(T) /\ Len(Dropped(b, c)) = Len(b) - c
         /\ Shown(s, o + c, Dropped(b, c))
<1> DEFINE v == Dropped(b, c)
<1>1. Len(b) \in Nat /\ o \in Nat /\ Len(s) \in Nat /\ o + Len(b) <= Len(s) /\ c \in Nat
  BY DEF Shown
<1>2. v \in Seq(T) /\ Len(v) = Len(b) - c /\ \A i \in 1 .. Len(b) - c : v[i] = b[c + i]
  BY <1>1 DEF Dropped
<1> HIDE DEF v
<1>3. ASSUME NEW i \in 0 .. Len(v) - 1
      PROVE  At(s, (o + c) + i) = At(v, i)
  <2>1. i + 1 \in 1 .. Len(b) - c /\ c + i \in 0 .. Len(b) - 1
    BY <1>1, <1>2
  <2>2. o + (c + i) = (o + c) + i /\ c + (i + 1) = (c + i) + 1
    BY <1>1, <2>1
  <2>3. At(s, o + (c + i)) = At(b, c + i)
    BY <2>1 DEF Shown
  <2>4. v[i + 1] = b[c + (i + 1)]
    BY <1>2, <2>1
  <2> QED BY <2>2, <2>3, <2>4 DEF At
<1>4. o + c \in Nat /\ Len(v) \in Nat /\ (o + c) + Len(v) <= Len(s)
  BY <1>1, <1>2
<1> QED BY <1>1, <1>2, <1>3, <1>4 DEF Shown, v

\* The splitter the framer is asked with (Window::locate).
Asker == IF W!Compacts THEN Rebase(sp) ELSE sp

\* What locate works on is the end of the stream too, and the offset the same.
LEMMA ViewIs ==
  ASSUME CInv, ~failed, NEW o, o = W!ViewOrigin, NEW v, v = W!View
  PROVE  /\ v \in Seq(Bytes) /\ Ready(Asker, Len(v)) /\ Asker.cursor = W!ViewCursor
         /\ Shown(stream, o, v) /\ o + Len(v) = Len(stream)
         /\ o + Asker.cursor = origin + sp.cursor /\ (~late => SameSetup(Asker, setup))
         /\ Located = NextItem(Asker, v, eof) /\ Len(v) <= Len(buf)
<1>1. /\ RInv /\ Place /\ buf \in Seq(Bytes) /\ Len(buf) \in Nat /\ Ready(sp, Len(buf))
      /\ origin \in Nat /\ origin + Len(buf) = Len(stream) /\ Shown(stream, origin, buf)
      /\ ~late => SameSetup(sp, setup)
  BY DEF CInv, RInv, Place
<1>2. sp.cursor \in 0 .. Len(buf)
  BY <1>1 DEF Ready, Splitters
<1>3. v \in Seq(Bytes) /\ Ready(Asker, Len(v)) /\ Asker.cursor = W!ViewCursor
  BY <1>1, ViewFacts DEF Asker
<1>4. Located = NextItem(Asker, v, eof)
  BY DEF Located, Asker
<1>5. CASE W!Compacts
  <2> DEFINE c == sp.cursor
  <2>1. v = SubSeq(buf, c + 1, Len(buf)) /\ o = origin + c /\ W!ViewCursor = 0
    BY <1>5 DEF W!View, W!ViewOrigin, W!ViewCursor
  <2>2. Shown(stream, o, v) /\ Len(v) = Len(buf) - c
    <3>1. c \in 0 .. Len(buf)
      BY <1>2
    <3>2. buf \in Seq(Bytes) /\ Shown(stream, origin, buf) /\ origin \in Nat
      BY <1>1
    <3> HIDE DEF c
    <3>3. Shown(stream, origin + c, v) /\ Len(v) = Len(buf) - c
      <4>1. v = Dropped(buf, c)
        BY <2>1 DEF Dropped
      <4>2. buf \in Seq(Bytes) /\ origin \in Nat /\ c \in 0 .. Len(buf)
        BY <3>1, <3>2
      <4>3. Shown(stream, origin, buf)
        BY <3>2
      <4>4. Shown(stream, origin + c, Dropped(buf, c)) /\ Len(Dropped(buf, c)) = Len(buf) - c
        BY <4>2, <4>3, ShownLater, Zenon
      <4> QED BY <4>1, <4>4
    <3> QED BY <2>1, <3>3
  <2>3. ~late => SameSetup(Asker, setup)
    <3>1. SameSetup(Rebase(sp), sp)
      BY <1>1, RebaseIs
    <3> QED BY <1>1, <1>5, <3>1 DEF Asker, SameSetup
  <2>4. o + Len(v) = Len(stream) /\ o + Asker.cursor = origin + sp.cursor /\ Len(v) <= Len(buf)
    <3>1. c \in 0 .. Len(buf) /\ Asker.cursor = 0
      BY <1>2, <1>3, <2>1
    <3>2. o = origin + c /\ Len(v) = Len(buf) - c /\ Len(buf) \in Nat /\ origin \in Nat
          /\ origin + Len(buf) = Len(stream)
      BY <1>1, <2>1, <2>2
    <3> HIDE DEF c
    <3>3. o + Len(v) = Len(stream) /\ o + Asker.cursor = origin + c /\ Len(v) <= Len(buf)
      BY <3>1, <3>2
    <3> QED BY <3>3 DEF c
  <2> QED BY <1>3, <1>4, <2>2, <2>3, <2>4
<1>6. CASE ~W!Compacts
  <2>1. v = buf /\ o = origin /\ W!ViewCursor = sp.cursor /\ Asker = sp
    BY <1>6 DEF W!View, W!ViewOrigin, W!ViewCursor, Asker
  <2> QED BY <1>1, <1>3, <1>4, <2>1
<1> QED BY <1>5, <1>6

\* Asked, it stands in every stream this one may be, on the way to its values.
LEMMA AskerAsked ==
  ASSUME CInv, ~failed, ~late, NEW o, o = W!ViewOrigin, NEW v, v = W!View, NEW t, MayBe(t)
  PROVE  \E r \in Rests : /\ Asked(t, o, v, Len(v), eof, Asker, r)
                          /\ Frame(setup.mode, t, setup.comments) = Behind(items, r)
<1>1. /\ v \in Seq(Bytes) /\ Ready(Asker, Len(v)) /\ Shown(stream, o, v) /\ o + Len(v) = Len(stream)
  BY ViewIs
<1>2. /\ t \in Seq(Bytes) /\ Len(stream) <= Len(t) /\ (eof => t = stream)
      /\ \A k \in 1 .. Len(stream) : t[k] = stream[k]
  BY DEF MayBe
<1>3. PICK r \in Rests : /\ Standing(t, origin, sp, r)
                         /\ Frame(setup.mode, t, setup.comments) = Behind(items, r)
  BY DEF CInv, Tracks
<1>4. Shown(t, o, v)
  <2>1. o \in Nat /\ Len(v) \in Nat /\ Len(stream) \in Nat /\ Len(t) \in Nat
    BY <1>1, <1>2 DEF Shown
  <2>2. ASSUME NEW i \in 0 .. Len(v) - 1
        PROVE  At(t, o + i) = At(v, i)
    <3>1. (o + i) + 1 \in 1 .. Len(stream)
      BY <1>1, <2>1
    <3>2. At(stream, o + i) = At(v, i)
      BY <1>1 DEF Shown
    <3> QED BY <1>2, <3>1, <3>2 DEF At
  <2> QED BY <1>1, <1>2, <2>1, <2>2 DEF Shown
<1>5. Standing(t, o, Asker, r)
  <2>1. CASE W!Compacts
    <3>1. /\ Ready(sp, Len(buf)) /\ origin \in Nat /\ Len(buf) \in Nat /\ origin + Len(buf) = Len(stream)
      BY DEF CInv, RInv, Place
    <3>2. origin + Len(buf) <= Len(t)
      BY <1>2, <3>1
    <3>3. Standing(t, origin + sp.cursor, Rebase(sp), r)
      BY <1>3, <3>1, <3>2, RebaseTrace
    <3> QED BY <2>1, <3>3 DEF W!ViewOrigin, Asker
  <2>2. CASE ~W!Compacts
    BY <1>3, <2>2 DEF W!ViewOrigin, Asker
  <2> QED BY <2>1, <2>2
<1>6. Len(v) \in Nat /\ eof \in BOOLEAN /\ (eof => o + Len(v) = Len(t))
  BY <1>1, <1>2 DEF CInv, RInv
<1>7. Asked(t, o, v, Len(v), eof, Asker, r)
  BY <1>1, <1>4, <1>5, <1>6 DEF Asked
<1> QED BY <1>3, <1>7

\* What the answer says of every stream this one may be.
LEMMA AnswerTrace ==
  ASSUME CInv, ~failed, ~late, NEW o, o = W!ViewOrigin, NEW n, n = Len(W!View), NEW t, MayBe(t)
  PROVE  /\ SameSetup(Located.sp, setup)
         /\ \E r \in Rests : /\ Followed(t, o, n, setup.mode, r, Located)
                             /\ Frame(setup.mode, t, setup.comments) = Behind(items, r)
<1> DEFINE v == W!View
<1>1. PICK r \in Rests : /\ Asked(t, o, v, Len(v), eof, Asker, r)
                         /\ Frame(setup.mode, t, setup.comments) = Behind(items, r)
  BY AskerAsked
<1>2. v \in Seq(Bytes) /\ Located = NextItem(Asker, v, eof) /\ SameSetup(Asker, setup)
  BY ViewIs
<1>3. t \in Seq(Bytes)
  BY DEF MayBe
<1> HIDE DEF v
<1>4. /\ Followed(t, o, Len(v), Asker.mode, r, NextItem(Asker, v, eof))
      /\ SameSetup(NextItem(Asker, v, eof).sp, Asker)
  BY <1>1, <1>2, <1>3, NextTrace
<1> QED BY <1>1, <1>2, <1>4 DEF v, SameSetup

\* And it keeps to the contract.
LEMMA AnswerKeeps ==
  ASSUME CInv, ~failed, NEW n, n = Len(W!View)
  PROVE  Answered(Located, Asker.cursor, n, eof)
<1>1. Asker.cursor = W!ViewCursor
  BY ViewIs
<1> QED BY <1>1, LocatedFacts DEF CInv

\* The contract, in the form these proofs use it.
Contract(y, c, n, ended) ==
  /\ y.out.kind \in {"need", "item", "end", "fail"}
  /\ y.out.kind = "fail" => y.out.code \in JsonCodes
  /\ y.out.cursor = y.sp.cursor /\ y.sp.cursor \in c .. n
  /\ y.out.start \in c .. n /\ y.out.end \in y.out.start .. n
  /\ y.out.kind = "need" => ~ended /\ y.out.start = y.sp.cursor /\ y.out.end = n
  /\ y.out.kind = "item" => y.out.end <= y.sp.cursor
  /\ y.out.kind = "end" => ended /\ y.out.start = y.out.end
  /\ y.out.kind # "fail" => Ready(y.sp, n)

\* An answer of the framer contract, taken apart.
LEMMA ContractKept ==
  ASSUME NEW n \in Nat, NEW c \in 0 .. n, NEW ended \in BOOLEAN, NEW y, Answered(y, c, n, ended)
  PROVE  Contract(y, c, n, ended)
<1> DEFINE out == y.out
<1>0. /\ out \in W!FramerOutcomes(n, c, ended) /\ out.cursor = y.sp.cursor
      /\ out.kind # "fail" => Ready(y.sp, n)
  BY DEF Answered
<1> HIDE DEF out
<1> DEFINE Keeps == /\ out.kind \in {"need", "item", "end", "fail"}
                    /\ out.kind = "fail" => out.code \in JsonCodes
                    /\ out.cursor \in c .. n
                    /\ out.start \in c .. n /\ out.end \in out.start .. n
                    /\ out.kind = "need" => ~ended /\ out.start = out.cursor /\ out.end = n
                    /\ out.kind = "item" => out.end <= out.cursor
                    /\ out.kind = "end" => ended /\ out.start = out.end
<1> SUFFICES Keeps
  BY <1>0 DEF Contract, out
<1>1. CASE out \in {W!Outcome("need", "none", d, d, n) : d \in IF ended THEN {} ELSE c .. n}
  <2>1. ~ended /\ \E d \in c .. n : out = W!Outcome("need", "none", d, d, n)
    BY <1>1
  <2> QED BY <2>1 DEF W!Outcome
<1>2. CASE out \in IF ended THEN {W!Outcome("end", "none", n, n, n)} ELSE {}
  <2>1. ended /\ out = W!Outcome("end", "none", n, n, n)
    BY <1>2
  <2> QED BY <2>1 DEF W!Outcome
<1>3. CASE out \in {W!Outcome("fail", code, d, at, at) :
                      code \in JsonCodes, d \in c .. n, at \in c .. n}
  <2>1. \E code \in JsonCodes, d \in c .. n, at \in c .. n : out = W!Outcome("fail", code, d, at, at)
    BY <1>3
  <2> QED BY <2>1 DEF W!Outcome
<1>4. CASE out \in {x \in {W!Outcome("item", "none", d, b, e) :
                             d \in c .. n, b \in c .. n, e \in c .. n} :
                      x.start < n /\ x.start <= x.end /\ x.end <= x.cursor}
  <2>1. /\ \E d \in c .. n, b \in c .. n, e \in c .. n : out = W!Outcome("item", "none", d, b, e)
        /\ out.start <= out.end /\ out.end <= out.cursor
    BY <1>4
  <2> QED BY <2>1 DEF W!Outcome
<1> HIDE DEF Keeps
<1> QED BY <1>0, <1>1, <1>2, <1>3, <1>4 DEF W!FramerOutcomes

\* The answer, in the stream.
LEMMA AnswerIs ==
  ASSUME CInv, ~failed, NEW o, o = W!ViewOrigin, NEW n, n = Len(W!View), NEW c, c = Asker.cursor
  PROVE  /\ Contract(Located, c, n, eof)
         /\ n \in Nat /\ o \in Nat /\ c \in 0 .. n /\ o + n = Len(stream) /\ o + c = origin + sp.cursor
         /\ \A i \in 1 .. Len(items) : items[i] \in Int \X Int /\ items[i][2] <= o + c
<1>1. /\ W!View \in Seq(Bytes) /\ Ready(Asker, n) /\ Shown(stream, o, W!View) /\ o + n = Len(stream)
      /\ o + c = origin + sp.cursor
  BY ViewIs
<1>2. n \in Nat /\ c \in 0 .. n /\ o \in Nat /\ eof \in BOOLEAN
  BY <1>1 DEF Ready, Splitters, Shown, CInv, RInv
<1>3. Answered(Located, c, n, eof)
  BY AnswerKeeps
<1>4. Contract(Located, c, n, eof)
  BY <1>2, <1>3, ContractKept
<1>5. items \in Seq(Int \X Int) /\ \A i \in 1 .. Len(items) : items[i][2] <= origin + sp.cursor
  BY DEF CInv, Place
<1>6. \A i \in 1 .. Len(items) : items[i] \in Int \X Int /\ items[i][2] <= o + c
  BY <1>1, <1>5
<1> QED BY <1>1, <1>2, <1>4, <1>6

\* This stream is one it may be.
LEMMA MayBeThis == CInv => MayBe(stream)
<1>1. SUFFICES ASSUME stream \in Seq(Bytes) PROVE MayBe(stream)
  BY DEF CInv, RInv
<1>2. Len(stream) <= Len(stream)
  BY <1>1
<1> QED BY <1>1, <1>2 DEF MayBe

\* The values of w are those of x and then those of r.
WholeOf(w, x, r) ==
  /\ w.code = r.code /\ w.at = r.at /\ w.loose = r.loose
  /\ Len(x) \in Nat /\ Len(w.items) \in Nat /\ DOMAIN w.items = 1 .. Len(w.items)
  /\ DOMAIN x = 1 .. Len(x) /\ Len(x) <= Len(w.items)
  /\ \A i \in 1 .. Len(x) : w.items[i] = x[i]
  /\ \A i \in 1 .. Len(w.items) :
       i <= Len(x) \/ \E k \in 1 .. Len(r.items) : w.items[i] = r.items[k]
  /\ r.items = <<>> => Len(w.items) = Len(x)

\* The values given out, then those still to find, are those of the whole.
LEMMA WholeParts ==
  ASSUME NEW x \in Seq(Int \X Int), NEW r \in Rests, NEW w, w = Behind(x, r)
  PROVE  WholeOf(w, x, r)
<1> DEFINE P == Int \X Int
           m == r.items
           u == w.items
<1>1. m \in Seq(P) /\ x \in Seq(P)
  BY DEF Rests
<1>2. u = x \o m /\ w.code = r.code /\ w.at = r.at /\ w.loose = r.loose
  BY BehindIs
<1> HIDE DEF P, m, u
<1>3. /\ Len(x) \in Nat /\ Len(m) \in Nat /\ Len(u) = Len(x) + Len(m) /\ DOMAIN u = 1 .. Len(u)
      /\ DOMAIN x = 1 .. Len(x) /\ \A i \in 1 .. Len(x) : u[i] = x[i]
  BY <1>1, <1>2
<1>4. ASSUME NEW i \in 1 .. Len(u)
      PROVE  i <= Len(x) \/ \E k \in 1 .. Len(m) : u[i] = m[k]
  <2>1. CASE ~(i <= Len(x))
    <3>1. i - Len(x) \in 1 .. Len(m)
      BY <1>3, <2>1
    <3>2. u[i] = m[i - Len(x)]
      BY <1>1, <1>2, <1>3, <2>1
    <3> QED BY <3>1, <3>2
  <2> QED BY <2>1
<1>5. m = <<>> => Len(u) = Len(x)
  BY <1>3
<1>6. Len(x) <= Len(u) /\ Len(u) \in Nat
  BY <1>3
<1> QED BY <1>2, <1>3, <1>4, <1>5, <1>6, ZenonT(30) DEF m, u, WholeOf

\* One more value at the end of those given out.
LEMMA OneMore ==
  ASSUME NEW P, NEW x \in Seq(P), NEW v \in P, NEW u, u = Append(x, v)
  PROVE  /\ u = x \o <<v>>
         /\ \A i \in 1 .. Len(u) : u[i] = v \/ (i \in 1 .. Len(x) /\ u[i] = x[i])
<1>1. u = x \o <<v>>
  <2>1. Len(u) = Len(x) + 1 /\ Len(x \o <<v>>) = Len(x) + 1 /\ Len(x) \in Nat
    OBVIOUS
  <2>2. \A i \in 1 .. Len(x) + 1 : u[i] = (x \o <<v>>)[i]
    OBVIOUS
  <2>3. u \in Seq(P) /\ x \o <<v>> \in Seq(P)
    OBVIOUS
  <2> QED BY <2>1, <2>2, <2>3
<1>2. \A i \in 1 .. Len(u) : u[i] = v \/ (i \in 1 .. Len(x) /\ u[i] = x[i])
  OBVIOUS
<1> QED BY <1>1, <1>2

\* The answer to a reader that lives on: what was found is given out, and the
\* rest is still to find.
LEMMA LivesStep ==
  ASSUME CInv, RInv', ~failed, NEW o, o = W!ViewOrigin, NEW n, n = Len(W!View), NEW y, y = Located,
         sp' = y.sp, origin' = o, buf' = W!View, ~failed', y.out.kind # "fail",
         last' = [kind |-> y.out.kind, start |-> o + y.out.start, end |-> o + y.out.end],
         UNCHANGED <<setup, stream, eof, late, reports>>,
         items' = IF y.out.kind = "item" THEN Append(items, <<o + y.out.start, o + y.out.end>>) ELSE items
  PROVE  CInv'
<1> DEFINE c == Asker.cursor
           a == o + y.out.start
           b == o + y.out.end
           kind == y.out.kind
<1>0. /\ items \in Seq(Int \X Int) /\ late \in BOOLEAN /\ (late => eof) /\ eof \in BOOLEAN
      /\ stream \in Seq(Bytes) /\ reports = <<>>
  BY DEF CInv, RInv, Place
<1>1. /\ Contract(y, c, n, eof)
      /\ n \in Nat /\ o \in Nat /\ c \in 0 .. n /\ o + n = Len(stream)
      /\ \A i \in 1 .. Len(items) : items[i] \in Int \X Int /\ items[i][2] <= o + c
  BY AnswerIs
<1>2. /\ kind \in {"need", "item", "end"} /\ y.sp.cursor \in c .. n /\ Ready(y.sp, n)
      /\ y.out.start \in c .. n /\ y.out.end \in y.out.start .. n
      /\ kind = "need" => ~eof /\ y.out.end = n
      /\ kind = "item" => y.out.end <= y.sp.cursor
      /\ kind = "end" => eof
  BY <1>1 DEF Contract
<1>3. /\ a \in Int /\ b \in Int /\ b <= Len(stream) /\ b \in Nat /\ (kind = "item" => b <= o + y.sp.cursor)
      /\ \A i \in 1 .. Len(items) : items[i][2] <= o + y.sp.cursor
  <2>1. a \in Int /\ b \in Int /\ b <= Len(stream) /\ b \in Nat /\ (kind = "item" => b <= o + y.sp.cursor)
    <3> DEFINE st == y.out.start
               en == y.out.end
               cu == y.sp.cursor
    <3>1. /\ n \in Nat /\ o \in Nat /\ c \in Nat /\ st \in c .. n /\ en \in st .. n /\ cu \in c .. n
          /\ o + n = Len(stream)
      BY <1>1, <1>2
    <3>2. kind = "item" => en <= cu
      BY <1>2
    <3> HIDE DEF st, en, cu, kind, c
    <3>3. /\ o + st \in Int /\ o + en \in Nat /\ o + en \in Int /\ o + en <= Len(stream)
          /\ en <= cu => o + en <= o + cu
      BY <3>1
    <3> QED BY <3>2, <3>3 DEF st, en, cu
  <2>2. o + c <= o + y.sp.cursor /\ o + c \in Int /\ o + y.sp.cursor \in Int
    BY <1>1, <1>2
  <2> HIDE DEF c
  <2>3. ASSUME NEW i \in 1 .. Len(items)
        PROVE  items[i][2] <= o + y.sp.cursor
    <3>1. items[i][2] \in Int /\ items[i][2] <= o + c
      BY <1>1
    <3> QED BY <2>2, <3>1
  <2> QED BY <2>1, <2>3
<1>4. last'.kind = kind /\ last'.end = b /\ items' = IF kind = "item" THEN Append(items, <<a, b>>) ELSE items
  OBVIOUS
<1> HIDE DEF a, b, c, kind
<1>5. items' \in Seq(Int \X Int)
  <2>1. <<a, b>> \in Int \X Int
    BY <1>3
  <2> DEFINE P == Int \X Int
             v == <<a, b>>
  <2>2. items \in Seq(P) /\ v \in P
    BY <1>0, <2>1
  <2>3. items' = IF kind = "item" THEN Append(items, v) ELSE items
    BY <1>4
  <2> HIDE DEF P, v
  <2>4. items' \in Seq(P)
    BY <2>2, <2>3
  <2> QED BY <2>4 DEF P
<1>6. Place'
  <2>1. Shown(stream, o, W!View)
    BY ViewIs
  <2>2. ASSUME NEW i \in 1 .. Len(items')
        PROVE  items'[i][2] <= o + y.sp.cursor
    <3>1. CASE kind # "item"
      <4>1. items' = items
        BY <1>4, <3>1
      <4> QED BY <1>3, <2>2, <4>1
    <3>2. CASE kind = "item"
      <4> DEFINE v == <<a, b>>
      <4>1. items' = Append(items, v) /\ v[2] = b
        BY <1>4, <3>2
      <4>3. v \in Int \X Int
        BY <1>3
      <4> HIDE DEF v
      <4>2. items'[i] = v \/ (i \in 1 .. Len(items) /\ items'[i] = items[i])
        <5>1. \A k \in 1 .. Len(items') :
                items'[k] = v \/ (k \in 1 .. Len(items) /\ items'[k] = items[k])
          BY <1>0, <4>1, <4>3, OneMore
        <5> QED BY <2>2, <5>1
      <4> QED BY <1>3, <3>2, <4>1, <4>2
    <3> QED BY <3>1, <3>2
  <2> QED BY <1>0, <1>1, <2>1, <2>2 DEF Place
<1>7. ASSUME ~late
      PROVE  Tracks' /\ SameSetup(sp, setup)'
  <2>1. \A t : MayBe(t)' <=> MayBe(t)
    BY DEF MayBe
  <2>2. SameSetup(sp, setup)'
    <3>1. SameSetup(y.sp, setup)
      BY <1>7, MayBeThis, AnswerTrace
    <3> QED BY <3>1 DEF SameSetup
  <2>3. ASSUME NEW t, MayBe(t)
        PROVE  \E r \in Rests : /\ Standing(t, o, y.sp, r)
                                /\ Frame(setup.mode, t, setup.comments) = Behind(items', r)
    <3>1. PICK r \in Rests : /\ Followed(t, o, n, setup.mode, r, y)
                             /\ Frame(setup.mode, t, setup.comments) = Behind(items, r)
      BY <1>7, <2>3, AnswerTrace
    <3>2. CASE kind # "item"
      <4>1. items' = items /\ kind \in {"again", "need", "end"}
        BY <1>2, <1>4, <3>2
      <4>2. Standing(t, o, y.sp, r)
        BY <3>1, <4>1 DEF Followed, kind
      <4> QED BY <3>1, <4>1, <4>2
    <3>3. CASE kind = "item"
      <4> DEFINE f == <<<<a, b>>>>
      <4>1. PICK rest \in Rests : r = Behind(f, rest) /\ Standing(t, o, y.sp, rest)
        BY <3>1, <3>3 DEF Followed, kind, a, b
      <4>2. f \in Seq(Int \X Int)
        BY <1>3
      <4>3. items' = items \o f
        <5> DEFINE v == <<a, b>>
                   P == Int \X Int
        <5>1. items \in Seq(P) /\ v \in P /\ items' = Append(items, v) /\ f = <<v>>
          BY <1>0, <1>3, <1>4, <3>3
        <5> HIDE DEF v, P, f
        <5>2. items' = items \o <<v>>
          <6> DEFINE x == items
                     u == items'
          <6>1. x \in Seq(P) /\ v \in P /\ u = Append(x, v)
            BY <5>1
          <6> HIDE DEF x, u
          <6>2. u = x \o <<v>>
            BY ONLY <6>1, OneMore
          <6> QED BY <6>2 DEF x, u
        <5> QED BY <5>1, <5>2
      <4> HIDE DEF f
      <4>4. Behind(items, Behind(f, rest)) = Behind(items \o f, rest)
        BY <1>0, <4>2, BehindFacts
      <4> QED BY <3>1, <4>1, <4>3, <4>4
    <3> QED BY <3>2, <3>3
  <2>4. Tracks'
    BY <2>1, <2>3 DEF Tracks
  <2> QED BY <2>2, <2>4
<1>8. Answering'
  BY <1>2, <1>3, <1>4 DEF Answering
<1>9. ChunkingIsInvisible'
  <2>1. Whole' = Whole /\ ~TooLarge'
    BY DEF Whole, TooLarge
  <2>2. ASSUME ~late
        PROVE  \E r \in Rests : Followed(stream, o, n, setup.mode, r, y) /\ Whole = Behind(items, r)
    BY <2>2, MayBeThis, AnswerTrace DEF Whole
  <2>3. CASE ~ReadThrough'
    <3>1. SameValuesHoweverChunked' /\ SameFailureHoweverChunked'
      BY <2>3 DEF SameValuesHoweverChunked, SameFailureHoweverChunked
    <3>2. NoValueHeldBack'
      <4> SUFFICES ASSUME kind = "need", ~eof
                   PROVE  \A i \in DOMAIN Whole.items :
                            i <= Len(items) \/ OnlyAtEnd(stream, setup.mode, Whole.items[i])
        BY <1>4, <2>1 DEF NoValueHeldBack, OnlyEndFinishes, OnlyAtEnd
      <4>1. PICK r \in Rests : Followed(stream, o, n, setup.mode, r, y) /\ Whole = Behind(items, r)
        BY <1>0, <2>2
      <4>2. \A k \in 1 .. Len(r.items) : OnlyAtEnd(stream, setup.mode, r.items[k])
        BY <1>1, <4>1 DEF Followed, kind
      <4>3. /\ DOMAIN Whole.items = 1 .. Len(Whole.items)
            /\ \A i \in 1 .. Len(Whole.items) :
                 i <= Len(items) \/ \E k \in 1 .. Len(r.items) : Whole.items[i] = r.items[k]
        <5>1. WholeOf(Whole, items, r)
          BY <1>0, <4>1, WholeParts
        <5> QED BY <5>1 DEF WholeOf
      <4> QED BY <4>2, <4>3
    <3> QED BY <3>1, <3>2 DEF ChunkingIsInvisible
  <2>4. CASE ReadThrough'
    <3>1. kind = "end" /\ ~late
      BY <1>2, <1>4, <2>4 DEF ReadThrough
    <3>2. PICK r \in Rests : Followed(stream, o, n, setup.mode, r, y) /\ Whole = Behind(items, r)
      BY <2>2, <3>1
    <3>3. r.items = <<>> /\ r.code = "none"
      BY <3>1, <3>2 DEF Followed, kind
    <3>4. /\ Whole.code = "none" /\ Len(Whole.items) = Len(items) /\ Len(items) \in Nat
          /\ DOMAIN Whole.items = 1 .. Len(items) /\ DOMAIN items = 1 .. Len(items)
          /\ \A i \in 1 .. Len(items) : Whole.items[i] = items[i]
      <4>1. WholeOf(Whole, items, r)
        BY <1>0, <3>2, WholeParts
      <4> QED BY <3>3, <4>1 DEF WholeOf
    <3>5. items' = items
      BY <1>4, <3>1
    <3>6. SameValuesHoweverChunked'
      <4>1. Len(items) <= Len(Whole.items) /\ \A i \in DOMAIN items : items[i] = Whole.items[i]
        BY <3>4
      <4>2. \A i \in DOMAIN Whole.items : i <= Len(items)
        BY <3>4
      <4> DEFINE W0 == Whole.items
                 W1 == Whole'.items
      <4>3. W1 = W0
        BY <2>1
      <4> HIDE DEF W0, W1
      <4>4. /\ Len(items') <= Len(W1) /\ \A i \in DOMAIN items' : items'[i] = W1[i]
            /\ \A i \in DOMAIN W1 : i <= Len(items')
        <5>1. /\ Len(items) <= Len(W0) /\ \A i \in DOMAIN items : items[i] = W0[i]
              /\ \A i \in DOMAIN W0 : i <= Len(items)
          BY <4>1, <4>2 DEF W0
        <5> QED BY <3>5, <4>3, <5>1
      <4> QED BY <2>1, <4>4 DEF SameValuesHoweverChunked, W1
    <3>7. SameFailureHoweverChunked'
      BY <2>1, <3>4 DEF SameFailureHoweverChunked
    <3>8. NoValueHeldBack'
      BY <1>4, <3>1 DEF NoValueHeldBack
    <3> QED BY <3>6, <3>7, <3>8 DEF ChunkingIsInvisible
  <2> QED BY <2>3, <2>4
<1> QED BY <1>0, <1>5, <1>6, <1>7, <1>8, <1>9 DEF CInv

\* The answer to a reader that dies: the failure is that of the whole, or the
\* limit refuses what is found next.
LEMMA DiesStep ==
  ASSUME CInv, RInv', ~failed, NEW o, o = W!ViewOrigin, NEW n, n = Len(W!View), NEW y, y = Located,
         failed', last'.kind = "error", items' = items,
         UNCHANGED <<setup, stream, eof, late>>,
         NEW code, NEW at, at = o + y.out.start, reports' = Append(reports, [code |-> code, at |-> at]),
         \/ y.out.kind = "fail" /\ code = y.out.code
         \/ y.out.kind # "fail" /\ y.out.end - y.out.start > Limit /\ code = "DocumentTooLarge"
  PROVE  CInv'
<1> DEFINE c == Asker.cursor
<1>0. /\ items \in Seq(Int \X Int) /\ late \in BOOLEAN /\ (late => eof) /\ eof \in BOOLEAN
      /\ stream \in Seq(Bytes) /\ reports = <<>>
  BY DEF CInv, RInv, Place
<1>1. /\ Contract(y, c, n, eof)
      /\ n \in Nat /\ o \in Nat /\ c \in 0 .. n /\ o + n = Len(stream)
      /\ \A i \in 1 .. Len(items) : items[i] \in Int \X Int /\ items[i][2] <= o + c
  BY AnswerIs
<1>2. y.out.start \in c .. n /\ y.out.end \in y.out.start .. n
  BY <1>1 DEF Contract
<1>3. at \in Int /\ at <= Len(stream) /\ o + c <= at /\ o + c \in Int
  <2> DEFINE st == y.out.start
             en == y.out.end
             N == Len(stream)
  <2>1. /\ n \in Nat /\ o \in Nat /\ c \in 0 .. n /\ o + n = N /\ st \in c .. n /\ en \in st .. n
        /\ at = o + st
    BY <1>1, <1>2
  <2> HIDE DEF c, st, en, N
  <2>2. at \in Int /\ at <= N /\ o + c <= at /\ o + c \in Int
    BY ONLY <2>1
  <2> QED BY <2>2 DEF N
<1>4. reports'[1].code = code /\ reports'[1].at = at
  <2> DEFINE e == [code |-> code, at |-> at]
  <2>1. reports' = Append(reports, e) /\ e.code = code /\ e.at = at
    OBVIOUS
  <2> HIDE DEF e
  <2>2. reports' = <<e>>
    BY <1>0, <2>1
  <2> QED BY <2>1, <2>2
<1>5. Answering' /\ items' \in Seq(Int \X Int) /\ late' \in BOOLEAN /\ (late' => eof')
  BY <1>0 DEF Answering
<1>6. NoValueHeldBack'
  BY DEF NoValueHeldBack
<1>7. Whole' = Whole /\ (TooLarge' <=> code = "DocumentTooLarge")
  BY <1>4 DEF Whole, TooLarge
<1> HIDE DEF c
<1>8. CASE late
  BY <1>8, <1>5, <1>6 DEF CInv, ChunkingIsInvisible, SameValuesHoweverChunked,
                          SameFailureHoweverChunked, ReadThrough
<1>9. CASE ~late
  <2>1. PICK r \in Rests : Followed(stream, o, n, setup.mode, r, y) /\ Whole = Behind(items, r)
    BY <1>9, MayBeThis, AnswerTrace DEF Whole
  <2>2. /\ Whole.code = r.code /\ Whole.at = r.at /\ Whole.loose = r.loose
        /\ Len(items) \in Nat /\ Len(Whole.items) \in Nat /\ DOMAIN Whole.items = 1 .. Len(Whole.items)
        /\ DOMAIN items = 1 .. Len(items) /\ Len(items) <= Len(Whole.items)
        /\ \A i \in 1 .. Len(items) : Whole.items[i] = items[i]
        /\ \A i \in 1 .. Len(Whole.items) :
             i <= Len(items) \/ \E k \in 1 .. Len(r.items) : Whole.items[i] = r.items[k]
        /\ r.items = <<>> => Len(Whole.items) = Len(items)
    <3>1. WholeOf(Whole, items, r)
      BY <1>0, <2>1, WholeParts
    <3> QED BY <3>1 DEF WholeOf
  <2>3. CASE y.out.kind = "fail"
    <3>1. code = y.out.code /\ code \in JsonCodes
      BY <1>1, <2>3 DEF Contract
    <3>2. ~TooLarge'
      BY <1>7, <3>1 DEF JsonCodes
    <3>3. /\ r.items = <<>> /\ r.code = code
          /\ IF r.loose THEN r.at <= at ELSE r.at = at
      BY <2>1, <2>3, <3>1 DEF Followed
    <3>4. SameValuesHoweverChunked'
      BY <1>7, <2>2, <3>2, <3>3 DEF SameValuesHoweverChunked
    <3>5. Whole.at \in Int
      BY <2>1, <2>2 DEF Rests
    <3>6. IF Whole.loose THEN at \in Whole.at .. Len(stream) ELSE at = Whole.at
      <4>1. CASE r.loose
        <5>1. at \in Whole.at .. Len(stream)
          BY <1>0, <1>3, <2>2, <3>3, <3>5, <4>1
        <5> QED BY <2>2, <4>1, <5>1
      <4>2. CASE ~r.loose
        BY <2>2, <3>3, <4>2
      <4> QED BY <4>1, <4>2
    <3>7. SameFailureHoweverChunked'
      BY <1>4, <1>7, <2>2, <3>3, <3>6 DEF SameFailureHoweverChunked
    <3> QED BY <1>5, <1>6, <3>4, <3>7 DEF CInv, ChunkingIsInvisible
  <2>4. CASE y.out.kind # "fail"
    <3>1. TooLarge' /\ y.out.end - y.out.start > Limit
      BY <1>7, <2>4
    <3>2. Ahead(r, at)
      <4>1. CASE y.out.kind = "item"
        BY <2>1, <4>1 DEF Followed
      <4>2. CASE y.out.kind = "need"
        <5>1. Ready(y.sp, n) /\ y.out.start = y.sp.cursor
          BY <1>1, <4>2 DEF Contract
        <5>2. Standing(stream, o, y.sp, r)
          BY <2>1, <4>2 DEF Followed
        <5>3. o + n <= Len(stream)
          BY <1>0, <1>1
        <5>4. Ahead(r, o + y.sp.cursor)
          BY <1>0, <1>1, <5>1, <5>2, <5>3, StandingAhead
        <5> QED BY <5>1, <5>4
      <4>3. y.out.kind # "end"
        <5>1. SUFFICES ASSUME y.out.kind = "end" PROVE FALSE
          OBVIOUS
        <5>2. y.out.start = y.out.end
          BY <1>1, <5>1 DEF Contract
        <5> QED BY <1>1, <1>2, <3>1, <5>2, ReaderAssumption
      <4> QED BY <1>1, <2>4, <4>1, <4>2, <4>3 DEF Contract
    <3>3. ASSUME NEW i \in 1 .. Len(Whole.items)
          PROVE  i <= Len(items) <=> Whole.items[i][2] <= at
      <4>1. CASE i <= Len(items)
        <5>1. i \in 1 .. Len(items)
          BY <2>2, <4>1
        <5>2. Whole.items[i] = items[i] /\ items[i][2] \in Int /\ items[i][2] <= o + c
          BY <1>1, <2>2, <5>1
        <5> DEFINE z == items[i][2]
        <5>3. z \in Int /\ z <= o + c /\ o + c <= at /\ o + c \in Int /\ at \in Int
          BY <1>3, <5>2
        <5> HIDE DEF z
        <5>4. z <= at
          BY ONLY <5>3
        <5>5. Whole.items[i][2] = z
          BY <5>2 DEF z
        <5> QED BY <4>1, <5>4, <5>5
      <4>2. CASE ~(i <= Len(items))
        <5>1. PICK k \in 1 .. Len(r.items) : Whole.items[i] = r.items[k]
          BY <2>2, <4>2
        <5>2. r.items[k][2] > at
          BY <3>2, <5>1 DEF Ahead
        <5>3. r.items[k][2] \in Int
          <6>1. r.items \in Seq(Int \X Int)
            BY <2>1 DEF Rests
          <6>2. r.items[k] \in Int \X Int
            BY <5>1, <6>1
          <6> QED BY <6>2
        <5>4. Whole.items[i][2] = r.items[k][2]
          BY <5>1
        <5> DEFINE z == r.items[k][2]
        <5>5. z > at /\ z \in Int /\ at \in Int
          BY <1>3, <5>2, <5>3
        <5> HIDE DEF z
        <5>6. ~(z <= at)
          BY ONLY <5>5
        <5>7. Whole.items[i][2] = z
          BY <5>4 DEF z
        <5> QED BY <4>2, <5>6, <5>7
      <4> QED BY <4>1, <4>2
    <3>4. SameValuesHoweverChunked'
      BY <1>4, <1>7, <2>2, <3>1, <3>3 DEF SameValuesHoweverChunked
    <3>5. SameFailureHoweverChunked'
      BY <3>1 DEF SameFailureHoweverChunked
    <3> QED BY <1>5, <1>6, <3>4, <3>5 DEF CInv, ChunkingIsInvisible
  <2> QED BY <2>3, <2>4
<1> QED BY <1>8, <1>9

\* Asking a dead reader tells nothing new.
LEMMA DeadStep ==
  ASSUME CInv, RInv', failed, failed', last'.kind = "end",
         UNCHANGED <<setup, stream, items, eof, late, reports>>
  PROVE  CInv'
<1>1. Answering' /\ items' \in Seq(Int \X Int) /\ late' \in BOOLEAN /\ (late' => eof')
  BY DEF CInv, Answering
<1>2. ReadThrough' => ReadThrough
  BY DEF ReadThrough, CInv, Answering
<1>3. Whole' = Whole /\ TooLarge' = TooLarge
  BY DEF Whole, TooLarge
<1>4. SameValuesHoweverChunked'
  BY <1>2, <1>3 DEF CInv, ChunkingIsInvisible, SameValuesHoweverChunked
<1>5. SameFailureHoweverChunked'
  BY <1>2, <1>3 DEF CInv, ChunkingIsInvisible, SameFailureHoweverChunked
<1>6. NoValueHeldBack'
  BY DEF NoValueHeldBack
<1> QED BY <1>1, <1>4, <1>5, <1>6 DEF CInv, ChunkingIsInvisible

\* Any call for a value (Window::try_next over the splitter).
LEMMA TryStep ==
  ASSUME CInv, TryNextItem
  PROVE  CInv'
<1>0. RInv /\ RInv'
  BY TryFacts DEF CInv
<1>1. CASE UNCHANGED <<setup, sp, items, late>> /\ W!TryNextDead
  <2>1. /\ failed /\ failed' /\ last'.kind = "end"
        /\ UNCHANGED <<setup, stream, items, eof, late, reports>>
    BY <1>1 DEF W!TryNextDead
  <2> QED BY <1>0, <2>1, DeadStep
<1>2. CASE /\ ~failed /\ sp' = Located.sp /\ W!TryNext(Located.out)
           /\ items' = IF last'.kind = "item" THEN Append(items, <<last'.start, last'.end>>) ELSE items
           /\ UNCHANGED <<setup, late>>
  <2> DEFINE y == Located
             o == W!ViewOrigin
             n == Len(W!View)
             tooLarge == y.out.kind # "fail" /\ y.out.end - y.out.start > Limit
             dies == y.out.kind = "fail" \/ tooLarge
             at == o + y.out.start
             code == IF tooLarge THEN "DocumentTooLarge" ELSE y.out.code
  <2>1. /\ ~failed /\ origin' = o /\ failed' = dies
        /\ buf' = IF dies THEN <<>> ELSE W!View
        /\ last' = [kind |-> IF dies THEN "error" ELSE y.out.kind, start |-> at, end |-> o + y.out.end]
        /\ reports' = IF dies THEN Append(reports, [code |-> code, at |-> at]) ELSE reports
        /\ UNCHANGED <<stream, eof>>
    BY <1>2 DEF W!TryNext
  <2>2. /\ sp' = y.sp /\ UNCHANGED <<setup, late>>
        /\ items' = IF last'.kind = "item" THEN Append(items, <<last'.start, last'.end>>) ELSE items
    BY <1>2
  <2>3. o = W!ViewOrigin /\ n = Len(W!View) /\ y = Located
    OBVIOUS
  <2>4. CASE dies
    <3>1. \/ y.out.kind = "fail" /\ code = y.out.code
          \/ y.out.kind # "fail" /\ y.out.end - y.out.start > Limit /\ code = "DocumentTooLarge"
      BY <2>4
    <3>2. /\ failed' /\ last'.kind = "error" /\ UNCHANGED <<setup, stream, eof, late>>
          /\ reports' = Append(reports, [code |-> code, at |-> at]) /\ items' = items
      BY <2>1, <2>2, <2>4
    <3>3. at = o + y.out.start
      OBVIOUS
    <3> HIDE DEF y, o, n, tooLarge, dies, at, code
    <3> QED BY <1>0, <1>2, <2>3, <3>1, <3>2, <3>3, DiesStep
  <2>5. CASE ~dies
    <3>1. /\ y.out.kind # "fail" /\ ~failed' /\ buf' = W!View /\ origin' = o
          /\ last' = [kind |-> y.out.kind, start |-> o + y.out.start, end |-> o + y.out.end]
          /\ UNCHANGED <<setup, stream, eof, late, reports>> /\ sp' = y.sp
      BY <2>1, <2>2, <2>5
    <3>2. items' = IF y.out.kind = "item" THEN Append(items, <<o + y.out.start, o + y.out.end>>) ELSE items
      BY <2>2, <3>1
    <3> HIDE DEF y, o, n, tooLarge, dies, at, code
    <3> QED BY <1>0, <1>2, <2>3, <3>1, <3>2, LivesStep
  <2> QED BY <2>4, <2>5
<1> QED BY <1>1, <1>2 DEF TryNextItem

-----------------------------------------------------------------------------
(* Chunking is invisible.                                                  *)

\* Every step of a feed keeps what its reader knows.
LEMMA FeedKeeps ==
  ASSUME CInv, [FeedNext]_rvars
  PROVE  CInv'
<1>0. RInv /\ RInv' /\ eof \in BOOLEAN /\ late \in BOOLEAN
  BY FeedStep DEF CInv, RInv
<1>1. ASSUME NEW bytes \in Batches(Chunk), Push(bytes)
      PROVE  CInv'
  <2>1. /\ ~failed /\ stream' = stream \o bytes /\ buf' = buf \o bytes /\ late' = (late \/ eof)
        /\ Len(stream) + Len(bytes) <= MaxStream
        /\ UNCHANGED <<setup, origin, eof, failed, last, reports, sp, items>>
    BY <1>1 DEF Push, W!Extend
  <2>2. bytes \in Seq(Bytes) /\ Len(bytes) >= 1
    <3>1. bytes \in Seq(Bytes)
      BY <1>0, <1>1, <2>1, BatchFacts
    <3>2. PICK m \in 1 .. W!Smaller(Chunk, setup.max - Len(stream)) : bytes \in [1 .. m -> setup.bytes]
      BY <1>1 DEF Batches
    <3>3. Len(bytes) = m
      BY <3>1, <3>2
    <3> QED BY <3>1, <3>2, <3>3
  <2> QED BY <1>0, <2>1, <2>2, ArrivalStep
<1>2. ASSUME FeedEnd
      PROVE  CInv'
  <2>1. UNCHANGED <<setup, stream, buf, origin, failed, last, reports, sp, items, late>> /\ eof' = TRUE
    BY <1>2 DEF FeedEnd, W!SetEof
  <2> QED BY <1>0, <2>1, QuietStep
<1>3. ASSUME NextValue
      PROVE  CInv'
  BY <1>3, TryStep DEF NextValue
<1>4. ASSUME UNCHANGED rvars
      PROVE  CInv'
  <2>1. UNCHANGED <<setup, stream, buf, origin, failed, last, reports, sp, items, late>> /\ eof' = eof
    BY <1>4 DEF rvars
  <2> QED BY <1>0, <2>1, QuietStep
<1> QED BY <1>1, <1>2, <1>3, <1>4 DEF FeedNext

\* A feed gives out the values of its whole stream and stops as the whole
\* stream does, wherever the bytes were cut and however the calls fell
\* (json/stream/feed.rs over json/stream/split.rs).
THEOREM FeedChunkingIsInvisible == FeedSpec => []ChunkingIsInvisible
<1>1. CInv => ChunkingIsInvisible
  BY DEF CInv
<1> QED BY <1>1, InitTracks, FeedKeeps, PTL DEF FeedSpec

\* The pull reader reads only before the end of its source.
DocCInv == CInv /\ (pc = "fill" => ~failed /\ ~eof)

\* Every step of a pull reader keeps what its reader knows.
LEMMA DocumentsKeep ==
  ASSUME DocCInv, [JNext]_jvars
  PROVE  DocCInv'
<1>0. RInv /\ RInv' /\ eof \in BOOLEAN /\ late \in BOOLEAN /\ CInv
  BY DocumentsStep DEF DocCInv, CInv, RInv
<1>1. ASSUME NextDocument
      PROVE  DocCInv'
  <2>1. /\ UNCHANGED <<setup, stream, buf, origin, failed, last, reports, sp, items, late>> /\ eof' = eof
        /\ pc' = "try"
    BY <1>1 DEF NextDocument, Still, D!Call, D!vars
  <2>2. CInv'
    BY <1>0, <2>1, QuietStep
  <2> QED BY <2>1, <2>2 DEF DocCInv
<1>2. ASSUME TryFramer
      PROVE  DocCInv'
  <2>1. TryNextItem /\ D!AfterTry
    BY <1>2 DEF TryFramer
  <2>2. CInv'
    BY <1>0, <2>1, TryStep
  <2>3. eof' = eof
    BY <2>1 DEF TryNextItem, W!TryNext, W!TryNextDead
  <2>4. pc' = "fill" => last'.kind = "need" /\ ~eof
    BY <2>1 DEF D!AfterTry
  <2>5. last'.kind = "need" => ~failed'
    BY <2>2 DEF CInv, Answering
  <2> QED BY <2>2, <2>3, <2>4, <2>5 DEF DocCInv
<1>3. ASSUME pc = "fill", Still, NEW bytes \in Batches(Chunk), D!ReadBytes(bytes)
      PROVE  DocCInv'
  <2>1. /\ stream' = stream \o bytes /\ buf' = buf \o bytes
        /\ Len(stream) + Len(bytes) <= MaxStream /\ Len(bytes) \in 1 .. D!Want - Len(buf)
        /\ UNCHANGED <<setup, origin, eof, failed, last, reports, sp, items, late>> /\ pc' = "try"
    BY <1>3 DEF Still, D!ReadBytes, D!FillBytes
  <2>2. ~failed /\ ~eof
    BY <1>3 DEF DocCInv
  <2>3. late' = (late \/ eof)
    BY <1>0, <2>1, <2>2
  <2>4. bytes \in Seq(Bytes) /\ Len(bytes) >= 1
    <3>1. bytes \in Seq(Bytes)
      BY <1>0, <1>3, <2>1, BatchFacts
    <3> QED BY <2>1, <3>1
  <2>5. CInv'
    BY <1>0, <2>1, <2>2, <2>3, <2>4, ArrivalStep
  <2> QED BY <2>1, <2>5 DEF DocCInv
<1>4. ASSUME Still, D!ReadEof \/ D!ReadInterrupted \/ D!ReadFails
      PROVE  DocCInv'
  <2>1. /\ UNCHANGED <<setup, stream, buf, origin, failed, last, reports, sp, items, late>>
        /\ eof' = eof \/ eof' = TRUE
        /\ pc' # "fill"
    BY <1>4 DEF Still, D!ReadEof, D!ReadInterrupted, D!ReadFails, D!FillEof, D!FillError
  <2>2. CInv'
    BY <1>0, <2>1, QuietStep
  <2> QED BY <2>1, <2>2 DEF DocCInv
<1>5. ASSUME UNCHANGED jvars
      PROVE  DocCInv'
  <2>1. /\ UNCHANGED <<setup, stream, buf, origin, failed, last, reports, sp, items, late>> /\ eof' = eof
        /\ pc' = pc
    BY <1>5 DEF jvars, rvars
  <2>2. CInv'
    BY <1>0, <2>1, QuietStep
  <2> QED BY <2>1, <2>2 DEF DocCInv
<1> QED BY <1>1, <1>2, <1>3, <1>4, <1>5 DEF JNext, Read

\* The pull reader gives out the values of its whole source and stops as the
\* whole source does, whatever the sizes of its reads and wherever they were
\* interrupted or failed (json/stream/read.rs over json/stream/split.rs).
THEOREM DocumentsChunkingIsInvisible == JSpec => []ChunkingIsInvisible
<1>1. DocCInv => ChunkingIsInvisible
  BY DEF DocCInv, CInv
<1>2. JInit => DocCInv
  <2>1. ASSUME JInit PROVE DocCInv
    BY <2>1, InitTracks DEF JInit, DocCInv
  <2> QED BY <2>1
<1> QED BY <1>1, <1>2, DocumentsKeep, PTL DEF JSpec

-----------------------------------------------------------------------------
(* The limit is on one value.                                              *)

\* What the limit refuses is one value of the stream, but for lines, whose
\* window the limit holds whatever is in it, and for a limit of nothing.
OneValueOnly == setup.mode # "Lines" /\ Limit # 0 => LimitIsOnOneValue

\* A value of w is the first of r, if r has one.
HasFirst(w, r) == Len(r.items) >= 1 => \E i \in DOMAIN w.items : w.items[i] = r.items[1]

\* The first value still to find is the one behind those given out.
LEMMA WholeNext ==
  ASSUME NEW x \in Seq(Int \X Int), NEW r \in Rests, NEW w, w = Behind(x, r)
  PROVE  /\ w.open = r.open
         /\ HasFirst(w, r)
<1> DEFINE P == Int \X Int
           m == r.items
           u == w.items
<1>1. m \in Seq(P) /\ x \in Seq(P)
  BY DEF Rests
<1>2. u = x \o m /\ w.open = r.open
  BY BehindIs
<1> HIDE DEF P, m, u
<1>3. ASSUME Len(m) >= 1
      PROVE  \E i \in DOMAIN u : u[i] = m[1]
  <2>1. Len(x) + 1 \in DOMAIN u
    BY <1>1, <1>2, <1>3
  <2>2. u[Len(x) + 1] = m[1]
    BY <1>1, <1>2, <1>3
  <2> QED BY <2>1, <2>2
<1> QED BY <1>2, <1>3 DEF m, u, HasFirst

\* The one value of a rest that begins with it.
LEMMA FirstLeft ==
  ASSUME NEW a \in Int, NEW b \in Int, NEW rest \in Rests, NEW r, r = Behind(<<<<a, b>>>>, rest)
  PROVE  Len(r.items) >= 1 /\ r.items[1] = <<a, b>>
<1> DEFINE P == Int \X Int
           v == <<a, b>>
           f == <<v>>
           m == rest.items
<1>1. f \in Seq(P) /\ f = <<v>> /\ r = Behind(f, rest) /\ m \in Seq(P)
  BY DEF Rests
<1> HIDE DEF P, v, f
<1>2. Behind(f, rest).items = f \o m
  BY <1>1, BehindIs DEF P
<1>3. r.items = f \o m
  BY <1>1, <1>2
<1> HIDE DEF m
<1>4. Len(f \o m) >= 1 /\ (f \o m)[1] = v
  BY <1>1
<1> QED BY <1>3, <1>4 DEF v

\* The answer the limit refuses.
LEMMA LimitFound ==
  ASSUME CInv, ~failed, NEW o, o = W!ViewOrigin, NEW n, n = Len(W!View), NEW y, y = Located,
         UNCHANGED <<setup, stream, late>>,
         NEW at, at = o + y.out.start, NEW code,
         reports' = Append(reports, [code |-> code, at |-> at]),
         y.out.kind # "fail", y.out.end - y.out.start > Limit
  PROVE  OneValueOnly'
<1> SUFFICES ASSUME setup.mode # "Lines", Limit # 0, ~late
             PROVE  \/ \E i \in DOMAIN Whole.items :
                         Whole.items[i][1] = at /\ Whole.items[i][2] - Whole.items[i][1] > Limit
                    \/ Whole.open = at /\ Len(stream) - Whole.open > Limit
  <2> DEFINE e == [code |-> code, at |-> at]
  <2>1. reports = <<>> /\ reports' = Append(reports, e) /\ e.at = at
    BY DEF CInv, Place
  <2> HIDE DEF e
  <2>2. reports' = <<e>>
    BY <2>1
  <2>3. reports'[1].at = at /\ Whole' = Whole
    BY <2>1, <2>2 DEF Whole
  <2> QED BY <2>3 DEF OneValueOnly, LimitIsOnOneValue
<1>0. /\ items \in Seq(Int \X Int) /\ Limit \in Nat /\ Limit >= 1
  BY ReaderAssumption DEF CInv
<1>1. /\ Contract(y, Asker.cursor, n, eof)
      /\ n \in Nat /\ o \in Nat /\ Asker.cursor \in 0 .. n /\ o + n = Len(stream)
  BY AnswerIs
<1>2. PICK r \in Rests : Followed(stream, o, n, setup.mode, r, y) /\ Whole = Behind(items, r)
  BY MayBeThis, AnswerTrace DEF Whole
<1> DEFINE b == o + y.out.end
<1>3. /\ y.out.start \in Nat /\ y.out.end \in Nat /\ at \in Int /\ b \in Int /\ b - at > Limit
      /\ y.out.kind \in {"need", "item", "end"}
      /\ y.out.kind = "need" => y.out.end = n
      /\ y.out.kind = "end" => y.out.start = y.out.end
  <2>1. /\ y.out.start \in Asker.cursor .. n /\ y.out.end \in y.out.start .. n
        /\ y.out.kind \in {"need", "item", "end", "fail"}
        /\ y.out.kind = "need" => y.out.end = n
        /\ y.out.kind = "end" => y.out.start = y.out.end
    BY <1>1 DEF Contract
  <2> DEFINE c == Asker.cursor
             st == y.out.start
             en == y.out.end
  <2>2. /\ st \in c .. n /\ en \in st .. n /\ c \in 0 .. n /\ n \in Nat /\ o \in Nat /\ Limit \in Nat
        /\ at = o + st /\ b = o + en /\ en - st > Limit
    BY <1>0, <1>1, <2>1
  <2> HIDE DEF c, st, en, b
  <2>3. st \in Nat /\ en \in Nat /\ at \in Int /\ b \in Int /\ b - at > Limit
    BY ONLY <2>2
  <2> QED BY <2>1, <2>3 DEF st, en
<1> HIDE DEF b
<1>4. ASSUME Len(r.items) >= 1, r.items[1] = <<at, b>>
      PROVE  \E i \in DOMAIN Whole.items :
               Whole.items[i][1] = at /\ Whole.items[i][2] - Whole.items[i][1] > Limit
  <2>0. \E i \in DOMAIN Whole.items : Whole.items[i] = r.items[1]
    <3>1. HasFirst(Whole, r)
      BY <1>0, <1>2, WholeNext
    <3> QED BY <1>4, <3>1 DEF HasFirst
  <2>1. PICK i \in DOMAIN Whole.items : Whole.items[i] = <<at, b>>
    BY <1>4, <2>0
  <2>2. Whole.items[i][1] = at /\ Whole.items[i][2] = b
    BY <2>1
  <2> QED BY <1>3, <2>1, <2>2
<1>5. CASE y.out.kind = "item"
  <2>1. PICK rest \in Rests : r = Behind(<<<<at, b>>>>, rest)
    BY <1>2, <1>5 DEF Followed, b
  <2>2. Len(r.items) >= 1 /\ r.items[1] = <<at, b>>
    BY <1>3, <2>1, FirstLeft
  <2> QED BY <1>4, <2>2
<1>6. CASE y.out.kind = "need"
  <2>1. b = Len(stream) /\ n - y.out.start > 1
    <3> DEFINE st == y.out.start
    <3>1. /\ b = o + n /\ at = o + st /\ o + n = Len(stream) /\ st \in Nat /\ n \in Nat /\ o \in Nat
          /\ b - at > Limit /\ Limit \in Nat /\ Limit >= 1
      BY <1>0, <1>1, <1>3, <1>6 DEF b
    <3> HIDE DEF st
    <3>2. n - st > 1
      BY ONLY <3>1
    <3> QED BY <3>1, <3>2 DEF st
  <2>2. \/ n - y.out.start <= 1 \/ r.open = at \/ r.items = <<<<at, b>>>>
    BY <1>1, <1>2, <1>6, <2>1 DEF Followed, Held
  <2>3. CASE r.open = at
    <3>1. Whole.open = at
      BY <1>0, <1>2, <2>3, WholeNext
    <3> QED BY <1>3, <2>1, <3>1
  <2>4. CASE r.items = <<<<at, b>>>>
    <3>1. Len(r.items) >= 1 /\ r.items[1] = <<at, b>>
      BY <2>4
    <3> QED BY <1>4, <3>1
  <2>5. ~(n - y.out.start <= 1)
    <3> DEFINE st == y.out.start
    <3>1. n \in Nat /\ st \in Nat /\ n - st > 1
      BY <1>1, <1>3, <2>1
    <3> HIDE DEF st
    <3>2. ~(n - st <= 1)
      BY ONLY <3>1
    <3> QED BY <3>2 DEF st
  <2> QED BY <2>2, <2>3, <2>4, <2>5
<1>7. y.out.kind # "end"
  BY <1>0, <1>3
<1> QED BY <1>3, <1>5, <1>6, <1>7

\* A step at which no failure is reported says nothing new of the limit.
LEMMA LimitKept ==
  ASSUME OneValueOnly, UNCHANGED setup,
         failed' => failed /\ UNCHANGED <<stream, reports>> /\ (late => late')
  PROVE  OneValueOnly'
BY DEF OneValueOnly, LimitIsOnOneValue, TooLarge, Whole

\* Any call for a value.
LEMMA TryLimit ==
  ASSUME CInv, OneValueOnly, TryNextItem
  PROVE  OneValueOnly'
<1>1. CASE UNCHANGED <<setup, sp, items, late>> /\ W!TryNextDead
  BY <1>1, LimitKept DEF W!TryNextDead
<1>2. CASE /\ ~failed /\ W!TryNext(Located.out) /\ UNCHANGED <<setup, late>>
  <2> DEFINE y == Located
             o == W!ViewOrigin
             n == Len(W!View)
             tooLarge == y.out.kind # "fail" /\ y.out.end - y.out.start > Limit
             at == o + y.out.start
             code == IF tooLarge THEN "DocumentTooLarge" ELSE y.out.code
  <2>1. /\ failed' = (y.out.kind = "fail" \/ tooLarge)
        /\ failed' => reports' = Append(reports, [code |-> code, at |-> at])
        /\ stream' = stream
    BY <1>2 DEF W!TryNext
  <2>2. o = W!ViewOrigin /\ n = Len(W!View) /\ y = Located /\ at = o + y.out.start
    OBVIOUS
  <2>3. CASE tooLarge
    <3>1. /\ y.out.kind # "fail" /\ y.out.end - y.out.start > Limit
          /\ reports' = Append(reports, [code |-> code, at |-> at])
      BY <2>1, <2>3
    <3> HIDE DEF y, o, n, tooLarge, at, code
    <3> QED BY <1>2, <2>1, <2>2, <3>1, LimitFound
  <2>4. CASE ~failed'
    BY <1>2, <2>4, LimitKept
  <2>5. CASE y.out.kind = "fail"
    <3>1. Contract(y, Asker.cursor, n, eof)
      BY <1>2, <2>2, AnswerIs
    <3> DEFINE e == [code |-> y.out.code, at |-> at]
    <3>2. reports' = Append(reports, e) /\ e.code = y.out.code /\ reports = <<>>
      BY <1>2, <2>1, <2>5 DEF CInv, Place
    <3>3. e.code # "DocumentTooLarge"
      BY <2>5, <3>1, <3>2 DEF Contract, JsonCodes
    <3> HIDE DEF e
    <3>4. reports' = <<e>>
      BY <3>2
    <3>5. ~TooLarge'
      BY <3>3, <3>4 DEF TooLarge
    <3> QED BY <3>5 DEF OneValueOnly, LimitIsOnOneValue
  <2> QED BY <2>1, <2>3, <2>4, <2>5
<1> QED BY <1>1, <1>2 DEF TryNextItem

\* No reader starts refused.
LEMMA InitLimit == ReaderInit => OneValueOnly
BY DEF ReaderInit, W!Init, OneValueOnly, LimitIsOnOneValue, TooLarge

\* A feed that refuses a value for its size refuses one value of its stream,
\* by its first byte, however the bytes came, and for no other (Window::try_next
\* over json/stream/split.rs).
THEOREM FeedLimitIsOnOneValue ==
  FeedSpec => [](setup.mode # "Lines" /\ Limit # 0 => LimitIsOnOneValue)
<1> DEFINE Both == CInv /\ OneValueOnly
<1>1. ReaderInit => Both
  BY InitTracks, InitLimit
<1>2. Both /\ [FeedNext]_rvars => Both'
  <2> SUFFICES ASSUME CInv, OneValueOnly, [FeedNext]_rvars PROVE CInv' /\ OneValueOnly'
    OBVIOUS
  <2>1. ASSUME NEW bytes \in Batches(Chunk), Push(bytes) PROVE OneValueOnly'
    BY <2>1, LimitKept DEF Push, W!Extend
  <2>2. ASSUME FeedEnd PROVE OneValueOnly'
    BY <2>2, LimitKept DEF FeedEnd, W!SetEof
  <2>3. ASSUME NextValue PROVE OneValueOnly'
    BY <2>3, TryLimit DEF NextValue
  <2>4. ASSUME UNCHANGED rvars PROVE OneValueOnly'
    BY <2>4, LimitKept DEF rvars
  <2> QED BY <2>1, <2>2, <2>3, <2>4, FeedKeeps DEF FeedNext
<1>3. Both => (setup.mode # "Lines" /\ Limit # 0 => LimitIsOnOneValue)
  BY DEF OneValueOnly
<1> QED BY <1>1, <1>2, <1>3, PTL DEF FeedSpec

\* And so does a pull reader, whatever the sizes of its reads
\* (Window::try_next over json/stream/split.rs).
THEOREM DocumentsLimitIsOnOneValue ==
  JSpec => [](setup.mode # "Lines" /\ Limit # 0 => LimitIsOnOneValue)
<1> DEFINE Both == DocCInv /\ OneValueOnly
<1>1. JInit => Both
  <2> SUFFICES ASSUME JInit PROVE DocCInv /\ OneValueOnly
    OBVIOUS
  <2> QED BY InitTracks, InitLimit DEF JInit, DocCInv
<1>2. Both /\ [JNext]_jvars => Both'
  <2> SUFFICES ASSUME DocCInv, OneValueOnly, [JNext]_jvars PROVE DocCInv' /\ OneValueOnly'
    OBVIOUS
  <2>1. ASSUME NextDocument PROVE OneValueOnly'
    BY <2>1, LimitKept DEF NextDocument, Still, D!Call, D!vars
  <2>2. ASSUME TryFramer PROVE OneValueOnly'
    BY <2>2, TryLimit DEF TryFramer, DocCInv
  <2>3. ASSUME pc = "fill", Still, NEW bytes \in Batches(Chunk), D!ReadBytes(bytes) PROVE OneValueOnly'
    <3>1. ~failed /\ failed' = failed /\ setup' = setup
      BY <2>3 DEF DocCInv, Still, D!ReadBytes, D!FillBytes
    <3> QED BY <3>1, LimitKept
  <2>4. ASSUME Still, D!ReadEof \/ D!ReadInterrupted \/ D!ReadFails PROVE OneValueOnly'
    BY <2>4, LimitKept DEF Still, D!ReadEof, D!ReadInterrupted, D!ReadFails, D!FillEof, D!FillError
  <2>5. ASSUME UNCHANGED jvars PROVE OneValueOnly'
    BY <2>5, LimitKept DEF jvars, rvars
  <2> QED BY <2>1, <2>2, <2>3, <2>4, <2>5, DocumentsKeep DEF JNext, Read
<1>3. Both => (setup.mode # "Lines" /\ Limit # 0 => LimitIsOnOneValue)
  BY DEF OneValueOnly
<1> QED BY <1>1, <1>2, <1>3, PTL DEF JSpec
=============================================================================
