----------------------------- MODULE JsonLayout -----------------------------
(***************************************************************************)
(* JSON text as the crate lays it out: the writer of json/writer.rs in     *)
(* memory, a record of what it has written and how deep it is, and how     *)
(* Value of value.rs is written with it.  A policy o has pretty and        *)
(* newLinesInArrays.                                                       *)
(***************************************************************************)
EXTENDS Values

Quote     == "'"
Backslash == "\\"
Comma     == ","

-----------------------------------------------------------------------------
(* The writer's layout: line, item, open, close and colon of writer.rs.    *)

EmptyWriter == [buf |-> <<>>, depth |-> 0]
Put(w, bytes) == [w EXCEPT !.buf = @ \o bytes]
EndsIn(w, x)  == w.buf # <<>> /\ Last(w.buf) = x
BreaksLines(o, x) == o.pretty /\ (o.newLinesInArrays \/ x \in {"{", "}"})

\* line: INDENT is 1.
Line(o, w) ==
  IF o.pretty THEN Put(w, <<"LF">> \o [k \in 1 .. w.depth |-> " "]) ELSE w

Item(o, w) == CASE o.newLinesInArrays -> Line(o, w)
                [] ~o.newLinesInArrays /\ o.pretty /\ EndsIn(w, Comma) -> Put(w, <<" ">>)
                [] OTHER -> w

PutColon(o, w) == Put(w, IF o.pretty THEN <<":", " ">> ELSE <<":">>)

Open(o, w, x) ==
  With(Put(w, <<x>>), LAMBDA v : IF BreaksLines(o, x) THEN [v EXCEPT !.depth = @ + 1] ELSE v)

\* close and close_over_comma.
Close(o, w, x) ==
  With(IF BreaksLines(o, x) THEN [w EXCEPT !.depth = @ - 1] ELSE w, LAMBDA v :
    IF ~EndsIn(v, Comma) THEN Put(v, <<x>>)
    ELSE With([v EXCEPT !.buf = Front(@)], LAMBDA u :
           Put(IF BreaksLines(o, x) THEN Line(o, u) ELSE u, <<x>>)))

-----------------------------------------------------------------------------
(* Value, written.                                                         *)

\* write_escape, and what needs none.  A character named by digits that begin
\* with 0 is a control character without a short escape.
Escape(x) ==
  CASE x \in {Quote, Backslash} -> <<Backslash, x>>
    [] x = "LF" -> <<Backslash, "n">>
    [] x = "TAB" -> <<Backslash, "t">>
    [] x \in {"U+00", "U+01"} -> <<Backslash, "u", "0", IF x = "U+00" THEN "0" ELSE "1">>
    [] OTHER -> <<x>>

\* write_str.
Quoted(chars) == <<Quote>> \o FlattenSeq([k \in DOMAIN chars |-> Escape(chars[k])]) \o <<Quote>>

LiteralOf == [null |-> <<"n">>, true |-> <<"t">>, false |-> <<"f">>]

\* json::Write for Value, over write_seq and write_keyed.
RECURSIVE WriteValue(_, _, _)
WriteValue(o, w, node) ==
  LET member(v, m) ==
        Put(WriteValue(o, PutColon(o, Put(Line(o, v), Quoted(m[1]))), m[2]), <<Comma>>)
      element(v, m) == Put(WriteValue(o, Item(o, v), m[2]), <<Comma>>)
  IN CASE node.kind = "object" ->
            Close(o, FoldLeft(member, Open(o, w, "{"), node.sub), "}")
       [] node.kind = "array" ->
            Close(o, FoldLeft(element, Open(o, w, "["), node.sub), "]")
       [] node.kind = "string" -> Put(w, Quoted(node.text))
       [] node.kind \in Numbers -> Put(w, node.text)
       [] OTHER -> Put(w, LiteralOf[node.kind])
=============================================================================
