---------------------------- MODULE MCJsonWriter ----------------------------
(* Buffers smaller than most appends, so that nearly every one drains, and *)
(* sinks that fail at each of the first writes; and two writers in memory. *)
EXTENDS JsonWriter

MCPolicies ==
  {[pretty |-> FALSE, newLinesInArrays |-> FALSE],
   [pretty |-> TRUE,  newLinesInArrays |-> TRUE],
   [pretty |-> TRUE,  newLinesInArrays |-> FALSE]}
MCTexts   == {<<>>, <<Lead, Cont>>, <<"a", Lead, Cont>>}
MCStrings == {<<"a", LineFeed, "a">>, <<LineFeed, Lead, Cont, "a">>}
MCFixed   == {[text |-> <<"1">>, max |-> 3]}
MCBuffers == {[held |-> <<>>, cap |-> 0], [held |-> <<Comma>>, cap |-> 4], [held |-> <<Lead>>, cap |-> 1]}
MCFailures == {[at |-> 0, taken |-> 0], [at |-> 1, taken |-> 0], [at |-> 2, taken |-> 1]}
=============================================================================
