---------------------------- MODULE MCJsonTexts -----------------------------
(* Documents that begin a few ways and go on with a few bytes of a few      *)
(* kinds; and documents put together of whole members and names, cut short  *)
(* and run on, read as declared types.                                      *)
EXTENDS JsonTexts

MCMinDecade == -4
MCMinFixed  == -2
MCSeeds     == <<0, 41, 7, 1999, 523, 3001>>

Plain   == [pretty |-> FALSE, newLinesInArrays |-> FALSE, comments |-> FALSE]
Pretty  == [pretty |-> TRUE, newLinesInArrays |-> TRUE, comments |-> FALSE]
Inline  == [pretty |-> TRUE, newLinesInArrays |-> FALSE, comments |-> FALSE]
Jsonc   == [pretty |-> FALSE, newLinesInArrays |-> FALSE, comments |-> TRUE]
Setup(opening, alphabet, max, policies) ==
  [opening |-> opening, chunks |-> {<<x>> : x \in alphabet}, max |-> max, policies |-> policies,
   types |-> <<>>, olds |-> <<>>]
Typed(opening, chunks, max, types, olds) ==
  [opening |-> opening, chunks |-> chunks, max |-> max, policies |-> {Plain},
   types |-> types, olds |-> olds]
Old(k, node) == [type |-> k, node |-> node]

U8  == Integer(FALSE, 1)
I8  == Integer(TRUE, 1)
U64 == Integer(FALSE, 8)
I64 == Integer(TRUE, 8)

\* Names, each of a letter: a, b and its alias c, p, t and u; z is none's.
A == <<"a">>
B == <<"b">>
C == <<"c">>
P == <<"p">>
T == <<"t">>
U == <<"u">>
Z == <<"z">>
Pair     == Struct(<<<<A>>, <<B, C>>>>, <<U8, Optional(Vec(U8))>>)
Wish     == [Struct(<<<<A>>, <<B, C>>>>, <<Optional(U8), Optional(U8)>>) EXCEPT !.required = {1}]
Shape    == Enum(<<<<U>>, <<P>>>>, <<Unit, Wish>>)
Labelled == Tagged(T, <<<<U>>, <<P>>>>, <<Unit, Wish>>)
Nest     == Tagged(T, <<<<U>>, <<P>>>>, <<Unit, Struct(<<<<A>>, <<B>>>>, <<U8, Labelled>>)>>)
Tried    == Either(<<Labelled, Wish>>)

\* Names of a declaration that every scheme there is to find them is built for,
\* and names that are like them and none of them.
Spelt(n, xs) == [k \in 1 .. n |-> "a"] \o xs
Names(ns)    == [k \in DOMAIN ns |-> <<ns[k]>>]
Tails        == <<<<"a", "a">>, <<"a", "b">>, <<"b", "a">>>>
SchemeNames ==
  << Names(<<A>>), Names(<<<<"d">>, A, B>>), Names(<<A, <<"d">>, C>>), Names(<<A, B, C>>),
     Names(<<<<"c", "a">>, <<"c", "b">>>>), Names(<<A, C, B>>), <<<<C, Spelt(1, B)>>, <<A, B>>>>,
     Names(Tails), Names([k \in 1 .. 3 |-> Spelt(2, Tails[k])]), Names([k \in 1 .. 3 |-> Spelt(6, Tails[k])]),
     Names(<<A, Spelt(1, A), B>>), Names(<<A, Spelt(0, Tails[3]), <<"b", "b">>>>),
     Names(<<A>> \o Tails), Names(<<<<>>, A>>),
     Names(<<Spelt(9, <<>>)>> \o [k \in 1 .. 3 |-> Spelt(8, Tails[k])]),
     Names(<<A, B>> \o Tails), Names([k \in 1 .. 6 |-> <<Lower[k]>>]) >>
Schemes   == [k \in DOMAIN SchemeNames |-> Enum(SchemeNames[k], [i \in DOMAIN SchemeNames[k] |-> Unit])]
AllSpelt  == UNION {Range(FlattenSeq(SchemeNames[k])) : k \in DOMAIN SchemeNames}
               \cup {<<"c">>, <<"h">>, <<"b", "b">>, Spelt(2, <<>>) \o <<"c">>, Spelt(4, B), Spelt(5, <<>>), Spelt(9, B)}
ASSUME EverySchemeIsTried ==
  {Schemes[k].declared.map.kind : k \in DOMAIN Schemes} =
    {"SingleElement", "Mod4", "XorMod4", "MinusMod4", "UniqueIndexTwo", "UniqueIndex", "Front2", "Front4",
     "Front8", "UniqueIndexSized", "UniquePerLength", "FullFlat", "Linear"}

\* Pieces of documents: members, and members with what comes after them.
Name(n)      == Quoted(n)
Member(n, v) == Name(n) \o <<":">> \o v
Ended(ms)    == {m \o <<x>> : m \in ms, x \in {Comma, "}"}}
Seven        == <<"7">>
A7           == Member(A, Seven)
WishOf(a, b) == ObjectOf(Wish, <<a, b>>)
Many         == ListOf(<<IntNode(1), IntNode(2)>>)

MCSetups ==
  << \* a tag inside, first and late
     Typed(<<"{">>, Ended({Member(T, Name(P)), Member(T, Name(U)), A7, Member(C, <<"n">>)}) \cup {Name(T), <<"}">>}, 3,
           <<Labelled>>, <<Old(1, VariantOf(Labelled, 2, WishOf(IntNode(1), IntNode(2))))>>),
     Typed(<<"{">> \o A7 \o <<Comma>>,
           Ended({Member(T, Name(P))}) \cup {Member(B, <<"{">> \o A7 \o <<Comma>>), A7 \o <<"}">>, <<Comma>>}, 4,
           <<Nest>>, <<>>),
     \* a read that fails, and another tried in its place
     Typed(<<"[", "{">> \o A7 \o <<Comma>>,
           {Member(T, Name(P)), Member(T, Name(Z)), <<Comma>>, <<"}", Comma, "{">>, <<"}", "]">>}, 4,
           <<Vec(Tried)>>, <<>>),
     Setup(<<>>, {"[", "]", Comma, "1", " "}, 5, {Inline}),
     Setup(<<>>, {"[", "]", Comma, "1"}, 5, {Pretty}),
     Setup(<<"{">>, {"}", Quote, ":", "1", "[", Comma}, 4, {Pretty, Inline}),
     Setup(<<"{", Quote, Quote, ":", "1", Comma, Quote>>, {Quote, ":", "t", "}", " "}, 4, {Inline}),
     Setup(<<"[", "1", "/">>, {"/", "*", "LF", "1", "]"}, 4, {Jsonc}),
     Setup(<<Quote>>, {Quote, Backslash, "n", "/", "^"}, 4, {Plain}),
     Setup(<<Quote, Backslash, "u", "D", "8">>, {Quote, Backslash, "u", "D", "8"}, 5, {Plain}),
     Setup(<<>>, {"-", "0", "1", ".", "e", "9"}, 4, {Plain}),
     Setup(<<"1">>, {" ", "LF", "1", Quote}, 5, {Plain}),
     Setup(<<"1">>, {" ", "LF", "1", "/"}, 4, {Plain, Jsonc}),
     \* structs: aliases, what is missing, what is unknown, what was there already
     Typed(<<"{">>, Ended({A7, Member(B, <<"n">>), Member(C, <<"[", "7", "]">>)}) \cup {Name(A), <<"}">>}, 3,
           <<Pair, Wish, Map(Str, Optional(U8))>>,
           <<Old(1, ObjectOf(Pair, <<IntNode(1), Many>>)), Old(2, WishOf(IntNode(1), IntNode(2)))>>),
     Typed(<<"{">>, Ended({Member(A, <<"n">>), Member(Z, <<"1", ".">>)}) \cup {Member(Z, <<"{">>), Name(Z), <<"}">>}, 3,
           <<Wish>>, <<>>),
     \* enums: a name, or a tag outside
     Typed(<<>>, {Name(U), Name(P), <<"{">>, <<"{">> \o Name(U), <<"{">> \o Name(Z), <<":", "n">>, <<"}">>, <<Comma>>}, 3,
           <<Shape>>, <<>>),
     Typed(<<"{">> \o Member(P, <<"{">>), Ended({A7, Member(C, <<"n">>)}) \cup {<<"}">>, <<"}", "}">>}, 3,
           <<Shape>>, <<Old(1, VariantOf(Shape, 1, Null)), Old(1, VariantOf(Shape, 2, WishOf(IntNode(1), IntNode(2))))>>),
     \* names found by every scheme, at the end of the document and before it
     Typed(<<>>, {Name(n) : n \in AllSpelt} \cup {<<Quote, "a">>, <<" ">>}, 2, Schemes, <<>>),
     \* integers
     Typed(<<>>, {<<"-">>, <<"1", "2">>, <<"7">>, <<"8">>, <<"0">>, <<"9", "0">>, <<".">>, <<"e", "1">>, <<"n">>, <<"t">>}, 3,
           <<U8, I8, U64, Optional(I64), Bool>>, <<>>),
     \* maps under integer keys
     Typed(<<"{">> \o Member(<<"0">>, <<"7", Comma, Quote>>),
           {<<"-">>, <<"+">>, <<"0">>, <<"1", "2", "8">>, <<"1", "2", "9">>, <<Quote, ":", "7", "}">>}, 3,
           <<Map(I8, U8), Map(U8, AnyValue)>>, <<>>),
     \* sequences
     Typed(<<"[">>, {<<"7">>, <<"n">>, <<"[">>, <<"]">>, <<Comma>>}, 4,
           <<Tuple(<<U8, Optional(Unit)>>), Vec(Vec(U8)), Vec(Optional(Vec(U8)))>>,
           <<Old(2, ListOf(<<Many, ListOf(<<>>)>>))>>) >>
=============================================================================
