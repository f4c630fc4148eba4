-------------------------- MODULE MCBeveDocuments --------------------------
(* Documents made of whole keys, scalars and headers, put together in every *)
(* order, cut short and run on; and one value of every kind there is to     *)
(* write.                                                                   *)
EXTENDS BeveDocuments

MCSeeds == <<0, 41, 7, 1999, 523, 3001>>

U8  == Integer(FALSE, 1)
I8  == Integer(TRUE, 1)
U16 == Integer(FALSE, 2)
U32 == Integer(FALSE, 4)
I64 == Integer(TRUE, 8)

\* Names, each of a letter: a, b and its alias c, p, t and u.
A == <<"a">>
B == <<"b">>
C == <<"c">>
P == <<"p">>
T == <<"t">>
U == <<"u">>
Pair     == Struct(<<<<A>>, <<B, C>>>>, <<U8, Optional(Vec(U8))>>)
Wish     == [Struct(<<<<A>>, <<B, C>>>>, <<Optional(U8), Optional(U8)>>) EXCEPT !.required = {1}]
Shape    == Enum(<<<<U>>, <<P>>>>, <<Unit, Pair>>)
Letter   == Enum(<<<<U>>, <<P>>>>, <<Unit, Unit>>)
Labelled == Tagged(T, <<<<U>>, <<P>>>>, <<Unit, Pair>>)
Nest     == Tagged(T, <<<<U>>, <<P>>>>, <<Unit, Struct(<<<<A>>, <<B>>>>, <<U8, Labelled>>)>>)

\* Names of a declaration that every scheme there is to find them is built for,
\* and names that are like them and none of them.
Spelt(n, xs) == [k \in 1 .. n |-> "a"] \o xs
Names(ns)    == [k \in DOMAIN ns |-> <<ns[k]>>]
Tails        == <<<<"a", "a">>, <<"a", "b">>, <<"b", "a">>>>
SchemeNames ==
  << Names(<<A>>), Names(<<<<"d">>, A, B>>), Names(<<A, <<"d">>, C>>), Names(<<A, B, C>>),
     Names(<<<<"c", "a">>, <<"c", "b">>>>), Names(<<A, C, B>>), <<<<C, Spelt(1, B)>>, <<A, B>>>>,
     Names(Tails), Names([k \in 1 .. 3 |-> Spelt(2, Tails[k])]), Names([k \in 1 .. 3 |-> Spelt(6, Tails[k])]),
     Names(<<A, Spelt(1, A), B>>), Names(<<A, Spelt(0, Tails[3]), <<"b", "b">>>>),
     Names(<<A>> \o Tails), Names(<<<<>>, A>>),
     Names(<<Spelt(9, <<>>)>> \o [k \in 1 .. 3 |-> Spelt(8, Tails[k])]),
     Names(<<A, B>> \o Tails), Names([k \in 1 .. 6 |-> <<Lower[k]>>]) >>
Schemes   == [k \in DOMAIN SchemeNames |-> Enum(SchemeNames[k], [i \in DOMAIN SchemeNames[k] |-> Unit])]
AllSpelt  == UNION {Range(FlattenSeq(SchemeNames[k])) : k \in DOMAIN SchemeNames}
               \cup {<<"c">>, <<"h">>, <<"b", "b">>, Spelt(2, <<>>) \o <<"c">>, Spelt(4, B), Spelt(5, <<>>), Spelt(9, B)}
ASSUME EverySchemeIsTried ==
  {Schemes[k].declared.map.kind : k \in DOMAIN Schemes} =
    {"SingleElement", "Mod4", "XorMod4", "MinusMod4", "UniqueIndexTwo", "UniqueIndex", "Front2", "Front4",
     "Front8", "UniqueIndexSized", "UniquePerLength", "FullFlat", "Linear"}

\* Chunks of documents.
KeyOf(name)  == EncodeSize(Len(name)) \o BytesOf(name)
Text1(name)  == <<String>> \o KeyOf(name)
Byte(n)      == <<17, n>>
ObjectHead(n) == <<Object, 4 * n>>
List(n)      == <<GenericArray, 4 * n>>

Numeral(n) == IntNode(n)
Listed(ns) == ListOf([k \in DOMAIN ns |-> Numeral(ns[k])])
Letters(name) == Leaf("string", name)
PairOf(a, b)  == ObjectOf(Pair, <<Numeral(a), b>>)

Pointer(tokens) == [rooted |-> TRUE, tokens |-> [k \in DOMAIN tokens |-> BytesOf(tokens[k])]]
Pointers ==
  << [rooted |-> FALSE, tokens |-> <<>>], Pointer(<<A>>), Pointer(<<B>>), Pointer(<<<<"0">>>>),
     Pointer(<<<<"1">>>>), Pointer(<<<<"-">>>>), Pointer(<<A, <<"1">>>>), Pointer(<<<<"0">>, <<"1">>>>),
     Pointer(<<<<"~", "1">>>>), [rooted |-> FALSE, tokens |-> <<BytesOf(A)>>] >>

Setup(opening, chunks, max, types, olds, policies, session) ==
  [opening |-> opening, chunks |-> chunks, max |-> max, types |-> types,
   pointers |-> IF session THEN SubSeq(Pointers, 1, 5) ELSE Pointers,
   olds |-> olds, policies |-> policies, session |-> session]
Lenient == [unknown |-> FALSE, missing |-> FALSE]
Old(k, node) == [type |-> k, node |-> node]


NullText  == <<NULL>>
U8Array   == TypedArray + 8 * Unsigned
I8Array   == TypedArray + 8 * Signed
U16Array  == U8Array + 32
BoolArray == TypedArray + 8 * OtherCat
StrArray  == BoolArray + 32
One == 8    \* complex classes of i8: one, a run, a run aligned
MCSetups ==
  << \* objects, as structs, maps and Values
     Setup(ObjectHead(2), {KeyOf(A) \o Byte(7), KeyOf(A), KeyOf(B), KeyOf(C) \o NullText, NullText,
                           <<U8Array, 4, 9>>}, 3,
           <<Pair, Map(Str, U8)>>,
           <<Old(1, PairOf(1, Listed(<<1, 2>>))), Old(2, Node("object", <<>>, <<<<C, Numeral(3)>>>>))>>,
           {Standard}, FALSE),
     \* enums: a name, or a tag outside
     Setup(<<>>, {Text1(U), ObjectHead(1), KeyOf(P), KeyOf(U), NullText, List(2)}, 3,
           <<Shape, Vec(Letter)>>, <<>>, {Standard}, FALSE),
     Setup(ObjectHead(1) \o KeyOf(P) \o ObjectHead(2), {KeyOf(A) \o Byte(7), KeyOf(C) \o NullText, NullText}, 3,
           <<Shape, Map(Str, Pair)>>,
           <<Old(1, VariantOf(Shape, 2, PairOf(1, Listed(<<2>>)))), Old(1, VariantOf(Shape, 1, Null))>>,
           {Standard}, FALSE),
     \* names found by every scheme
     Setup(<<>>, {Text1(n) : n \in AllSpelt}, 1, Schemes, <<>>, {Standard}, FALSE),
     \* a tag inside, and late
     Setup(ObjectHead(2), {KeyOf(T) \o Text1(P), KeyOf(T) \o Text1(U), KeyOf(A) \o Byte(7), KeyOf(A), Byte(7)}, 3,
           <<Labelled, Wish>>, <<Old(1, VariantOf(Labelled, 2, PairOf(1, Null)))>>, {Lenient}, TRUE),
     Setup(ObjectHead(3), {KeyOf(T) \o Text1(P), KeyOf(A) \o Byte(7), KeyOf(C) \o NullText,
                           KeyOf(B) \o <<Undefined>>, KeyOf(U) \o NullText}, 3,
           <<Labelled, Optional(Labelled)>>, <<>>, {Standard, Lenient}, TRUE),
     Setup(ObjectHead(3) \o KeyOf(A) \o Byte(7),
           {KeyOf(T) \o Text1(P), KeyOf(B) \o ObjectHead(2), KeyOf(A) \o Byte(7), KeyOf(A) \o NullText}, 4,
           <<Nest>>, <<>>, {Lenient}, TRUE),
     \* arrays of every form
     Setup(<<>>, {<<U8Array, 8>>, <<I8Array, 8>>, <<BoolArray, 8>>, <<StrArray, 8>>, <<4>>, <<1>>, <<250>>}, 3,
           <<Vec(U8), Vec(Bool), Tuple(<<U8, U8>>), Bytes>>, <<Old(1, Listed(<<1, 2, 3>>))>>, {Standard}, FALSE),
     Setup(<<ALIGNED_ARRAY, U16Array>>, {<<8>>, <<4>>, <<0>>, <<1, 0>>}, 4,
           <<Vec(U16), Vec(Float)>>, <<>>, {Standard}, FALSE),
     Setup(<<ALIGNED_ARRAY>>, {<<U8Array>>, <<I8Array>>, <<U16Array>>, <<8>>, <<4>>, <<0>>, <<1, 250>>}, 4,
           <<Bytes, Vec(I8)>>, <<Old(1, Listed(<<3>>))>>, {Standard}, FALSE),
     Setup(<<>>, {List(2), <<I8Array, 8, 1, 250>>, <<U8Array, 4, 250>>, <<StrArray, 8, 4, 97, 0>>, Byte(7), Text1(U)}, 3,
           <<Vec(Vec(I8)), Tuple(<<U8, Str>>), Vec(Str), Vec(Bytes)>>,
           <<Old(1, ListOf(<<Listed(<<1, 2, 3>>)>>)), Old(3, ListOf(<<Letters(A), Letters(B), Letters(C)>>))>>,
           {Standard}, FALSE),
     \* elements sought and read, with the header their array implies
     Setup(List(2), {<<BoolArray, 8, 2>>, <<StrArray, 8, 4, 97, 4, 98>>, <<U8Array, 8, 1, 2>>, List(1)}, 3,
           <<Bool, Str, U8, AnyValue, Bytes>>, <<>>, {Standard}, TRUE),
     \* the extensions, and what stands for them without
     Setup(<<>>, {<<COMPLEX>>, <<COMPLEX, One>>, <<COMPLEX, One + 1, 4>>, <<I8Array, 8>>, <<4>>, <<1>>}, 3,
           <<ComplexOf(I8), Vec(ComplexOf(I8))>>, <<>>, {Standard}, FALSE),
     Setup(<<COMPLEX, One + 2, ALIGNED_ARRAY, I8Array>>, {<<8>>, <<4>>, <<0>>, <<1>>}, 4,
           <<Vec(ComplexOf(I8)), Vec(Vec(I8))>>, <<>>, {Standard}, FALSE),
     Setup(<<MATRIX>>, {<<0>>, <<1>>, <<2>>, <<U8Array, 8, 1, 2>>, <<I8Array, 8, 3, 250>>, <<U8Array, 0>>}, 3,
           <<MatrixOf(I8), Vec(U8)>>, <<Old(1, MatrixNode(Layouts[2], Listed(<<1>>), Listed(<<5>>)))>>,
           {Standard}, FALSE),
     Setup(ObjectHead(3), {KeyOf(LayoutKey) \o Text1(C), KeyOf(ExtentsKey) \o <<U8Array, 4, 2>>,
                           KeyOf(ValueKey) \o <<I8Array, 8, 3, 250>>, KeyOf(ValueKey) \o <<U8Array, 0>>,
                           KeyOf(A) \o NullText}, 3,
           <<MatrixOf(I8)>>, <<Old(1, MatrixNode(Layouts[1], Listed(<<1>>), Listed(<<5>>)))>>, {Standard}, FALSE),
     \* maps with integer keys, and with keys that are text
     Setup(<<Object + 8 * Signed, 8>>, {<<255>>, <<1>>, Byte(7), NullText}, 4,
           <<Map(I8, U8), Map(U16, Optional(U8)), Map(Str, U8)>>, <<>>, {Standard}, FALSE),
     Setup(ObjectHead(2), {KeyOf(n) \o Byte(7) : n \in {<<"1">>, <<"-", "1">>, <<"+", "1">>, <<"/">>, <<"'">>}}
                            \cup {KeyOf(<<"1">>), Byte(7)}, 3,
           <<Map(Str, U8), Vec(U8)>>, <<>>, {Standard}, FALSE),
     \* headers of every type, and some of no type
     Setup(<<>>, {<<0>>, <<8>>, <<16>>, <<24>>, <<9>>, <<17>>, <<2>>, <<10>>, <<3>>, <<67>>, <<5>>, <<37>>,
                  <<BoolArray>>, <<6>>, <<14>>, <<38>>, <<7>>, <<4>>, <<200>>}, 2,
           <<Bool, Unit, I8, Str>>, <<>>, {Standard}, FALSE),
     \* floats: one that is no number, one too wide; integers past a Value
     Setup(List(2), {<<1, 128, 127>>, <<1, 0, 64>>, <<129>> \o [k \in 1 .. 16 |-> 0], <<81, 255, 255, 1, 0>>,
                     <<TypedArray + 128, 0>>, NullText}, 3,
           <<Vec(Float), Vec(Optional(U32)), AnyValue>>, <<>>, {Standard}, FALSE),
     \* containers down to the limit and past it
     Setup(List(1), {List(1), <<U8Array, 4, 1>>, <<COMPLEX, One + 1, 4, 1, 2>>, ObjectHead(1) \o KeyOf(A), NullText}, 4,
           <<Vec(Vec(U8)), Vec(Vec(Vec(Vec(Bytes))))>>, <<>>, {Standard}, FALSE),
     Setup(List(1) \o List(1), {List(1), ObjectHead(1) \o KeyOf(A), <<U8Array, 4, 1>>, NullText}, 3,
           <<Vec(Vec(Vec(U8))), Vec(AnyValue)>>, <<>>, {Standard}, TRUE) >>

Writing(type, node) == [type |-> type, node |-> node]
Flag(b) == Leaf(IF b THEN "true" ELSE "false", <<>>)
Complexes(ns) == ListOf([k \in DOMAIN ns |-> Listed(ns[k])])
MCWritings ==
  << Writing(Pair, PairOf(7, Listed(<<1, 2>>))), Writing(Pair, PairOf(7, Null)),
     Writing(Map(Str, Pair), Node("object", <<>>, <<<<A, PairOf(1, Null)>>, <<B, PairOf(2, Listed(<<>>))>>>>)),
     Writing(Shape, VariantOf(Shape, 2, PairOf(1, Null))), Writing(Shape, VariantOf(Shape, 1, Null)),
     Writing(Vec(Letter), ListOf(<<Letters(U), Letters(P)>>)),
     Writing(Labelled, VariantOf(Labelled, 2, PairOf(7, Listed(<<1>>)))),
     Writing(Vec(Labelled), ListOf(<<VariantOf(Labelled, 1, Null), VariantOf(Labelled, 2, PairOf(7, Null))>>)),
     Writing(Vec(U16), Listed(<<1, 300>>)), Writing(Vec(U8), Listed([k \in 1 .. 70 |-> k])),
     Writing(Tuple(<<Vec(U32), Str>>), ListOf(<<Listed(<<70000>>), Letters(A)>>)),
     Writing(Vec(Bool), ListOf([k \in 1 .. 9 |-> Flag(k \in {1, 3, 9})])),
     Writing(Vec(Optional(U8)), ListOf(<<Numeral(1), Null>>)),
     Writing(Map(Integer(TRUE, 2), I8), Node("object", <<>>, <<<<Decimal(-2), Numeral(-3)>>, <<Decimal(300), Numeral(4)>>>>)),
     Writing(Tuple(<<U8, Vec(ComplexOf(U16))>>), ListOf(<<Numeral(1), Complexes(<<<<1, 2>>, <<3, 400>>>>)>>)),
     Writing(ComplexOf(I8), Listed(<<1, -2>>)),
     Writing(MatrixOf(I64), MatrixNode(Layouts[2], Listed(<<2, 1>>), Listed(<<-5, 6>>))),
     Writing(Vec(MatrixOf(U8)), ListOf(<<MatrixNode(Layouts[1], Listed(<<>>), Listed(<<>>)),
                                         MatrixNode(Layouts[1], Listed(<<300, 0>>), Listed(<<>>))>>)),
     Writing(AnyValue, Node("object", <<>>,
       <<<<A, ListOf(<<Numeral(1), Numeral(-2), Letters(P), Null, Flag(TRUE)>>)>>>>)) >>

MCPolicies == {[skipNull |-> s, aligned |-> a] : s \in BOOLEAN, a \in BOOLEAN}

\* Sinks with buffers smaller than most pieces, and one that holds a few; and a
\* caller's buffers, with a document begun at their start or inside them.
MCWriters ==
  {[writer |-> ToSink(c, f), offset |-> 0] :
     c \in {3, 17}, f \in {[at |-> 0, taken |-> 0], [at |-> 1, taken |-> 0], [at |-> 3, taken |-> 2]}}
  \cup {[writer |-> ToSink(8, [at |-> 0, taken |-> 0]), offset |-> 5],
        [writer |-> Appending(<<>>, 0), offset |-> 0],
        [writer |-> Appending(<<9, 9, 9>>, 20), offset |-> 3],
        [writer |-> Appending(<<9, 9, 9>>, 4), offset |-> 1]}
=============================================================================
