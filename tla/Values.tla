------------------------------- MODULE Values -------------------------------
(***************************************************************************)
(* What documents hold, whichever format they are in: the tree of Value    *)
(* (value.rs), the declared types, which are the library's own impls and   *)
(* what the declaration macros generate, and which value of a type a tree  *)
(* is.                                                                     *)
(*                                                                         *)
(* Text is a sequence of characters.  A node has a kind; a number or a     *)
(* string has its text, an array or an object its members as pairs of a    *)
(* key and a node, in order.  What a value of a declared type holds is the *)
(* tree it writes: so what is read as a declared type compares with what a *)
(* Value holds of the same document.                                       *)
(***************************************************************************)
EXTENDS Sequences, KeyMap

CONSTANTS
  MaxUnsigned,   \* u64::MAX, which a Value's integers stay within
  MaxSigned      \* i64::MAX; i64::MIN is one further from zero

ASSUME IntegersAssumption == MaxUnsigned \in Nat /\ MaxSigned \in Nat

-----------------------------------------------------------------------------
(* Integers as text.                                                       *)

Digits     == <<"0", "1", "2", "3", "4", "5", "6", "7", "8", "9">>
DigitValue == [d \in {Digits[k] : k \in 1 .. 10} |-> CHOOSE v \in 0 .. 9 : Digits[v + 1] = d]
IsDigit(x) == x \in DOMAIN DigitValue

AllDigits(text)  == text # <<>> /\ \A k \in DOMAIN text : IsDigit(text[k])
NumberOf(digits) ==
  LET value[k \in 0 .. Len(digits)] ==
        IF k = 0 THEN 0 ELSE 10 * value[k - 1] + DigitValue[digits[k]]
  IN value[Len(digits)]

RECURSIVE Decimal(_)
Decimal(n) == CASE n < 0 -> <<"-">> \o Decimal(-n)
                [] n \in 0 .. 9 -> <<Digits[n + 1]>>
                [] OTHER -> Decimal(n \div 10) \o <<Digits[(n % 10) + 1]>>

\* parse_int_text: what str::parse takes, and a minus before zeros even where
\* there are no negative numbers.  A sequence of the number, or none.
ParseIntText(signed, text) ==
  LET minus == text # <<>> /\ text[1] = "-"
      rest  == IF text # <<>> /\ text[1] \in {"-", "+"} THEN Tail(text) ELSE text
  IN IF AllDigits(rest) /\ (minus => signed \/ NumberOf(rest) = 0)
     THEN <<IF minus THEN -NumberOf(rest) ELSE NumberOf(rest)>> ELSE <<>>

-----------------------------------------------------------------------------
(* Characters as bytes.                                                    *)

Lower == <<"a", "b", "c", "d", "e", "f", "g", "h", "i", "j", "k", "l", "m",
           "n", "o", "p", "q", "r", "s", "t", "u", "v", "w", "x", "y", "z">>
Signs == (10 :> "LF") @@ (32 :> " ") @@ (34 :> "'") @@ (43 :> "+") @@ (44 :> ",") @@ (45 :> "-")
         @@ (46 :> ".") @@ (47 :> "/") @@ (58 :> ":") @@ (91 :> "[") @@ (92 :> "\\") @@ (93 :> "]")
         @@ (123 :> "{") @@ (125 :> "}") @@ (126 :> "~") @@ (0 :> "U+00") @@ (1 :> "U+01")

\* The characters a string's bytes are, as JSON's text names them.
Char(b) == CASE b \in 48 .. 57 -> Digits[b - 47]
             [] b \in 97 .. 122 -> Lower[b - 96]
             [] b \in DOMAIN Signs -> Signs[b]
             [] OTHER -> "U+" \o ToString(b)
Chars(bytes) == [k \in DOMAIN bytes |-> Char(bytes[k])]

ByteOf == [x \in {Char(b) : b \in 0 .. 127} |-> CHOOSE b \in 0 .. 127 : Char(b) = x]
BytesOf(text) == [k \in DOMAIN text |-> ByteOf[text[k]]]

-----------------------------------------------------------------------------
(* Value.                                                                  *)

Node(kind, text, sub) == [kind |-> kind, text |-> text, sub |-> sub]
Numbers == {"unsigned", "negative", "float"}
Null    == Node("null", <<>>, <<>>)

Leaf(kind, text) == Node(kind, text, <<>>)
IntNode(n)       == Leaf(IF n < 0 THEN "negative" ELSE "unsigned", Decimal(n))
ListOf(nodes)    == Node("array", <<>>, [k \in DOMAIN nodes |-> <<<<>>, nodes[k]>>])
SubOf(node)      == [k \in DOMAIN node.sub |-> node.sub[k][2]]

\* The integer a node's text is.
IntOf(node) ==
  IF Head(node.text) = "-" THEN -NumberOf(Tail(node.text)) ELSE NumberOf(node.text)

\* Object::insert: a key that is there keeps its place and gets the new value.
Insert(members, key, node) ==
  LET at == {k \in DOMAIN members : members[k][1] = key}
  IN IF at = {} THEN Append(members, <<key, node>>)
     ELSE [members EXCEPT ![Min(at)] = <<key, node>>]

\* What a matrix calls its members and its layouts, each by a letter of the
\* word: MatrixLayout::as_str and the keys of ext/matrix.rs.  from_str takes
\* another name of each layout than the one written.
LayoutKey  == <<"l">>
ExtentsKey == <<"e">>
ValueKey   == <<"v">>
Layouts    == <<<<"r">>, <<"l">>>>
Spellings == <<{Layouts[1], <<"w">>}, {Layouts[2], <<"c">>}>>

MatrixNode(layout, extents, data) ==
  Node("object", <<>>,
       <<<<LayoutKey, Leaf("string", layout)>>, <<ExtentsKey, extents>>, <<ValueKey, data>>>>)

\* element_count and commit_shape: as many elements as the extents multiply
\* to, and no extents at all hold none.
Shaped(layout, extents, data) ==
  LET product == FoldLeft(LAMBDA n, e : n * IntOf(e[2]), 1, extents.sub)
  IN Len(data.sub) = IF extents.sub = <<>> THEN 0 ELSE product

-----------------------------------------------------------------------------
(* Types.  A type is a record: its kind k; for an integer whether it is    *)
(* signed, and its width in bytes; for a struct or an enum the spellings   *)
(* of its names, an alias after the name it is for, and what is declared   *)
(* to find them by; the types inside it, in order, those of a map being    *)
(* its values' and its keys'; the members marked #[required]; the tag of   *)
(* an enum that is tagged inside.                                          *)

Type(k) == [k |-> k, signed |-> FALSE, width |-> 0, names |-> <<>>, sub |-> <<>>, required |-> {},
            tag |-> <<>>, declared |-> [keys |-> <<>>, fields |-> <<>>, map |-> Blank]]

\* KEYS and ALIASES, or VARIANTS and ALIASES: every name, and then every alias,
\* each with the member or variant it is for; and the MAP that is made of them.
AllNames(names) ==
  [i \in DOMAIN names |-> <<i, Head(names[i])>>]
    \o FlattenSeq([i \in DOMAIN names |-> [a \in DOMAIN Tail(names[i]) |-> <<i, Tail(names[i])[a]>>]])
Declared(names) ==
  With(AllNames(names), LAMBDA all : With([j \in DOMAIN all |-> BytesOf(all[j][2])], LAMBDA keys :
    [keys |-> keys, fields |-> [j \in DOMAIN all |-> all[j][1]], map |-> Build(keys)]))

Bool     == Type("bool")
Unit     == Type("unit")
Float    == Type("float")     \* f64
Str      == Type("str")
Bytes    == Type("bytes")     \* &[u8]
AnyValue == Type("value")
Integer(signed, width) == [Type("int") EXCEPT !.signed = signed, !.width = width]
Optional(t)      == [Type("option") EXCEPT !.sub = <<t>>]
Vec(t)           == [Type("vec") EXCEPT !.sub = <<t>>]
Tuple(ts)        == [Type("tuple") EXCEPT !.sub = ts]     \* [T; N] and array! too
Map(key, t)      == [Type("map") EXCEPT !.sub = <<t, key>>]
ComplexOf(t)     == [Type("complex") EXCEPT !.sub = <<t>>]
MatrixOf(t)      == [Type("matrix") EXCEPT !.sub = <<t>>]
NamedType(k, names, ts) == [Type(k) EXCEPT !.names = names, !.sub = ts, !.declared = Declared(names)]
Struct(names, ts)      == NamedType("struct", names, ts)
Enum(names, ts)        == NamedType("enum", names, ts)
Tagged(tag, names, ts) == [NamedType("tagged", names, ts) EXCEPT !.tag = tag]

\* A program's own Read, which tries one type and then another.
Either(ts)       == [Type("either") EXCEPT !.sub = ts]

\* The matrix object other writers spell.
ExtentType     == Vec(Integer(FALSE, 8))
MatrixKeys     == <<LayoutKey, ExtentsKey, ValueKey>>
MatrixObjectOf(t) == [Type("struct") EXCEPT !.names = [k \in 1 .. 3 |-> <<MatrixKeys[k]>>],
                                            !.sub = <<Str, ExtentType, Vec(t)>>]

\* A name's first spelling, which it is written under.
Primary(t, i) == t.names[i][1]

\* The member or variant an index found is for, 0 if none: resolve_key and
\* resolve_variant, confirmed by read_field, read_name or read_payload.
Confirmed(t, index, name) ==
  IF index >= t.declared.map.n THEN 0
  ELSE With(t.declared.fields[index + 1], LAMBDA i : IF name \in Range(t.names[i]) THEN i ELSE 0)

\* What an integer of the type can be: a wide one is as wide as usize here.
Holds(t, n) ==
  LET span == 256 ^ t.width IN
  CASE t.width < 4 /\ ~t.signed -> n \in 0 .. span - 1
    [] t.width < 4 /\ t.signed -> n \in -(span \div 2) .. span \div 2 - 1
    [] t.width >= 4 /\ ~t.signed -> n \in 0 .. MaxUnsigned
    [] t.width >= 4 /\ t.signed -> n \in -MaxSigned - 1 .. MaxSigned

-----------------------------------------------------------------------------
(* What a value of a type holds.                                           *)

ObjectOf(t, nodes) ==
  Node("object", <<>>, [i \in DOMAIN nodes |-> <<Primary(t, i), nodes[i]>>])

\* A unit variant is its name.  A variant that carries a value is an object of
\* one member, or, tagged internally, its payload's members after the tag.
VariantOf(t, i, payload) ==
  LET name == Leaf("string", Primary(t, i)) IN
  CASE t.k = "enum" /\ t.sub[i].k = "unit" -> name
    [] t.k = "enum" /\ t.sub[i].k # "unit" -> Node("object", <<>>, <<<<Primary(t, i), payload>>>>)
    [] t.k = "tagged" -> Node("object", <<>>, <<<<t.tag, name>>>> \o payload.sub)

\* The payload a value of variant i has.
PayloadOf(t, node) == IF t.k = "enum" THEN node.sub[1][2] ELSE [node EXCEPT !.sub = Tail(@)]
IsVariant(t, i, node) ==
  CASE t.k = "enum" /\ t.sub[i].k = "unit" -> node.kind = "string" /\ node.text = Primary(t, i)
    [] t.k = "enum" /\ t.sub[i].k # "unit" -> node.kind = "object" /\ node.sub[1][1] = Primary(t, i)
    [] t.k = "tagged" -> node.sub[1][2].text = Primary(t, i)

\* Default::default, an enum's being its first variant.
RECURSIVE Default(_)
Default(t) ==
  LET inside == [i \in DOMAIN t.sub |-> Default(t.sub[i])] IN
  CASE t.k = "bool" -> Leaf("false", <<>>)
    [] t.k \in {"unit", "option", "value"} -> Null
    [] t.k = "int" -> IntNode(0)
    [] t.k = "float" -> Leaf("float", Decimal(0))
    [] t.k = "str" -> Leaf("string", <<>>)
    [] t.k \in {"bytes", "vec"} -> ListOf(<<>>)
    [] t.k = "map" -> Node("object", <<>>, <<>>)
    [] t.k = "tuple" -> ListOf(inside)
    [] t.k = "complex" -> ListOf(<<inside[1], inside[1]>>)
    [] t.k = "matrix" -> MatrixNode(Layouts[1], ListOf(<<>>), ListOf(<<>>))
    [] t.k = "struct" -> ObjectOf(t, inside)
    [] t.k \in {"enum", "tagged"} -> VariantOf(t, 1, inside[1])
    [] t.k = "either" -> inside[1]

\* What a variant of a value that is there is read over.
OldPayload(t, i, old) == IF IsVariant(t, i, old) THEN PayloadOf(t, old) ELSE Default(t.sub[i])

\* The node without the members SKIP_NULL leaves out.
RECURSIVE Sparse(_, _, _)
Sparse(o, t, node) ==
  LET within(type, members) ==
        [k \in DOMAIN members |-> <<members[k][1], Sparse(o, type, members[k][2])>>]
      fields(struct, members) ==
        SelectSeq([k \in DOMAIN members |->
                     <<members[k][1], Sparse(o, struct.sub[k], members[k][2])>>],
                  LAMBDA m : ~(o.skipNull /\ m[2].kind = "null"))
      i == CHOOSE v \in DOMAIN t.sub : IsVariant(t, v, node)
  IN CASE t.k = "struct" -> [node EXCEPT !.sub = fields(t, @)]
       [] t.k = "tagged" /\ t.sub[i].k = "struct" ->
            [node EXCEPT !.sub = <<Head(@)>> \o fields(t.sub[i], Tail(@))]
       [] t.k = "enum" /\ t.sub[i].k = "struct" -> [node EXCEPT !.sub = within(t.sub[i], @)]
       [] t.k = "option" /\ node.kind # "null" -> Sparse(o, t.sub[1], node)
       [] t.k \in {"vec", "map"} -> [node EXCEPT !.sub = within(t.sub[1], @)]
       [] t.k = "tuple" ->
            [node EXCEPT !.sub = [k \in DOMAIN @ |-> <<<<>>, Sparse(o, t.sub[k], @[k][2])>>]]
       [] OTHER -> node

-----------------------------------------------------------------------------
(* Declared types, said of the tree alone: the value of the type a node    *)
(* is, or none.  o.unknown says that a member no field claims is refused,  *)
(* and o.missing that every field has to have one.                         *)

All(parts, made(_)) ==
  IF \E k \in DOMAIN parts : parts[k] = <<>> THEN <<>>
  ELSE <<made([k \in DOMAIN parts |-> parts[k][1]])>>

\* The members of an object that name i, under any of its spellings, those that
\* name nothing, and what a text names.
Naming(t, node, i) == {k \in DOMAIN node.sub :
                         \E n \in DOMAIN t.names[i] : t.names[i][n] = node.sub[k][1]}
Foreign(t, node)   == {k \in DOMAIN node.sub : \A i \in DOMAIN t.sub : k \notin Naming(t, node, i)}
NamedBy(t, text)   == {i \in DOMAIN t.sub : \E n \in DOMAIN t.names[i] : t.names[i][n] = text}

\* Every member that names a field has to fit it; it has the last one's value.
RECURSIVE Fit(_, _, _)
Fit(o, t, node) ==
  LET sub == SubOf(node)
      each(type) == [k \in DOMAIN sub |-> Fit(o, type, sub[k])]
      member(struct, of, i) ==
        With(Naming(struct, of, i), LAMBDA at :
          CASE at = {} -> IF o.missing \/ i \in struct.required THEN <<>> ELSE <<Default(struct.sub[i])>>
            [] OTHER -> IF \E k \in at : Fit(o, struct.sub[i], of.sub[k][2]) = <<>> THEN <<>>
                        ELSE Fit(o, struct.sub[i], of.sub[Max(at)][2]))
      object(struct, of) ==
        IF of.kind # "object" \/ (o.unknown /\ Foreign(struct, of) # {}) THEN <<>>
        ELSE All([i \in DOMAIN struct.sub |-> member(struct, of, i)], LAMBDA ns : ObjectOf(struct, ns))
      keys == [k \in DOMAIN sub |->
                 IF t.sub[2].k = "str" THEN <<node.sub[k][1]>>
                 ELSE With(ParseIntText(t.sub[2].signed, node.sub[k][1]), LAMBDA n :
                        IF n = <<>> THEN <<>>
                        ELSE IF Holds(t.sub[2], n[1]) THEN <<Decimal(n[1])>> ELSE <<>>)]
      entries(ns) == FoldLeft(LAMBDA ms, k : Insert(ms, keys[k][1], ns[k]), <<>>,
                              [k \in DOMAIN ns |-> k])
      payload(i, of) == All(<<Fit(o, t.sub[i], of)>>, LAMBDA ns : VariantOf(t, i, ns[1]))
      \* the members after the tag, then those before it
      tags    == {k \in DOMAIN node.sub : node.sub[k][1] = t.tag}
      untagged(at) == [node EXCEPT !.sub = SubSeq(@, at + 1, Len(@)) \o SubSeq(@, 1, at - 1)]
      variant(is, of) ==
        CASE is = {} -> <<>>
          [] is # {} /\ t.sub[Min(is)].k # "unit" -> payload(Min(is), of)
          [] OTHER -> IF o.unknown /\ of.sub # <<>> THEN <<>> ELSE <<VariantOf(t, Min(is), Null)>>
      kinds(some) == IF node.kind \in some THEN <<node>> ELSE <<>>
  IN CASE t.k = "bool" -> kinds({"true", "false"})
       [] t.k = "unit" -> kinds({"null"})
       [] t.k = "str" -> kinds({"string"})
       [] t.k = "value" -> <<node>>
       [] t.k = "int" ->
            CASE node.kind \in {"unsigned", "negative"} -> IF Holds(t, IntOf(node)) THEN <<node>> ELSE <<>>
              [] OTHER -> <<>>
       [] t.k = "bytes" ->   \* the two's complement of what fits in one
            IF node.kind = "array" /\ \A k \in DOMAIN sub :
                 sub[k].kind \in {"unsigned", "negative"} /\ IntOf(sub[k]) \in -128 .. 255
            THEN <<ListOf([k \in DOMAIN sub |-> IntNode(IntOf(sub[k]) % 256)])>> ELSE <<>>
       [] t.k = "float" ->
            IF node.kind \in Numbers THEN <<Leaf("float", node.text)>> ELSE <<>>
       [] t.k = "option" -> IF node.kind = "null" THEN <<node>> ELSE Fit(o, t.sub[1], node)
       [] t.k = "vec" -> IF node.kind = "array" THEN All(each(t.sub[1]), ListOf) ELSE <<>>
       [] t.k = "tuple" ->
            IF node.kind = "array" /\ Len(sub) = Len(t.sub)
            THEN All([k \in DOMAIN sub |-> Fit(o, t.sub[k], sub[k])], ListOf) ELSE <<>>
       [] t.k = "complex" ->
            IF node.kind = "array" /\ Len(sub) = 2 THEN All(each(t.sub[1]), ListOf) ELSE <<>>
       [] t.k = "map" ->
            IF node.kind # "object" \/ \E k \in DOMAIN keys : keys[k] = <<>> THEN <<>>
            ELSE All(each(t.sub[1]), LAMBDA ns : Node("object", <<>>, entries(ns)))
       [] t.k = "struct" -> object(t, node)
       [] t.k = "matrix" ->
            With(object(MatrixObjectOf(t.sub[1]), node), LAMBDA fit :
              IF fit = <<>> THEN <<>>
              ELSE With(SubOf(fit[1]), LAMBDA parts :
                     With({k \in 1 .. 2 : parts[1].text \in Spellings[k]}, LAMBDA named :
                       IF named # {} /\ Shaped(parts[1], parts[2], parts[3])
                       THEN <<MatrixNode(Layouts[Min(named)], parts[2], parts[3])>> ELSE <<>>)))
       [] t.k = "enum" ->
            CASE node.kind = "string" ->
                   With(NamedBy(t, node.text), LAMBDA at :
                     IF at = {} THEN <<>>
                     ELSE IF t.sub[Min(at)].k = "unit" THEN <<VariantOf(t, Min(at), Null)>> ELSE <<>>)
              [] node.kind = "object" /\ Len(sub) = 1 ->
                   With(NamedBy(t, node.sub[1][1]), LAMBDA at :
                     IF at = {} THEN <<>> ELSE payload(Min(at), sub[1]))
              [] OTHER -> <<>>
       [] t.k = "tagged" ->
            IF node.kind # "object" \/ tags = {} THEN <<>>
            ELSE IF sub[Min(tags)].kind # "string" THEN <<>>
            ELSE variant(NamedBy(t, sub[Min(tags)].text), untagged(Min(tags)))
       [] t.k = "either" ->
            With(Fit(o, t.sub[1], node), LAMBDA first :
              IF first # <<>> THEN first ELSE Fit(o, t.sub[2], node))
=============================================================================
