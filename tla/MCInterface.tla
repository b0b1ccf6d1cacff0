---------------------------- MODULE MCInterface ----------------------------
(* The types and values the algorithms of interface/ are tried on.          *)
EXTENDS Reflection

\* The kind of a type is its name, but for these.
Kinds ==
  [any |-> "interface", ints |-> "slice", pair |-> "array", word |-> "array",
   table |-> "map", tables |-> "map", toInt |-> "pointer", toNode |-> "pointer",
   toInfo |-> "pointer", toEmpty |-> "pointer", toPair |-> "pointer", toText |-> "pointer",
   empty |-> "struct", box |-> "struct", fields |-> "struct", hiding |-> "struct",
   node |-> "struct", Info |-> "struct"]

\* Texts: 0 is "", 1 "ab", 2 "<int Value>"; that of any other type no string here is.
MCTypes ==
  [t \in {"int", "int8", "uint8", "bool", "float", "string", "func", "chan", "block"}
           \cup DOMAIN Kinds |->
     [kind   |-> IF t \in DOMAIN Kinds THEN Kinds[t] ELSE t,
      hidden |-> IF t = "hiding" THEN {2} ELSE {},
      len    |-> IF t = "toPair" THEN 2 ELSE NoLen,
      text   |-> IF t = "int" THEN 2 ELSE 3]]

Plain(type, data) == [type |-> type, data |-> data, kids |-> <<>>]
Of(type, kids)    == [type |-> type, data |-> 0, kids |-> kids]
Ints(length, kids) == [type |-> "ints", data |-> length, kids |-> kids]
String(text, bytes) == [type |-> "string", data |-> text, kids |-> bytes]

\* What an interface may hold, and so what may meet in a comparison; locations
\* 1 to 4 are a number, blocks of it, and a pointer, 14 and 15 two bytes.
Things ==
  {Plain("int", 0), Plain("int8", 0), Plain("uint8", 0), Plain("bool", 0),
   Plain("float", 0), Plain("float", -1), String(0, <<>>), String(1, <<14, 15>>),
   Plain("func", 0), Plain("func", 91), Plain("chan", 92),
   Of("empty", <<>>), Of("toEmpty", <<>>), Of("toEmpty", <<13>>), Of("toInt", <<>>),
   Of("toInt", <<1>>), Of("word", <<14, 15>>), Of("toPair", <<>>),
   Ints(0, <<>>), Ints(2, <<16>>), Of("table", <<>>), Of("table", <<3>>), Of("table", <<16>>),
   Of("tables", <<>>), Of("pair", <<4, 4>>), Of("box", <<9>>)}

TwoOf(x, y) ==
  <<Plain("int", 0), Of("block", <<1>>), Of("block", <<1>>), Of("toNode", <<>>),
    x, y, Of("any", <<5>>), Of("any", <<6>>), Of("any", <<>>),
    Of("box", <<7>>), Of("box", <<8>>), Of("box", <<9>>),
    Of("empty", <<>>), Plain("uint8", 97), Plain("uint8", 98), Of("block", <<1, 1>>)>>

\* Any two of them, as they are and in interfaces, and each with nothing at all.
Anys ==
  [mems |-> {TwoOf(x, y) : x, y \in Things},
   args |-> {<<5, 6>>, <<10, 11>>}]

AnyAndNil ==
  [mems |-> {TwoOf(x, x) : x \in Things},
   args |-> {<<0, 6>>, <<5, 0>>, <<10, 12>>, <<12, 11>>, <<12, 12>>}]

\* A string with the text that String() makes of an int, or of the zero Value: the bytes
\* of "<int Value>" and "<invalid Value>" are 1 to 13, "<intvald Vue>".
Texts ==
  [mems |-> {<<Plain("uint8", 60), Plain("uint8", 105), Plain("uint8", 110), Plain("uint8", 116),
               Plain("uint8", 118), Plain("uint8", 97), Plain("uint8", 108), Plain("uint8", 100),
               Plain("uint8", 32), Plain("uint8", 86), Plain("uint8", 117), Plain("uint8", 101),
               Plain("uint8", 62), x, y, Of("any", <<14>>), Of("any", <<15>>),
               Of("box", <<16>>), Of("box", <<17>>),
               Of("toText", <<21>>),
               String(InvalidText, <<1, 2, 3, 5, 6, 7, 2, 8, 9, 10, 6, 7, 11, 12, 13>>),
               Of("toText", <<>>)>> :
                 x, y \in {String(2, <<1, 2, 3, 4, 9, 10, 6, 7, 11, 12, 13>>), Plain("int", 0),
                           Plain("bool", 0)}},
   args |-> {<<18, 19>>, <<20, 22>>, <<22, 20>>}]

\* Two nodes, two pointers and two arrays of two.
To(p) == Of("toNode", IF p = 0 THEN <<>> ELSE <<p>>)
Nodes ==
  [mems |-> {<<Of("node", <<2>>), To(a), Of("node", <<4>>), To(b), To(c), To(d),
               Of("pair", <<5, 9>>), Of("pair", <<6, 10>>), To(1), To(e)>> :
                 a, b, c, d, e \in {0, 1, 3}},
   args |-> {<<1, 3>>, <<5, 6>>, <<7, 8>>, <<5, 5>>}]

\* Two slices over two blocks of two, and a structure with each.
Slices ==
  [mems |-> {<<Of("block", <<3, 4>>), Of("block", <<5, 6>>), Plain("int", a), Plain("int", b),
               Plain("int", 0), Plain("int", 1), x, y,
               Of("hiding", <<7, 10>>), Plain("int", 0),
               Of("hiding", <<8, 12>>), Plain("int", a)>> :
                 a, b \in {0, 1},
                 x, y \in {Ints(0, <<>>)} \cup {Ints(n, <<p>>) : n \in 0..2, p \in {1, 2}}},
   args |-> {<<7, 8>>, <<9, 11>>}]

\* The block of a map with some of two elements.
Some(p, q) == {Of("block", [k \in K |-> IF k = 1 THEN p ELSE q]) : K \in SUBSET {1, 2}}
Maps(type) == {Of(type, <<>>), Of(type, <<1>>), Of(type, <<2>>)}
Tables ==
  [mems |-> {<<t, u, Plain("int", a), Plain("int", b), Plain("int", 0), Plain("int", 1), x, y>> :
               t \in Some(3, 4), u \in Some(5, 6), a, b \in {0, 1},
               x, y \in Maps("table")},
   args |-> {<<7, 8>>}]

\* Maps of anything: a number, NaN, the first map.
AnyTables ==
  [mems |-> {<<t, u, Of("any", <<p>>), Of("any", <<q>>), Of("any", <<r>>), Of("any", <<9>>),
               Of("tables", <<1>>), Of("tables", <<2>>), Plain("int", 0), Plain("float", -1)>> :
               t \in Some(3, 4), u \in Some(5, 6), p, r \in {7, 9, 10}, q \in {9, 10}},
   args |-> {<<7, 8>>, <<7, 7>>}]

\* main's value, with and without each of its parts.
Or0(type, p) == {Of(type, <<>>), Of(type, <<p>>)}
Infos ==
  [mems |-> {<<Of("Info", <<2, 3, 4>>), x, y, z, Of("Info", <<6, 7, 8>>), u, v, w,
               Of("block", <<10>>), Plain("int", a), Of("block", <<12>>), Plain("int", b),
               Of("toInfo", <<1>>), Of("toInfo", <<5>>)>> :
               x, u \in {Ints(0, <<>>), Ints(1, <<9>>)},
               y, v \in Or0("table", 11), z, w \in Or0("toInt", 10), a, b \in {0, 1}},
   args |-> {<<1, 5>>, <<13, 14>>}]

MCInputs == {Anys, AnyAndNil, Texts, Nodes, Slices, Tables, AnyTables, Infos}

\* Two structures that differ in every field: {1: 1} and {1: 0}, an interface with an
\* int and one with an int8, an empty slice and a nil one, and a pointer to an empty
\* structure and a nil one.
Fields ==
  [mems |-> {<<Of("fields", <<2, 3, 4, 5>>), Of("table", <<11>>), Of("any", <<13>>),
               Ints(0, <<11>>), Of("toEmpty", <<16>>),
               Of("fields", <<7, 8, 9, 10>>), Of("table", <<12>>), Of("any", <<14>>),
               Ints(0, <<>>), Of("toEmpty", <<>>),
               Of("block", <<15>>), Of("block", <<13>>), Plain("int", 0), Plain("int8", 0),
               Plain("int", 1), Of("empty", <<>>)>>},
   args |-> {<<1, 6>>}]

MCFields == {Fields}
=============================================================================
