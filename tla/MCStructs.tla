----------------------------- MODULE MCStructs -----------------------------
(* Instances of StructStore for TLC: the types of the tests, and one of each *)
(* construct that is flattened in a way of its own.                          *)
EXTENDS StructStore

I8 == [kind |-> "int", lo |-> -1, hi |-> 2]
U64 == [kind |-> "int", lo |-> 0, hi |-> 5]
Text == [kind |-> "prim", type |-> "Text"]
Bool == [kind |-> "prim", type |-> "Boolean"]
Unit == [kind |-> "unit"]
Color == [kind |-> "enum", variants |-> [Red |-> Unit, Green |-> Unit]]
Option(of) == [kind |-> "option", of |-> of]
Newtype(of) == [kind |-> "newtype", of |-> of]
Vector(of) == [kind |-> "seq", of |-> of]
Tuple(of) == [kind |-> "tuple", of |-> of]
Dict(key, of) == [kind |-> "map", key |-> key, of |-> of]
Field(name, of) == [name |-> name, of |-> of]
Struct(name, fields) == [kind |-> "struct", name |-> name, fields |-> fields]

Simple == Struct("Simple", <<Field("a", I8), Field("b", Text)>>)

\* The struct of the round-trip test, with a nested struct, a list and a map.
Complex == Struct("Complex",
  <<Field("inner", Simple), Field("list", Vector(I8)), Field("map", Dict("word", Simple))>>)

Mixed == Struct("Mixed",
  <<Field("pair", Tuple(<<I8, Newtype(Text)>>)), Field("color", Color), Field("on", Option(Bool))>>)

\* Read back wrong or not at all.
Action == [kind |-> "enum", variants |->
  [Stop |-> Unit, Go |-> Newtype(I8), Move |-> Tuple(<<I8, I8>>),
   Turn |-> [kind |-> "struct", name |-> "Turn", fields |-> <<Field("by", I8), Field("to", I8)>>]]]
Awkward == Struct("Awkward",
  <<Field("list", Vector(Simple)), Field("act", Action), Field("map", Dict("text", I8)),
    Field("big", U64), Field("unit", Unit)>>)
Counts == Struct("Counts", <<Field("count", Dict("other", I8))>>)

AllShapes == {Simple, Complex, Mixed, Awkward, Counts}

ShapeValuesOf(s) ==
  CASE s.name = "Simple" -> {<<1, "x">>, <<1, "y">>, <<2, "x">>}
    [] s.name = "Complex" ->
         {<< <<1, "x">>, <<1, 2>>, (<<"k">> :> <<1, "x">>)>>,
          << <<1, "y">>, <<2>>, (<<"m">> :> <<2, "x">>)>>,
          << <<2, "y">>, <<>>, (<<"k">> :> <<2, "x">>) @@ (<<"m">> :> <<1, "x">>)>>}
    [] s.name = "Mixed" ->
         {<< <<1, "x">>, [variant |-> "Red", of |-> <<>>], <<>> >>,
          << <<2, "x">>, [variant |-> "Green", of |-> <<>>], <<TRUE>> >>,
          << <<2, "y">>, [variant |-> "Red", of |-> <<>>], <<FALSE>> >>}
    [] s.name = "Awkward" ->
         {<< << <<1, "x">> >>, [variant |-> "Go", of |-> 1], (<<"k", "l">> :> 1), 1, <<>> >>,
          << <<>>, [variant |-> "Move", of |-> <<1, 2>>], (<<"">> :> 2) @@ (<<"k">> :> 1), 2, <<>> >>,
          << <<>>, [variant |-> "Turn", of |-> <<1, 2>>], <<>>, 5, <<>> >>,
          << <<>>, [variant |-> "Turn", of |-> <<1, 2>>], <<>>, 3, <<>> >>}
    [] s.name = "Counts" -> {<< <<>> >>, << (<<"k">> :> 1) >>}

TwoRowsOrAll == {2, NoLimit}

=============================================================================
