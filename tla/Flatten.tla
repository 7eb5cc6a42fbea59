------------------------------ MODULE Flatten ------------------------------
(***************************************************************************)
(* How vs-data-store keeps a struct: the serializer flattens a value to    *)
(* one primitive per leaf, each at the topic of its path, and the          *)
(* deserializer reads the value back from a map of such topics.            *)
(*                                                                         *)
(* The Rust type is a shape, a record with the field kind.  Values:        *)
(*    int, prim     the datum; a prim is a bool, float, text or blob       *)
(*    option        <<>> or <<value>>                                      *)
(*    unit          <<>>                                                   *)
(*    newtype       the value inside                                       *)
(*    seq, tuple    the sequence of the elements                           *)
(*    struct        the sequence of the fields' values                     *)
(*    map           a function from texts (see TopicKeys) to values        *)
(*    enum          [variant, of]                                          *)
(* A primitive is a pair <<type, datum>>.                                  *)
(***************************************************************************)
EXTENDS TopicKeys, FiniteSetsExt, TLC

CONSTANTS
  MaxI64,     \* i64::MAX, scaled down
  MaxIndex    \* bound on the numbers that are recognised in a section

-----------------------------------------------------------------------------
(* The serializer: [prefix, map, ok]; map lists what was pushed. *)

Started == [prefix |-> <<>>, map |-> <<>>, ok |-> TRUE]

\* Vec::pop
Up(path) == IF path = <<>> THEN <<>> ELSE Front(path)

\* MUTATION of Leave: the section stays.
NeverLeave(s) == s

\* A key may have any number of sections, and one is popped.
Enter(s, key) == [s EXCEPT !.prefix = AddSuffix(@, key)]
Leave(s) == [s EXCEPT !.prefix = Up(@)]

Push(s, primitive) == [s EXCEPT !.map = Append(@, <<s.prefix, primitive>>)]

PushType(s, name) ==
  [s EXCEPT !.map = Append(@, <<s.prefix \o <<"_type">>, <<"StructType", name>>>>)]

Failed(s) == [s EXCEPT !.ok = FALSE]

Index(i) == <<ToString(i)>>

\* The order of a HashMap or a HashSet is not defined: one is fixed here.
Listed(S) == FoldSet(LAMBDA x, acc : Append(acc, x), <<>>, S)

\* What a composite holds, in order: [key, of, value].
Part(key, of, value) == [key |-> key, of |-> of, value |-> value]

Elements(of, vs) == [i \in DOMAIN vs |-> Part(Index(i - 1), of[i], vs[i])]

Fields(fields, vs) == [i \in DOMAIN vs |-> Part(<<fields[i].name>>, fields[i].of, vs[i])]

\* KeySerializer: a text is a key of its sections, all else is an error.
KeyFails(keyType) == keyType = "other"
KeyOf(text) == FromStr(text)

Entries(of, v) ==
  LET texts == Listed(DOMAIN v)
  IN  [i \in DOMAIN texts |-> Part(KeyOf(texts[i]), of, v[texts[i]])]

RECURSIVE Write(_, _, _)

WriteAll(s, parts) ==
  FoldLeft(LAMBDA acc, p : Leave(Write(Enter(acc, p.key), p.of, p.value)), s, parts)

\* A struct variant truncates to the length it had before each field.
WriteTruncating(s, parts) ==
  FoldLeft(LAMBDA acc, p :
             [Write(Enter(acc, p.key), p.of, p.value)
                EXCEPT !.prefix = SubSeq(@, 1, Min({Len(@), Len(acc.prefix)}))],
           s, parts)

WriteVariant(s, name, content, v) ==
  CASE content.kind = "unit" -> Push(s, <<"Text", name>>)
    [] content.kind = "struct" ->
         [WriteTruncating(Enter(s, <<name>>), Fields(content.fields, v))
            EXCEPT !.prefix = s.prefix]
    [] OTHER -> Leave(Write(Enter(s, <<name>>), content, v))

\* After the first error nothing is serialized any more.
Write(s, shape, v) ==
  CASE ~s.ok -> s
    [] shape.kind = "int" -> IF v <= MaxI64 THEN Push(s, <<"Integer", v>>) ELSE Failed(s)
    [] shape.kind = "prim" -> Push(s, <<shape.type, v>>)
    [] shape.kind = "option" -> IF v = <<>> THEN s ELSE Write(s, shape.of, v[1])
    [] shape.kind = "unit" -> s
    [] shape.kind = "newtype" -> Write(s, shape.of, v)
    [] shape.kind = "seq" -> WriteAll(s, Elements([i \in DOMAIN v |-> shape.of], v))
    [] shape.kind = "tuple" -> WriteAll(s, Elements(shape.of, v))
    [] shape.kind = "map" -> IF KeyFails(shape.key) /\ DOMAIN v # {} THEN Failed(s)
                             ELSE WriteAll(s, Entries(shape.of, v))
    [] shape.kind = "struct" -> WriteAll(PushType(s, shape.name), Fields(shape.fields, v))
    [] shape.kind = "enum" -> WriteVariant(s, v.variant, shape.variants[v.variant], v.of)

\* The last of two entries with the same key stays.
Collected(pushed) ==
  [key \in {pushed[i][1] : i \in DOMAIN pushed} |->
     Last(SelectSeq(pushed, LAMBDA entry : entry[1] = key))[2]]

\* to_map: [ok, map].
ToMap(shape, v) ==
  LET s == Write(Started, shape, v) IN [ok |-> s.ok, map |-> Collected(s.map)]

-----------------------------------------------------------------------------
(* The deserializer: what is read at a path of a map is [path, ok, value]; *)
(* path is where the deserializer is left.                                 *)

Got(path, value) == [path |-> path, ok |-> TRUE, value |-> value]
NotThere(path) == [path |-> path, ok |-> FALSE, value |-> <<>>]

Holds(map, path, type) == path \in DOMAIN map /\ map[path][1] = type

Below(map, path) == {key \in DOMAIN map : IsChildOf(key, path)}

\* `as i32` and the like.
Wrapped(n, shape) == shape.lo + ((n - shape.lo) % (shape.hi - shape.lo + 1))

\* The numbers among the last sections of all keys below the path.
SeqIndices(map, path) ==
  {i \in 0..MaxIndex : \E key \in Below(map, path) : key # <<>> /\ Last(key) = ToString(i)}

\* MUTATION of MapKeys: the last section, as for a sequence.
LastSections(map, path) == {<<Last(key)>> : key \in Below(map, path)}

\* The sections that follow the path in the keys below it; none if the path
\* itself has a value.
MapKeys(map, path) ==
  {SubSeq(key, Len(path) + 1, Min({Len(key), Len(path) + 1})) : key \in Below(map, path)}

RECURSIVE Read(_, _, _)

\* Parts are read until one is missing; one section is popped after each.
ReadAll(map, path, parts) ==
  FoldLeft(LAMBDA acc, p :
             IF ~acc.ok THEN acc
             ELSE LET r == Read(map, AddSuffix(acc.path, p.key), p.of)
                  IN  [path |-> Up(r.path), ok |-> r.ok, value |-> Append(acc.value, r.value)],
           Got(path, <<>>), parts)

ReadMap(map, path, of) ==
  LET keys == Listed(MapKeys(map, path))
      r == ReadAll(map, path, [i \in DOMAIN keys |-> Part(keys[i], of, <<>>)])
      Texts == {DisplayName(key) : key \in MapKeys(map, path)}
      At(text) == CHOOSE i \in DOMAIN keys : DisplayName(keys[i]) = text
  IN  IF r.ok THEN [r EXCEPT !.value = [text \in Texts |-> r.value[At(text)]]] ELSE r

\* A key that is read without sections cannot be looked up by its last one.
ReadSeq(map, path, of) ==
  LET indices == SetToSortSeq(SeqIndices(map, path), <)
  IN  IF <<>> \in Below(map, path) THEN NotThere(path)
      ELSE ReadAll(map, path, [i \in DOMAIN indices |-> Part(Index(indices[i]), of, <<>>)])

\* Only a value at the path itself makes an option Some.
ReadOption(map, path, of) ==
  IF path \notin DOMAIN map THEN Got(path, <<>>)
  ELSE LET r == Read(map, path, of) IN [r EXCEPT !.value = <<@>>]

\* The variant's name has to be at the path, where the serializer leaves it for
\* variants without data only: the others cannot be read back.
ReadEnum(map, path, variants) ==
  IF /\ Holds(map, path, "Text")
     /\ map[path][2] \in DOMAIN variants
     /\ variants[map[path][2]].kind = "unit"
  THEN Got(path, [variant |-> map[path][2], of |-> <<>>])
  ELSE NotThere(path)

Read(map, path, shape) ==
  CASE shape.kind = "int" -> IF Holds(map, path, "Integer")
                             THEN Got(path, Wrapped(map[path][2], shape)) ELSE NotThere(path)
    [] shape.kind = "prim" -> IF Holds(map, path, shape.type)
                              THEN Got(path, map[path][2]) ELSE NotThere(path)
    [] shape.kind = "option" -> ReadOption(map, path, shape.of)
    [] shape.kind = "unit" -> IF Holds(map, path, "Unset")
                              THEN Got(path, <<>>) ELSE NotThere(path)
    [] shape.kind = "newtype" -> Read(map, path, shape.of)
    [] shape.kind = "seq" -> ReadSeq(map, path, shape.of)
    [] shape.kind = "map" -> ReadMap(map, path, shape.of)
    [] shape.kind = "enum" -> ReadEnum(map, path, shape.variants)
    [] shape.kind = "tuple" ->
         ReadAll(map, path, [i \in DOMAIN shape.of |-> Part(Index(i - 1), shape.of[i], <<>>)])
    [] shape.kind = "struct" ->
         ReadAll(map, path, [i \in DOMAIN shape.fields |->
                               Part(<<shape.fields[i].name>>, shape.fields[i].of, <<>>)])

\* PrimitiveDeserializer::new and Deserialize::deserialize: the set of the value
\* that is read, empty if that is an error.
FromMap(map, shape) ==
  LET r == Read(map, <<>>, shape) IN IF r.ok THEN {r.value} ELSE {}

=============================================================================
