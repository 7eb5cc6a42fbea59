---------------------------- MODULE StructStore ----------------------------
(***************************************************************************)
(* Structs in the datastore, from writer to reader: a struct is flattened  *)
(* into the buckets of a store, directly or through the view in which a    *)
(* task hands over its outputs; a reader takes a view of the store, reads  *)
(* the struct from it and applies it to a store of its own.                *)
(*                                                                         *)
(* One struct is kept, at Base, by one writer whose clock does not go      *)
(* back.  Its type is chosen at the start.                                 *)
(***************************************************************************)
EXTENDS StructView

CONSTANTS
  Shapes, ShapeValues(_),   \* the types, and the values written of each
  Limits,                   \* retention policies
  MaxTime, MaxWrites        \* bounds on the clock and on the structs written

ASSUME StructAssumption == MaxTime \in Nat /\ MaxWrites \in Nat /\ MaxI64 \in Nat /\ MaxIndex \in Nat

VARIABLES
  shape,
  retention, buckets, cache,   \* the store
  out,       \* the writer's view that is on its way to the store
  seen,      \* the reader's view of the store
  replica,   \* the buckets of the reader's store
  now,       \* the time of the last write
  log,       \* history: the structs written, in order
  wrote,     \* history: time -> the struct after the writes of that time
  current, taken, copy   \* what can be read of buckets, seen and replica

vars == <<shape, retention, buckets, cache, out, seen, replica, now, log, wrote,
          current, taken, copy>>

Base == <<"s">>
Times == 0..MaxTime
Untold == "untold"

\* Nobody listens to these stores.
Store == INSTANCE Datastore WITH
  Topics <- {}, Queries <- {Base}, Values <- {}, Policies <- Limits, Ordered <- {},
  MaxBatch <- 0, listeners <- {}, told <- [f \in {Base} |-> [t \in {} |-> Untold]],
  toldRaw <- [f \in {Base} |-> [t \in {} |-> Untold]]

ReaderStore == INSTANCE Datastore WITH
  Topics <- {}, Queries <- {Base}, Values <- {}, Policies <- Limits, Ordered <- {},
  MaxBatch <- 0, listeners <- {}, told <- [f \in {Base} |-> [t \in {} |-> Untold]],
  toldRaw <- [f \in {Base} |-> [t \in {} |-> Untold]],
  retention <- NoLimit, buckets <- replica, cache <- <<>>

-----------------------------------------------------------------------------
(* The shapes whose values can be read back *)

RECURSIVE Leafy(_)

\* Its value is one primitive at its path.
Leafy(of) ==
  CASE of.kind = "int" -> of.hi <= MaxI64
    [] of.kind = "prim" -> TRUE
    [] of.kind = "newtype" -> Leafy(of.of)
    [] of.kind = "enum" -> \A name \in DOMAIN of.variants : of.variants[name].kind = "unit"
    [] OTHER -> FALSE

RECURSIVE AlwaysWrites(_)

\* Every value of it leaves a trace.
AlwaysWrites(of) ==
  CASE of.kind = "struct" -> TRUE
    [] of.kind = "newtype" -> AlwaysWrites(of.of)
    [] of.kind = "tuple" -> \E i \in DOMAIN of.of : AlwaysWrites(of.of[i])
    [] OTHER -> Leafy(of)

RECURSIVE Supported(_)

Supported(of) ==
  CASE of.kind \in {"option", "seq"} -> Leafy(of.of)
    [] of.kind = "newtype" -> Supported(of.of)
    [] of.kind = "tuple" -> \A i \in DOMAIN of.of : Supported(of.of[i])
    [] of.kind = "struct" -> \A i \in DOMAIN of.fields : Supported(of.fields[i].of)
    [] of.kind = "map" -> of.key = "word" /\ AlwaysWrites(of.of) /\ Supported(of.of)
    [] OTHER -> Leafy(of)

RECURSIVE FixedLayout(_)

\* All its values have the same leaves.
FixedLayout(of) ==
  CASE of.kind = "newtype" -> FixedLayout(of.of)
    [] of.kind = "tuple" -> \A i \in DOMAIN of.of : FixedLayout(of.of[i])
    [] of.kind = "struct" -> \A i \in DOMAIN of.fields : FixedLayout(of.fields[i].of)
    [] OTHER -> Leafy(of)

-----------------------------------------------------------------------------
(* Reads *)

\* A value for each topic at or below Base, read as a struct.
ReadFrom(values) ==
  FromMap([key \in {RemovePrefix(t, Base) : t \in DOMAIN values} |-> values[AddPrefix(key, Base)]],
          shape)

Under(bs) == {t \in DOMAIN bs : IsChildOf(t, Base) /\ bs[t].rows # NoRows}

GetStruct(bs) == ReadFrom([t \in Under(bs) |-> Latest(bs[t].rows)])

\* MUTATION of FirstFrom: the newest of the rows.
NewestFrom(rows, time) == Latest(rows)

\* get_data_points_after(time).first()
FirstFrom(rows, time) ==
  rows[CHOOSE x \in TimesFrom(rows, time) : \A y \in TimesFrom(rows, time) : x <= y]

\* get_struct_after: [new, read].
GetStructAfter(bs, time) ==
  LET topics == {t \in Under(bs) : TimesFrom(bs[t].rows, time) # {}}
  IN  [new |-> topics # {},
       read |-> IF topics = {} THEN {}
                ELSE ReadFrom([t \in topics |-> FirstFrom(bs[t].rows, time)])]

\* Every field as get_updated_value finds it.
GetStructBefore(bs, time) ==
  ReadFrom([t \in Under(bs) |-> ValueBefore(bs[t].rows, time)])

-----------------------------------------------------------------------------
(* Operations *)

\* The writes that have reached the store: the last one may be in the writer's view.
\* Of types that cannot be read back none is claimed to.
Reached ==
  IF ~Supported(shape) THEN <<>> ELSE IF out = NewView THEN log ELSE Front(log)

Register == INSTANCE StructRegister WITH StructValues <- ShapeValues, log <- Reached

\* The clock of the writer does not go back. History: a struct with a fixed layout.
Wrote(v, t) ==
  /\ Len(log) < MaxWrites
  /\ log' = Append(log, v)
  /\ now' = t
  /\ wrote' = IF FixedLayout(shape) THEN (t :> v) @@ wrote ELSE wrote

Init ==
  /\ shape \in Shapes
  /\ retention \in Limits
  /\ buckets = [t \in {} |-> NoRows]
  /\ cache = [q \in {} |-> {}]
  /\ out = NewView
  /\ seen = NewView
  /\ replica = [t \in {} |-> NoRows]
  /\ now = 0
  /\ log = <<>>
  /\ wrote = <<>>
  /\ current = {} /\ taken = {} /\ copy = {}

\* The fields of a struct, each at its topic below Base.
Flattened(v, t) ==
  LET map == ToMap(shape, v).map
      keys == Listed(DOMAIN map)
  IN  [i \in DOMAIN keys |->
         [topic |-> AddPrefix(keys[i], Base), time |-> t, value |-> map[keys[i]]]]

\* add_struct: an error of the serializer leaves the store alone.
AddStruct(v, t) ==
  /\ out = NewView
  /\ ToMap(shape, v).ok
  /\ \E batch \in {Flattened(v, t)} : Store!AddDatapoints(batch)
  /\ Wrote(v, t)
  /\ UNCHANGED <<shape, out, seen, replica>>

\* A task puts the struct into its view of outputs, made at time t.
Produce(v, t) ==
  /\ out = NewView
  /\ ToMap(shape, v).ok
  /\ out' = AddLatest(NewView, Base, shape, v, t)
  /\ Wrote(v, t)
  /\ UNCHANGED <<shape, retention, buckets, cache, seen, replica>>

\* apply_view of the writer's view: add_datapoint, one by one.
ApplyOut ==
  /\ out # NewView
  /\ buckets' = Store!InsertAll(buckets, AllDatapoints(out))
  /\ cache' = Store!CacheAfter(buckets')
  /\ out' = NewView
  /\ UNCHANGED <<shape, retention, seen, replica, now, log, wrote>>

\* DataView::new and add_query with the cached query.
TakeView ==
  /\ Store!Query(Base)
  /\ seen' = AddQuery(NewView, buckets, cache'[Base])
  /\ UNCHANGED <<shape, out, replica, now, log, wrote>>

DropQuery ==
  /\ seen' = RemoveQuery(seen, Base)
  /\ UNCHANGED <<shape, retention, buckets, cache, out, replica, now, log, wrote>>

ApplySeen ==
  /\ replica' = ReaderStore!InsertAll(replica, AllDatapoints(seen))
  /\ UNCHANGED <<shape, retention, buckets, cache, out, seen, now, log, wrote>>

\* No struct has this value.
Unreadable == <<>>

Reading(data, read) ==
  IF ~Supported(shape) \/ data = <<>> THEN {} ELSE IF read = {} THEN {Unreadable} ELSE read

\* get_struct of the two stores and get_latest of the reader's view, once there is
\* something to read; shapes that cannot be read back are left out.
Observed ==
  \E bs \in {buckets'}, view \in {seen'}, rs \in {replica'} :
    /\ current' = Reading(bs, GetStruct(bs))
    /\ taken' = Reading(view, GetLatest(view, Base, shape))
    /\ copy' = Reading(rs, GetStruct(rs))

Operate ==
  \/ \E v \in ShapeValues(shape), t \in now..MaxTime : AddStruct(v, t) \/ Produce(v, t)
  \/ ApplyOut \/ TakeView \/ DropQuery \/ ApplySeen

Next == Operate /\ Observed

Spec == Init /\ [][Next]_vars

-----------------------------------------------------------------------------
(* Properties *)

\* Views and buckets hold primitives of the struct's topics, no newer than the
\* last write, and nothing else.
TypeOK ==
  /\ \A view \in {out, seen} : \A t \in DOMAIN view :
       IsChildOf(t, Base) /\ view[t].time \in 0..now
  /\ \A bs \in {buckets, replica} : \A t \in DOMAIN bs :
       /\ IsChildOf(t, Base)
       /\ bs[t].rows # NoRows
       /\ DOMAIN bs[t].rows \subseteq 0..now
  /\ DOMAIN wrote \subseteq 0..now

\* The serializer returns to the prefix it started from and no two leaves of a
\* value end up at the same topic.
LeavesApart ==
  Supported(shape) => \A v \in ShapeValues(shape) :
    LET s == Write(Started, shape, v)
    IN  s.ok /\ s.prefix = <<>> /\ Cardinality(DOMAIN Collected(s.map)) = Len(s.map)

\* The store, the reader's view and its copy implement the register: every struct
\* that add_struct takes, or apply_view brings, is from then on what is read, as a
\* whole and up to what a shorter value leaves behind, until the next one is written,
\* whatever rows the writes and the views left in the buckets; and a view is one
\* moment of it.
ImplementsRegister == Register!RegisterSpec

\* Only changes are stored, and still the struct as it was before any time can be
\* put together from what each bucket held then.
HistoryWhole ==
  FixedLayout(shape) /\ retention = NoLimit /\ out = NewView =>
    \A time \in 1..(MaxTime + 1) :
      LET before == {x \in DOMAIN wrote : x < time}
      IN  before # {} => GetStructBefore(buckets, time) = {wrote[Max(before)]}

\* Who polls get_struct_after misses no change: when it finds nothing since a time,
\* every struct written since then is the one that was there before.  What it reads is
\* the first struct of all when nothing is older; else every field comes from a struct
\* written since, though not all from the same one.  Of a view it finds nothing after
\* the last write, and since its oldest leaf the struct the view was taken of.
ChangesFound ==
  FixedLayout(shape) /\ wrote # <<>> =>
    /\ retention = NoLimit /\ out = NewView => \A time \in 0..(MaxTime + 1) :
         LET before == {x \in DOMAIN wrote : x < time}
             since == {wrote[x] : x \in DOMAIN wrote \ before}
             after == GetStructAfter(buckets, time)
         IN  /\ ~after.new /\ before # {} => since \subseteq {wrote[Max(before)]}
             /\ before = {} => after = [new |-> TRUE, read |-> {wrote[Min(DOMAIN wrote)]}]
             /\ \A v \in after.read : \A i \in DOMAIN v : \E s \in since : s[i] = v[i]
    /\ seen # NewView =>
         LET oldest == Min({seen[t].time : t \in DOMAIN seen})
         IN  GetLatestAfter(seen, Base, shape, oldest) = [new |-> TRUE, read |-> taken]
    /\ ~GetLatestAfter(seen, Base, shape, now + 1).new

=============================================================================
