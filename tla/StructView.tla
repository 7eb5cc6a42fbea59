---------------------------- MODULE StructView ----------------------------
(* Structs in the data views of vs-data-store: how they are put into a view *)
(* and read from it.                                                        *)
EXTENDS DataView, Flatten

\* Without the prefix, as the deserializer takes it.
Unprefixed(view, topics, topic) ==
  [key \in {RemovePrefix(t, topic) : t \in topics} |-> view[AddPrefix(key, topic)].value]

\* get_latest
GetLatest(view, topic, shape) ==
  FromMap(Unprefixed(view, UnderQuery(view, topic), topic), shape)

\* MUTATION of AddLatest: the topics are not prefixed.
AddLatestAtRoot(view, topic, shape, v, time) ==
  LET map == ToMap(shape, v).map
  IN  Overwritten(view, [t \in DOMAIN map |-> [time |-> time, value |-> map[t]]])

\* add_latest: to_map is unwrapped.
AddLatest(view, topic, shape, v, time) ==
  LET map == ToMap(shape, v).map
  IN  Overwritten(view,
        [t \in {AddPrefix(key, topic) : key \in DOMAIN map} |->
           [time |-> time, value |-> map[RemovePrefix(t, topic)]]])

\* get_struct_after: [new, read], where nothing is read if nothing is that new.
GetLatestAfter(view, topic, shape, time) ==
  LET topics == {t \in UnderQuery(view, topic) : time <= view[t].time}
  IN  [new |-> topics # {},
       read |-> IF topics = {} THEN {} ELSE FromMap(Unprefixed(view, topics, topic), shape)]

\* get_all_datapoints, and what apply_view of the store goes through.
AllDatapoints(view) ==
  LET topics == Listed(DOMAIN view)
  IN  [i \in DOMAIN topics |->
         [topic |-> topics[i], time |-> view[topics[i]].time, value |-> view[topics[i]].value]]

=============================================================================
