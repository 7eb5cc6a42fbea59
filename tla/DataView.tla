----------------------------- MODULE DataView -----------------------------
(***************************************************************************)
(* The data views of vs-data-store: a datapoint per topic, taken from the  *)
(* buckets of a store or from another view.                                *)
(* A view is a function topic -> [time, value].                            *)
(***************************************************************************)
EXTENDS Buckets, TopicKeys

NewView == [topic \in {} |-> <<>>]

\* HashMap::insert for every topic of more.
Overwritten(view, more) ==
  [t \in DOMAIN view \union DOMAIN more |-> IF t \in DOMAIN more THEN more[t] ELSE view[t]]

Newest(rows) == [time |-> LatestTime(rows), value |-> Latest(rows)]

\* add_query; the topics are those of the buckets the cached query found.
AddQuery(view, buckets, topics) ==
  Overwritten(view, [t \in {t \in topics : buckets[t].rows # NoRows} |-> Newest(buckets[t].rows)])

\* MUTATION of AddQueryAfterPer: only rows after the time.
AddQueryStrictlyAfterPer(view, buckets, topics, fallback, timePerTopic) ==
  LET After(t) == IF t \in DOMAIN timePerTopic THEN timePerTopic[t] ELSE fallback
  IN  Overwritten(view, [t \in {t \in topics : \E x \in DOMAIN buckets[t].rows : After(t) < x} |->
                           Newest(buckets[t].rows)])

\* add_query_after_per, and add_query_after with no times per topic: of the rows
\* from that time on the newest is inserted last.
AddQueryAfterPer(view, buckets, topics, fallback, timePerTopic) ==
  LET After(t) == IF t \in DOMAIN timePerTopic THEN timePerTopic[t] ELSE fallback
  IN  Overwritten(view, [t \in {t \in topics : TimesFrom(buckets[t].rows, After(t)) # {}} |->
                           Newest(buckets[t].rows)])

UnderQuery(view, topic) == {t \in DOMAIN view : IsChildOf(t, topic)}

\* add_query_from_view
AddQueryFromView(view, from, topic) ==
  Overwritten(view, [t \in UnderQuery(from, topic) |-> from[t]])

\* add_query_after_from_view
AddQueryAfterFromView(view, from, topic, time) ==
  Overwritten(view, [t \in {t \in UnderQuery(from, topic) : time <= from[t].time} |-> from[t]])

RemoveQuery(view, topic) == [t \in DOMAIN view \ UnderQuery(view, topic) |-> view[t]]

=============================================================================
