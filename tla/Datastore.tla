----------------------------- MODULE Datastore -----------------------------
(***************************************************************************)
(* The time-series store of vs-data-store: a bucket of rows per topic with *)
(* its retention policy, the cache of topic queries, and the listeners.    *)
(* The store is behind one mutex, so each operation is one step.           *)
(*                                                                         *)
(* A bucket is never removed or replaced, so the topic stands for its      *)
(* handle.                                                                 *)
(***************************************************************************)
EXTENDS Integers, Sequences, FiniteSets, Buckets, TopicKeys

CONSTANTS
  Topics,     \* the topics data is written to
  Queries,    \* the topics that are looked up and listened to
  Times, Values,
  Policies,   \* the values given to RetentionPolicy::max_rows
  Untold,
  Ordered,    \* the topics that are never written behind their latest row
  MaxBatch    \* bound on the datapoints of one call

ASSUME StoreAssumption ==
  /\ Times \subseteq Nat
  /\ Policies \subseteq Nat \union {NoLimit}
  /\ NoLimit \in Policies
  /\ NoLimit \notin Nat
  /\ Untold \notin Values
  /\ Ordered \subseteq Topics
  /\ MaxBatch \in Nat

VARIABLES
  retention,  \* Datastore::retention
  buckets,    \* topic -> [rows: time -> value, maxRows]
  cache,      \* query -> topics of the buckets that matched
  listeners,  \* the filters with a listener
  told,       \* filter -> topic -> value of the last on_datapoint
  toldRaw     \* the same of on_raw_datapoint

vars == <<retention, buckets, cache, listeners, told, toldRaw>>

-----------------------------------------------------------------------------
(* Operations *)

Matching(q) == {t \in DOMAIN buckets : IsChildOf(t, q)}

Datapoint == [topic : Topics, time : Times, value : Values]

\* create_bucket: a new bucket takes the policy of the store and keeps it.
Created(bs, t) ==
  [u \in DOMAIN bs \union {t} |->
     IF u \in DOMAIN bs THEN bs[u] ELSE [rows |-> NoRows, maxRows |-> retention]]

\* The bucket of t along a call: at i, its first i datapoints were given to
\* add_primitive, which creates the bucket where there is none.
BucketAlong(bs, batch, t) ==
  LET after[i \in 0..Len(batch)] ==
        IF i = 0 THEN Created(bs, t)[t]
        ELSE IF batch[i].topic = t THEN Added(after[i - 1], batch[i])
        ELSE after[i - 1]
  IN  after

InsertAll(bs, batch) ==
  [t \in DOMAIN bs \union {batch[i].topic : i \in DOMAIN batch} |->
     BucketAlong(bs, batch, t)[Len(batch)]]

\* The places of the datapoints their buckets have stored: the listeners are told
\* of these.
Changes(bs, batch) ==
  {i \in DOMAIN batch : Stores(BucketAlong(bs, batch, batch[i].topic)[i - 1], batch[i])}

\* MUTATION of CacheAfter: the cache survives a new bucket.
CacheKept(bs) == cache

\* The cache is cleared with every bucket that is created.
CacheAfter(bs) == IF DOMAIN bs = DOMAIN buckets THEN cache ELSE [q \in {} |-> {}]

\* Time passes between two writes to an ordered topic.
Timely(batch) ==
  \A i \in DOMAIN batch :
    LET d == batch[i]
    IN  d.topic \in Ordered =>
          /\ d.topic \in DOMAIN buckets =>
               \A x \in DOMAIN buckets[d.topic].rows : x < d.time
          /\ \A j \in 1..(i - 1) : batch[j].topic = d.topic => batch[j].time < d.time

\* The places of the datapoints a listener with this filter is told of t.
About(filter, t, batch, at) == {i \in at : batch[i].topic = t /\ Matches(filter, t)}

\* MUTATION of Heard: the datapoints are told last one first.
HeardBackwards(knows, filter, batch, at) ==
  [t \in Topics |->
     IF About(filter, t, batch, at) = {} THEN knows[t]
     ELSE LET first == CHOOSE i \in About(filter, t, batch, at) :
                         \A j \in About(filter, t, batch, at) : i <= j
          IN  batch[first].value]

\* What a listener knows after it was told these datapoints one by one.
Heard(knows, filter, batch, at) ==
  [t \in Topics |->
     IF About(filter, t, batch, at) = {} THEN knows[t]
     ELSE Latest([i \in About(filter, t, batch, at) |-> batch[i].value])]

\* notify_datapoints calls both methods, notify_raw_datapoints only one.
Notified(knows, batch, at) ==
  [f \in Queries |-> IF f \in listeners THEN Heard(knows[f], f, batch, at) ELSE knows[f]]

\* Nobody is told of these changes: what was known of their topics is void.
Missed(knows, batch, at) ==
  [f \in Queries |-> [t \in Topics |->
     IF \E i \in at : batch[i].topic = t THEN Untold ELSE knows[f][t]]]

Init ==
  /\ retention = NoLimit
  /\ buckets = [t \in {} |-> NoRows]
  /\ cache = [q \in {} |-> {}]
  /\ listeners = {}
  /\ told = [f \in Queries |-> [t \in Topics |-> Untold]]
  /\ toldRaw = told

SetRetention(p) ==
  /\ retention' = p
  /\ UNCHANGED <<buckets, cache, listeners, told, toldRaw>>

CreateBucket(t) ==
  /\ buckets' = Created(buckets, t)
  /\ cache' = CacheAfter(buckets')
  /\ UNCHANGED <<retention, listeners, told, toldRaw>>

\* get_buckets_matching_cached
Query(q) ==
  /\ cache' = [p \in DOMAIN cache \union {q} |->
                 IF p \in DOMAIN cache THEN cache[p] ELSE Matching(p)]
  /\ UNCHANGED <<retention, buckets, listeners, told, toldRaw>>

AddListener(f) ==
  /\ listeners' = listeners \union {f}
  /\ UNCHANGED <<retention, buckets, cache, told, toldRaw>>

\* What every operation that stores datapoints does to the buckets.
Insert(batch) ==
  /\ Timely(batch)
  /\ buckets' = InsertAll(buckets, batch)
  /\ cache' = CacheAfter(buckets')
  /\ UNCHANGED <<retention, listeners>>

\* add_primitive called by itself: nobody is told.
AddPrimitive(d) ==
  /\ Insert(<<d>>)
  /\ \E at \in {Changes(buckets, <<d>>)} :
       /\ told' = Missed(told, <<d>>, at)
       /\ toldRaw' = Missed(toldRaw, <<d>>, at)

\* add_datapoints, and add_struct with the fields of a struct as the batch: the
\* raw listeners are told of the batch twice over, from its first datapoint on.
AddDatapoints(batch) ==
  /\ Insert(batch)
  /\ \E at \in {Changes(buckets, batch)} :
       /\ told' = Notified(told, batch, at)
       /\ toldRaw' = Notified(Notified(toldRaw, batch, at), batch, at)

AddDatapointsSilent(batch) ==
  /\ Insert(batch)
  /\ \E at \in {Changes(buckets, batch)} :
       /\ told' = Missed(told, batch, at)
       /\ toldRaw' = Notified(toldRaw, batch, at)

\* One step of apply_view: the listeners are told whether the bucket has stored
\* the datapoint or not.
AddDatapoint(d) ==
  /\ Insert(<<d>>)
  /\ told' = Notified(told, <<d>>, {1})
  /\ toldRaw' = Notified(toldRaw, <<d>>, {1})

Batches == UNION {[1..n -> Datapoint] : n \in 1..MaxBatch}

Next ==
  \/ \E p \in Policies : SetRetention(p)
  \/ \E t \in Topics : CreateBucket(t)
  \/ \E q \in Queries : Query(q) \/ AddListener(q)
  \/ \E d \in Datapoint : AddPrimitive(d) \/ AddDatapoint(d)
  \/ \E batch \in Batches : AddDatapoints(batch) \/ AddDatapointsSilent(batch)

Spec == Init /\ [][Next]_vars

-----------------------------------------------------------------------------
(* Properties *)

\* Every variable has its type.
TypeOK ==
  /\ retention \in Policies
  /\ DOMAIN buckets \subseteq Topics
  /\ \A t \in DOMAIN buckets :
       /\ buckets[t].maxRows \in Policies
       /\ DOMAIN buckets[t].rows \subseteq Times
       /\ \A x \in DOMAIN buckets[t].rows : buckets[t].rows[x] \in Values
  /\ DOMAIN cache \subseteq Queries
  /\ \A q \in DOMAIN cache : cache[q] \subseteq Topics
  /\ listeners \subseteq Queries
  /\ {told, toldRaw} \subseteq [Queries -> [Topics -> Values \union {Untold}]]

\* A cached query returns the buckets a fresh one would: whichever operation
\* creates a bucket, no view built from the cache misses it.
CacheIsFresh == \A q \in DOMAIN cache : cache[q] = Matching(q)

\* A bucket stays within its retention policy, however rows arrive.
WithinRetention ==
  \A t \in DOMAIN buckets :
    buckets[t].maxRows # NoLimit =>
      Cardinality(DOMAIN buckets[t].rows) <= buckets[t].maxRows

\* The latest row of a bucket never goes back in time: dropping old rows to make
\* room, and rows that arrive late, never uncover or become the latest one.
LatestNeverOlder ==
  [][\A t \in DOMAIN buckets :
       buckets[t].rows # NoRows =>
         /\ buckets'[t].rows # NoRows
         /\ LatestTime(buckets[t].rows) <= LatestTime(buckets'[t].rows)]_vars

\* A bucket whose rows come in order only holds changes: two rows in a row differ.
OnlyChanges ==
  \A t \in DOMAIN buckets \intersect Ordered : \A x, y \in DOMAIN buckets[t].rows :
    LET rows == buckets[t].rows
    IN  x < y /\ rows[x] = rows[y] => \E z \in DOMAIN rows : x < z /\ z < y

\* A listener that is told something of a topic whose rows come in order, and
\* misses nothing since, knows the value the bucket holds; on_raw_datapoint misses
\* nothing of what the calls named silent store.
ListenersUpToDate ==
  \A knows \in {told, toldRaw} : \A f \in listeners, t \in DOMAIN buckets \intersect Ordered :
    knows[f][t] # Untold => knows[f][t] = Latest(buckets[t].rows)

=============================================================================
