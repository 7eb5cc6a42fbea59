-------------------------- MODULE DatastoreProofs --------------------------
(***************************************************************************)
(* Theorems about the datastore, for any topics, queries, times, values,   *)
(* policies and length of batches.  What a call does to a bucket is        *)
(* followed datapoint by datapoint (BucketAlong): what every insertion     *)
(* preserves, a call preserves, and so does every step.                    *)
(***************************************************************************)
EXTENDS Datastore, BucketProofs

\* What a query returns depends on which buckets there are, not on their rows.
LEMMA MatchingByTopics ==
  ASSUME DOMAIN buckets' = DOMAIN buckets, NEW q
  PROVE  Matching(q)' = Matching(q)
BY DEF Matching

\* An operation that creates no bucket keeps the cache; one that creates a
\* bucket clears it.
LEMMA CacheAfterFresh ==
  ASSUME CacheIsFresh, cache' = CacheAfter(buckets')
  PROVE  CacheIsFresh'
<1>1. CASE DOMAIN buckets' = DOMAIN buckets
  BY <1>1, MatchingByTopics DEF CacheAfter, CacheIsFresh
<1>2. CASE DOMAIN buckets' # DOMAIN buckets
  BY <1>2 DEF CacheAfter, CacheIsFresh
<1> QED BY <1>1, <1>2

\* A query that is not cached is computed from the buckets there are.
LEMMA QueryFresh ==
  ASSUME CacheIsFresh, NEW q \in Queries, Query(q)
  PROVE  CacheIsFresh'
<1>1. buckets' = buckets
  BY DEF Query
<1>2. ASSUME NEW p \in DOMAIN cache' PROVE cache'[p] = Matching(p)
  BY <1>2 DEF Query, CacheIsFresh
<1>3. \A p : Matching(p)' = Matching(p)
  BY <1>1, MatchingByTopics
<1> QED BY <1>2, <1>3 DEF CacheIsFresh

LEMMA StepFresh ==
  ASSUME CacheIsFresh, [Next]_vars
  PROVE  CacheIsFresh'
<1>1. ASSUME NEW q \in Queries, Query(q) PROVE CacheIsFresh'
  BY <1>1, QueryFresh
<1>2. CASE cache' = CacheAfter(buckets')
  BY <1>2, CacheAfterFresh
<1>3. CASE UNCHANGED <<buckets, cache>>
  <2>1. \A q : Matching(q)' = Matching(q)
    BY <1>3, MatchingByTopics
  <2> QED BY <1>3, <2>1 DEF CacheIsFresh
<1>4. ASSUME NEW d, AddPrimitive(d) PROVE CacheIsFresh'
  BY <1>4, <1>2 DEF AddPrimitive, Insert
<1>5. ASSUME NEW d, AddDatapoint(d) PROVE CacheIsFresh'
  BY <1>5, <1>2 DEF AddDatapoint, Insert
<1>6. ASSUME NEW batch, AddDatapoints(batch) PROVE CacheIsFresh'
  BY <1>6, <1>2 DEF AddDatapoints, Insert
<1>7. ASSUME NEW batch, AddDatapointsSilent(batch) PROVE CacheIsFresh'
  BY <1>7, <1>2 DEF AddDatapointsSilent, Insert
<1>8. ASSUME NEW t, CreateBucket(t) PROVE CacheIsFresh'
  BY <1>8, <1>2 DEF CreateBucket
<1> QED
  BY <1>1, <1>3, <1>4, <1>5, <1>6, <1>7, <1>8
  DEF Next, vars, SetRetention, AddListener

(* No cached query misses a bucket, whichever operation creates it: subscriptions *)
(* see every topic there is.                                                      *)
THEOREM CacheCorrect == Spec => []CacheIsFresh
<1>1. Init => CacheIsFresh
  BY DEF Init, CacheIsFresh
<1> QED BY <1>1, StepFresh, PTL DEF Spec

-----------------------------------------------------------------------------
(* Buckets of the store *)

Rows == UNION {[D -> Values] : D \in {D \in SUBSET Times : IsFiniteSet(D)}}

Bucket == [rows : Rows, maxRows : Policies]

StoreOK ==
  /\ retention \in Policies
  /\ DOMAIN buckets \subseteq Topics
  /\ \A t \in DOMAIN buckets : buckets[t] \in Bucket

LEMMA RowsIs ==
  ASSUME NEW rows
  PROVE  rows \in Rows <=> /\ IsRows(rows)
                           /\ DOMAIN rows \subseteq Times
                           /\ \A x \in DOMAIN rows : rows[x] \in Values
<1>1. Times \subseteq Int
  BY StoreAssumption
<1>2. ASSUME rows \in Rows
      PROVE  /\ IsRows(rows)
             /\ DOMAIN rows \subseteq Times
             /\ \A x \in DOMAIN rows : rows[x] \in Values
  <2>1. PICK D \in SUBSET Times : IsFiniteSet(D) /\ rows \in [D -> Values]
    BY <1>2 DEF Rows
  <2>2. DOMAIN rows = D
    BY <2>1
  <2> QED BY <1>1, <2>1, <2>2 DEF IsRows
<1>3. ASSUME IsRows(rows), DOMAIN rows \subseteq Times,
             \A x \in DOMAIN rows : rows[x] \in Values
      PROVE  rows \in Rows
  <2>1. rows \in [DOMAIN rows -> Values]
    BY <1>3 DEF IsRows
  <2>2. DOMAIN rows \in {D \in SUBSET Times : IsFiniteSet(D)}
    BY <1>3 DEF IsRows
  <2> QED BY <2>1, <2>2 DEF Rows
<1> QED BY <1>2, <1>3

LEMMA BucketIs ==
  ASSUME NEW b
  PROVE  b \in Bucket <=> /\ IsBucket(b)
                          /\ b.rows \in Rows
                          /\ b.maxRows \in Policies
<1>1. \A p \in Policies : p # NoLimit => p \in Nat
  BY StoreAssumption
<1>2. ASSUME b \in Bucket
      PROVE  IsBucket(b) /\ b.rows \in Rows /\ b.maxRows \in Policies
  <2>1. /\ b = [rows |-> b.rows, maxRows |-> b.maxRows]
        /\ b.rows \in Rows
        /\ b.maxRows \in Policies
    BY <1>2 DEF Bucket
  <2> QED BY <1>1, <2>1, RowsIs DEF IsBucket
<1>3. ASSUME IsBucket(b), b.rows \in Rows, b.maxRows \in Policies
      PROVE  b \in Bucket
  <2>1. b = [rows |-> b.rows, maxRows |-> b.maxRows]
    BY <1>3 DEF IsBucket
  <2> QED BY <1>3, <2>1 DEF Bucket
<1> QED BY <1>2, <1>3

LEMMA DatapointIs ==
  ASSUME NEW d \in Datapoint
  PROVE  d.topic \in Topics /\ d.time \in Times /\ d.time \in Int /\ d.value \in Values
<1>1. Times \subseteq Int
  BY StoreAssumption
<1>2. d.topic \in Topics /\ d.time \in Times /\ d.value \in Values
  BY DEF Datapoint
<1> QED BY <1>1, <1>2

LEMMA AddedType ==
  ASSUME NEW b \in Bucket, NEW d \in Datapoint
  PROVE  Added(b, d) \in Bucket
<1>1. IsBucket(b) /\ b.rows \in Rows /\ b.maxRows \in Policies
  BY BucketIs
<1>2. d.time \in Times /\ d.time \in Int /\ d.value \in Values
  BY DatapointIs
<1>3. /\ IsBucket(Added(b, d))
      /\ Added(b, d).maxRows = b.maxRows
  BY <1>1, <1>2, AddedIs
<1>4. /\ DOMAIN b.rows \subseteq Times
      /\ \A x \in DOMAIN b.rows : b.rows[x] \in Values
  BY <1>1, RowsIs
<1>5. /\ DOMAIN Kept(b) \subseteq Times
      /\ \A x \in DOMAIN Kept(b) : Kept(b)[x] \in Values
  BY <1>1, <1>4, KeptLemma
<1>6. Added(b, d).rows = IF Stores(b, d) THEN Row(Kept(b), d) ELSE Kept(b)
  <2>1. b = [rows |-> b.rows, maxRows |-> b.maxRows]
    BY <1>1 DEF IsBucket
  <2> QED BY <2>1 DEF Added
<1>7. /\ DOMAIN Row(Kept(b), d) \subseteq Times
      /\ \A x \in DOMAIN Row(Kept(b), d) : Row(Kept(b), d)[x] \in Values
  BY <1>2, <1>5 DEF Row
<1>8. Added(b, d).rows \in Rows
  <2>1. IsRows(Added(b, d).rows)
    BY <1>3 DEF IsBucket
  <2> QED BY <1>5, <1>6, <1>7, <2>1, RowsIs
<1> QED BY <1>1, <1>3, <1>8, BucketIs

\* create_bucket gives every topic a bucket of the store.
LEMMA CreatedIs ==
  ASSUME StoreOK, NEW t
  PROVE  /\ DOMAIN Created(buckets, t) = DOMAIN buckets \union {t}
         /\ \A u \in DOMAIN buckets : Created(buckets, t)[u] = buckets[u]
         /\ t \notin DOMAIN buckets =>
              /\ Created(buckets, t)[t].rows = NoRows
              /\ Created(buckets, t)[t].maxRows = retention
         /\ \A u \in DOMAIN buckets \union {t} : Created(buckets, t)[u] \in Bucket
<1>1. [rows |-> NoRows, maxRows |-> retention] \in Bucket
  <2>1. DOMAIN NoRows = {} /\ IsRows(NoRows)
    BY FS_EmptySet DEF IsRows, NoRows
  <2>2. NoRows \in Rows
    BY <2>1, RowsIs
  <2> QED BY <2>2 DEF StoreOK, Bucket
<1> QED BY <1>1 DEF Created, StoreOK

-----------------------------------------------------------------------------
(* The bucket of a topic along a call *)

Along(batch, t) == BucketAlong(buckets, batch, t)

LEMMA AlongIs ==
  ASSUME StoreOK, NEW batch \in Seq(Datapoint), NEW t
  PROVE  /\ Along(batch, t) \in [0..Len(batch) -> Bucket]
         /\ Along(batch, t)[0] = Created(buckets, t)[t]
         /\ \A i \in 1..Len(batch) :
              Along(batch, t)[i] =
                IF batch[i].topic = t THEN Added(Along(batch, t)[i - 1], batch[i])
                ELSE Along(batch, t)[i - 1]
<1> DEFINE n == Len(batch)
           first == Created(buckets, t)[t]
           step == [i \in 1..n |-> [b \in Bucket |->
                      IF batch[i].topic = t THEN Added(b, batch[i]) ELSE b]]
           Body(f) == [i \in 0..n |->
                         IF i = 0 THEN first
                         ELSE IF batch[i].topic = t THEN Added(f[i - 1], batch[i])
                         ELSE f[i - 1]]
<1>1. n \in Nat /\ \A i \in 1..n : batch[i] \in Datapoint
  OBVIOUS
<1>2. first \in Bucket
  BY CreatedIs
<1> HIDE DEF n, first
<1>3. step \in [1..n -> [Bucket -> Bucket]]
  <2>1. ASSUME NEW i \in 1..n
        PROVE  [b \in Bucket |-> IF batch[i].topic = t THEN Added(b, batch[i]) ELSE b]
                 \in [Bucket -> Bucket]
    BY <1>1, AddedType
  <2> QED BY <2>1
<1>4. \A i \in 1..n : \A b \in Bucket :
        step[i][b] = IF batch[i].topic = t THEN Added(b, batch[i]) ELSE b
  OBVIOUS
<1> HIDE DEF step
<1>5. PICK f \in [0..n -> Bucket] :
        f[0] = first /\ \A i \in 1..n : f[i] = step[i][f[i - 1]]
  <2>1. \E f : Iterates(f, n, Bucket, first, step)
    BY <1>1, <1>2, <1>3, RecursionAlong
  <2> QED BY <2>1 DEF Iterates
<1>6. f = Body(f)
  <2>0. f = [i \in 0..n |-> f[i]]
    OBVIOUS
  <2>1. \A i \in 0..n : f[i] = Body(f)[i]
    <3> SUFFICES ASSUME NEW i \in 0..n PROVE f[i] = Body(f)[i]
      OBVIOUS
    <3>1. CASE i = 0
      BY <1>5, <3>1
    <3>2. CASE i # 0
      <4>1. i \in 1..n /\ i - 1 \in 0..n
        BY <1>1, <3>2
      <4>2. f[i - 1] \in Bucket
        BY <4>1
      <4> QED BY <1>4, <1>5, <3>2, <4>1, <4>2
    <3> QED BY <3>1, <3>2
  <2> QED BY <2>0, <2>1, Zenon
<1>7. Along(batch, t) = CHOOSE g : g = Body(g)
  BY DEF Along, BucketAlong, n, first
<1> DEFINE g == Along(batch, t)
<1>8. g = Body(g)
  BY <1>6, <1>7
<1> HIDE DEF g
<1>9. /\ DOMAIN g = 0..n /\ g[0] = first
      /\ \A i \in 1..n : g[i] = IF batch[i].topic = t THEN Added(g[i - 1], batch[i])
                                 ELSE g[i - 1]
  BY <1>1, <1>8
<1>10. \A i \in 0..n : g[i] \in Bucket
  <2> DEFINE P == {i \in 0..n : g[i] \in Bucket}
  <2>1. 0 \in P
    BY <1>1, <1>2, <1>9
  <2>2. ASSUME NEW i \in 0..(n - 1), i \in P PROVE i + 1 \in P
    <3>1. i + 1 \in 1..n /\ i + 1 \in 0..n /\ (i + 1) - 1 = i
      BY <1>1
    <3>2. g[i + 1] = IF batch[i + 1].topic = t THEN Added(g[i], batch[i + 1]) ELSE g[i]
      BY <1>9, <3>1
    <3>3. g[i + 1] \in Bucket
      BY <1>1, <2>2, <3>1, <3>2, AddedType
    <3> QED BY <3>1, <3>3
  <2> HIDE DEF P
  <2>3. 0..n \subseteq P
    BY <1>1, <2>1, <2>2, IntervalInduction
  <2> QED BY <2>3 DEF P
<1>11. g \in [0..n -> Bucket]
  BY <1>8, <1>10
<1> QED BY <1>9, <1>11 DEF g, n, first

\* What every insertion preserves is preserved by a call.
LEMMA AlongStays ==
  ASSUME StoreOK, NEW batch \in Seq(Datapoint), NEW t,
         NEW S, Created(buckets, t)[t] \in S,
         \A i \in 1..Len(batch), b \in Bucket :
           batch[i].topic = t /\ b \in S => Added(b, batch[i]) \in S
  PROVE  \A i \in 0..Len(batch) : Along(batch, t)[i] \in S
<1> DEFINE n == Len(batch)
           g == Along(batch, t)
           P == {i \in 0..n : g[i] \in S}
<1>1. n \in Nat
  OBVIOUS
<1>2. /\ g \in [0..n -> Bucket]
      /\ g[0] = Created(buckets, t)[t]
      /\ \A i \in 1..n : g[i] = IF batch[i].topic = t THEN Added(g[i - 1], batch[i])
                                 ELSE g[i - 1]
  BY AlongIs
<1> HIDE DEF g
<1>3. 0 \in P
  BY <1>1, <1>2
<1>4. ASSUME NEW i \in 0..(n - 1), i \in P PROVE i + 1 \in P
  <2>1. i + 1 \in 1..n /\ i + 1 \in 0..n /\ (i + 1) - 1 = i /\ i \in 0..n
    BY <1>1
  <2>2. g[i + 1] = IF batch[i + 1].topic = t THEN Added(g[i], batch[i + 1]) ELSE g[i]
    BY <1>2, <2>1
  <2>3. g[i] \in Bucket /\ g[i] \in S
    BY <1>2, <1>4, <2>1
  <2>4. g[i + 1] \in S
    BY <2>1, <2>2, <2>3
  <2> QED BY <2>1, <2>4
<1> HIDE DEF n, P
<1>5. 0..n \subseteq P
  BY <1>1, <1>3, <1>4, IntervalInduction
<1> QED BY <1>5 DEF P, n, g

-----------------------------------------------------------------------------
(* What a step does to the buckets *)

LEMMA BatchesAre ==
  /\ \A d \in Datapoint : <<d>> \in Seq(Datapoint) /\ Len(<<d>>) = 1 /\ <<d>>[1] = d
  /\ Batches \subseteq Seq(Datapoint)
<1>1. \A d \in Datapoint : <<d>> \in Seq(Datapoint) /\ Len(<<d>>) = 1 /\ <<d>>[1] = d
  OBVIOUS
<1>2. ASSUME NEW batch \in Batches PROVE batch \in Seq(Datapoint)
  <2>1. PICK n \in 1..MaxBatch : batch \in [1..n -> Datapoint]
    BY <1>2 DEF Batches
  <2>2. n \in Nat
    BY StoreAssumption
  <2> QED BY <2>1, <2>2
<1> QED BY <1>1, <1>2

LEMMA BucketSteps ==
  ASSUME [Next]_vars
  PROVE  \/ buckets' = buckets /\ (retention' = retention \/ retention' \in Policies)
         \/ \E t \in Topics : CreateBucket(t)
         \/ \E batch \in Seq(Datapoint) : Insert(batch)
<1>1. CASE UNCHANGED vars
  BY <1>1 DEF vars
<1>2. ASSUME NEW p \in Policies, SetRetention(p)
      PROVE  buckets' = buckets /\ retention' \in Policies
  BY <1>2 DEF SetRetention
<1>3. ASSUME NEW q, Query(q) \/ AddListener(q)
      PROVE  buckets' = buckets /\ retention' = retention
  BY <1>3 DEF Query, AddListener
<1>4. ASSUME NEW d \in Datapoint, AddPrimitive(d) \/ AddDatapoint(d)
      PROVE  Insert(<<d>>) /\ <<d>> \in Seq(Datapoint)
  BY <1>4, BatchesAre DEF AddPrimitive, AddDatapoint
<1>5. ASSUME NEW batch \in Batches, AddDatapoints(batch) \/ AddDatapointsSilent(batch)
      PROVE  Insert(batch) /\ batch \in Seq(Datapoint)
  BY <1>5, BatchesAre DEF AddDatapoints, AddDatapointsSilent
<1> QED BY <1>1, <1>2, <1>3, <1>4, <1>5 DEF Next

LEMMA InsertedIs ==
  ASSUME StoreOK, NEW batch \in Seq(Datapoint), Insert(batch)
  PROVE  /\ retention' = retention
         /\ DOMAIN buckets' = DOMAIN buckets \union {batch[i].topic : i \in 1..Len(batch)}
         /\ DOMAIN buckets' \subseteq Topics
         /\ \A t \in DOMAIN buckets' :
              /\ buckets'[t] = Along(batch, t)[Len(batch)]
              /\ Len(batch) \in 0..Len(batch)
<1>1. DOMAIN batch = 1..Len(batch) /\ Len(batch) \in Nat
  OBVIOUS
<1>2. \A i \in 1..Len(batch) : batch[i].topic \in Topics
  BY <1>1, DatapointIs
<1>3. buckets' = InsertAll(buckets, batch) /\ retention' = retention
  BY DEF Insert
<1>4. DOMAIN buckets' = DOMAIN buckets \union {batch[i].topic : i \in 1..Len(batch)}
  BY <1>1, <1>3 DEF InsertAll
<1>5. \A t \in DOMAIN buckets' : buckets'[t] = Along(batch, t)[Len(batch)]
  BY <1>3 DEF InsertAll, Along
<1>6. DOMAIN buckets \subseteq Topics
  BY DEF StoreOK
<1> QED BY <1>1, <1>2, <1>3, <1>4, <1>5, <1>6

LEMMA InitStore == Init => StoreOK
BY StoreAssumption DEF Init, StoreOK

LEMMA StepStore ==
  ASSUME StoreOK, [Next]_vars
  PROVE  StoreOK'
<1>1. CASE buckets' = buckets /\ (retention' = retention \/ retention' \in Policies)
  BY <1>1 DEF StoreOK
<1>2. ASSUME NEW t \in Topics, CreateBucket(t) PROVE StoreOK'
  <2>1. buckets' = Created(buckets, t) /\ retention' = retention
    BY <1>2 DEF CreateBucket
  <2>2. DOMAIN buckets' = DOMAIN buckets \union {t}
    BY <2>1, CreatedIs
  <2>3. \A u \in DOMAIN buckets' : buckets'[u] \in Bucket
    BY <2>1, <2>2, CreatedIs
  <2> QED BY <1>2, <2>1, <2>2, <2>3 DEF StoreOK
<1>3. ASSUME NEW batch \in Seq(Datapoint), Insert(batch) PROVE StoreOK'
  <2>1. retention' \in Policies
    BY <1>3, InsertedIs DEF StoreOK
  <2>2. \A t \in DOMAIN buckets' : buckets'[t] \in Bucket
    BY <1>3, InsertedIs, AlongIs
  <2> QED BY <1>3, <2>1, <2>2, InsertedIs DEF StoreOK
<1> QED BY <1>1, <1>2, <1>3, BucketSteps

-----------------------------------------------------------------------------
(* The retention policy *)

\* With a policy of fewer than two rows, half of it is no row: nothing is dropped
\* and the policy is not kept.
RoomForTwo == \A p \in Policies \ {NoLimit} : p >= 2

Fits(b) == b.maxRows # NoLimit => Cardinality(DOMAIN b.rows) <= b.maxRows

LEMMA AddedFits ==
  ASSUME RoomForTwo, NEW b \in Bucket, Fits(b), NEW d \in Datapoint
  PROVE  Fits(Added(b, d))
<1>1. IsBucket(b) /\ b.maxRows \in Policies
  BY BucketIs
<1>2. d.time \in Int
  BY DatapointIs
<1>3. Added(b, d).maxRows = b.maxRows
  BY <1>1, AddedIs
<1>4. CASE b.maxRows # NoLimit
  <2>1. b.maxRows >= 2
    BY <1>1, <1>4 DEF RoomForTwo
  <2> QED BY <1>1, <1>2, <1>3, <1>4, <2>1, RetentionKept DEF Fits
<1> QED BY <1>3, <1>4 DEF Fits

LEMMA CreatedFits ==
  ASSUME RoomForTwo, StoreOK, \A t \in DOMAIN buckets : Fits(buckets[t]), NEW t
  PROVE  \A u \in DOMAIN Created(buckets, t) : Fits(Created(buckets, t)[u])
<1>1. \A u \in DOMAIN buckets : Fits(Created(buckets, t)[u])
  BY CreatedIs
<1>2. t \notin DOMAIN buckets => Fits(Created(buckets, t)[t])
  <2>1. DOMAIN NoRows = {} /\ Cardinality({}) = 0
    BY FS_EmptySet DEF NoRows
  <2>2. retention # NoLimit => retention >= 2
    BY DEF StoreOK, RoomForTwo
  <2>3. retention # NoLimit => retention \in Nat
    BY StoreAssumption DEF StoreOK
  <2>4. retention # NoLimit => 0 <= retention
    BY <2>2, <2>3
  <2>5. ASSUME t \notin DOMAIN buckets
        PROVE  /\ Created(buckets, t)[t].rows = NoRows
               /\ Created(buckets, t)[t].maxRows = retention
    BY <2>5, CreatedIs
  <2> QED BY <2>1, <2>4, <2>5 DEF Fits
<1>3. DOMAIN Created(buckets, t) = DOMAIN buckets \union {t}
  BY CreatedIs
<1> QED BY <1>1, <1>2, <1>3

(* A bucket stays within its retention policy, however rows arrive: in order, late, *)
(* in one call or in many, and whatever policy the store has when it is created.    *)
THEOREM RetentionCorrect ==
  ASSUME RoomForTwo
  PROVE  Spec => []WithinRetention
<1> DEFINE Inv == StoreOK /\ \A t \in DOMAIN buckets : Fits(buckets[t])
<1>1. Init => Inv
  BY InitStore DEF Init
<1>2. ASSUME Inv, [Next]_vars PROVE Inv'
  <2>1. StoreOK'
    BY <1>2, StepStore
  <2>2. CASE buckets' = buckets
    BY <1>2, <2>1, <2>2 DEF Fits
  <2>3. ASSUME NEW t \in Topics, CreateBucket(t) PROVE \A u \in DOMAIN buckets' : Fits(buckets'[u])
    BY <1>2, <2>3, CreatedFits DEF CreateBucket
  <2>4. ASSUME NEW batch \in Seq(Datapoint), Insert(batch), NEW t \in DOMAIN buckets'
        PROVE  Fits(buckets'[t])
    <3> DEFINE S == {b \in Bucket : Fits(b)}
    <3>1. Created(buckets, t)[t] \in S
      BY <1>2, CreatedIs, CreatedFits
    <3>2. \A i \in 1..Len(batch), b \in Bucket :
            batch[i].topic = t /\ b \in S => Added(b, batch[i]) \in S
      BY AddedFits, AddedType
    <3>3. \A i \in 0..Len(batch) : Along(batch, t)[i] \in S
      <4> HIDE DEF S
      <4> QED BY <1>2, <3>1, <3>2, AlongStays
    <3> QED BY <1>2, <2>4, <3>3, InsertedIs
  <2> QED BY <1>2, <2>1, <2>2, <2>3, <2>4, BucketSteps
<1>3. Inv => WithinRetention
  BY DEF Fits, WithinRetention
<1> QED BY <1>1, <1>2, <1>3, PTL DEF Spec

-----------------------------------------------------------------------------
(* The latest row *)

(* The latest row of a bucket never goes back in time, whatever arrives, under any *)
(* policy.                                                                         *)
THEOREM LatestCorrect == Spec => LatestNeverOlder
<1> DEFINE Older(t) == buckets[t].rows # NoRows =>
                         /\ buckets'[t].rows # NoRows
                         /\ LatestTime(buckets[t].rows) <= LatestTime(buckets'[t].rows)
           Step == \A t \in DOMAIN buckets : Older(t)
<1>1. ASSUME StoreOK, NEW t \in DOMAIN buckets, buckets[t].rows # NoRows
      PROVE  /\ DOMAIN buckets[t].rows # {}
             /\ LatestTime(buckets[t].rows) \in Int
  <2>1. IsRows(buckets[t].rows)
    BY <1>1, BucketIs, RowsIs DEF StoreOK
  <2>2. DOMAIN buckets[t].rows # {}
    BY <1>1, <2>1, NoRowsIs
  <2> QED BY <2>1, <2>2, LatestIs DEF IsRows
<1>2. ASSUME StoreOK, NEW t \in DOMAIN buckets, buckets'[t] = buckets[t]
      PROVE  Older(t)
  BY <1>1, <1>2
<1>3. ASSUME StoreOK, NEW batch \in Seq(Datapoint), Insert(batch), NEW t \in DOMAIN buckets,
             buckets[t].rows # NoRows
      PROVE  /\ buckets'[t].rows # NoRows
             /\ LatestTime(buckets[t].rows) <= LatestTime(buckets'[t].rows)
  <2> DEFINE l == LatestTime(buckets[t].rows)
             S == {b \in Bucket : DOMAIN b.rows # {} /\ l <= LatestTime(b.rows)}
  <2>1. l \in Int /\ Created(buckets, t)[t] \in S
    <3>1. Created(buckets, t)[t] = buckets[t] /\ buckets[t] \in Bucket
      BY <1>3, CreatedIs DEF StoreOK
    <3>2. DOMAIN buckets[t].rows # {} /\ l \in Int
      BY <1>1, <1>3
    <3> QED BY <3>1, <3>2
  <2>2. ASSUME NEW b \in Bucket, b \in S, NEW d \in Datapoint
        PROVE  Added(b, d) \in S
    <3>1. IsBucket(b) /\ d.time \in Int /\ Added(b, d) \in Bucket
      BY BucketIs, DatapointIs, AddedType
    <3>2. /\ LatestTime(b.rows) \in DOMAIN Added(b, d).rows
          /\ LatestTime(b.rows) <= LatestTime(Added(b, d).rows)
      BY <2>2, <3>1, LatestKept
    <3>3. LatestTime(b.rows) \in Int /\ LatestTime(Added(b, d).rows) \in Int
      <4>1. IsBucket(Added(b, d)) /\ DOMAIN b.rows # {} /\ DOMAIN Added(b, d).rows # {}
        BY <2>2, <3>1, <3>2, BucketIs
      <4> QED BY <3>1, <4>1, LatestIs DEF IsBucket, IsRows
    <3>4. l <= LatestTime(b.rows)
      BY <2>2
    <3> HIDE DEF l
    <3> QED BY <2>1, <3>1, <3>2, <3>3, <3>4
  <2>3. \A i \in 1..Len(batch) : batch[i] \in Datapoint
    OBVIOUS
  <2>4. \A i \in 1..Len(batch), b \in Bucket :
          batch[i].topic = t /\ b \in S => Added(b, batch[i]) \in S
    <3> HIDE DEF S
    <3> QED BY <2>2, <2>3
  <2>5. \A i \in 0..Len(batch) : Along(batch, t)[i] \in S
    <3> HIDE DEF S
    <3> QED BY <1>3, <2>1, <2>4, AlongStays
  <2>6. buckets'[t] \in S
    <3> HIDE DEF S
    <3> QED BY <1>3, <2>5, InsertedIs
  <2>7. DOMAIN NoRows = {}
    BY DEF NoRows
  <2> QED BY <2>6, <2>7
<1>4. ASSUME StoreOK, [Next]_vars PROVE Step
  <2>1. CASE buckets' = buckets
    BY <1>2, <1>4, <2>1
  <2>2. ASSUME NEW t \in Topics, CreateBucket(t) PROVE Step
    <3>1. \A u \in DOMAIN buckets : buckets'[u] = buckets[u]
      BY <1>4, <2>2, CreatedIs DEF CreateBucket
    <3> QED BY <1>2, <1>4, <3>1
  <2>3. ASSUME NEW batch \in Seq(Datapoint), Insert(batch) PROVE Step
    BY <1>3, <1>4, <2>3
  <2> QED BY <1>4, <2>1, <2>2, <2>3, BucketSteps
<1>5. StoreOK /\ [Next]_vars => [Step]_vars
  BY <1>4
<1> HIDE DEF Step
<1>6. Spec => [][Step]_vars
  BY <1>5, InitStore, StepStore, PTL DEF Spec
<1> QED BY <1>6 DEF LatestNeverOlder, Step

-----------------------------------------------------------------------------
(* Topics whose rows come in order *)

\* A datapoint comes after every row its bucket holds when its turn comes.
LEMMA AlongInOrder ==
  ASSUME StoreOK, NEW batch \in Seq(Datapoint), NEW t \in Ordered, Timely(batch)
  PROVE  \A i \in 1..Len(batch) : batch[i].topic = t =>
           \A x \in DOMAIN Along(batch, t)[i - 1].rows : x < batch[i].time
<1> DEFINE n == Len(batch)
           g == Along(batch, t)
           first == Created(buckets, t)[t]
           Earlier(i, x) == \/ x \in DOMAIN first.rows
                            \/ \E j \in 1..i : batch[j].topic = t /\ batch[j].time = x
           P == {i \in 0..n : \A x \in DOMAIN g[i].rows : Earlier(i, x)}
<1>1. n \in Nat /\ DOMAIN batch = 1..n /\ \A i \in 1..n : batch[i] \in Datapoint
  OBVIOUS
<1>2. /\ g \in [0..n -> Bucket]
      /\ g[0] = first
      /\ \A i \in 1..n : g[i] = IF batch[i].topic = t THEN Added(g[i - 1], batch[i])
                                 ELSE g[i - 1]
  BY AlongIs
<1>3. ASSUME NEW i \in 1..n, batch[i].topic = t
      PROVE  \A x \in DOMAIN first.rows : x < batch[i].time
  <2>1. CASE t \in DOMAIN buckets
    <3>1. first = buckets[t]
      BY <2>1, CreatedIs
    <3> QED BY <1>1, <1>3, <2>1, <3>1 DEF Timely
  <2>2. CASE t \notin DOMAIN buckets
    <3>1. first.rows = NoRows /\ DOMAIN NoRows = {}
      BY <2>2, CreatedIs DEF NoRows
    <3> QED BY <3>1
  <2> QED BY <2>1, <2>2
<1> HIDE DEF g, n, first
<1>4. 0 \in P
  BY <1>1, <1>2
<1>5. ASSUME NEW i \in 0..(n - 1), i \in P PROVE i + 1 \in P
  <2>1. i + 1 \in 1..n /\ i + 1 \in 0..n /\ (i + 1) - 1 = i /\ i \in 0..n
    BY <1>1
  <2>2. g[i + 1] = IF batch[i + 1].topic = t THEN Added(g[i], batch[i + 1]) ELSE g[i]
    BY <1>2, <2>1
  <2>3. \A x : Earlier(i, x) => Earlier(i + 1, x)
    BY <2>1
  <2>4. \A x \in DOMAIN g[i].rows : Earlier(i, x)
    BY <1>5
  <2>5. CASE batch[i + 1].topic = t
    <3>1. IsBucket(g[i])
      BY <1>2, <2>1, BucketIs
    <3>2. DOMAIN Added(g[i], batch[i + 1]).rows \subseteq DOMAIN g[i].rows \union {batch[i + 1].time}
      <4> DEFINE d == batch[i + 1]
                 b == g[i]
      <4> HIDE DEF d, b
      <4>1. \/ Added(b, d).rows = Kept(b)
            \/ DOMAIN Added(b, d).rows = DOMAIN Kept(b) \union {d.time}
        BY <3>1, AddedIs DEF b
      <4>2. DOMAIN Kept(b) \subseteq DOMAIN b.rows
        BY <3>1, KeptLemma DEF b
      <4>3. DOMAIN Added(b, d).rows \subseteq DOMAIN b.rows \union {d.time}
        BY <4>1, <4>2
      <4> QED BY <4>3 DEF b, d
    <3>3. Earlier(i + 1, batch[i + 1].time)
      BY <2>1, <2>5
    <3> HIDE DEF Earlier
    <3>4. \A x \in DOMAIN g[i + 1].rows : Earlier(i + 1, x)
      BY <2>2, <2>3, <2>4, <2>5, <3>2, <3>3
    <3> QED BY <2>1, <3>4
  <2>6. CASE batch[i + 1].topic # t
    <3> HIDE DEF Earlier
    <3> QED BY <2>1, <2>2, <2>3, <2>4, <2>6
  <2> QED BY <2>5, <2>6
<1>6. 0..n \subseteq P
  <2> HIDE DEF P
  <2> QED BY <1>1, <1>4, <1>5, IntervalInduction
<1>7. ASSUME NEW i \in 1..n, batch[i].topic = t, NEW x \in DOMAIN g[i - 1].rows
      PROVE  x < batch[i].time
  <2>1. i - 1 \in 0..n
    BY <1>1
  <2>2. Earlier(i - 1, x)
    BY <1>6, <2>1
  <2>3. CASE x \in DOMAIN first.rows
    BY <1>3, <1>7, <2>3
  <2>4. ASSUME NEW j \in 1..(i - 1), batch[j].topic = t, batch[j].time = x
        PROVE  x < batch[i].time
    BY <1>1, <1>7, <2>4 DEF Timely
  <2> QED BY <2>2, <2>3, <2>4
<1> QED BY <1>7 DEF n, g

LEMMA AlongAlternates ==
  ASSUME StoreOK, NEW batch \in Seq(Datapoint), NEW t \in Ordered, Timely(batch),
         Alternates(Created(buckets, t)[t].rows)
  PROVE  Alternates(Along(batch, t)[Len(batch)].rows)
<1> DEFINE n == Len(batch)
           g == Along(batch, t)
           P == {i \in 0..n : Alternates(g[i].rows)}
<1>1. n \in Nat /\ \A i \in 1..n : batch[i] \in Datapoint
  OBVIOUS
<1>2. /\ g \in [0..n -> Bucket]
      /\ g[0] = Created(buckets, t)[t]
      /\ \A i \in 1..n : g[i] = IF batch[i].topic = t THEN Added(g[i - 1], batch[i])
                                 ELSE g[i - 1]
  BY AlongIs
<1>3. \A i \in 1..n : batch[i].topic = t =>
        \A x \in DOMAIN g[i - 1].rows : x < batch[i].time
  BY AlongInOrder
<1> HIDE DEF g, n
<1>4. 0 \in P
  BY <1>1, <1>2
<1>5. ASSUME NEW i \in 0..(n - 1), i \in P PROVE i + 1 \in P
  <2>1. i + 1 \in 1..n /\ i + 1 \in 0..n /\ (i + 1) - 1 = i /\ i \in 0..n
    BY <1>1
  <2>2. g[i + 1] = IF batch[i + 1].topic = t THEN Added(g[i], batch[i + 1]) ELSE g[i]
    BY <1>2, <2>1
  <2>3. IsBucket(g[i]) /\ Alternates(g[i].rows)
    BY <1>2, <1>5, <2>1, BucketIs
  <2>4. CASE batch[i + 1].topic = t
    <3>1. \A x \in DOMAIN g[i].rows : x < batch[i + 1].time
      BY <1>3, <2>1, <2>4
    <3>2. batch[i + 1].time \in Int
      BY <1>1, <2>1, DatapointIs
    <3>3. Alternates(Added(g[i], batch[i + 1]).rows)
      BY <2>3, <3>1, <3>2, ChangesKept
    <3> QED BY <2>1, <2>2, <2>4, <3>3
  <2>5. CASE batch[i + 1].topic # t
    BY <2>1, <2>2, <2>3, <2>5
  <2> QED BY <2>4, <2>5
<1>6. 0..n \subseteq P
  <2> HIDE DEF P
  <2> QED BY <1>1, <1>4, <1>5, IntervalInduction
<1>7. n \in 0..n
  BY <1>1
<1>8. Alternates(g[n].rows)
  BY <1>6, <1>7
<1> QED BY <1>8 DEF g, n

(* A bucket whose rows come in order only holds changes, along any history of calls *)
(* of any length: no two rows in a row hold the same value.                         *)
THEOREM ChangesCorrect == Spec => []OnlyChanges
<1> DEFINE Inv == StoreOK /\ \A t \in DOMAIN buckets \intersect Ordered : Alternates(buckets[t].rows)
<1>1. Init => Inv
  BY InitStore DEF Init
<1>2. ASSUME StoreOK, \A t \in DOMAIN buckets \intersect Ordered : Alternates(buckets[t].rows),
             NEW u, NEW t \in (DOMAIN buckets \union {u}) \intersect Ordered
      PROVE  Alternates(Created(buckets, u)[t].rows)
  <2>1. CASE t \in DOMAIN buckets
    <3>1. Created(buckets, u)[t] = buckets[t]
      BY <1>2, <2>1, CreatedIs
    <3> QED BY <1>2, <2>1, <3>1
  <2>2. CASE t \notin DOMAIN buckets
    <3>1. Created(buckets, u)[t].rows = NoRows /\ DOMAIN NoRows = {}
      BY <1>2, <2>2, CreatedIs DEF NoRows
    <3> QED BY <3>1 DEF Alternates
  <2> QED BY <2>1, <2>2
<1>3. ASSUME Inv, [Next]_vars PROVE Inv'
  <2>1. StoreOK'
    BY <1>3, StepStore
  <2>2. CASE buckets' = buckets
    BY <1>3, <2>1, <2>2 DEF Alternates
  <2>3. ASSUME NEW u \in Topics, CreateBucket(u), NEW t \in DOMAIN buckets' \intersect Ordered
        PROVE  Alternates(buckets'[t].rows)
    BY <1>2, <1>3, <2>3, CreatedIs DEF CreateBucket
  <2>4. ASSUME NEW batch \in Seq(Datapoint), Insert(batch),
               NEW t \in DOMAIN buckets' \intersect Ordered
        PROVE  Alternates(buckets'[t].rows)
    <3>1. Alternates(Created(buckets, t)[t].rows)
      BY <1>2, <1>3
    <3>2. Timely(batch)
      BY <2>4 DEF Insert
    <3>3. Alternates(Along(batch, t)[Len(batch)].rows)
      BY <1>3, <3>1, <3>2, AlongAlternates
    <3> QED BY <1>3, <2>4, <3>3, InsertedIs
  <2> QED BY <1>3, <2>1, <2>2, <2>3, <2>4, BucketSteps
<1>4. Inv => OnlyChanges
  BY DEF Alternates, OnlyChanges
<1> QED BY <1>1, <1>3, <1>4, PTL DEF Spec

-----------------------------------------------------------------------------
(* What listeners know *)

\* The bucket holds this value as its latest.
Holds(bs, t, value) ==
  t \in DOMAIN bs /\ bs[t].rows # NoRows /\ Latest(bs[t].rows) = value

\* The latest value of a bucket along a call: that of the last datapoint of its
\* topic that was stored or that was the same as the latest one.
LEMMA LatestAlong ==
  ASSUME StoreOK, NEW batch \in Seq(Datapoint), NEW t \in Ordered, Timely(batch),
         NEW at \in SUBSET (1..Len(batch)), Changes(buckets, batch) \subseteq at
  PROVE  \A i \in 0..Len(batch) :
           /\ \A k \in at \intersect 1..i :
                batch[k].topic = t
                /\ (\A j \in at \intersect 1..i : batch[j].topic = t => j <= k) =>
                   Holds([u \in {t} |-> Along(batch, t)[i]], t, batch[k].value)
           /\ \A value :
                Holds(buckets, t, value)
                /\ (\A j \in at \intersect 1..i : batch[j].topic # t) =>
                   Holds([u \in {t} |-> Along(batch, t)[i]], t, value)
<1> DEFINE n == Len(batch)
           g == Along(batch, t)
           At(i, value) == g[i].rows # NoRows /\ Latest(g[i].rows) = value
           Told(i) ==
             \A k \in at \intersect 1..i :
               batch[k].topic = t
               /\ (\A j \in at \intersect 1..i : batch[j].topic = t => j <= k) =>
                  At(i, batch[k].value)
           Kept0(i) ==
             \A value :
               Holds(buckets, t, value) /\ (\A j \in at \intersect 1..i : batch[j].topic # t) =>
                 At(i, value)
           P == {i \in 0..n : Told(i) /\ Kept0(i)}
<1>1. n \in Nat /\ DOMAIN batch = 1..n /\ \A i \in 1..n : batch[i] \in Datapoint
  OBVIOUS
<1>2. /\ g \in [0..n -> Bucket]
      /\ g[0] = Created(buckets, t)[t]
      /\ \A i \in 1..n : g[i] = IF batch[i].topic = t THEN Added(g[i - 1], batch[i])
                                 ELSE g[i - 1]
  BY AlongIs
<1>3. \A i \in 1..n : batch[i].topic = t =>
        \A x \in DOMAIN g[i - 1].rows : x < batch[i].time
  BY AlongInOrder
<1>4. \A i \in 1..n : batch[i].topic = t /\ Stores(g[i - 1], batch[i]) => i \in at
  BY <1>1 DEF Changes, Along
<1>5. t \in DOMAIN buckets => g[0] = buckets[t]
  BY <1>2, CreatedIs
<1> HIDE DEF g, n
<1>6. 0 \in P
  <2>1. Told(0)
    OBVIOUS
  <2>2. Kept0(0)
    BY <1>5 DEF Holds
  <2> QED BY <1>1, <2>1, <2>2
<1>7. ASSUME NEW i \in 0..(n - 1), i \in P PROVE i + 1 \in P
  <2>1. i \in Nat /\ i + 1 \in 1..n /\ i + 1 \in 0..n /\ (i + 1) - 1 = i /\ i \in 0..n
    BY <1>1
  <2>2. g[i + 1] = IF batch[i + 1].topic = t THEN Added(g[i], batch[i + 1]) ELSE g[i]
    BY <1>2, <2>1
  <2>3. IsBucket(g[i]) /\ IsBucket(g[i + 1])
    BY <1>2, <2>1, BucketIs
  <2>4. Told(i) /\ Kept0(i)
    BY <1>7
  <2>5. CASE batch[i + 1].topic = t /\ i + 1 \in at
    <3>1. batch[i + 1].time \in Int
      BY <1>1, <2>1, DatapointIs
    <3>2. \A x \in DOMAIN g[i].rows : x < batch[i + 1].time
      BY <1>3, <2>1, <2>5
    <3>3. DOMAIN g[i + 1].rows # {} /\ Latest(g[i + 1].rows) = batch[i + 1].value
      BY <2>2, <2>3, <2>5, <3>1, <3>2, LatestAdded
    <3>4. At(i + 1, batch[i + 1].value)
      BY <2>3, <3>3, NoRowsIs DEF IsBucket
    <3>5. Told(i + 1)
      <4> SUFFICES ASSUME NEW k \in at \intersect 1..(i + 1), batch[k].topic = t,
                          \A j \in at \intersect 1..(i + 1) : batch[j].topic = t => j <= k
                   PROVE  At(i + 1, batch[k].value)
        OBVIOUS
      <4>1. i + 1 <= k
        BY <2>1, <2>5
      <4>2. k = i + 1
        BY <2>1, <4>1
      <4> HIDE DEF At
      <4> QED BY <3>4, <4>2
    <3>6. Kept0(i + 1)
      BY <2>1, <2>5
    <3> HIDE DEF Told, Kept0
    <3> QED BY <2>1, <3>5, <3>6
  <2>6. CASE ~(batch[i + 1].topic = t /\ i + 1 \in at)
    <3>1. \A value : At(i, value) => At(i + 1, value)
      <4>1. CASE batch[i + 1].topic = t
        <5>1. ~Stores(g[i], batch[i + 1])
          BY <1>4, <2>1, <2>6, <4>1
        <5>2. DOMAIN g[i + 1].rows # {} /\ Latest(g[i + 1].rows) = Latest(g[i].rows)
          BY <2>2, <2>3, <4>1, <5>1, LatestAdded
        <5> QED BY <2>3, <5>2, NoRowsIs DEF IsBucket
      <4>2. CASE batch[i + 1].topic # t
        BY <2>2, <4>2
      <4> QED BY <4>1, <4>2
    <3> DEFINE Of(m) == {j \in at \intersect 1..m : batch[j].topic = t}
    <3>2. Of(i + 1) = Of(i)
      BY <2>1, <2>6
    <3> HIDE DEF At
    <3>3. Told(i + 1)
      <4> SUFFICES ASSUME NEW k \in Of(i + 1), \A j \in Of(i + 1) : j <= k
                   PROVE  At(i + 1, batch[k].value)
        OBVIOUS
      <4>1. k \in Of(i) /\ \A j \in Of(i) : j <= k
        BY <3>2
      <4>2. At(i, batch[k].value)
        BY <2>4, <4>1
      <4> QED BY <3>1, <4>2
    <3>4. Kept0(i + 1)
      <4> SUFFICES ASSUME NEW value, Holds(buckets, t, value),
                          \A j \in at \intersect 1..(i + 1) : batch[j].topic # t
                   PROVE  At(i + 1, value)
        OBVIOUS
      <4>1. \A j \in at \intersect 1..i : batch[j].topic # t
        BY <2>1
      <4>2. At(i, value)
        BY <2>4, <4>1
      <4> QED BY <3>1, <4>2
    <3> HIDE DEF Told, Kept0
    <3> QED BY <2>1, <3>3, <3>4
  <2> QED BY <2>5, <2>6
<1>8. 0..n \subseteq P
  <2> HIDE DEF P
  <2> QED BY <1>1, <1>6, <1>7, IntervalInduction
<1>9. ASSUME NEW i \in 0..n PROVE Told(i) /\ Kept0(i)
  BY <1>8
<1>10. \A i \in 0..n : \A value : At(i, value) <=> Holds([u \in {t} |-> g[i]], t, value)
  BY DEF Holds
<1> HIDE DEF At
<1> QED BY <1>9, <1>10 DEF g, n

\* What a call does to the latest value of an ordered topic.
LEMMA HeldAfterInsert ==
  ASSUME StoreOK, NEW batch \in Seq(Datapoint), Insert(batch), NEW t \in Ordered,
         NEW at \in SUBSET (1..Len(batch)), Changes(buckets, batch) \subseteq at
  PROVE  /\ \A k \in at :
              batch[k].topic = t /\ (\A j \in at : batch[j].topic = t => j <= k) =>
                Holds(buckets', t, batch[k].value)
         /\ \A value :
              Holds(buckets, t, value) /\ (\A j \in at : batch[j].topic # t) =>
                Holds(buckets', t, value)
<1> DEFINE n == Len(batch)
<1>1. Timely(batch)
  BY DEF Insert
<1>2. n \in Nat /\ n \in 0..n /\ at \intersect 1..n = at
  <2>1. n \in Nat
    OBVIOUS
  <2>2. at \subseteq 1..n
    OBVIOUS
  <2>3. n \in 0..n
    BY <2>1
  <2>4. at \intersect 1..n = at
    BY <2>2
  <2> QED BY <2>1, <2>3, <2>4
<1>3. \A value : t \in DOMAIN buckets' /\ Holds([u \in {t} |-> Along(batch, t)[n]], t, value)
                 => Holds(buckets', t, value)
  BY InsertedIs DEF Holds
<1>4. \A k \in at : batch[k].topic = t => t \in DOMAIN buckets'
  BY InsertedIs
<1>5. t \in DOMAIN buckets => t \in DOMAIN buckets'
  BY InsertedIs
<1>6. /\ \A k \in at :
           batch[k].topic = t /\ (\A j \in at : batch[j].topic = t => j <= k) =>
             Holds([u \in {t} |-> Along(batch, t)[n]], t, batch[k].value)
      /\ \A value :
           Holds(buckets, t, value) /\ (\A j \in at : batch[j].topic # t) =>
             Holds([u \in {t} |-> Along(batch, t)[n]], t, value)
  BY <1>1, <1>2, LatestAlong
<1>7. \A value : Holds(buckets, t, value) => t \in DOMAIN buckets
  BY DEF Holds
<1> QED BY <1>3, <1>4, <1>5, <1>6, <1>7

\* What listeners may know of topics.
Knowledge == [Queries -> [Topics -> Values \union {Untold}]]

\* The value of the last datapoint a listener is told of a topic.
IsLastAbout(f, t, batch, at, value) ==
  \E m \in About(f, t, batch, at) :
    /\ \A j \in About(f, t, batch, at) : j <= m
    /\ value = batch[m].value

\* Who is told of a topic knows the value of its last datapoint.
LEMMA HeardIs ==
  ASSUME NEW batch \in Seq(Datapoint), NEW at \in SUBSET (1..Len(batch)),
         NEW known \in [Topics -> Values \union {Untold}], NEW f
  PROVE  /\ Heard(known, f, batch, at) \in [Topics -> Values \union {Untold}]
         /\ \A t \in Topics :
              /\ About(f, t, batch, at) = {} => Heard(known, f, batch, at)[t] = known[t]
              /\ About(f, t, batch, at) # {} =>
                   IsLastAbout(f, t, batch, at, Heard(known, f, batch, at)[t])
<1>1. ASSUME NEW t \in Topics, About(f, t, batch, at) # {}
      PROVE  IsLastAbout(f, t, batch, at, Heard(known, f, batch, at)[t])
  <2> DEFINE A == About(f, t, batch, at)
             rows == [i \in A |-> batch[i].value]
             m == LatestTime(rows)
  <2>1. A \subseteq 1..Len(batch)
    <3>1. A \subseteq at
      BY DEF About
    <3> QED BY <3>1
  <2>2. IsFiniteSet(A) /\ A \subseteq Int
    <3>1. Len(batch) \in Int
      OBVIOUS
    <3>2. IsFiniteSet(1..Len(batch))
      BY <3>1, FS_Interval
    <3>3. A \in SUBSET (1..Len(batch))
      BY <2>1
    <3> HIDE DEF A
    <3>4. IsFiniteSet(A)
      BY <3>2, <3>3, FS_Subset
    <3> QED BY <2>1, <3>4
  <2>3. Heard(known, f, batch, at)[t] = Latest(rows)
    BY <1>1 DEF Heard
  <2>4. IsRows(rows) /\ DOMAIN rows = A
    <3> HIDE DEF A
    <3> QED BY <2>2 DEF IsRows
  <2>5. m \in A /\ \A j \in A : j <= m
    <3> HIDE DEF A, rows
    <3> QED BY <1>1, <2>4, LatestIs DEF A
  <2>6. Latest(rows) = batch[m].value
    <3> HIDE DEF A, m
    <3> QED BY <2>5 DEF Latest, m
  <2> HIDE DEF m
  <2> QED BY <2>3, <2>5, <2>6 DEF IsLastAbout
<1>2. \A t \in Topics : About(f, t, batch, at) = {} => Heard(known, f, batch, at)[t] = known[t]
  BY DEF Heard
<1>3. ASSUME NEW t \in Topics PROVE Heard(known, f, batch, at)[t] \in Values \union {Untold}
  <2>1. CASE About(f, t, batch, at) = {}
    BY <1>2, <2>1
  <2>2. CASE About(f, t, batch, at) # {}
    <3>1. PICK m \in 1..Len(batch) : Heard(known, f, batch, at)[t] = batch[m].value
      BY <1>1, <2>2 DEF About, IsLastAbout
    <3>2. batch[m] \in Datapoint
      OBVIOUS
    <3> QED BY <3>1, <3>2, DatapointIs
  <2> QED BY <2>1, <2>2
<1>4. Heard(known, f, batch, at) \in [Topics -> Values \union {Untold}]
  <2>1. Heard(known, f, batch, at) = [t \in Topics |-> Heard(known, f, batch, at)[t]]
    BY DEF Heard
  <2> HIDE DEF Heard
  <2> QED BY <1>3, <2>1
<1> QED BY <1>1, <1>2, <1>4

\* What a listener knows of an ordered topic is the latest value of its bucket.
Knowing(knows, ls, bs) ==
  \A f \in Queries, t \in Ordered : knows[f][t] # Untold =>
    /\ f \in ls
    /\ Matches(f, t)
    /\ Holds(bs, t, knows[f][t])

\* The same half-way through a call: it is void for the topics still to be told of.
KnowingAlready(knows, batch, at) ==
  \A f \in Queries, t \in Ordered : knows[f][t] # Untold =>
    /\ f \in listeners
    /\ Matches(f, t)
    /\ About(f, t, batch, at) = {} => Holds(buckets, t, knows[f][t])

\* What one round of notifications does.
LEMMA NotifiedIs ==
  ASSUME NEW batch \in Seq(Datapoint), NEW at \in SUBSET (1..Len(batch)),
         NEW knows \in Knowledge, KnowingAlready(knows, batch, at)
  PROVE  /\ Notified(knows, batch, at) \in Knowledge
         /\ KnowingAlready(Notified(knows, batch, at), batch, at)
         /\ \A f \in listeners \intersect Queries, t \in Ordered :
              About(f, t, batch, at) # {} =>
                IsLastAbout(f, t, batch, at, Notified(knows, batch, at)[f][t])
<1>1. Ordered \subseteq Topics
  BY StoreAssumption
<1>2. \A f \in Queries : knows[f] \in [Topics -> Values \union {Untold}]
  BY DEF Knowledge
<1>3. \A f \in Queries : Notified(knows, batch, at)[f] =
                           IF f \in listeners THEN Heard(knows[f], f, batch, at) ELSE knows[f]
  BY DEF Notified
<1>4. ASSUME NEW f \in Queries
      PROVE  /\ Notified(knows, batch, at)[f] \in [Topics -> Values \union {Untold}]
             /\ \A t \in Ordered :
                  /\ About(f, t, batch, at) = {} => Heard(knows[f], f, batch, at)[t] = knows[f][t]
                  /\ About(f, t, batch, at) # {} =>
                       IsLastAbout(f, t, batch, at, Heard(knows[f], f, batch, at)[t])
  <2> DEFINE known == knows[f]
             heard == Heard(known, f, batch, at)
  <2>1. known \in [Topics -> Values \union {Untold}]
    BY <1>2
  <2>2. Notified(knows, batch, at)[f] = IF f \in listeners THEN heard ELSE known
    BY <1>3
  <2> HIDE DEF known
  <2>3. /\ heard \in [Topics -> Values \union {Untold}]
        /\ \A t \in Topics :
             /\ About(f, t, batch, at) = {} => heard[t] = known[t]
             /\ About(f, t, batch, at) # {} => IsLastAbout(f, t, batch, at, heard[t])
    BY <2>1, HeardIs
  <2> HIDE DEF heard
  <2>4. \A t \in Ordered :
          /\ About(f, t, batch, at) = {} => heard[t] = known[t]
          /\ About(f, t, batch, at) # {} => IsLastAbout(f, t, batch, at, heard[t])
    BY <1>1, <2>3
  <2>5. Notified(knows, batch, at)[f] \in [Topics -> Values \union {Untold}]
    BY <2>1, <2>2, <2>3
  <2> QED BY <2>4, <2>5 DEF heard, known
<1>5. Notified(knows, batch, at) \in Knowledge
  <2>1. Notified(knows, batch, at) = [f \in Queries |-> Notified(knows, batch, at)[f]]
    BY DEF Notified
  <2> HIDE DEF Notified
  <2> QED BY <1>4, <2>1 DEF Knowledge
<1>6. ASSUME NEW f \in listeners \intersect Queries, NEW t \in Ordered,
             About(f, t, batch, at) # {}
      PROVE  IsLastAbout(f, t, batch, at, Notified(knows, batch, at)[f][t])
  <2>1. Notified(knows, batch, at)[f] = Heard(knows[f], f, batch, at)
    BY <1>3
  <2>2. IsLastAbout(f, t, batch, at, Heard(knows[f], f, batch, at)[t])
    BY <1>4, <1>6
  <2> QED BY <2>1, <2>2
<1>7. ASSUME NEW f \in Queries, NEW t \in Ordered, Notified(knows, batch, at)[f][t] # Untold
      PROVE  /\ f \in listeners
             /\ Matches(f, t)
             /\ About(f, t, batch, at) = {} => Holds(buckets, t, Notified(knows, batch, at)[f][t])
  <2>1. CASE f \notin listeners \/ About(f, t, batch, at) = {}
    <3>1. Notified(knows, batch, at)[f][t] = knows[f][t]
      <4>1. CASE f \notin listeners
        BY <1>3, <4>1
      <4>2. CASE f \in listeners /\ About(f, t, batch, at) = {}
        <5>1. Heard(knows[f], f, batch, at)[t] = knows[f][t]
          BY <1>4, <4>2
        <5> QED BY <1>3, <4>2, <5>1
      <4> QED BY <2>1, <4>1, <4>2
    <3> QED BY <1>7, <3>1 DEF KnowingAlready
  <2>2. CASE f \in listeners /\ About(f, t, batch, at) # {}
    BY <2>2 DEF About
  <2> QED BY <2>1, <2>2
<1> QED BY <1>5, <1>6, <1>7 DEF KnowingAlready

\* Who is told of all that was stored knows the latest values.
LEMMA NotifiedKnows ==
  ASSUME StoreOK, NEW batch \in Seq(Datapoint), Insert(batch),
         NEW at \in SUBSET (1..Len(batch)), Changes(buckets, batch) \subseteq at,
         NEW knows \in Knowledge, KnowingAlready(knows, batch, at)
  PROVE  Knowing(Notified(knows, batch, at), listeners, buckets')
<1> DEFINE new == Notified(knows, batch, at)
<1>1. KnowingAlready(new, batch, at)
  BY NotifiedIs
<1>2. \A f \in listeners \intersect Queries, t \in Ordered :
        About(f, t, batch, at) # {} => IsLastAbout(f, t, batch, at, new[f][t])
  BY NotifiedIs
<1> HIDE DEF new
<1> SUFFICES ASSUME NEW f \in Queries, NEW t \in Ordered, new[f][t] # Untold
             PROVE  f \in listeners /\ Matches(f, t) /\ Holds(buckets', t, new[f][t])
  BY DEF Knowing, new
<1>3. f \in listeners /\ Matches(f, t)
  BY <1>1 DEF KnowingAlready
<1>4. About(f, t, batch, at) = {j \in at : batch[j].topic = t}
  BY <1>3 DEF About
<1>5. CASE About(f, t, batch, at) = {}
  <2>1. Holds(buckets, t, new[f][t])
    BY <1>1, <1>5 DEF KnowingAlready
  <2>2. \A j \in at : batch[j].topic # t
    BY <1>4, <1>5
  <2> QED BY <1>3, <2>1, <2>2, HeldAfterInsert
<1>6. CASE About(f, t, batch, at) # {}
  <2>1. PICK m \in About(f, t, batch, at) :
          /\ \A j \in About(f, t, batch, at) : j <= m
          /\ new[f][t] = batch[m].value
    BY <1>2, <1>3, <1>6 DEF IsLastAbout
  <2>2. m \in at /\ batch[m].topic = t /\ \A j \in at : batch[j].topic = t => j <= m
    BY <1>4, <2>1
  <2>3. Holds(buckets', t, batch[m].value)
    BY <2>2, HeldAfterInsert
  <2> QED BY <1>3, <2>1, <2>3
<1> QED BY <1>5, <1>6

\* The two methods of a listener, and what they know between two calls.
TellingOK ==
  /\ listeners \subseteq Queries
  /\ told \in Knowledge /\ toldRaw \in Knowledge
  /\ Knowing(told, listeners, buckets) /\ Knowing(toldRaw, listeners, buckets)

LEMMA KnowingStarts ==
  ASSUME NEW knows, Knowing(knows, listeners, buckets), NEW batch, NEW at
  PROVE  KnowingAlready(knows, batch, at)
BY DEF Knowing, KnowingAlready

\* What is not told of is forgotten.
LEMMA MissedKnows ==
  ASSUME StoreOK, NEW batch \in Seq(Datapoint), Insert(batch),
         NEW at \in SUBSET (1..Len(batch)), Changes(buckets, batch) \subseteq at,
         NEW knows \in Knowledge, Knowing(knows, listeners, buckets)
  PROVE  /\ Missed(knows, batch, at) \in Knowledge
         /\ Knowing(Missed(knows, batch, at), listeners, buckets')
<1>1. Ordered \subseteq Topics
  BY StoreAssumption
<1>2. \A f \in Queries, t \in Topics :
        /\ knows[f][t] \in Values \union {Untold}
        /\ Missed(knows, batch, at)[f][t] =
             IF \E i \in at : batch[i].topic = t THEN Untold ELSE knows[f][t]
  BY DEF Knowledge, Missed
<1>3. Missed(knows, batch, at) \in Knowledge
  BY <1>2 DEF Knowledge, Missed
<1>4. ASSUME NEW f \in Queries, NEW t \in Ordered, Missed(knows, batch, at)[f][t] # Untold
      PROVE  f \in listeners /\ Matches(f, t) /\ Holds(buckets', t, Missed(knows, batch, at)[f][t])
  <2>1. /\ \A i \in at : batch[i].topic # t
        /\ Missed(knows, batch, at)[f][t] = knows[f][t]
    BY <1>1, <1>2, <1>4
  <2>2. f \in listeners /\ Matches(f, t) /\ Holds(buckets, t, knows[f][t])
    BY <1>4, <2>1 DEF Knowing
  <2>3. Holds(buckets', t, knows[f][t])
    BY <2>1, <2>2, HeldAfterInsert
  <2> QED BY <2>1, <2>2, <2>3
<1> QED BY <1>3, <1>4 DEF Knowing

\* The places a call tells of are places of its batch, and all that was stored.
LEMMA ChangesAre ==
  ASSUME NEW batch \in Seq(Datapoint)
  PROVE  Changes(buckets, batch) \in SUBSET (1..Len(batch))
<1>1. DOMAIN batch = 1..Len(batch)
  OBVIOUS
<1> QED BY <1>1 DEF Changes

LEMMA TellingStep ==
  ASSUME StoreOK, TellingOK, [Next]_vars
  PROVE  TellingOK'
<1>1. /\ listeners \subseteq Queries
      /\ told \in Knowledge /\ toldRaw \in Knowledge
      /\ Knowing(told, listeners, buckets) /\ Knowing(toldRaw, listeners, buckets)
  BY DEF TellingOK
<1>2. \A batch, at : KnowingAlready(told, batch, at) /\ KnowingAlready(toldRaw, batch, at)
  BY <1>1, KnowingStarts
<1>3. ASSUME NEW d \in Datapoint, AddPrimitive(d) PROVE TellingOK'
  <2>1. <<d>> \in Seq(Datapoint) /\ Insert(<<d>>) /\ listeners' = listeners
    BY <1>3, BatchesAre DEF AddPrimitive, Insert
  <2>2. Changes(buckets, <<d>>) \in SUBSET (1..Len(<<d>>))
    BY <2>1, ChangesAre
  <2>3. /\ told' = Missed(told, <<d>>, Changes(buckets, <<d>>))
        /\ toldRaw' = Missed(toldRaw, <<d>>, Changes(buckets, <<d>>))
    BY <1>3 DEF AddPrimitive
  <2>4. told' \in Knowledge /\ Knowing(told', listeners, buckets')
    BY <1>1, <2>1, <2>2, <2>3, MissedKnows
  <2>5. toldRaw' \in Knowledge /\ Knowing(toldRaw', listeners, buckets')
    BY <1>1, <2>1, <2>2, <2>3, MissedKnows
  <2> QED BY <1>1, <2>1, <2>4, <2>5 DEF TellingOK, Knowledge, Knowing
<1>4. ASSUME NEW batch \in Seq(Datapoint), NEW at \in SUBSET (1..Len(batch)),
             Changes(buckets, batch) \subseteq at, Insert(batch),
             NEW knows \in Knowledge, Knowing(knows, listeners, buckets)
      PROVE  /\ Notified(knows, batch, at) \in Knowledge
             /\ Knowing(Notified(knows, batch, at), listeners, buckets')
             /\ Notified(Notified(knows, batch, at), batch, at) \in Knowledge
             /\ Knowing(Notified(Notified(knows, batch, at), batch, at), listeners, buckets')
  <2> DEFINE once == Notified(knows, batch, at)
  <2>1. KnowingAlready(knows, batch, at)
    BY <1>4, KnowingStarts
  <2>2. once \in Knowledge /\ KnowingAlready(once, batch, at)
    BY <1>4, <2>1, NotifiedIs
  <2>3. Knowing(once, listeners, buckets')
    BY <1>4, <2>1, NotifiedKnows
  <2> HIDE DEF once
  <2>4. Notified(once, batch, at) \in Knowledge
    BY <1>4, <2>2, NotifiedIs
  <2>5. Knowing(Notified(once, batch, at), listeners, buckets')
    BY <1>4, <2>2, NotifiedKnows
  <2> QED BY <2>2, <2>3, <2>4, <2>5 DEF once
<1>5. ASSUME NEW batch \in Seq(Datapoint), AddDatapoints(batch) PROVE TellingOK'
  <2> DEFINE at == Changes(buckets, batch)
  <2>1. /\ Insert(batch) /\ listeners' = listeners
        /\ told' = Notified(told, batch, at)
        /\ toldRaw' = Notified(Notified(toldRaw, batch, at), batch, at)
    BY <1>5 DEF AddDatapoints, Insert
  <2>2. at \in SUBSET (1..Len(batch))
    BY ChangesAre
  <2>3. told' \in Knowledge /\ Knowing(told', listeners, buckets')
    BY <1>1, <1>4, <2>1, <2>2
  <2>4. toldRaw' \in Knowledge /\ Knowing(toldRaw', listeners, buckets')
    BY <1>1, <1>4, <2>1, <2>2
  <2> QED BY <1>1, <2>1, <2>3, <2>4 DEF TellingOK, Knowledge, Knowing
<1>6. ASSUME NEW batch \in Seq(Datapoint), AddDatapointsSilent(batch) PROVE TellingOK'
  <2> DEFINE at == Changes(buckets, batch)
  <2>1. /\ Insert(batch) /\ listeners' = listeners
        /\ told' = Missed(told, batch, at)
        /\ toldRaw' = Notified(toldRaw, batch, at)
    BY <1>6 DEF AddDatapointsSilent, Insert
  <2>2. at \in SUBSET (1..Len(batch))
    BY ChangesAre
  <2>3. told' \in Knowledge /\ Knowing(told', listeners, buckets')
    BY <1>1, <2>1, <2>2, MissedKnows
  <2>4. toldRaw' \in Knowledge /\ Knowing(toldRaw', listeners, buckets')
    BY <1>1, <1>4, <2>1, <2>2
  <2> QED BY <1>1, <2>1, <2>3, <2>4 DEF TellingOK, Knowledge, Knowing
<1>7. ASSUME NEW d \in Datapoint, AddDatapoint(d) PROVE TellingOK'
  <2> DEFINE batch == <<d>>
             at == {1}
  <2>1. /\ batch \in Seq(Datapoint) /\ Len(batch) = 1
        /\ Insert(batch) /\ listeners' = listeners
        /\ told' = Notified(told, batch, at)
        /\ toldRaw' = Notified(toldRaw, batch, at)
    BY <1>7, BatchesAre DEF AddDatapoint, Insert
  <2> HIDE DEF batch
  <2>2. Changes(buckets, batch) \in SUBSET (1..Len(batch))
    BY <2>1, ChangesAre
  <2>3. 1..Len(batch) = at
    BY <2>1
  <2>4. at \in SUBSET (1..Len(batch)) /\ Changes(buckets, batch) \subseteq at
    BY <2>2, <2>3
  <2>5. told' \in Knowledge /\ Knowing(told', listeners, buckets')
    BY <1>1, <1>4, <2>1, <2>4
  <2>6. toldRaw' \in Knowledge /\ Knowing(toldRaw', listeners, buckets')
    BY <1>1, <1>4, <2>1, <2>4
  <2> QED BY <1>1, <2>1, <2>5, <2>6 DEF TellingOK, Knowledge, Knowing
<1>8. ASSUME NEW t \in Topics, CreateBucket(t) PROVE TellingOK'
  <2>1. buckets' = Created(buckets, t) /\ UNCHANGED <<listeners, told, toldRaw>>
    BY <1>8 DEF CreateBucket
  <2>2. \A u, value : Holds(buckets, u, value) => Holds(buckets', u, value)
    <3>1. \A u \in DOMAIN buckets : u \in DOMAIN buckets' /\ buckets'[u] = buckets[u]
      BY <2>1, CreatedIs
    <3> QED BY <3>1 DEF Holds
  <2> QED BY <1>1, <2>1, <2>2 DEF TellingOK, Knowledge, Knowing
<1>9. ASSUME NEW f \in Queries, AddListener(f) PROVE TellingOK'
  <2>1. listeners' = listeners \union {f} /\ UNCHANGED <<buckets, told, toldRaw>>
    BY <1>9 DEF AddListener
  <2> QED BY <1>1, <2>1 DEF TellingOK, Knowledge, Knowing, Holds
<1>10. CASE UNCHANGED <<buckets, listeners, told, toldRaw>>
  BY <1>1, <1>10 DEF TellingOK, Knowledge, Knowing, Holds
<1>11. \A batch \in Batches : batch \in Seq(Datapoint)
  BY BatchesAre
<1>12. \/ \E t \in Topics : CreateBucket(t)
       \/ \E f \in Queries : AddListener(f)
       \/ \E d \in Datapoint : AddPrimitive(d) \/ AddDatapoint(d)
       \/ \E batch \in Batches : AddDatapoints(batch) \/ AddDatapointsSilent(batch)
       \/ UNCHANGED <<buckets, listeners, told, toldRaw>>
  BY DEF Next, vars, SetRetention, Query
<1>13. ASSUME NEW batch \in Batches, AddDatapoints(batch) \/ AddDatapointsSilent(batch)
       PROVE  TellingOK'
  <2>1. batch \in Seq(Datapoint)
    BY <1>11
  <2> QED BY <1>5, <1>6, <1>13, <2>1
<1>14. ASSUME NEW d \in Datapoint, AddPrimitive(d) \/ AddDatapoint(d)
       PROVE  TellingOK'
  BY <1>3, <1>7, <1>14
<1> QED BY <1>8, <1>9, <1>10, <1>12, <1>13, <1>14

LEMMA InitTelling == Init => TellingOK
<1> SUFFICES ASSUME Init PROVE TellingOK
  OBVIOUS
<1>1. told = [f \in Queries |-> [t \in Topics |-> Untold]] /\ toldRaw = told /\ listeners = {}
  BY DEF Init
<1>2. told \in Knowledge
  BY <1>1 DEF Knowledge
<1>3. \A f \in Queries, t \in Ordered : told[f][t] = Untold
  BY <1>1, StoreAssumption
<1> QED BY <1>1, <1>2, <1>3 DEF TellingOK, Knowing

(* A listener that is told something of a topic whose rows come in order, and misses *)
(* nothing since, knows the latest value of its bucket, whatever is stored, dropped  *)
(* or left out as no change, in batches of any length, told once or twice over.      *)
THEOREM ListenersCorrect == Spec => []ListenersUpToDate
<1> DEFINE Inv == StoreOK /\ TellingOK
<1>1. Init => Inv
  BY InitStore, InitTelling
<1>2. Inv /\ [Next]_vars => Inv'
  BY StepStore, TellingStep
<1>3. Inv => ListenersUpToDate
  <2> SUFFICES ASSUME TellingOK, NEW knows \in {told, toldRaw}, NEW f \in listeners,
                      NEW t \in DOMAIN buckets \intersect Ordered, knows[f][t] # Untold
               PROVE  knows[f][t] = Latest(buckets[t].rows)
    BY DEF ListenersUpToDate
  <2>1. Knowing(knows, listeners, buckets) /\ f \in Queries
    BY DEF TellingOK
  <2> QED BY <2>1 DEF Knowing, Holds
<1> HIDE DEF Inv
<1> QED BY <1>1, <1>2, <1>3, PTL DEF Spec

(* Every variable of the store has its type, for any topics, queries, times, values, *)
(* policies and batches: among others, rows are only ever kept at times that were     *)
(* given, and listeners only told of values that were written.                        *)
THEOREM StoreTypeCorrect == Spec => []TypeOK
<1> DEFINE CacheOK == DOMAIN cache \subseteq Queries /\ \A q \in DOMAIN cache : cache[q] \subseteq Topics
           Inv == StoreOK /\ TellingOK /\ CacheOK
<1>1. Init => Inv
  <2>1. Init => CacheOK
    BY DEF Init
  <2> QED BY <2>1, InitStore, InitTelling
<1>2. ASSUME Inv, [Next]_vars PROVE Inv'
  <2>1. CacheOK'
    <3>1. CASE cache' = CacheAfter(buckets')
      BY <1>2, <3>1 DEF CacheAfter
    <3>2. CASE cache' = cache
      BY <1>2, <3>2
    <3>3. ASSUME NEW q \in Queries, Query(q) PROVE CacheOK'
      <4>1. \A p : Matching(p) \subseteq Topics
        BY <1>2 DEF Matching, StoreOK
      <4> QED BY <1>2, <3>3, <4>1 DEF Query
    <3>4. \/ cache' = CacheAfter(buckets')
          \/ cache' = cache
          \/ \E q \in Queries : Query(q)
      BY <1>2 DEF Next, vars, SetRetention, CreateBucket, AddListener, AddPrimitive,
        AddDatapoint, AddDatapoints, AddDatapointsSilent, Insert
    <3> QED BY <3>1, <3>2, <3>3, <3>4
  <2> QED BY <1>2, <2>1, StepStore, TellingStep
<1>3. Inv => TypeOK
  <2> SUFFICES ASSUME Inv PROVE TypeOK
    OBVIOUS
  <2>1. ASSUME NEW t \in DOMAIN buckets
        PROVE  /\ buckets[t].maxRows \in Policies
               /\ DOMAIN buckets[t].rows \subseteq Times
               /\ \A x \in DOMAIN buckets[t].rows : buckets[t].rows[x] \in Values
    <3>1. buckets[t].maxRows \in Policies /\ buckets[t].rows \in Rows
      BY BucketIs DEF StoreOK
    <3> QED BY <3>1, RowsIs
  <2> QED BY <2>1 DEF TypeOK, StoreOK, TellingOK, Knowledge
<1> HIDE DEF Inv
<1> QED BY <1>1, <1>2, <1>3, PTL DEF Spec

=============================================================================
