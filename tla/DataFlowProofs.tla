--------------------------- MODULE DataFlowProofs ---------------------------
(***************************************************************************)
(* Theorems about the payload's way, for any writers and readers, any      *)
(* modes of subscription and any number of ticks.                          *)
(***************************************************************************)
EXTENDS DataFlow, BucketProofs

-----------------------------------------------------------------------------
(* Views *)

Entry == [time : Nat, value : Nat]
Views == {NewView} \union [{X} -> Entry]

\* Two views of the topic: the one that is written over the other, if it has it.
LEMMA OverwrittenIs ==
  ASSUME NEW v \in Views, NEW w \in Views
  PROVE  /\ Overwritten(v, w) = IF w = NewView THEN v ELSE w
         /\ w = NewView <=> X \notin DOMAIN w
<1>1. DOMAIN NewView = {}
  BY DEF NewView
<1>2. Overwritten(v, w) =
        [t \in DOMAIN v \union DOMAIN w |-> IF t \in DOMAIN w THEN w[t] ELSE v[t]]
  BY DEF Overwritten
<1>3. CASE w = NewView
  <2>1. Overwritten(v, w) = [t \in DOMAIN v |-> v[t]]
    BY <1>1, <1>2, <1>3
  <2>2. v = [t \in DOMAIN v |-> v[t]]
    BY DEF Views, NewView
  <2> QED BY <1>1, <1>3, <2>1, <2>2
<1>4. CASE w # NewView
  <2>1. DOMAIN w = {X} /\ DOMAIN w \union DOMAIN v = {X}
    BY <1>1, <1>4 DEF Views
  <2>2. Overwritten(v, w) = [t \in {X} |-> w[t]]
    BY <1>2, <2>1
  <2>3. w = [t \in {X} |-> w[t]]
    BY <1>4 DEF Views
  <2> QED BY <1>4, <2>1, <2>2, <2>3
<1> QED BY <1>3, <1>4

\* A selection from the topic is a view of it.
LEMMA SelectedIs ==
  ASSUME NEW v, v = [t \in DOMAIN v |-> v[t]], DOMAIN v \subseteq {X},
         X \in DOMAIN v => v[X] \in Entry
  PROVE  v \in Views /\ Overwritten(NewView, v) = v
<1>1. v \in Views
  <2>1. CASE DOMAIN v = {}
    BY <2>1 DEF Views, NewView
  <2>2. CASE DOMAIN v # {}
    <3>1. DOMAIN v = {X}
      BY <2>2
    <3>2. v \in [{X} -> Entry]
      BY <3>1
    <3> QED BY <3>2 DEF Views
  <2> QED BY <2>1, <2>2
<1>2. NewView \in Views
  BY DEF Views
<1>3. Overwritten(NewView, v) = IF v = NewView THEN NewView ELSE v
  BY <1>1, <1>2, OverwrittenIs
<1> QED BY <1>1, <1>3

-----------------------------------------------------------------------------
(* Buckets *)

Rows == UNION {[D -> Nat] : D \in {E \in SUBSET Nat : IsFiniteSet(E)}}
Open == [rows : Rows, maxRows : {NoLimit}]
Message == [topic : {X}, time : Nat, value : Nat]

LEMMA OpenIs ==
  ASSUME NEW b \in Open
  PROVE  /\ IsBucket(b) /\ b.maxRows = NoLimit /\ Kept(b) = b.rows
         /\ b = [rows |-> b.rows, maxRows |-> NoLimit]
         /\ DOMAIN b.rows \in SUBSET Nat
         /\ \A x \in DOMAIN b.rows : b.rows[x] \in Nat
<1>1. b.rows \in Rows /\ b.maxRows = NoLimit /\ b = [rows |-> b.rows, maxRows |-> NoLimit]
  BY DEF Open
<1>2. PICK D \in SUBSET Nat : IsFiniteSet(D) /\ b.rows \in [D -> Nat]
  BY <1>1 DEF Rows
<1>3. /\ DOMAIN b.rows = D
      /\ b.rows = [x \in DOMAIN b.rows |-> b.rows[x]]
      /\ \A x \in D : b.rows[x] \in Nat
  BY <1>2
<1>4. IsRows(b.rows)
  BY <1>2, <1>3 DEF IsRows
<1>5. Kept(b) = b.rows
  BY <1>1 DEF Kept, IsFull
<1>6. IsBucket(b)
  BY <1>1, <1>4 DEF IsBucket
<1> QED BY <1>1, <1>2, <1>3, <1>5, <1>6

\* What is known of a topic: its latest value, if it came before the time.
Known(rows, at, known) ==
  DOMAIN rows # {} /\ LatestTime(rows) < at => Latest(rows) \in known

LEMMA AddedOpen ==
  ASSUME NEW b \in Open, NEW d \in Message
  PROVE  /\ Added(b, d) \in Open
         /\ DOMAIN Added(b, d).rows # {}
         /\ DOMAIN Added(b, d).rows \subseteq DOMAIN b.rows \union {d.time}
<1> DEFINE rows == b.rows
           row == [x \in DOMAIN rows \union {d.time} |-> IF x = d.time THEN d.value ELSE rows[x]]
<1>1. /\ b = [rows |-> rows, maxRows |-> NoLimit] /\ Kept(b) = rows
      /\ DOMAIN rows \in SUBSET Nat
      /\ \A x \in DOMAIN rows : rows[x] \in Nat
      /\ IsFiniteSet(DOMAIN rows)
      /\ IsRows(rows)
  BY OpenIs DEF IsBucket, IsRows
<1>2. d.time \in Nat /\ d.value \in Nat
  BY DEF Message
<1>3. Added(b, d) = [rows |-> IF Stores(b, d) THEN row ELSE rows, maxRows |-> NoLimit]
  BY <1>1 DEF Added, Row
<1>4. row \in Rows
  <2> DEFINE D == DOMAIN rows \union {d.time}
  <2>1. IsFiniteSet(D) /\ D \in SUBSET Nat
    BY <1>1, <1>2, FS_AddElement
  <2>2. row \in [D -> Nat]
    BY <1>1, <1>2
  <2> HIDE DEF D, row
  <2> QED BY <2>1, <2>2 DEF Rows
<1>5. ~Stores(b, d) => DOMAIN rows # {}
  BY <1>1, NoRowsIs DEF Stores, Differs
<1>6. DOMAIN row = DOMAIN rows \union {d.time}
  OBVIOUS
<1>7. rows \in Rows
  BY DEF Open
<1> HIDE DEF row, rows
<1>8. Added(b, d).rows = IF Stores(b, d) THEN row ELSE rows
  BY <1>3
<1>9. Added(b, d) \in Open
  BY <1>3, <1>4, <1>7 DEF Open
<1>10. DOMAIN Added(b, d).rows # {} /\ DOMAIN Added(b, d).rows \subseteq DOMAIN rows \union {d.time}
  BY <1>5, <1>6, <1>8
<1> QED BY <1>9, <1>10 DEF rows

\* A datapoint that comes too late for the time is known, or the bucket keeps its
\* latest value.
LEMMA AddedKnown ==
  ASSUME NEW b \in Open, NEW d \in Message, NEW at \in Int, NEW known,
         Known(b.rows, at, known), d.time < at => d.value \in known
  PROVE  Known(Added(b, d).rows, at, known)
<1> DEFINE rows == b.rows
           new == Added(b, d).rows
           l == LatestTime(rows)
           m == LatestTime(new)
<1>1. /\ IsRows(rows) /\ DOMAIN rows \in SUBSET Nat
      /\ Kept(b) = rows /\ b = [rows |-> rows, maxRows |-> NoLimit]
      /\ Added(b, d) \in Open
  BY OpenIs, AddedOpen DEF IsBucket
<1>2. IsRows(new) /\ DOMAIN new \in SUBSET Nat
  BY <1>1, OpenIs DEF IsBucket
<1>3. d.time \in Nat
  BY DEF Message
<1>4. new = IF Stores(b, d) THEN Row(rows, d) ELSE rows
  BY <1>1 DEF Added
<1>5. CASE ~Stores(b, d)
  BY <1>4, <1>5
<1>6. CASE Stores(b, d)
  <2>1. /\ DOMAIN new = DOMAIN rows \union {d.time}
        /\ \A x \in DOMAIN new : new[x] = IF x = d.time THEN d.value ELSE rows[x]
    BY <1>4, <1>6 DEF Row
  <2>2. m \in DOMAIN new /\ \A y \in DOMAIN new : y <= m
    BY <1>2, <2>1, LatestIs
  <2>3. DOMAIN rows # {} => l \in DOMAIN rows /\ \A y \in DOMAIN rows : y <= l
    BY <1>1, LatestIs
  <2>4. CASE m = d.time
    BY <2>1, <2>2, <2>4 DEF Known, Latest
  <2>5. CASE m # d.time
    <3>1. m \in DOMAIN rows /\ new[m] = rows[m]
      BY <2>1, <2>2, <2>5
    <3>2. l \in DOMAIN rows /\ l <= m /\ m <= l
      BY <2>1, <2>2, <2>3, <3>1
    <3> HIDE DEF l, m, rows, new
    <3>3. m = l
      BY <1>1, <3>1, <3>2
    <3> QED BY <3>1, <3>3 DEF Known, Latest, l, m, rows, new
  <2> QED BY <2>4, <2>5
<1> QED BY <1>5, <1>6

\* The buckets along the datapoints of a call.
LEMMA AlongIs ==
  ASSUME NEW b \in Open, NEW ds \in Seq(Message)
  PROVE  /\ BucketAlong(b, ds) \in [0..Len(ds) -> Open]
         /\ BucketAlong(b, ds)[0] = b
         /\ \A i \in 1..Len(ds) :
              BucketAlong(b, ds)[i] = Added(BucketAlong(b, ds)[i - 1], ds[i])
<1> DEFINE n == Len(ds)
           step == [i \in 1..n |-> [c \in Open |-> Added(c, ds[i])]]
           Body(f) == [i \in 0..n |-> IF i = 0 THEN b ELSE Added(f[i - 1], ds[i])]
<1>1. n \in Nat /\ \A i \in 1..n : ds[i] \in Message
  OBVIOUS
<1> HIDE DEF n
<1>2. step \in [1..n -> [Open -> Open]]
  <2>1. ASSUME NEW i \in 1..n PROVE [c \in Open |-> Added(c, ds[i])] \in [Open -> Open]
    BY <1>1, AddedOpen
  <2> QED BY <2>1
<1>3. \A i \in 1..n : \A c \in Open : step[i][c] = Added(c, ds[i])
  OBVIOUS
<1> HIDE DEF step
<1>4. PICK f \in [0..n -> Open] : f[0] = b /\ \A i \in 1..n : f[i] = step[i][f[i - 1]]
  <2>1. \E f : Iterates(f, n, Open, b, step)
    BY <1>1, <1>2, RecursionAlong
  <2> QED BY <2>1 DEF Iterates
<1>5. \A i \in 1..n : i - 1 \in 0..n /\ i # 0 /\ i \in 0..n
  BY <1>1
<1>6. f = Body(f)
  <2>0. f = [i \in 0..n |-> f[i]]
    OBVIOUS
  <2>1. \A i \in 0..n : f[i] = IF i = 0 THEN b ELSE Added(f[i - 1], ds[i])
    <3> SUFFICES ASSUME NEW i \in 0..n
                 PROVE  f[i] = IF i = 0 THEN b ELSE Added(f[i - 1], ds[i])
      OBVIOUS
    <3>1. CASE i = 0
      BY <1>4, <3>1
    <3>2. CASE i # 0
      <4>1. i \in 1..n
        BY <3>2
      <4> QED BY <1>3, <1>4, <1>5, <3>2, <4>1
    <3> QED BY <3>1, <3>2
  <2> QED BY <2>0, <2>1, Zenon
<1> DEFINE g == CHOOSE h : h = Body(h)
<1>7. g = Body(g)
  BY <1>6, Zenon
<1>8. g[0] = b /\ \A i \in 1..n : g[i] = Added(g[i - 1], ds[i])
  <2> HIDE DEF g
  <2>1. 0 \in 0..n
    BY <1>1
  <2> QED BY <1>5, <1>7, <2>1
<1>9. g = f
  <2> HIDE DEF g
  <2> DEFINE Same == {i \in 0..n : g[i] = f[i]}
  <2>1. 0 \in Same
    BY <1>1, <1>4, <1>8
  <2>2. ASSUME NEW i \in 0..(n - 1), i \in Same PROVE i + 1 \in Same
    <3>1. i + 1 \in 1..n /\ i + 1 \in 0..n /\ (i + 1) - 1 = i
      BY <1>1
    <3>2. g[i + 1] = Added(g[i], ds[i + 1])
      BY <1>8, <3>1
    <3>3. f[i] \in Open
      BY <1>1, <1>4
    <3>4. f[i + 1] = Added(f[i], ds[i + 1])
      BY <1>3, <1>4, <3>1, <3>3
    <3> QED BY <2>2, <3>1, <3>2, <3>4
  <2>3. \A i \in 0..n : g[i] = f[i]
    <3> HIDE DEF Same
    <3>1. 0..n \subseteq Same
      BY <1>1, <2>1, <2>2, IntervalInduction
    <3> QED BY <3>1 DEF Same
  <2>4. g = [i \in 0..n |-> g[i]]
    <3> DEFINE h == Body(g)
    <3>1. h = [i \in 0..n |-> h[i]]
      OBVIOUS
    <3> HIDE DEF h
    <3> QED BY <1>7, <3>1 DEF h
  <2> QED BY <2>3, <2>4
<1>10. BucketAlong(b, ds) = g
  BY DEF BucketAlong, n
<1> HIDE DEF g
<1> QED BY <1>8, <1>9, <1>10 DEF n

\* What every insertion preserves is preserved by a call.
LEMMA AlongStays ==
  ASSUME NEW b \in Open, NEW ds \in Seq(Message), NEW S, b \in S,
         \A i \in DOMAIN ds : \A c \in Open : c \in S => Added(c, ds[i]) \in S
  PROVE  BucketAlong(b, ds)[Len(ds)] \in S \intersect Open
<1> DEFINE n == Len(ds)
           g == BucketAlong(b, ds)
           P == {i \in 0..n : g[i] \in S}
<1>1. n \in Nat /\ DOMAIN ds = 1..n
  OBVIOUS
<1>2. g \in [0..n -> Open] /\ g[0] = b /\ \A i \in 1..n : g[i] = Added(g[i - 1], ds[i])
  BY AlongIs
<1> HIDE DEF g, n
<1>3. 0 \in P
  BY <1>1, <1>2
<1>4. ASSUME NEW i \in 0..(n - 1), i \in P PROVE i + 1 \in P
  <2>1. i + 1 \in 1..n /\ i + 1 \in 0..n /\ (i + 1) - 1 = i /\ i \in 0..n
    BY <1>1
  <2>2. g[i + 1] = Added(g[i], ds[i + 1]) /\ g[i] \in Open /\ g[i] \in S
    BY <1>2, <1>4, <2>1
  <2> QED BY <1>1, <2>1, <2>2
<1>5. n \in 0..n
  BY <1>1
<1>6. n \in P
  <2> HIDE DEF P
  <2>1. 0..n \subseteq P
    BY <1>1, <1>3, <1>4, IntervalInduction
  <2> QED BY <1>5, <2>1
<1> QED BY <1>2, <1>5, <1>6 DEF g, n

Fresh == [rows |-> NoRows, maxRows |-> NoLimit]

\* The bucket of the topic, or none before the first datapoint.
IsStore(bs) ==
  /\ bs = [topic \in DOMAIN bs |-> bs[topic]]
  /\ DOMAIN bs \subseteq {X}
  /\ X \in DOMAIN bs => bs[X] \in Open /\ DOMAIN bs[X].rows # {}

LEMMA BucketOfIs ==
  ASSUME NEW bs, IsStore(bs)
  PROVE  /\ BucketOf(bs) \in Open
         /\ X \in DOMAIN bs => BucketOf(bs) = bs[X]
         /\ X \notin DOMAIN bs => DOMAIN BucketOf(bs).rows = {}
<1>1. NoRows \in Rows /\ DOMAIN NoRows = {}
  <2>1. NoRows \in [{} -> Nat]
    BY DEF NoRows
  <2>2. IsFiniteSet({}) /\ {} \in SUBSET Nat
    BY FS_EmptySet
  <2> QED BY <2>1, <2>2 DEF Rows
<1>2. Fresh \in Open
  BY <1>1 DEF Fresh, Open
<1> QED BY <1>1, <1>2 DEF BucketOf, Fresh, IsStore

\* The store after a call, and what holds of it.
LEMMA StoredIs ==
  ASSUME NEW bs, IsStore(bs), NEW ds \in Seq(Message)
  PROVE  /\ IsStore(Stored(bs, ds))
         /\ ds = <<>> => Stored(bs, ds) = bs
         /\ ds # <<>> =>
              /\ X \in DOMAIN Stored(bs, ds)
              /\ Stored(bs, ds)[X] = BucketAlong(BucketOf(bs), ds)[Len(ds)]
<1> DEFINE b == BucketOf(bs)
           n == Len(ds)
           last == BucketAlong(b, ds)[n]
<1>1. CASE ds = <<>>
  BY <1>1 DEF Stored
<1>2. CASE ds # <<>>
  <2>1. n \in 1..n /\ n - 1 \in 0..n /\ n \in 0..n /\ ds[n] \in Message
    BY <1>2
  <2>2. last \in Open /\ DOMAIN last.rows # {}
    <3> DEFINE g == BucketAlong(b, ds)
    <3>1. g \in [0..n -> Open] /\ \A i \in 1..n : g[i] = Added(g[i - 1], ds[i])
      <4>1. b \in Open
        BY BucketOfIs
      <4> HIDE DEF b
      <4> QED BY <4>1, AlongIs
    <3> HIDE DEF g, n
    <3>2. g[n] \in Open /\ g[n - 1] \in Open /\ g[n] = Added(g[n - 1], ds[n])
      BY <2>1, <3>1
    <3>3. DOMAIN g[n].rows # {}
      BY <2>1, <3>2, AddedOpen
    <3> QED BY <3>2, <3>3 DEF g
  <2>3. Stored(bs, ds) = [topic \in DOMAIN bs \union {X} |->
                            IF topic \in {X} THEN last ELSE bs[topic]]
    BY <1>2 DEF Stored, Overwritten
  <2> HIDE DEF last
  <2>4. DOMAIN bs \union {X} = {X}
    BY DEF IsStore
  <2>5. Stored(bs, ds) = [topic \in {X} |-> last]
    BY <2>3, <2>4
  <2>6. IsStore(Stored(bs, ds)) /\ DOMAIN Stored(bs, ds) = {X} /\ Stored(bs, ds)[X] = last
    BY <2>2, <2>5 DEF IsStore
  <2> QED BY <1>2, <2>6 DEF last
<1> QED BY <1>1, <1>2

-----------------------------------------------------------------------------
(* Types *)

Ages == {Never} \union Nat
Stages == {"none", "spawned", "fed", "asked", "drained", "done"}
Execution == [at : Stages, inputs : Views, now : Nat, last : Ages]
Asked == [task : Tasks, now : Nat, last : Ages]

BrokerTypes ==
  /\ ticks \in 0..MaxTicks /\ time \in Nat
  /\ lastRun \in [Tasks -> Ages]
  /\ lastUpdate = [t \in Tasks |-> lastUpdate[t]]
  /\ pc \in {"idle", "launch", "await"}
  /\ todo \in SUBSET Tasks
  /\ launching \in Tasks \union {NoTask}
  /\ runs \in [Tasks -> Execution]
  /\ IsStore(buckets)
  /\ sent = [r \in Readers |-> sent[r]]
  /\ late = [r \in Readers |-> late[r]]

\* The two queues of each direction, and the node.
NodeTypes ==
  /\ inputs \in Seq(Message) /\ requests \in Seq(Asked)
  /\ outputs \in Seq(Message) /\ responses \in [Tasks -> Nat]
  /\ view \in Views /\ batch \in Seq(Asked) /\ writes \in Nat
  /\ nodePc = "execute" => batch # <<>>
  /\ nodePc # "execute" => batch = <<>>

Types == BrokerTypes /\ NodeTypes

LEMMA NewestIs ==
  ASSUME Types, X \in DOMAIN buckets
  PROVE  /\ Newest(buckets[X].rows) \in Entry
         /\ LatestTime(buckets[X].rows) \in DOMAIN buckets[X].rows
         /\ \A x \in DOMAIN buckets[X].rows : x <= LatestTime(buckets[X].rows)
         /\ buckets[X].rows # NoRows
<1> DEFINE rows == buckets[X].rows
<1>1. buckets[X] \in Open /\ DOMAIN rows # {}
  BY DEF Types, BrokerTypes, IsStore
<1>2. IsRows(rows) /\ DOMAIN rows \in SUBSET Nat /\ \A x \in DOMAIN rows : rows[x] \in Nat
  BY <1>1, OpenIs DEF IsBucket
<1>3. LatestTime(rows) \in DOMAIN rows /\ \A x \in DOMAIN rows : x <= LatestTime(rows)
  BY <1>1, <1>2, LatestIs
<1>4. rows # NoRows
  BY <1>1 DEF NoRows
<1> HIDE DEF rows
<1>5. Newest(rows) \in Entry
  BY <1>2, <1>3 DEF Newest, Latest, Entry
<1> QED BY <1>3, <1>4, <1>5 DEF rows

\* From when on a launch asks for rows.
AskedFrom(t) ==
  IF X \in DOMAIN lastUpdate[t] THEN lastUpdate[t][X]
  ELSE IF lastRun[t] = Never THEN 0 ELSE lastRun[t]

\* What a launch selects: the newest row, and for which subscriptions.
LEMMA TaskInputsIs ==
  ASSUME FlowAssumption, Types, NEW t \in Tasks, AskedFrom(t) \in Nat
  PROVE  /\ TaskInputs(t) \in Views
         /\ X \in DOMAIN TaskInputs(t) =>
              X \in DOMAIN buckets /\ TaskInputs(t)[X] = Newest(buckets[X].rows)
         /\ t \in Readers /\ X \in DOMAIN buckets =>
              \/ X \in DOMAIN TaskInputs(t)
              \/ LatestTime(buckets[X].rows) < AskedFrom(t)
<1> DEFINE New(topic) == Newest(buckets[topic].rows)
           All == {topic \in DOMAIN buckets : buckets[topic].rows # NoRows}
           After(topic) == IF topic \in DOMAIN lastUpdate[t] THEN lastUpdate[t][topic]
                           ELSE IF lastRun[t] = Never THEN 0 ELSE lastRun[t]
           Young == {topic \in DOMAIN buckets :
                       TimesFrom(buckets[topic].rows, After(topic)) # {}}
<1>1. All \in SUBSET {X} /\ Young \in SUBSET {X}
  BY DEF Types, BrokerTypes, IsStore
<1>2. X \in DOMAIN buckets => New(X) \in Entry
  BY NewestIs
<1>3. NewView \in Views
  BY DEF Views
<1>4. ASSUME NEW S \in SUBSET {X}, X \in S => New(X) \in Entry
      PROVE  /\ Overwritten(NewView, [topic \in S |-> New(topic)]) \in Views
             /\ X \in DOMAIN Overwritten(NewView, [topic \in S |-> New(topic)]) <=> X \in S
             /\ X \in S => Overwritten(NewView, [topic \in S |-> New(topic)])[X] = New(X)
  <2> DEFINE v == [topic \in S |-> New(topic)]
  <2> HIDE DEF New
  <2>1. v = [topic \in S |-> v[topic]] /\ DOMAIN v = S /\ (X \in S => v[X] = New(X))
    OBVIOUS
  <2> HIDE DEF v
  <2>2. v \in Views /\ Overwritten(NewView, v) = v
    BY <1>4, <2>1, SelectedIs
  <2> QED BY <2>1, <2>2 DEF v
<1>5. CASE t \notin Readers
  <2>1. TaskInputs(t) = NewView /\ DOMAIN NewView = {}
    BY <1>5 DEF TaskInputs, NewView
  <2> QED BY <1>3, <1>5, <2>1
<1>6. CASE t \in Readers /\ Mode[t] = "latest"
  <2>1. TaskInputs(t) = Overwritten(NewView, [topic \in All |-> New(topic)])
    BY <1>6 DEF TaskInputs, AddQuery
  <2>2. X \in DOMAIN buckets => X \in All
    BY NewestIs
  <2>3. X \in All => X \in DOMAIN buckets
    OBVIOUS
  <2> HIDE DEF All
  <2> QED BY <1>1, <1>2, <1>4, <2>1, <2>2, <2>3
<1>7. CASE t \in Readers /\ Mode[t] # "latest"
  <2>1. TaskInputs(t) = Overwritten(NewView, [topic \in Young |-> New(topic)])
    BY <1>7 DEF TaskInputs, AddQueryAfterPer
  <2>2. X \in DOMAIN buckets => X \in Young \/ LatestTime(buckets[X].rows) < AskedFrom(t)
    <3> SUFFICES ASSUME X \in DOMAIN buckets, ~(LatestTime(buckets[X].rows) < AskedFrom(t))
                 PROVE  X \in Young
      OBVIOUS
    <3> DEFINE l == LatestTime(buckets[X].rows)
    <3>1. l \in DOMAIN buckets[X].rows
      BY NewestIs
    <3>2. l \in Nat
      BY <3>1, OpenIs DEF Types, BrokerTypes, IsStore
    <3>3. After(X) = AskedFrom(t)
      BY DEF AskedFrom
    <3> HIDE DEF l, After
    <3>4. After(X) <= l
      BY <3>2, <3>3 DEF l
    <3> QED BY <3>1, <3>4 DEF TimesFrom
  <2>3. X \in Young => X \in DOMAIN buckets
    OBVIOUS
  <2> HIDE DEF Young
  <2> QED BY <1>1, <1>2, <1>4, <2>1, <2>2, <2>3
<1> QED BY <1>5, <1>6, <1>7

\* The view after datapoints came in has the last of them.
LEMMA FilledIs ==
  ASSUME NEW v \in Views, NEW ds \in Seq(Message)
  PROVE  /\ Filled(v, ds) \in Views
         /\ ds = <<>> => Filled(v, ds) = v
         /\ ds # <<>> =>
              /\ X \in DOMAIN Filled(v, ds)
              /\ Filled(v, ds)[X] = [time |-> ds[Len(ds)].time, value |-> ds[Len(ds)].value]
<1> DEFINE n == Len(ds)
           S == {ds[i].topic : i \in DOMAIN ds}
           About(topic) == {i \in DOMAIN ds : ds[i].topic = topic}
           Final(topic) == ds[CHOOSE i \in About(topic) : \A j \in About(topic) : j <= i]
           w == [topic \in S |-> [time |-> Final(topic).time, value |-> Final(topic).value]]
<1>1. n \in Nat /\ DOMAIN ds = 1..n /\ \A i \in 1..n : ds[i] \in Message
  OBVIOUS
<1>2. Filled(v, ds) = Overwritten(v, w)
  BY DEF Filled
<1>3. \A i \in 1..n : ds[i].topic = X /\ ds[i].time \in Nat /\ ds[i].value \in Nat
  BY <1>1 DEF Message
<1>4. CASE ds = <<>>
  <2>1. DOMAIN ds = {}
    BY <1>4
  <2>2. w = NewView
    BY <2>1 DEF NewView
  <2> HIDE DEF w
  <2>3. w \in Views
    BY <2>2 DEF Views
  <2> QED BY <1>2, <1>4, <2>2, <2>3, OverwrittenIs
<1>5. CASE ds # <<>>
  <2>1. n \in 1..n
    BY <1>5
  <2> HIDE DEF n
  <2>2. S = {X} /\ About(X) = 1..n
    BY <1>1, <1>3, <2>1
  <2>3. (CHOOSE i \in 1..n : \A j \in 1..n : j <= i) = n
    <3>1. n \in 1..n /\ \A j \in 1..n : j <= n
      BY <1>1, <2>1
    <3>2. \A i \in 1..n : (\A j \in 1..n : j <= i) => i = n
      BY <1>1, <2>1
    <3> QED BY <3>1, <3>2
  <2>4. Final(X) = ds[n]
    BY <2>2, <2>3
  <2> HIDE DEF S, Final
  <2>5. DOMAIN w = {X} /\ w[X] = [time |-> ds[n].time, value |-> ds[n].value]
    BY <2>2, <2>4
  <2>6. w[X] \in Entry
    BY <1>3, <2>1, <2>5 DEF Entry
  <2>7. w \in Views
    <3>1. w = [topic \in DOMAIN w |-> w[topic]]
      OBVIOUS
    <3> HIDE DEF w
    <3> QED BY <2>5, <2>6, <3>1, SelectedIs
  <2> HIDE DEF w
  <2>8. Overwritten(v, w) = w
    BY <2>5, <2>7, OverwrittenIs
  <2> QED BY <1>2, <1>5, <2>5, <2>7, <2>8 DEF n
<1> QED BY <1>4, <1>5

\* What the node's own filter lets through.
LEMMA GivenIs ==
  ASSUME Types, NEW request, X \in DOMAIN view,
         \/ Mode[request.task] = "latest"
         \/ (IF request.last = Never THEN 0 ELSE request.last) <= view[X].time
  PROVE  X \in DOMAIN Given(request) /\ Given(request)[X] = view[X]
<1> DEFINE Since == IF request.last = Never THEN 0 ELSE request.last
           All == UnderQuery(view, X)
           Young == {topic \in All : Since <= view[topic].time}
<1>1. X \in All
  BY DEF UnderQuery, IsChildOf, IsPrefix, X
<1>2. Given(request) = IF Mode[request.task] = "latest"
                       THEN Overwritten(NewView, [topic \in All |-> view[topic]])
                       ELSE Overwritten(NewView, [topic \in Young |-> view[topic]])
  BY DEF Given, AddQueryFromView, AddQueryAfterFromView
<1>3. \A topic \in All : topic = X
  BY DEF UnderQuery, Types, NodeTypes, Views, NewView
<1>4. view[X] \in Entry
  BY DEF Types, NodeTypes, Views, NewView
<1>5. ASSUME NEW S \in SUBSET All, X \in S
      PROVE  /\ X \in DOMAIN Overwritten(NewView, [topic \in S |-> view[topic]])
             /\ Overwritten(NewView, [topic \in S |-> view[topic]])[X] = view[X]
  <2> DEFINE v == [topic \in S |-> view[topic]]
  <2>1. v = [topic \in S |-> v[topic]] /\ DOMAIN v = S /\ v[X] = view[X] /\ S \subseteq {X}
    BY <1>3, <1>5
  <2> HIDE DEF v
  <2>2. Overwritten(NewView, v) = v
    BY <1>4, <2>1, SelectedIs
  <2> QED BY <1>5, <2>1, <2>2 DEF v
<1> HIDE DEF All
<1>6. CASE Mode[request.task] = "latest"
  BY <1>1, <1>2, <1>5, <1>6
<1>7. CASE Mode[request.task] # "latest"
  <2>1. X \in Young
    BY <1>1, <1>7
  <2>2. Young \in SUBSET All
    OBVIOUS
  <2> HIDE DEF Young
  <2> QED BY <1>2, <1>5, <1>7, <2>1, <2>2
<1> QED BY <1>6, <1>7

-----------------------------------------------------------------------------
(* Times *)

\* Nothing is newer than the broker's time, and no topic update is newer than the
\* task's last execution.
BrokerInTime ==
  /\ \A t \in Tasks :
       /\ lastRun[t] <= time
       /\ \A topic \in DOMAIN lastUpdate[t] : lastUpdate[t][topic] \in 0..lastRun[t]
       /\ runs[t].now <= time
       /\ X \in DOMAIN runs[t].inputs => runs[t].inputs[X].time <= time
  /\ X \in DOMAIN buckets => \A x \in DOMAIN buckets[X].rows : x <= time

NodeInTime ==
  /\ \A i \in DOMAIN inputs : inputs[i].time <= time
  /\ \A i \in DOMAIN outputs : outputs[i].time <= time
  /\ \A i \in DOMAIN requests : requests[i].now <= time
  /\ \A i \in DOMAIN batch : batch[i].now <= time
  /\ X \in DOMAIN view => view[X].time <= time

InTime == BrokerInTime /\ NodeInTime

LEMMA AskedFromType ==
  ASSUME Types, InTime, NEW t \in Tasks
  PROVE  AskedFrom(t) \in Nat /\ (lastRun[t] # Never => AskedFrom(t) <= lastRun[t])
         /\ (lastRun[t] = Never => AskedFrom(t) = 0)
<1>1. lastRun[t] \in Ages
  BY DEF Types, BrokerTypes
<1>2. X \in DOMAIN lastUpdate[t] => lastUpdate[t][X] \in 0..lastRun[t]
  BY DEF InTime, BrokerInTime
<1> QED BY <1>1, <1>2 DEF AskedFrom, Ages, Never

\* The datapoint an execution sends for its inputs.
LEMMA DatapointIs ==
  ASSUME Types, NEW t \in Tasks, X \in DOMAIN runs[t].inputs
  PROVE  /\ Datapoint(runs[t].inputs, X) \in Message
         /\ runs[t].inputs[X] \in Entry
         /\ Datapoint(runs[t].inputs, X).time = runs[t].inputs[X].time
         /\ Datapoint(runs[t].inputs, X).value = runs[t].inputs[X].value
<1>1. runs[t].inputs \in Views
  BY DEF Types, BrokerTypes, Execution
<1>2. runs[t].inputs[X] \in Entry
  BY <1>1 DEF Views, NewView
<1> QED BY <1>2 DEF Datapoint, Message, Entry

LEMMA RequestIs ==
  ASSUME Types, NEW t \in Tasks
  PROVE  Request(t) \in Asked /\ Request(t).now = runs[t].now /\ Request(t).task = t
BY DEF Types, BrokerTypes, Execution, Request, Asked

\* What a spawned execution puts into the queue of inputs.
Fed(t) == IF X \in DOMAIN runs[t].inputs THEN <<Datapoint(runs[t].inputs, X)>> ELSE <<>>

LEMMA FedIs ==
  ASSUME Types, NEW t \in Tasks
  PROVE  /\ inputs \o Fed(t) \in Seq(Message)
         /\ X \notin DOMAIN runs[t].inputs => inputs \o Fed(t) = inputs
         /\ X \in DOMAIN runs[t].inputs =>
              inputs \o Fed(t) = Append(inputs, Datapoint(runs[t].inputs, X))
<1>1. inputs \in Seq(Message)
  BY DEF Types, NodeTypes
<1>2. CASE X \notin DOMAIN runs[t].inputs
  <2>1. Fed(t) = <<>>
    BY <1>2 DEF Fed
  <2>2. inputs \o <<>> = inputs
    BY <1>1
  <2> QED BY <1>1, <1>2, <2>1, <2>2
<1>3. CASE X \in DOMAIN runs[t].inputs
  <2> DEFINE d == Datapoint(runs[t].inputs, X)
  <2>1. d \in Message
    BY <1>3, DatapointIs
  <2>2. Fed(t) = <<d>>
    BY <1>3 DEF Fed
  <2> HIDE DEF d
  <2>3. inputs \o <<d>> = Append(inputs, d) /\ Append(inputs, d) \in Seq(Message)
    BY <1>1, <2>1
  <2> QED BY <1>3, <2>2, <2>3 DEF d
<1> QED BY <1>2, <1>3

LEMMA InitTypes == Init => Types /\ InTime
<1> SUFFICES ASSUME Init PROVE Types /\ InTime
  OBVIOUS
<1> USE FlowAssumption DEF Init
<1>1. NewView \in Views /\ DOMAIN NewView = {}
  BY DEF Views, NewView
<1>2. BrokerTypes
  <2>1. IsStore(buckets)
    BY DEF IsStore
  <2>2. runs \in [Tasks -> Execution]
    BY <1>1 DEF NotRunning, Execution, Stages, Ages, Never
  <2> QED BY <2>1, <2>2 DEF BrokerTypes, Ages, Never
<1>3. NodeTypes
  BY <1>1 DEF NodeTypes
<1>4. BrokerInTime
  BY <1>1 DEF BrokerInTime, NotRunning, Never
<1>5. NodeInTime
  BY <1>1 DEF NodeInTime
<1> QED BY <1>2, <1>3, <1>4, <1>5 DEF Types, InTime

\* tick keeps the types of the broker and touches nothing of the node.
LEMMA TickTypes ==
  ASSUME Types, InTime, Tick
  PROVE  BrokerTypes'
<1> USE FlowAssumption DEF Types, BrokerTypes, tickFrame
<1>1. CASE StartTick
  BY <1>1 DEF StartTick
<1>2. ASSUME NEW t \in Tasks, Launch(t)
      PROVE  BrokerTypes'
  <2>1. TaskInputs(t) \in Views
    BY AskedFromType, TaskInputsIs
  <2>2. runs' \in [Tasks -> Execution]
    BY <1>2, <2>1 DEF Launch, Execution, Stages
  <2>3. sent' = [r \in Readers |-> sent'[r]]
    BY <1>2 DEF Launch
  <2> QED BY <1>2, <2>2, <2>3 DEF Launch
<1>3. CASE RecordFirst \/ RecordAfterRun
  <2>1. launching \in Tasks
    BY <1>3 DEF RecordFirst, RecordAfterRun
  <2>2. lastRun' \in [Tasks -> Ages]
    BY <1>3, <2>1 DEF RecordFirst, RecordAfterRun, Recorded, Ages
  <2>3. lastUpdate' = [t \in Tasks |-> lastUpdate'[t]]
    BY <1>3 DEF RecordFirst, RecordAfterRun
  <2> QED BY <1>3, <2>2, <2>3 DEF RecordFirst, RecordAfterRun, Recorded
<1>4. ASSUME NEW delta \in Deltas, UpdateTime(delta)
      PROVE  BrokerTypes'
  <2>1. time' \in Nat
    BY <1>4 DEF UpdateTime
  <2> QED BY <1>4, <2>1 DEF UpdateTime
<1>5. CASE TickReturns
  <2>1. runs' \in [Tasks -> Execution]
    BY <1>5 DEF TickReturns, NotRunning, Execution, Stages, Ages, Views
  <2> QED BY <1>5, <2>1 DEF TickReturns
<1> QED BY <1>1, <1>2, <1>3, <1>4, <1>5 DEF Tick

LEMMA TickFrameIs ==
  ASSUME Tick
  PROVE  UNCHANGED tickFrame
BY DEF Tick, StartTick, Launch, RecordFirst, RecordAfterRun, Recorded, UpdateTime, TickReturns

LEMMA RunTypes ==
  ASSUME Types, NEW t \in Tasks, Run(t)
  PROVE  /\ Types'
         /\ UNCHANGED runFrame
         /\ \A u \in Tasks : runs'[u] = [runs[u] EXCEPT !.at = runs'[u].at]
         /\ \A u \in Tasks : u # t => runs'[u] = runs[u]
<1> USE DEF Types, BrokerTypes, NodeTypes
<1>1. ASSUME NEW at \in Stages, runs' = [runs EXCEPT ![t].at = at]
      PROVE  /\ runs' \in [Tasks -> Execution]
             /\ \A u \in Tasks : runs'[u] = [runs[u] EXCEPT !.at = runs'[u].at]
             /\ \A u \in Tasks : u # t => runs'[u] = runs[u]
  <2>1. runs[t] \in Execution
    OBVIOUS
  <2>2. [runs[t] EXCEPT !.at = at] \in Execution /\ [runs[t] EXCEPT !.at = at].at = at
    BY <2>1 DEF Execution
  <2>3. /\ \A u \in Tasks : u # t => runs'[u] = runs[u]
        /\ runs'[t] = [runs[t] EXCEPT !.at = at]
    BY <1>1
  <2>4. \A u \in Tasks : runs[u] = [runs[u] EXCEPT !.at = runs[u].at]
    BY DEF Execution
  <2>5. runs' \in [Tasks -> Execution]
    BY <1>1, <2>2
  <2>6. \A u \in Tasks : runs'[u] = [runs[u] EXCEPT !.at = runs'[u].at]
    BY <2>2, <2>3, <2>4
  <2> QED BY <2>3, <2>5, <2>6
<1>2. CASE RunFeeds(t)
  <2>1. runs' = [runs EXCEPT ![t].at = "fed"] /\ inputs' = inputs \o Fed(t)
    BY <1>2 DEF RunFeeds, Fed
  <2>2. "fed" \in Stages /\ inputs' \in Seq(Message)
    BY <2>1, FedIs DEF Stages
  <2> QED BY <1>1, <1>2, <2>1, <2>2 DEF RunFeeds, runFrame, brokerVars, nodeVars
<1>3. CASE RunAsks(t)
  <2>1. runs' = [runs EXCEPT ![t].at = "asked"] /\ requests' = Append(requests, Request(t))
    BY <1>3 DEF RunAsks
  <2>2. "asked" \in Stages /\ requests' \in Seq(Asked)
    BY <2>1, RequestIs DEF Stages
  <2> QED BY <1>1, <1>3, <2>1, <2>2 DEF RunAsks, runFrame, brokerVars, nodeVars
<1>4. CASE RunDrains(t)
  <2>1. runs' = [runs EXCEPT ![t].at = "drained"] /\ outputs' = <<>>
        /\ buckets' = Stored(buckets, outputs)
        /\ late' = [r \in Readers |-> late'[r]]
    BY <1>4 DEF RunDrains
  <2>2. "drained" \in Stages /\ IsStore(buckets')
    BY <2>1, StoredIs DEF Stages
  <2>3. UNCHANGED <<runFrame, inputs, requests, responses>>
    BY <1>4 DEF RunDrains
  <2>4. runs' \in [Tasks -> Execution]
    BY <1>1, <2>1, <2>2
  <2>5. BrokerTypes'
    BY <2>1, <2>2, <2>3, <2>4 DEF runFrame, brokerVars
  <2>6. NodeTypes'
    BY <2>1, <2>3 DEF runFrame, nodeVars
  <2> QED BY <1>1, <2>1, <2>2, <2>3, <2>5, <2>6
<1>5. CASE RunEnds(t)
  <2>1. PICK at \in Stages : runs' = [runs EXCEPT ![t].at = at]
    BY <1>5 DEF RunEnds, Stages
  <2>2. responses' \in [Tasks -> Nat]
    <3>1. CASE responses[t] > 0
      <4>1. responses[t] - 1 \in Nat
        BY <3>1
      <4> QED BY <1>5, <3>1, <4>1 DEF RunEnds
    <3>2. CASE ~(responses[t] > 0)
      BY <1>5, <3>2 DEF RunEnds
    <3> QED BY <3>1, <3>2
  <2> QED BY <1>1, <1>5, <2>1, <2>2 DEF RunEnds, runFrame, brokerVars, nodeVars
<1> QED BY <1>2, <1>3, <1>4, <1>5 DEF Run

\* A queue of requests and its head.
LEMMA HeadIs ==
  ASSUME NEW S, NEW s \in Seq(S), s # <<>>
  PROVE  /\ Head(s) \in S /\ Head(s) = s[1] /\ 1 \in DOMAIN s
         /\ Tail(s) \in Seq(S)
         /\ \A i \in DOMAIN Tail(s) : i + 1 \in DOMAIN s /\ Tail(s)[i] = s[i + 1]
<1> DEFINE n == Len(s)
           r == Tail(s)
<1>1. n \in Nat /\ n > 0 /\ DOMAIN s = 1..n /\ \A i \in 1..n : s[i] \in S
  OBVIOUS
<1>2. /\ r \in Seq(S) /\ DOMAIN r = 1..(n - 1)
      /\ \A i \in 1..(n - 1) : r[i] = s[i + 1]
      /\ Head(s) = s[1]
  BY <1>1
<1> HIDE DEF n, r
<1> QED BY <1>1, <1>2 DEF r

LEMMA ElementsAre ==
  ASSUME NEW S, NEW s \in Seq(S)
  PROVE  \A i \in DOMAIN s : s[i] \in S
OBVIOUS

LEMMA TailIs ==
  ASSUME NEW S, NEW s \in Seq(S), s # <<>>
  PROVE  /\ Tail(s) = [i \in 1..(Len(s) - 1) |-> s[i + 1]]
         /\ Head(s) = s[1]
<1>1. Tail(s) = [i \in 1..(Len(s) - 1) |-> s[i + 1]]
  <2> DEFINE t == Tail(s)
             n == Len(s) - 1
  <2>1. DOMAIN t = 1..n /\ t \in Seq(S) /\ \A i \in 1..n : t[i] = s[i + 1]
    OBVIOUS
  <2> HIDE DEF t, n
  <2>2. t = [i \in DOMAIN t |-> t[i]]
    BY <2>1
  <2>3. t = [i \in 1..n |-> s[i + 1]]
    BY <2>1, <2>2
  <2> QED BY <2>3 DEF t, n
<1>2. Head(s) = s[1]
  OBVIOUS
<1> QED BY <1>1, <1>2

LEMMA AppendIs ==
  ASSUME NEW S, NEW s \in Seq(S), NEW x \in S
  PROVE  /\ Append(s, x) # <<>>
         /\ Append(s, x)[Len(Append(s, x))] = x
         /\ \A i \in DOMAIN Append(s, x) :
              Append(s, x)[i] = x \/ (i \in DOMAIN s /\ Append(s, x)[i] = s[i])
<1> DEFINE n == Len(s)
           r == Append(s, x)
<1>1. n \in Nat /\ DOMAIN s = 1..n
  OBVIOUS
<1>2. /\ DOMAIN r = 1..(n + 1) /\ Len(r) = n + 1 /\ r # <<>>
      /\ \A i \in 1..n : r[i] = s[i]
      /\ r[n + 1] = x
  BY <1>1
<1> HIDE DEF n, r
<1> QED BY <1>1, <1>2 DEF r

LEMMA NodeStepTypes ==
  ASSUME Types, Node
  PROVE  NodeTypes' /\ UNCHANGED nodeFrame
<1> USE DEF Types, NodeTypes
<1>1. CASE NodeInputs
  <2>1. view' \in Views
    BY <1>1, FilledIs DEF NodeInputs
  <2> QED BY <1>1, <2>1 DEF NodeInputs
<1>2. CASE NodeRequests
  BY <1>2 DEF NodeRequests
<1>3. CASE NodeExecutes
  <2>1. batch # <<>> /\ batch' = Tail(batch)
    BY <1>3 DEF NodeExecutes
  <2>2. Head(batch) \in Asked /\ Tail(batch) \in Seq(Asked)
    BY <2>1, HeadIs
  <2>3. Head(batch).task \in Tasks /\ Head(batch).now \in Nat
    BY <2>2 DEF Asked
  <2>4. writes' \in Nat /\ outputs' \in Seq(Message)
    <3>1. CASE Head(batch).task \in Writers
      <4>1. writes' = writes + 1
            /\ outputs' = Append(outputs, [topic |-> X, time |-> Head(batch).now,
                                            value |-> writes'])
        BY <1>3, <3>1 DEF NodeExecutes, Stamp
      <4>2. [topic |-> X, time |-> Head(batch).now, value |-> writes'] \in Message
        BY <2>3, <4>1 DEF Message
      <4> QED BY <4>1, <4>2
    <3>2. CASE Head(batch).task \notin Writers
      BY <1>3, <3>2 DEF NodeExecutes
    <3> QED BY <3>1, <3>2
  <2>5. responses' \in [Tasks -> Nat]
    <3>1. responses' = [responses EXCEPT ![Head(batch).task] = @ + 1]
      BY <1>3 DEF NodeExecutes
    <3>2. responses[Head(batch).task] + 1 \in Nat
      BY <2>3
    <3> QED BY <2>3, <3>1, <3>2
  <2>6. /\ nodePc' = IF batch' = <<>> THEN "inputs" ELSE "execute"
        /\ UNCHANGED <<nodeFrame, view, inputs, requests>>
    BY <1>3 DEF NodeExecutes
  <2> QED BY <2>1, <2>2, <2>4, <2>5, <2>6
<1> QED BY <1>1, <1>2, <1>3 DEF Node

LEMMA TypesStep ==
  ASSUME Types, InTime, [Next]_vars
  PROVE  Types'
<1>1. CASE Tick
  BY <1>1, TickTypes, TickFrameIs DEF Types, NodeTypes, tickFrame, nodeVars
<1>2. ASSUME NEW t \in Tasks, Run(t)
      PROVE  Types'
  BY <1>2, RunTypes
<1>3. CASE Node
  BY <1>3, NodeStepTypes DEF Types, BrokerTypes, nodeFrame, brokerVars
<1>4. CASE UNCHANGED vars
  BY <1>4 DEF vars, brokerVars, nodeVars, Types, BrokerTypes, NodeTypes
<1> QED BY <1>1, <1>2, <1>3, <1>4 DEF Next

LEMMA BrokerInTimeStep ==
  ASSUME Types, InTime, Tick
  PROVE  BrokerInTime'
<1> USE FlowAssumption DEF Types, BrokerTypes, InTime, BrokerInTime, tickFrame
<1>1. CASE StartTick
  BY <1>1 DEF StartTick
<1>2. ASSUME NEW t \in Tasks, Launch(t)
      PROVE  BrokerInTime'
  <2>1. X \in DOMAIN TaskInputs(t) => TaskInputs(t)[X].time <= time
    <3> SUFFICES ASSUME X \in DOMAIN TaskInputs(t) PROVE TaskInputs(t)[X].time <= time
      OBVIOUS
    <3>1. X \in DOMAIN buckets /\ TaskInputs(t)[X] = Newest(buckets[X].rows)
      BY AskedFromType, TaskInputsIs
    <3>2. TaskInputs(t)[X].time = LatestTime(buckets[X].rows)
      BY <3>1 DEF Newest
    <3>3. LatestTime(buckets[X].rows) \in DOMAIN buckets[X].rows
      BY <3>1, NewestIs
    <3> QED BY <3>1, <3>2, <3>3
  <2>2. /\ runs'[t].now = time /\ runs'[t].inputs = TaskInputs(t)
        /\ \A u \in Tasks : u # t => runs'[u] = runs[u]
        /\ UNCHANGED <<time, lastRun, lastUpdate, buckets>>
    BY <1>2 DEF Launch
  <2>3. \A u \in Tasks :
          /\ runs'[u].now <= time
          /\ X \in DOMAIN runs'[u].inputs => runs'[u].inputs[X].time <= time
    <3> TAKE u \in Tasks
    <3>1. CASE u = t
      <4>1. time <= time
        OBVIOUS
      <4> QED BY <2>1, <2>2, <3>1, <4>1
    <3>2. CASE u # t
      BY <2>2, <3>2
    <3> QED BY <3>1, <3>2
  <2> QED BY <2>2, <2>3
<1>3. CASE RecordFirst \/ RecordAfterRun
  <2> DEFINE l == launching
  <2>1. /\ l \in Tasks
        /\ lastRun' = [lastRun EXCEPT ![l] = time]
        /\ UNCHANGED <<time, runs, buckets>>
    BY <1>3 DEF RecordFirst, RecordAfterRun, Recorded
  <2>2. ASSUME NEW topic \in DOMAIN lastUpdate'[l]
        PROVE  lastUpdate'[l][topic] \in 0..time
    <3>1. \A y \in DOMAIN lastUpdate[l] : lastUpdate[l][y] \in 0..time
      <4>1. lastRun[l] \in Int /\ lastRun[l] <= time
        BY <2>1 DEF Ages, Never
      <4> QED BY <2>1, <4>1
    <3>2. CASE RecordFirst
      BY <2>2, <3>1, <3>2 DEF RecordFirst
    <3>3. CASE RecordAfterRun
      <4> DEFINE new == [y \in DOMAIN runs[l].inputs |-> lastRun[l]]
      <4>1. /\ lastUpdate' = [lastUpdate EXCEPT ![l] = Overwritten(lastUpdate[l], new)]
            /\ runs[l].inputs # NewView => lastRun[l] # Never
        BY <3>3 DEF RecordAfterRun
      <4>2. lastUpdate'[l] = [y \in DOMAIN lastUpdate[l] \union DOMAIN new |->
                               IF y \in DOMAIN new THEN new[y] ELSE lastUpdate[l][y]]
        <5>1. lastUpdate'[l] = Overwritten(lastUpdate[l], new)
          <6> HIDE DEF new
          <6> QED BY <2>1, <4>1
        <5> QED BY <5>1 DEF Overwritten
      <4>3. CASE topic \in DOMAIN new
        <5>1. DOMAIN runs[l].inputs # {}
          BY <4>3
        <5>2. runs[l].inputs # NewView
          BY <5>1 DEF NewView
        <5>3. lastRun[l] \in Nat /\ lastRun[l] <= time
          BY <2>1, <4>1, <5>2 DEF Ages
        <5>4. lastUpdate'[l][topic] = lastRun[l]
          BY <2>2, <4>2, <4>3
        <5> QED BY <5>3, <5>4
      <4>4. CASE topic \notin DOMAIN new
        <5>1. topic \in DOMAIN lastUpdate[l] /\ lastUpdate'[l][topic] = lastUpdate[l][topic]
          <6> HIDE DEF new
          <6> QED BY <2>2, <4>2, <4>4
        <5> QED BY <3>1, <5>1
      <4> QED BY <4>3, <4>4
    <3> QED BY <1>3, <3>2, <3>3
  <2>3. \A t \in Tasks : t # l => lastUpdate'[t] = lastUpdate[t]
    BY <1>3 DEF RecordFirst, RecordAfterRun
  <2> HIDE DEF l
  <2>4. \A t \in Tasks : lastRun'[t] = IF t = l THEN time ELSE lastRun[t]
    BY <2>1
  <2>5. \A t \in Tasks : lastRun'[t] <= time
    BY <2>4
  <2>6. \A t \in Tasks : \A topic \in DOMAIN lastUpdate'[t] :
          lastUpdate'[t][topic] \in 0..lastRun'[t]
    BY <2>2, <2>3, <2>4
  <2> QED BY <2>1, <2>5, <2>6
<1>4. ASSUME NEW delta \in Deltas, UpdateTime(delta)
      PROVE  BrokerInTime'
  <2>1. time' = time + delta /\ delta \in Nat /\ UNCHANGED <<lastRun, lastUpdate, runs, buckets>>
    BY <1>4 DEF UpdateTime
  <2>2. \A x \in Int : x <= time => x <= time'
    BY <2>1
  <2>3. \A t \in Tasks : lastRun[t] \in Int /\ runs[t].now \in Int
    BY DEF Ages, Never, Execution
  <2>4. \A t \in Tasks : X \in DOMAIN runs[t].inputs => runs[t].inputs[X].time \in Int
    BY DatapointIs DEF Entry
  <2>5. X \in DOMAIN buckets => \A x \in DOMAIN buckets[X].rows : x \in Int
    BY OpenIs DEF IsStore
  <2> QED BY <2>1, <2>2, <2>3, <2>4, <2>5
<1>5. CASE TickReturns
  <2>1. \A t \in Tasks : runs'[t] = NotRunning
    BY <1>5 DEF TickReturns
  <2>2. NotRunning.now = 0 /\ NotRunning.inputs = NewView /\ X \notin DOMAIN NewView
    BY DEF NotRunning, NewView
  <2>3. UNCHANGED <<time, lastRun, lastUpdate, buckets>>
    BY <1>5 DEF TickReturns
  <2> HIDE DEF X, NewView
  <2> QED BY <2>1, <2>2, <2>3
<1> QED BY <1>1, <1>2, <1>3, <1>4, <1>5 DEF Tick

\* What is queued stays in time as time goes on.
LEMMA NodeInTimeTick ==
  ASSUME Types, InTime, Tick
  PROVE  NodeInTime'
<1> USE FlowAssumption DEF Types, BrokerTypes, NodeTypes, InTime, NodeInTime
<1>1. time' \in Nat /\ time <= time'
  <2>1. CASE \E delta \in Deltas : UpdateTime(delta)
    BY <2>1 DEF UpdateTime
  <2>2. CASE ~\E delta \in Deltas : UpdateTime(delta)
    <3>1. time' = time
      BY <2>2 DEF Tick, StartTick, Launch, RecordFirst, RecordAfterRun, Recorded, TickReturns
    <3> QED BY <3>1
  <2> QED BY <2>1, <2>2
<1>2. \A x \in Nat : x <= time => x <= time'
  BY <1>1
<1>3. /\ \A i \in DOMAIN inputs : inputs[i].time \in Nat
      /\ \A i \in DOMAIN outputs : outputs[i].time \in Nat
  <2>1. /\ \A i \in DOMAIN inputs : inputs[i] \in Message
        /\ \A i \in DOMAIN outputs : outputs[i] \in Message
    BY ElementsAre
  <2> QED BY <2>1 DEF Message
<1>4. /\ \A i \in DOMAIN requests : requests[i].now \in Nat
      /\ \A i \in DOMAIN batch : batch[i].now \in Nat
  <2>1. /\ \A i \in DOMAIN requests : requests[i] \in Asked
        /\ \A i \in DOMAIN batch : batch[i] \in Asked
    BY ElementsAre
  <2> QED BY <2>1 DEF Asked
<1>5. X \in DOMAIN view => view[X].time \in Nat
  BY DEF Views, NewView, Entry
<1>6. UNCHANGED <<inputs, outputs, requests, batch, view>>
  BY TickFrameIs DEF tickFrame, nodeVars
<1> QED BY <1>2, <1>3, <1>4, <1>5, <1>6

LEMMA RunInTime ==
  ASSUME Types, InTime, NEW t \in Tasks, Run(t)
  PROVE  InTime'
<1> USE DEF InTime
<1>1. /\ UNCHANGED <<time, lastRun, lastUpdate, view, batch>>
      /\ \A u \in Tasks : runs'[u].now = runs[u].now /\ runs'[u].inputs = runs[u].inputs
  <2>1. \A u \in Tasks : runs[u] \in Execution /\ runs'[u] = [runs[u] EXCEPT !.at = runs'[u].at]
    BY RunTypes DEF Types, BrokerTypes
  <2>2. \A u \in Tasks : runs'[u].now = runs[u].now /\ runs'[u].inputs = runs[u].inputs
    BY <2>1 DEF Execution
  <2> QED BY <2>2, RunTypes DEF runFrame, brokerVars, nodeVars
<1>2. ASSUME \/ X \notin DOMAIN buckets'
             \/ \A x \in DOMAIN buckets'[X].rows : x <= time
      PROVE  BrokerInTime'
  BY <1>1, <1>2 DEF BrokerInTime
<1>3. CASE RunFeeds(t)
  <2>1. inputs' = inputs \o Fed(t) /\ UNCHANGED <<buckets, outputs, requests>>
    BY <1>3 DEF RunFeeds, Fed
  <2>2. \A i \in DOMAIN inputs' : inputs'[i].time <= time
    <3>1. CASE X \notin DOMAIN runs[t].inputs
      BY <2>1, <3>1, FedIs DEF NodeInTime
    <3>2. CASE X \in DOMAIN runs[t].inputs
      <4> DEFINE d == Datapoint(runs[t].inputs, X)
      <4>1. d \in Message /\ d.time <= time
        BY <3>2, DatapointIs DEF BrokerInTime
      <4>2. inputs' = Append(inputs, d)
        BY <2>1, <3>2, FedIs
      <4>3. inputs \in Seq(Message)
        BY DEF Types, NodeTypes
      <4> HIDE DEF d
      <4>4. \A i \in DOMAIN inputs' :
              inputs'[i] = d \/ (i \in DOMAIN inputs /\ inputs'[i] = inputs[i])
        BY <4>1, <4>2, <4>3, AppendIs
      <4> QED BY <4>1, <4>4 DEF NodeInTime
    <3> QED BY <3>1, <3>2
  <2>3. BrokerInTime'
    BY <1>2, <2>1 DEF BrokerInTime
  <2> QED BY <1>1, <2>1, <2>2, <2>3 DEF NodeInTime
<1>4. CASE RunAsks(t)
  <2>1. requests' = Append(requests, Request(t)) /\ UNCHANGED <<buckets, inputs, outputs>>
    BY <1>4 DEF RunAsks
  <2>2. Request(t) \in Asked /\ Request(t).now <= time /\ requests \in Seq(Asked)
    BY RequestIs DEF BrokerInTime, Types, NodeTypes
  <2>3. \A i \in DOMAIN requests' :
          requests'[i] = Request(t) \/ (i \in DOMAIN requests /\ requests'[i] = requests[i])
    BY <2>1, <2>2, AppendIs
  <2>4. \A i \in DOMAIN requests' : requests'[i].now <= time
    BY <2>2, <2>3 DEF NodeInTime
  <2>5. BrokerInTime'
    BY <1>2, <2>1 DEF BrokerInTime
  <2> QED BY <1>1, <2>1, <2>4, <2>5 DEF NodeInTime
<1>5. CASE RunDrains(t)
  <2>1. /\ buckets' = Stored(buckets, outputs) /\ outputs' = <<>>
        /\ UNCHANGED <<inputs, requests>>
    BY <1>5 DEF RunDrains
  <2>2. IsStore(buckets) /\ outputs \in Seq(Message)
    BY DEF Types, BrokerTypes, NodeTypes
  <2>3. ASSUME outputs # <<>>
        PROVE  \A x \in DOMAIN buckets'[X].rows : x <= time
    <3> DEFINE S == {c \in Open : \A x \in DOMAIN c.rows : x <= time}
               b == BucketOf(buckets)
    <3>1. b \in S
      BY <2>2, BucketOfIs DEF BrokerInTime
    <3>2. ASSUME NEW i \in DOMAIN outputs, NEW c \in Open, c \in S
          PROVE  Added(c, outputs[i]) \in S
      <4>1. outputs[i] \in Message /\ outputs[i].time <= time
        BY <2>2 DEF NodeInTime
      <4>2. Added(c, outputs[i]) \in Open
            /\ DOMAIN Added(c, outputs[i]).rows \subseteq DOMAIN c.rows \union {outputs[i].time}
        BY <4>1, AddedOpen
      <4> QED BY <3>2, <4>1, <4>2
    <3>3. b \in Open
      BY <2>2, BucketOfIs
    <3>4. BucketAlong(b, outputs)[Len(outputs)] \in S
      <4> HIDE DEF S, b
      <4> QED BY <2>2, <3>1, <3>2, <3>3, AlongStays
    <3>5. buckets'[X] = BucketAlong(b, outputs)[Len(outputs)]
      BY <2>1, <2>2, <2>3, StoredIs
    <3> QED BY <3>4, <3>5
  <2>4. BrokerInTime'
    <3>1. CASE outputs = <<>>
      BY <1>2, <2>1, <2>2, <3>1, StoredIs DEF BrokerInTime
    <3>2. CASE outputs # <<>>
      BY <1>2, <2>3, <3>2
    <3> QED BY <3>1, <3>2
  <2> QED BY <1>1, <2>1, <2>4 DEF NodeInTime
<1>6. CASE RunEnds(t)
  <2>1. UNCHANGED <<buckets, inputs, outputs, requests>>
    BY <1>6 DEF RunEnds
  <2>2. BrokerInTime'
    BY <1>2, <2>1 DEF BrokerInTime
  <2> QED BY <1>1, <2>1, <2>2 DEF NodeInTime
<1> QED BY <1>3, <1>4, <1>5, <1>6 DEF Run

LEMMA NodeStepInTime ==
  ASSUME Types, InTime, Node
  PROVE  InTime'
<1> USE DEF InTime
<1>1. UNCHANGED nodeFrame
  BY NodeStepTypes
<1>2. BrokerInTime'
  BY <1>1 DEF nodeFrame, brokerVars, BrokerInTime
<1>3. time' = time
  BY <1>1 DEF nodeFrame, brokerVars
<1>4. CASE NodeInputs
  <2>1. view' = Filled(view, inputs) /\ inputs' = <<>> /\ UNCHANGED <<batch, outputs, requests>>
    BY <1>4 DEF NodeInputs
  <2>2. view \in Views /\ inputs \in Seq(Message)
    BY DEF Types, NodeTypes
  <2>3. X \in DOMAIN view' => view'[X].time <= time
    <3>1. CASE inputs = <<>>
      BY <2>1, <2>2, <3>1, FilledIs DEF NodeInTime
    <3>2. CASE inputs # <<>>
      <4>1. view'[X].time = inputs[Len(inputs)].time
        <5>1. view'[X] = [time |-> inputs[Len(inputs)].time, value |-> inputs[Len(inputs)].value]
          BY <2>1, <2>2, <3>2, FilledIs
        <5> QED BY <5>1
      <4>2. Len(inputs) \in DOMAIN inputs
        BY <2>2, <3>2
      <4> QED BY <4>1, <4>2 DEF NodeInTime
    <3> QED BY <3>1, <3>2
  <2> QED BY <1>2, <1>3, <2>1, <2>3 DEF NodeInTime
<1>5. CASE NodeRequests
  BY <1>2, <1>3, <1>5 DEF NodeRequests, NodeInTime
<1>6. CASE NodeExecutes
  <2>1. batch # <<>> /\ batch \in Seq(Asked) /\ outputs \in Seq(Message)
    BY <1>6 DEF NodeExecutes, Types, NodeTypes
  <2>2. batch' = Tail(batch) /\ UNCHANGED <<view, inputs, requests>>
    BY <1>6 DEF NodeExecutes
  <2>3. \A i \in DOMAIN batch' : batch'[i].now <= time
    BY <2>1, <2>2, HeadIs DEF NodeInTime
  <2>4. \A i \in DOMAIN outputs' : outputs'[i].time <= time
    <3>1. CASE Head(batch).task \in Writers
      <4> DEFINE d == [topic |-> X, time |-> Head(batch).now, value |-> writes + 1]
      <4>1. outputs' = Append(outputs, d)
        BY <1>6, <3>1 DEF NodeExecutes, Stamp
      <4>2. Head(batch) \in Asked /\ Head(batch).now <= time
        BY <2>1, HeadIs DEF NodeInTime
      <4>3. d \in Message /\ d.time <= time
        BY <4>2 DEF Message, Asked, Types, NodeTypes
      <4> HIDE DEF d
      <4>4. \A i \in DOMAIN outputs' :
              outputs'[i] = d \/ (i \in DOMAIN outputs /\ outputs'[i] = outputs[i])
        BY <2>1, <4>1, <4>3, AppendIs
      <4> QED BY <4>3, <4>4 DEF NodeInTime
    <3>2. CASE Head(batch).task \notin Writers
      BY <1>6, <3>2 DEF NodeExecutes, NodeInTime
    <3> QED BY <3>1, <3>2
  <2> QED BY <1>2, <1>3, <2>2, <2>3, <2>4 DEF NodeInTime
<1> QED BY <1>4, <1>5, <1>6 DEF Node

LEMMA InTimeStep ==
  ASSUME Types, InTime, [Next]_vars
  PROVE  InTime'
<1>1. CASE Tick
  BY <1>1, BrokerInTimeStep, NodeInTimeTick DEF InTime
<1>2. ASSUME NEW t \in Tasks, Run(t)
      PROVE  InTime'
  BY <1>2, RunInTime
<1>3. CASE Node
  BY <1>3, NodeStepInTime
<1>4. CASE UNCHANGED vars
  BY <1>4 DEF vars, brokerVars, nodeVars, InTime, BrokerInTime, NodeInTime
<1> QED BY <1>1, <1>2, <1>3, <1>4 DEF Next

-----------------------------------------------------------------------------
(* Where tick and its executions stand *)

\* A task has an execution from its launch to the end of the tick, and it is
\* recorded once.
Control ==
  /\ launching # NoTask =>
       /\ launching \in todo
       /\ runs[launching].at # "none"
       /\ runs[launching].now = time
  /\ todo # {} => pc = "launch"
  /\ pc = "idle" => \A t \in Tasks : runs[t].at = "none"
  /\ \A t \in todo : t # launching => runs[t].at = "none"
  /\ \A t \in Tasks : runs[t].at # "none" /\ t # launching => lastRun[t] = runs[t].now

\* The stages at which an execution has the adapter's lock.
Holding == {"fed", "asked", "drained"}

OneHolder ==
  \A t, u \in Tasks : runs[t].at \in Holding /\ runs[u].at \in Holding => t = u

\* An execution goes from one stage to the next, and takes the lock when it is free.
LEMMA RunStages ==
  ASSUME Types, NEW t \in Tasks, Run(t)
  PROVE  /\ runs[t].at # "none" /\ runs'[t].at # "none"
         /\ runs'[t].at \in Holding =>
              \/ runs[t].at \in Holding
              \/ \A u \in Tasks : runs[u].at \notin Holding
         /\ runs'[t].at \in {"spawned", "fed"} => runs[t].at = "spawned"
         /\ runs'[t].inputs = runs[t].inputs /\ runs'[t].now = runs[t].now
         /\ runs'[t].last = runs[t].last
<1> USE DEF Types, BrokerTypes
<1>1. runs[t] \in Execution /\ runs'[t] = [runs[t] EXCEPT !.at = runs'[t].at]
  BY RunTypes
<1>2. /\ runs'[t].inputs = runs[t].inputs /\ runs'[t].now = runs[t].now
      /\ runs'[t].last = runs[t].last
  BY <1>1 DEF Execution
<1>3. CASE RunFeeds(t)
  <2>1. runs[t].at = "spawned" /\ runs'[t].at = "fed"
    BY <1>3 DEF RunFeeds, Execution
  <2>2. \A u \in Tasks : runs[u].at \notin Holding
    BY <1>3 DEF RunFeeds, Locked, Holding
  <2> QED BY <1>2, <2>1, <2>2
<1>4. CASE RunAsks(t)
  <2>1. runs[t].at = "fed" /\ runs'[t].at = "asked"
    BY <1>4 DEF RunAsks, Execution
  <2> QED BY <1>2, <2>1 DEF Holding
<1>5. CASE RunDrains(t)
  <2>1. runs[t].at = "asked" /\ runs'[t].at = "drained"
    BY <1>5 DEF RunDrains, Execution
  <2> QED BY <1>2, <2>1 DEF Holding
<1>6. CASE RunEnds(t)
  <2>1. runs[t].at = "drained" /\ runs'[t].at \in {"done", "asked"}
    BY <1>6 DEF RunEnds, Execution
  <2> QED BY <1>2, <2>1 DEF Holding
<1> QED BY <1>3, <1>4, <1>5, <1>6 DEF Run

LEMMA ControlStep ==
  ASSUME Types, Control, OneHolder, [Next]_vars
  PROVE  Control' /\ OneHolder'
<1> USE FlowAssumption DEF Types, BrokerTypes, Control
<1>0. launching # NoTask => pc = "launch" /\ launching \in Tasks
  OBVIOUS
<1>1. CASE StartTick
  <2>1. /\ todo' \in SUBSET Tasks /\ pc' = "launch"
        /\ UNCHANGED <<time, lastRun, launching, runs>>
    BY <1>1 DEF StartTick
  <2>2. launching = NoTask /\ \A t \in Tasks : runs[t].at = "none"
    BY <1>0, <1>1 DEF StartTick
  <2> QED BY <2>1, <2>2 DEF OneHolder, Holding
<1>2. ASSUME NEW t \in Tasks, Launch(t)
      PROVE  Control' /\ OneHolder'
  <2>1. /\ launching = NoTask /\ launching' = t /\ t \in todo /\ pc = "launch"
        /\ UNCHANGED <<time, lastRun, pc, todo>>
    BY <1>2 DEF Launch
  <2>2. /\ runs'[t].at = "spawned" /\ runs'[t].now = time
        /\ \A u \in Tasks : u # t => runs'[u] = runs[u]
    BY <1>2 DEF Launch
  <2>3. Control'
    BY <2>1, <2>2
  <2>4. OneHolder'
    BY <2>2 DEF OneHolder, Holding
  <2> QED BY <2>3, <2>4
<1>3. CASE RecordFirst \/ RecordAfterRun
  <2>1. /\ launching \in Tasks /\ launching \in todo /\ launching # NoTask
        /\ lastRun' = [lastRun EXCEPT ![launching] = time]
        /\ todo' = todo \ {launching} /\ launching' = NoTask
        /\ UNCHANGED <<time, pc, runs>>
    BY <1>3 DEF RecordFirst, RecordAfterRun, Recorded
  <2>2. \A t \in Tasks : lastRun'[t] = IF t = launching THEN time ELSE lastRun[t]
    BY <2>1
  <2>3. pc = "launch"
    BY <2>1
  <2>4. Control'
    BY <2>1, <2>2, <2>3
  <2> QED BY <2>1, <2>4 DEF OneHolder
<1>4. ASSUME NEW delta \in Deltas, UpdateTime(delta)
      PROVE  Control' /\ OneHolder'
  <2>1. todo = {} /\ pc' = "await" /\ UNCHANGED <<lastRun, todo, launching, runs>>
    BY <1>4 DEF UpdateTime
  <2> QED BY <2>1 DEF OneHolder
<1>5. CASE TickReturns
  <2>1. \A t \in Tasks : runs'[t].at = "none"
    BY <1>5 DEF TickReturns, NotRunning
  <2>2. launching = NoTask /\ todo = {} /\ UNCHANGED <<time, lastRun, todo, launching>>
    BY <1>0, <1>5 DEF TickReturns
  <2> QED BY <2>1, <2>2 DEF OneHolder, Holding
<1>6. ASSUME NEW t \in Tasks, Run(t)
      PROVE  Control' /\ OneHolder'
  <2>1. UNCHANGED <<time, lastRun, pc, todo, launching>>
    BY <1>6, RunTypes DEF runFrame, brokerVars
  <2>2. /\ runs[t].at # "none" /\ runs'[t].at # "none" /\ runs'[t].now = runs[t].now
        /\ runs'[t].at \in Holding =>
             runs[t].at \in Holding \/ \A u \in Tasks : runs[u].at \notin Holding
        /\ \A u \in Tasks : u # t => runs'[u] = runs[u]
    BY <1>6, RunStages, RunTypes
  <2>3. Control'
    BY <1>0, <2>1, <2>2
  <2>4. OneHolder'
    BY <2>2 DEF OneHolder
  <2> QED BY <2>3, <2>4
<1>7. CASE Node \/ UNCHANGED vars
  <2>1. UNCHANGED <<time, lastRun, pc, todo, launching, runs>>
    BY <1>7, NodeStepTypes DEF nodeFrame, vars, brokerVars
  <2> QED BY <2>1 DEF OneHolder
<1> QED BY <1>1, <1>2, <1>3, <1>4, <1>5, <1>6, <1>7 DEF Next, Tick

-----------------------------------------------------------------------------
(* What is on its way for a task *)

TasksOf(s) == [i \in DOMAIN s |-> s[i].task]

\* The requests of a task in a queue.
Pending(s, t) == Places(TasksOf(s), t)

LEMMA TasksOfIs ==
  ASSUME NEW s \in Seq(Asked)
  PROVE  /\ TasksOf(s) \in Seq(Tasks)
         /\ TasksOf(<<>>) = <<>>
         /\ \A e \in Asked : TasksOf(Append(s, e)) = Append(TasksOf(s), e.task)
         /\ s # <<>> => /\ TasksOf(s) # <<>>
                        /\ TasksOf(Tail(s)) = Tail(TasksOf(s))
                        /\ Head(TasksOf(s)) = Head(s).task
<1> DEFINE n == Len(s)
           ts == TasksOf(s)
<1>1. n \in Nat /\ DOMAIN s = 1..n /\ \A i \in 1..n : s[i] \in Asked
  OBVIOUS
<1>2. ts = [i \in 1..n |-> s[i].task] /\ \A i \in 1..n : s[i].task \in Tasks
  BY <1>1 DEF TasksOf, Asked
<1> HIDE DEF n, ts
<1>3. ts \in Seq(Tasks) /\ Len(ts) = n /\ DOMAIN ts = 1..n
  BY <1>1, <1>2
<1>4. TasksOf(<<>>) = <<>>
  BY DEF TasksOf
<1>5. ASSUME NEW e \in Asked PROVE TasksOf(Append(s, e)) = Append(ts, e.task)
  <2> DEFINE a == Append(s, e)
             b == Append(ts, e.task)
  <2>1. DOMAIN a = 1..(n + 1) /\ (\A i \in 1..n : a[i] = s[i]) /\ a[n + 1] = e
    BY <1>1 DEF n
  <2>2. b = [i \in 1..(n + 1) |-> IF i = n + 1 THEN e.task ELSE ts[i]]
    BY <1>1, <1>3
  <2> HIDE DEF a, b
  <2>3. \A i \in 1..(n + 1) : i = n + 1 \/ i \in 1..n
    BY <1>1
  <2>4. \A i \in 1..(n + 1) : a[i].task = b[i]
    BY <1>2, <2>1, <2>2, <2>3
  <2>5. TasksOf(a) = [i \in 1..(n + 1) |-> a[i].task] /\ b = [i \in 1..(n + 1) |-> b[i]]
    BY <2>1, <2>2 DEF TasksOf
  <2>6. TasksOf(a) = b
    BY <2>4, <2>5
  <2> QED BY <2>6 DEF a, b
<1>6. ASSUME s # <<>>
      PROVE  /\ ts # <<>>
             /\ TasksOf(Tail(s)) = Tail(ts)
             /\ Head(ts) = Head(s).task
  <2> DEFINE a == Tail(s)
             b == Tail(ts)
  <2>1. n > 0 /\ DOMAIN a = 1..(n - 1) /\ (\A i \in 1..(n - 1) : a[i] = s[i + 1])
        /\ Head(s) = s[1]
    BY <1>1, <1>6 DEF n
  <2>2. ts # <<>> /\ Head(ts) = ts[1] /\ b = [i \in 1..(n - 1) |-> ts[i + 1]]
    <3>1. ts # <<>> /\ Len(ts) - 1 = n - 1
      BY <1>1, <1>3, <2>1
    <3>2. b = [i \in 1..(Len(ts) - 1) |-> ts[i + 1]]
      BY <1>3, <3>1, TailIs
    <3>3. Head(ts) = ts[1]
      BY <1>3, <3>1, TailIs
    <3> HIDE DEF b
    <3> QED BY <3>1, <3>2, <3>3
  <2> HIDE DEF a, b
  <2>3. \A i \in 1..(n - 1) : i + 1 \in 1..n
    BY <1>1
  <2>4. 1 \in 1..n
    BY <1>1, <2>1
  <2>5. \A i \in 1..(n - 1) : a[i].task = b[i]
    BY <1>2, <2>1, <2>2, <2>3
  <2>6. TasksOf(a) = [i \in 1..(n - 1) |-> a[i].task] /\ b = [i \in 1..(n - 1) |-> b[i]]
    BY <2>1, <2>2 DEF TasksOf
  <2>7. TasksOf(a) = b
    BY <2>5, <2>6
  <2> QED BY <1>2, <2>1, <2>2, <2>4, <2>7 DEF a, b
<1> QED BY <1>3, <1>4, <1>5, <1>6 DEF ts

LEMMA PendingIs ==
  ASSUME NEW s \in Seq(Asked), NEW t
  PROVE  /\ Pending(s, t) \in Nat
         /\ Pending(<<>>, t) = 0
         /\ \A e \in Asked : Pending(Append(s, e), t) = Pending(s, t) + IF e.task = t THEN 1 ELSE 0
         /\ s # <<>> => /\ Pending(Tail(s), t) \in Nat
                        /\ Pending(s, t) = Pending(Tail(s), t) + IF Head(s).task = t THEN 1 ELSE 0
         /\ \A i \in DOMAIN s : s[i].task = t => Pending(s, t) > 0
<1> DEFINE ts == TasksOf(s)
<1>1. ts \in Seq(Tasks)
  BY TasksOfIs
<1>2. Pending(s, t) \in Nat
  BY <1>1, PlacesType DEF Pending
<1>3. Pending(<<>>, t) = 0
  BY <1>1, TasksOfIs, PlacesType DEF Pending
<1>4. ASSUME NEW e \in Asked
      PROVE  Pending(Append(s, e), t) = Pending(s, t) + IF e.task = t THEN 1 ELSE 0
  <2>1. TasksOf(Append(s, e)) = Append(ts, e.task) /\ e.task \in Tasks
    BY TasksOfIs DEF Asked
  <2>2. Places(Append(ts, e.task), t) = Places(ts, t) + IF e.task = t THEN 1 ELSE 0
    BY <1>1, <2>1, PlacesAppend
  <2> HIDE DEF ts
  <2> QED BY <2>1, <2>2 DEF Pending, ts
<1>5. ASSUME s # <<>>
      PROVE  /\ Pending(Tail(s), t) \in Nat
             /\ Pending(s, t) = Pending(Tail(s), t) + IF Head(s).task = t THEN 1 ELSE 0
  <2>1. ts # <<>> /\ TasksOf(Tail(s)) = Tail(ts) /\ Head(ts) = Head(s).task
    BY <1>5, TasksOfIs
  <2>2. Places(ts, t) = Places(Tail(ts), t) + IF Head(ts) = t THEN 1 ELSE 0
    BY <1>1, <2>1, PlacesTail
  <2>3. Tail(ts) \in Seq(Tasks)
    BY <1>1, <2>1
  <2>4. Places(Tail(ts), t) \in Nat
    BY <2>3, PlacesType
  <2> HIDE DEF ts
  <2> QED BY <2>1, <2>2, <2>4 DEF Pending, ts
<1>6. ASSUME NEW i \in DOMAIN s, s[i].task = t PROVE Pending(s, t) > 0
  <2> DEFINE P == {j \in DOMAIN ts : ts[j] = t}
  <2>1. i \in P
    BY <1>6 DEF TasksOf
  <2>2. IsFiniteSet(P)
    BY <1>1, PlacesType
  <2>3. Cardinality(P) = Pending(s, t)
    BY DEF Pending, Places
  <2> HIDE DEF P
  <2>4. Cardinality(P) # 0
    BY <2>1, <2>2, FS_EmptySet
  <2> QED BY <1>2, <2>3, <2>4
<1> QED BY <1>2, <1>3, <1>4, <1>5, <1>6

InFlight(t) == Pending(requests, t) + Pending(batch, t) + responses[t]

LEMMA InFlightType ==
  ASSUME Types, NEW t \in Tasks
  PROVE  /\ Pending(requests, t) \in Nat /\ Pending(batch, t) \in Nat /\ responses[t] \in Nat
         /\ InFlight(t) \in Nat
<1>1. Pending(requests, t) \in Nat /\ Pending(batch, t) \in Nat /\ responses[t] \in Nat
  BY PendingIs DEF Types, NodeTypes
<1> QED BY <1>1 DEF InFlight

\* Only an execution puts something on its way, and only an execution takes it.
LEMMA RunInFlight ==
  ASSUME Types, NEW u \in Tasks, Run(u), NEW t \in Tasks
  PROVE  InFlight(t)' = IF RunAsks(u) /\ t = u THEN InFlight(t) + 1
                        ELSE IF RunEnds(u) /\ t = u /\ responses[u] > 0 THEN InFlight(t) - 1
                        ELSE InFlight(t)
<1> DEFINE p == Pending(requests, t)
           q == Pending(batch, t)
           n == responses[t]
<1>1. /\ p \in Nat /\ q \in Nat /\ n \in Nat /\ InFlight(t) = p + q + n
      /\ InFlight(t)' = Pending(requests', t) + Pending(batch', t) + responses'[t]
  BY InFlightType DEF InFlight
<1>2. batch' = batch
  BY RunTypes DEF runFrame, nodeVars
<1>3. ~(RunAsks(u) /\ RunEnds(u))
  BY DEF RunAsks, RunEnds
<1>4. CASE RunFeeds(u) \/ RunDrains(u)
  <2>1. UNCHANGED <<requests, responses>>
    BY <1>4 DEF RunFeeds, RunDrains
  <2>2. ~RunAsks(u) /\ ~RunEnds(u)
    BY <1>4 DEF RunFeeds, RunDrains, RunAsks, RunEnds
  <2> QED BY <1>1, <1>2, <2>1, <2>2
<1>5. CASE RunAsks(u)
  <2>1. requests' = Append(requests, Request(u)) /\ responses' = responses
    BY <1>5 DEF RunAsks
  <2>2. Request(u) \in Asked /\ Request(u).task = u /\ requests \in Seq(Asked)
    BY RequestIs DEF Types, NodeTypes
  <2>3. Pending(requests', t) = p + IF u = t THEN 1 ELSE 0
    BY <2>1, <2>2, PendingIs
  <2> HIDE DEF p, q, n
  <2>4. InFlight(t)' = (p + IF u = t THEN 1 ELSE 0) + q + n
    BY <1>1, <1>2, <2>1, <2>3 DEF p, q, n
  <2> QED BY <1>1, <1>3, <1>5, <2>4
<1>6. CASE RunEnds(u)
  <2>1. responses' = IF responses[u] > 0 THEN [responses EXCEPT ![u] = @ - 1] ELSE responses
    BY <1>6 DEF RunEnds
  <2>2. requests' = requests
    BY <1>6 DEF RunEnds
  <2>3. responses'[t] = IF t = u /\ responses[u] > 0 THEN n - 1 ELSE n
    BY <2>1 DEF Types, NodeTypes
  <2> HIDE DEF p, q, n
  <2>4. InFlight(t)' = p + q + (IF t = u /\ responses[u] > 0 THEN n - 1 ELSE n)
    BY <1>1, <1>2, <2>2, <2>3 DEF p, q, n
  <2>5. CASE t = u /\ responses[u] > 0
    <3>1. InFlight(t)' = p + q + (n - 1)
      BY <2>4, <2>5
    <3>2. InFlight(t)' = InFlight(t) - 1
      BY <1>1, <3>1
    <3> QED BY <1>3, <1>6, <2>5, <3>2
  <2>6. CASE ~(t = u /\ responses[u] > 0)
    <3>1. InFlight(t)' = InFlight(t)
      BY <1>1, <2>4, <2>6
    <3> QED BY <1>3, <1>6, <2>6, <3>1
  <2> QED BY <2>5, <2>6
<1> QED BY <1>4, <1>5, <1>6 DEF Run

\* The node turns a request into its response.
LEMMA NodeInFlight ==
  ASSUME Types, Node, NEW t \in Tasks
  PROVE  InFlight(t)' = InFlight(t)
<1> DEFINE p == Pending(requests, t)
           q == Pending(batch, t)
           n == responses[t]
<1>1. /\ p \in Nat /\ q \in Nat /\ n \in Nat /\ InFlight(t) = p + q + n
      /\ InFlight(t)' = Pending(requests', t) + Pending(batch', t) + responses'[t]
  BY InFlightType DEF InFlight
<1>2. requests \in Seq(Asked) /\ batch \in Seq(Asked) /\ responses \in [Tasks -> Nat]
  BY DEF Types, NodeTypes
<1>3. CASE NodeInputs
  <2>1. UNCHANGED <<requests, batch, responses>>
    BY <1>3 DEF NodeInputs
  <2> QED BY <1>1, <2>1
<1>4. CASE NodeRequests
  <2>1. batch = <<>> /\ batch' = requests /\ requests' = <<>> /\ responses' = responses
    BY <1>4 DEF NodeRequests, Types, NodeTypes
  <2>2. q = 0 /\ Pending(requests', t) = 0 /\ Pending(batch', t) = p
    BY <1>2, <2>1, PendingIs
  <2> HIDE DEF p, q, n
  <2>3. InFlight(t)' = 0 + p + n
    BY <1>1, <2>1, <2>2 DEF n
  <2> QED BY <1>1, <2>2, <2>3
<1>5. CASE NodeExecutes
  <2> DEFINE u == Head(batch).task
             m == Pending(Tail(batch), t)
  <2>1. /\ batch # <<>> /\ batch' = Tail(batch) /\ requests' = requests
        /\ responses' = [responses EXCEPT ![u] = @ + 1]
    BY <1>5 DEF NodeExecutes, Types, NodeTypes
  <2>2. m \in Nat /\ q = m + IF u = t THEN 1 ELSE 0
    BY <1>2, <2>1, PendingIs
  <2>3. responses'[t] = n + IF u = t THEN 1 ELSE 0
    BY <1>1, <1>2, <2>1
  <2> HIDE DEF p, q, n, m, u
  <2>4. InFlight(t)' = p + m + (n + IF u = t THEN 1 ELSE 0)
    BY <1>1, <2>1, <2>3 DEF p, m
  <2> QED BY <1>1, <2>2, <2>4
<1> QED BY <1>3, <1>4, <1>5 DEF Node

\* An execution that has still to ask.
Owed(t) ==
  IF (t \in todo /\ t # launching) \/ runs[t].at \in {"spawned", "fed"} THEN 1 ELSE 0

\* A tick asks every task once at most.
Counts == \A t \in Tasks : InFlight(t) + Owed(t) <= ticks

LEMMA CountsStep ==
  ASSUME Types, Control, Counts, [Next]_vars
  PROVE  Counts'
<1> USE FlowAssumption DEF Types, BrokerTypes, Control
<1>0. \A t \in Tasks : /\ InFlight(t) \in Nat /\ Owed(t) \in {0, 1}
                       /\ InFlight(t) + Owed(t) <= ticks
                       /\ ticks \in Nat
  BY InFlightType DEF Owed, Counts
<1>1. ASSUME NEW t \in Tasks, InFlight(t)' = InFlight(t), Owed(t)' <= Owed(t), Owed(t)' \in {0, 1},
             ticks' = ticks
      PROVE  InFlight(t)' + Owed(t)' <= ticks'
  BY <1>0, <1>1
<1>2. Tick => \A t \in Tasks : InFlight(t)' = InFlight(t)
  BY TickFrameIs DEF tickFrame, nodeVars, InFlight
<1>3. CASE StartTick
  <2>1. ticks' = ticks + 1 /\ Tick
    BY <1>3 DEF StartTick, Tick
  <2>2. \A t \in Tasks : Owed(t)' \in {0, 1}
    BY DEF Owed
  <2>3. \A t \in Tasks : InFlight(t) <= ticks
    BY <1>0
  <2>4. ASSUME NEW t \in Tasks PROVE InFlight(t)' + Owed(t)' <= ticks'
    BY <1>0, <1>2, <2>1, <2>2, <2>3
  <2> QED BY <2>4 DEF Counts
<1>4. ASSUME NEW u \in Tasks, Launch(u)
      PROVE  Counts'
  <2>1. /\ launching = NoTask /\ launching' = u /\ u \in todo
        /\ UNCHANGED <<ticks, todo>> /\ runs'[u].at = "spawned"
        /\ \A t \in Tasks : t # u => runs'[t] = runs[t]
    BY <1>4 DEF Launch
  <2>2. ASSUME NEW t \in Tasks PROVE Owed(t)' <= Owed(t) /\ Owed(t)' \in {0, 1}
    <3>1. CASE t = u
      <4>1. Owed(t) = 1 /\ Owed(t)' \in {0, 1}
        BY <2>1, <3>1 DEF Owed
      <4> QED BY <4>1
    <3>2. CASE t # u
      <4>1. Owed(t)' = Owed(t)
        BY <2>1, <3>2 DEF Owed
      <4> QED BY <1>0, <4>1
    <3> QED BY <3>1, <3>2
  <2> QED BY <1>1, <1>2, <1>4, <2>1, <2>2 DEF Counts, Tick
<1>5. CASE RecordFirst \/ RecordAfterRun
  <2>1. todo' = todo \ {launching} /\ launching \in Tasks
        /\ UNCHANGED <<ticks, runs>> /\ Tick
    BY <1>5 DEF RecordFirst, RecordAfterRun, Recorded, Tick
  <2>2. ASSUME NEW t \in Tasks PROVE Owed(t)' <= Owed(t) /\ Owed(t)' \in {0, 1}
    <3>1. t \in todo' => t \in todo /\ t # launching
      BY <2>1
    <3>2. Owed(t)' = 1 => Owed(t) = 1
      BY <2>1, <3>1 DEF Owed
    <3>3. Owed(t)' \in {0, 1}
      BY DEF Owed
    <3> QED BY <1>0, <3>2, <3>3
  <2> QED BY <1>1, <1>2, <2>1, <2>2 DEF Counts
<1>6. ASSUME NEW delta \in Deltas, UpdateTime(delta)
      PROVE  Counts'
  <2>1. UNCHANGED <<ticks, todo, launching, runs>> /\ Tick
    BY <1>6 DEF UpdateTime, Tick
  <2>2. \A t \in Tasks : Owed(t)' = Owed(t)
    BY <2>1 DEF Owed
  <2> QED BY <1>0, <1>1, <1>2, <2>1, <2>2 DEF Counts
<1>7. CASE TickReturns
  <2>1. UNCHANGED <<ticks, todo, launching>> /\ Tick /\ \A t \in Tasks : runs'[t].at = "none"
    BY <1>7 DEF TickReturns, Tick, NotRunning
  <2>2. ASSUME NEW t \in Tasks PROVE Owed(t)' <= Owed(t) /\ Owed(t)' \in {0, 1}
    <3>1. Owed(t)' = 1 => Owed(t) = 1
      BY <2>1 DEF Owed
    <3>2. Owed(t)' \in {0, 1}
      BY DEF Owed
    <3> QED BY <1>0, <3>1, <3>2
  <2> QED BY <1>1, <1>2, <2>1, <2>2 DEF Counts
<1>8. ASSUME NEW u \in Tasks, Run(u)
      PROVE  Counts'
  <2>1. UNCHANGED <<ticks, todo, launching>> /\ \A t \in Tasks : t # u => runs'[t] = runs[t]
    BY <1>8, RunTypes DEF runFrame, brokerVars
  <2>2. ASSUME NEW t \in Tasks, t # u PROVE InFlight(t)' + Owed(t)' <= ticks'
    <3>1. InFlight(t)' = InFlight(t)
      BY <1>8, <2>2, RunInFlight
    <3>2. Owed(t)' = Owed(t)
      BY <2>1, <2>2 DEF Owed
    <3> QED BY <1>0, <2>1, <3>1, <3>2
  <2>3. InFlight(u)' + Owed(u)' <= ticks'
    <3>1. u \notin todo \/ u = launching
      BY <1>8, RunStages
    <3>2. CASE RunAsks(u)
      <4>1. InFlight(u)' = InFlight(u) + 1
        BY <1>8, <3>2, RunInFlight
      <4>2. runs[u].at = "fed" /\ runs'[u].at = "asked"
        BY <3>2 DEF RunAsks, Execution
      <4>3. Owed(u) = 1 /\ Owed(u)' = 0
        BY <2>1, <3>1, <4>2 DEF Owed
      <4> QED BY <1>0, <2>1, <4>1, <4>3
    <3>3. CASE ~RunAsks(u)
      <4>1. InFlight(u)' = InFlight(u) \/ InFlight(u)' = InFlight(u) - 1
        BY <1>8, <3>3, RunInFlight
      <4>2. Owed(u)' = 1 => Owed(u) = 1
        BY <1>8, <2>1, <3>1, RunStages DEF Owed
      <4>3. Owed(u)' \in {0, 1}
        BY DEF Owed
      <4> QED BY <1>0, <2>1, <4>1, <4>2, <4>3
    <3> QED BY <3>2, <3>3
  <2> QED BY <2>2, <2>3 DEF Counts
<1>9. CASE Node
  <2>1. UNCHANGED <<ticks, todo, launching, runs>>
    BY <1>9, NodeStepTypes DEF nodeFrame, brokerVars
  <2>2. \A t \in Tasks : InFlight(t)' = InFlight(t) /\ Owed(t)' = Owed(t)
    BY <1>9, <2>1, NodeInFlight DEF Owed
  <2> QED BY <1>0, <1>1, <2>1, <2>2 DEF Counts
<1>10. CASE UNCHANGED vars
  BY <1>10 DEF vars, brokerVars, nodeVars, Counts, InFlight, Owed
<1> QED BY <1>3, <1>4, <1>5, <1>6, <1>7, <1>8, <1>9, <1>10 DEF Next, Tick

-----------------------------------------------------------------------------
(* What an execution is given *)

Waiting == {"asked", "drained"}

\* A blocking execution has one request or response on its way, and only while it
\* waits; the request is the one it sent.
AloneOf(t) ==
  /\ InFlight(t) <= IF runs[t].at \in Waiting THEN 1 ELSE 0
  /\ \A i \in DOMAIN requests : requests[i].task = t => requests[i] = Request(t)
  /\ \A i \in DOMAIN batch : batch[i].task = t => batch[i] = Request(t)

Alone == \A t \in Tasks \ NonBlocking : AloneOf(t)

LEMMA NothingAsked ==
  ASSUME Types, NEW t \in Tasks \ NonBlocking, AloneOf(t), runs[t].at \notin Waiting
  PROVE  /\ InFlight(t) = 0
         /\ \A i \in DOMAIN requests : requests[i].task # t
         /\ \A i \in DOMAIN batch : batch[i].task # t
<1>1. /\ Pending(requests, t) \in Nat /\ Pending(batch, t) \in Nat /\ responses[t] \in Nat
      /\ InFlight(t) \in Nat /\ InFlight(t) = Pending(requests, t) + Pending(batch, t) + responses[t]
  BY InFlightType DEF InFlight
<1>2. InFlight(t) = 0
  <2>1. InFlight(t) <= 0
    BY DEF AloneOf
  <2>2. \A k \in Nat : k <= 0 => k = 0
    OBVIOUS
  <2> QED BY <1>1, <2>1, <2>2
<1>3. ~(Pending(requests, t) > 0) /\ ~(Pending(batch, t) > 0)
  <2>1. \A k, l, m \in Nat : k + l + m = 0 => ~(k > 0) /\ ~(l > 0)
    OBVIOUS
  <2> QED BY <1>1, <1>2, <2>1
<1>4. requests \in Seq(Asked) /\ batch \in Seq(Asked)
  BY DEF Types, NodeTypes
<1>5. \A i \in DOMAIN requests : requests[i].task # t
  BY <1>3, <1>4, PendingIs
<1>6. \A i \in DOMAIN batch : batch[i].task # t
  BY <1>3, <1>4, PendingIs
<1> QED BY <1>2, <1>5, <1>6

LEMMA AloneStep ==
  ASSUME Types, Control, Alone, [Next]_vars
  PROVE  Alone'
<1> USE FlowAssumption DEF Types, BrokerTypes
<1> SUFFICES ASSUME NEW t \in Tasks \ NonBlocking PROVE AloneOf(t)'
  BY DEF Alone
<1>0. AloneOf(t) /\ InFlight(t) \in Nat
  BY InFlightType DEF Alone
<1>1. ASSUME UNCHANGED <<requests, batch, responses>>, runs'[t] = runs[t]
      PROVE  AloneOf(t)'
  BY <1>0, <1>1 DEF AloneOf, InFlight, Request
<1>2. ASSUME UNCHANGED <<requests, batch, responses>>, runs[t].at \notin Waiting
      PROVE  AloneOf(t)'
  <2>1. /\ InFlight(t)' = 0
        /\ \A i \in DOMAIN requests' : requests'[i].task # t
        /\ \A i \in DOMAIN batch' : batch'[i].task # t
    BY <1>0, <1>2, NothingAsked DEF InFlight
  <2> QED BY <2>1 DEF AloneOf
<1>3. CASE Tick
  <2>1. UNCHANGED <<requests, batch, responses>>
    BY <1>3, TickFrameIs DEF tickFrame, nodeVars
  <2>2. CASE Launch(t)
    <3>1. runs[t].at = "none"
      BY <2>2 DEF Launch, Control
    <3> QED BY <1>2, <2>1, <3>1 DEF Waiting
  <2>3. CASE TickReturns
    <3>1. runs[t].at \in {"none", "done"}
      BY <2>3 DEF TickReturns
    <3> QED BY <1>2, <2>1, <3>1 DEF Waiting
  <2>4. CASE ~Launch(t) /\ ~TickReturns
    <3>1. runs'[t] = runs[t]
      BY <1>3, <2>4 DEF Tick, StartTick, Launch, RecordFirst, RecordAfterRun, Recorded, UpdateTime
    <3> QED BY <1>1, <2>1, <3>1
  <2> QED BY <2>2, <2>3, <2>4
<1>4. ASSUME NEW u \in Tasks, Run(u)
      PROVE  AloneOf(t)'
  <2>1. /\ Request(t)' = Request(t) /\ batch' = batch
        /\ u # t => runs'[t] = runs[t]
    BY <1>4, RunTypes, RunStages DEF Request, runFrame, nodeVars
  <2>2. \A i \in DOMAIN requests' : requests'[i].task = t => requests'[i] = Request(t)
    <3>1. CASE RunAsks(u)
      <4>1. requests' = Append(requests, Request(u)) /\ Request(u).task = u
            /\ requests \in Seq(Asked) /\ Request(u) \in Asked
        BY <3>1, RequestIs DEF RunAsks, NodeTypes
      <4>2. \A i \in DOMAIN requests' : requests'[i] = Request(u)
              \/ (i \in DOMAIN requests /\ requests'[i] = requests[i])
        BY <4>1, AppendIs
      <4> QED BY <1>0, <4>1, <4>2 DEF AloneOf
    <3>2. CASE ~RunAsks(u)
      <4>1. requests' = requests
        BY <1>4, <3>2 DEF Run, RunFeeds, RunDrains, RunEnds
      <4> QED BY <1>0, <4>1 DEF AloneOf
    <3> QED BY <3>1, <3>2
  <2>3. InFlight(t)' <= IF runs'[t].at \in Waiting THEN 1 ELSE 0
    <3>1. CASE u # t
      <4>1. InFlight(t)' = InFlight(t)
        BY <1>4, <3>1, RunInFlight
      <4> QED BY <1>0, <2>1, <3>1, <4>1 DEF AloneOf
    <3>2. CASE RunAsks(u) /\ u = t
      <4>1. runs[t].at = "fed" /\ runs'[t].at = "asked"
        BY <3>2 DEF RunAsks, Execution
      <4>2. InFlight(t) = 0
        BY <1>0, <4>1, NothingAsked DEF Waiting
      <4>3. InFlight(t)' = 1
        BY <1>4, <3>2, <4>2, RunInFlight
      <4> QED BY <4>1, <4>3 DEF Waiting
    <3>3. CASE RunEnds(u) /\ u = t
      <4>1. runs[t].at = "drained" /\ ~RunAsks(t)
        BY <3>3 DEF RunEnds, RunAsks
      <4>2. InFlight(t) <= 1
        BY <1>0, <4>1 DEF AloneOf, Waiting
      <4>3. CASE responses[t] > 0
        <5>1. InFlight(t)' = InFlight(t) - 1
          BY <1>4, <3>3, <4>1, <4>3, RunInFlight
        <5>2. InFlight(t)' <= 0
          BY <1>0, <4>2, <5>1
        <5> QED BY <1>0, <5>1, <5>2
      <4>4. CASE ~(responses[t] > 0)
        <5>1. InFlight(t)' = InFlight(t)
          BY <1>4, <3>3, <4>1, <4>4, RunInFlight
        <5>2. runs'[t].at = "asked"
          BY <3>3, <4>4 DEF RunEnds, Execution
        <5> QED BY <4>2, <5>1, <5>2 DEF Waiting
      <4> QED BY <4>3, <4>4
    <3>4. CASE u = t /\ ~RunAsks(u) /\ ~RunEnds(u)
      <4>1. InFlight(t)' = InFlight(t)
        BY <1>4, <3>4, RunInFlight
      <4>2. runs[t].at \in Waiting => runs'[t].at \in Waiting
        BY <1>4, <3>4 DEF Run, RunFeeds, RunDrains, Waiting, Execution
      <4>3. InFlight(t) <= 0 \/ (runs[t].at \in Waiting /\ InFlight(t) <= 1)
        BY <1>0 DEF AloneOf
      <4> QED BY <1>0, <4>1, <4>2, <4>3
    <3> QED BY <3>1, <3>2, <3>3, <3>4
  <2> QED BY <1>0, <2>1, <2>2, <2>3 DEF AloneOf
<1>5. CASE Node
  <2>1. InFlight(t)' = InFlight(t) /\ runs' = runs
    BY <1>5, NodeInFlight, NodeStepTypes DEF nodeFrame
  <2>2. \A i \in DOMAIN requests' : requests'[i].task = t => requests'[i] = Request(t)
    BY <1>0, <1>5 DEF Node, NodeInputs, NodeRequests, NodeExecutes, AloneOf
  <2>3. \A i \in DOMAIN batch' : batch'[i].task = t => batch'[i] = Request(t)
    <3>1. CASE NodeExecutes
      <4>1. batch # <<>> /\ batch' = Tail(batch) /\ batch \in Seq(Asked)
        BY <3>1 DEF NodeExecutes, NodeTypes
      <4>2. \A i \in DOMAIN batch' : i + 1 \in DOMAIN batch /\ batch'[i] = batch[i + 1]
        BY <4>1, HeadIs
      <4> QED BY <1>0, <4>2 DEF AloneOf
    <3>2. CASE ~NodeExecutes
      BY <1>0, <1>5, <3>2 DEF Node, NodeInputs, NodeRequests, AloneOf
    <3> QED BY <3>1, <3>2
  <2> QED BY <1>0, <2>1, <2>2, <2>3 DEF AloneOf, Request
<1>6. CASE UNCHANGED vars
  BY <1>1, <1>6 DEF vars, nodeVars
<1> QED BY <1>3, <1>4, <1>5, <1>6 DEF Next

\* While an execution has the lock, what it sent is the last of the queue, or the
\* view has it.
FedOf(t) ==
  runs[t].at \in Holding /\ X \in DOMAIN runs[t].inputs =>
    \/ inputs # <<>> /\ inputs[Len(inputs)] = Datapoint(runs[t].inputs, X)
    \/ inputs = <<>> /\ X \in DOMAIN view /\ view[X] = runs[t].inputs[X]

FedStays == \A t \in Tasks : FedOf(t)

LEMMA FedStep ==
  ASSUME Types, FedStays, [Next]_vars
  PROVE  FedStays'
<1> USE FlowAssumption DEF Types, BrokerTypes
<1> SUFFICES ASSUME NEW t \in Tasks PROVE FedOf(t)'
  BY DEF FedStays
<1>0. FedOf(t)
  BY DEF FedStays
<1>1. ASSUME UNCHANGED <<inputs, view>>, runs'[t] = runs[t]
      PROVE  FedOf(t)'
  BY <1>0, <1>1 DEF FedOf, Datapoint
<1>2. CASE Tick
  <2>1. UNCHANGED <<inputs, view>>
    BY <1>2, TickFrameIs DEF tickFrame, nodeVars
  <2>2. CASE Launch(t) \/ TickReturns
    <3>1. runs'[t].at \in {"spawned", "none"}
      BY <2>2 DEF Launch, TickReturns, NotRunning
    <3> QED BY <3>1 DEF FedOf, Holding
  <2>3. CASE ~Launch(t) /\ ~TickReturns
    <3>1. runs'[t] = runs[t]
      BY <1>2, <2>3 DEF Tick, StartTick, Launch, RecordFirst, RecordAfterRun, Recorded, UpdateTime
    <3> QED BY <1>1, <2>1, <3>1
  <2> QED BY <2>2, <2>3
<1>3. ASSUME NEW u \in Tasks, RunFeeds(u)
      PROVE  FedOf(t)'
  <2>1. Run(u) /\ inputs' = inputs \o Fed(u)
    BY <1>3 DEF Run, RunFeeds, Fed
  <2>2. CASE t = u
    <3>1. runs'[t].inputs = runs[t].inputs
      BY <2>1, <2>2, RunStages
    <3>2. CASE X \in DOMAIN runs[t].inputs
      <4> DEFINE d == Datapoint(runs[t].inputs, X)
      <4>1. d \in Message /\ inputs' = Append(inputs, d) /\ inputs \in Seq(Message)
        BY <2>1, <2>2, <3>2, FedIs, DatapointIs DEF NodeTypes
      <4>2. Datapoint(runs'[t].inputs, X) = d
        BY <3>1 DEF Datapoint
      <4> HIDE DEF d
      <4>3. inputs' # <<>> /\ inputs'[Len(inputs')] = d
        BY <4>1, AppendIs
      <4> QED BY <4>2, <4>3 DEF FedOf
    <3>3. CASE X \notin DOMAIN runs[t].inputs
      BY <3>1, <3>3 DEF FedOf
    <3> QED BY <3>2, <3>3
  <2>3. CASE t # u
    <3>1. runs[t].at \notin Holding
      BY <1>3 DEF RunFeeds, Locked, Holding
    <3>2. runs'[t] = runs[t]
      BY <2>1, <2>3, RunTypes
    <3> QED BY <3>1, <3>2 DEF FedOf
  <2> QED BY <2>2, <2>3
<1>4. ASSUME NEW u \in Tasks, Run(u), ~RunFeeds(u)
      PROVE  FedOf(t)'
  <2>1. UNCHANGED <<inputs, view>>
    BY <1>4, RunTypes DEF Run, RunAsks, RunDrains, RunEnds, runFrame, nodeVars
  <2>2. CASE t = u
    <3>1. runs[t].at \in Holding
      BY <1>4, <2>2 DEF Run, RunAsks, RunDrains, RunEnds, Holding
    <3>2. runs'[t].inputs = runs[t].inputs
      BY <1>4, <2>2, RunStages
    <3> QED BY <1>0, <2>1, <3>1, <3>2 DEF FedOf, Datapoint
  <2>3. CASE t # u
    BY <1>1, <1>4, <2>1, <2>3, RunTypes
  <2> QED BY <2>2, <2>3
<1>5. CASE NodeInputs
  <2>1. view' = Filled(view, inputs) /\ inputs' = <<>> /\ runs' = runs
    BY <1>5 DEF NodeInputs, nodeFrame
  <2>2. view \in Views /\ inputs \in Seq(Message)
    BY DEF NodeTypes
  <2> SUFFICES ASSUME runs[t].at \in Holding, X \in DOMAIN runs[t].inputs
               PROVE  X \in DOMAIN view' /\ view'[X] = runs[t].inputs[X]
    BY <2>1 DEF FedOf
  <2>3. CASE inputs = <<>>
    BY <1>0, <2>1, <2>2, <2>3, FilledIs DEF FedOf
  <2>4. CASE inputs # <<>>
    <3> DEFINE d == inputs[Len(inputs)]
               e == runs[t].inputs[X]
    <3>1. X \in DOMAIN view' /\ view'[X] = [time |-> d.time, value |-> d.value]
      BY <2>1, <2>2, <2>4, FilledIs
    <3>2. d = Datapoint(runs[t].inputs, X)
      BY <1>0, <2>4 DEF FedOf
    <3>3. e \in Entry /\ d.time = e.time /\ d.value = e.value
      BY <3>2, DatapointIs
    <3> HIDE DEF d, e
    <3>4. [time |-> d.time, value |-> d.value] = e
      BY <3>3 DEF Entry
    <3> QED BY <3>1, <3>4 DEF e
  <2> QED BY <2>3, <2>4
<1>6. CASE NodeRequests \/ NodeExecutes
  <2>1. UNCHANGED <<inputs, view, runs>>
    BY <1>6 DEF NodeRequests, NodeExecutes, nodeFrame
  <2> QED BY <1>1, <2>1
<1>7. CASE UNCHANGED vars
  BY <1>1, <1>7 DEF vars, nodeVars
<1> QED BY <1>2, <1>3, <1>4, <1>5, <1>6, <1>7 DEF Next, Node, Run

-----------------------------------------------------------------------------
(* What a subscription misses *)

\* A reader knows the newest value of the topic, if that came before its last launch.
NotMissedBy(r) ==
  X \in DOMAIN buckets => Known(buckets[X].rows, LaunchedAt(r), sent[r] \union late[r])

NotMissed == \A r \in Readers : NotMissedBy(r)

LEMMA LaunchSees ==
  ASSUME Types, InTime, Control, NotMissed, NEW r \in Readers, Launch(r), X \in DOMAIN buckets
  PROVE  Latest(buckets[X].rows) \in sent'[r] \union late[r]
<1> DEFINE rows == buckets[X].rows
           l == LatestTime(rows)
<1>1. r \in Tasks /\ runs[r].at = "none"
  <2>1. r \in todo /\ launching = NoTask
    BY DEF Launch
  <2>2. r \in Tasks /\ r # NoTask
    BY FlowAssumption DEF Tasks
  <2> QED BY <2>1, <2>2 DEF Control
<1>2. sent'[r] = sent[r] \union Values(TaskInputs(r))
  BY DEF Launch
<1>3. CASE X \in DOMAIN TaskInputs(r)
  <2>1. TaskInputs(r)[X] = Newest(rows)
    BY <1>1, <1>3, FlowAssumption, AskedFromType, TaskInputsIs
  <2>2. TaskInputs(r)[X].value = Latest(rows)
    BY <2>1 DEF Newest
  <2> QED BY <1>2, <1>3, <2>2 DEF Values
<1>4. CASE X \notin DOMAIN TaskInputs(r)
  <2>1. l < AskedFrom(r)
    BY <1>1, <1>4, FlowAssumption, AskedFromType, TaskInputsIs
  <2>2. l \in DOMAIN rows
    BY NewestIs
  <2>3. l \in Nat
    BY <2>2, OpenIs DEF Types, BrokerTypes, IsStore
  <2>4. lastRun[r] \in Int /\ AskedFrom(r) \in Nat
    BY <1>1, AskedFromType DEF Types, BrokerTypes, Ages, Never
  <2>5. lastRun[r] # Never /\ AskedFrom(r) <= lastRun[r]
    <3> HIDE DEF l
    <3> QED BY <1>1, <2>1, <2>3, AskedFromType
  <2>6. LaunchedAt(r) = lastRun[r]
    BY <1>1 DEF LaunchedAt
  <2>7. l < LaunchedAt(r)
    <3> HIDE DEF l
    <3> QED BY <2>1, <2>3, <2>4, <2>5, <2>6
  <2>8. Latest(rows) \in sent[r] \union late[r]
    BY <2>2, <2>7 DEF NotMissed, NotMissedBy, Known
  <2> QED BY <1>2, <2>8
<1> QED BY <1>3, <1>4

LEMMA NotMissedStep ==
  ASSUME Types, InTime, Control, NotMissed, [Next]_vars
  PROVE  NotMissed'
<1> USE FlowAssumption DEF Types, BrokerTypes
<1> SUFFICES ASSUME NEW r \in Readers PROVE NotMissedBy(r)'
  BY DEF NotMissed
<1>0. r \in Tasks /\ NotMissedBy(r)
  BY DEF Tasks, NotMissed
<1>1. ASSUME UNCHANGED <<buckets, sent, late>>, LaunchedAt(r)' = LaunchedAt(r)
      PROVE  NotMissedBy(r)'
  BY <1>0, <1>1 DEF NotMissedBy
<1>2. CASE Launch(r)
  <2>1. UNCHANGED <<buckets, late>>
    BY <1>2 DEF Launch, tickFrame
  <2>2. X \in DOMAIN buckets => Latest(buckets[X].rows) \in sent'[r] \union late[r]
    BY <1>2, LaunchSees
  <2> QED BY <2>1, <2>2 DEF NotMissedBy, Known
<1>3. ASSUME NEW t \in Tasks, Launch(t), t # r
      PROVE  NotMissedBy(r)'
  <2>1. UNCHANGED <<buckets, late, lastRun>> /\ sent'[r] = sent[r] /\ runs'[r] = runs[r]
    BY <1>0, <1>3 DEF Launch, tickFrame
  <2> QED BY <1>0, <2>1 DEF NotMissedBy, LaunchedAt
<1>4. CASE RecordFirst \/ RecordAfterRun
  <2>1. /\ UNCHANGED <<buckets, sent, late, runs>>
        /\ r # launching => lastRun'[r] = lastRun[r]
        /\ launching # NoTask
    BY <1>0, <1>4 DEF RecordFirst, RecordAfterRun, Recorded, tickFrame
  <2>2. r = launching => runs[r].at # "none"
    BY <2>1 DEF Control
  <2> QED BY <1>1, <2>1, <2>2 DEF LaunchedAt
<1>5. CASE StartTick \/ \E delta \in Deltas : UpdateTime(delta)
  BY <1>1, <1>5 DEF StartTick, UpdateTime, tickFrame, LaunchedAt
<1>6. CASE TickReturns
  <2>1. launching = NoTask
    BY <1>6 DEF TickReturns, Control
  <2>2. UNCHANGED <<buckets, sent, late, lastRun>> /\ runs'[r].at = "none"
    BY <1>0, <1>6 DEF TickReturns, NotRunning, tickFrame
  <2>3. runs[r].at # "none" => lastRun[r] = runs[r].now
    BY <1>0, <2>1 DEF Control
  <2> QED BY <1>1, <2>2, <2>3 DEF LaunchedAt
<1>7. ASSUME NEW u \in Tasks, Run(u)
      PROVE  LaunchedAt(r)' = LaunchedAt(r) /\ sent' = sent
  BY <1>0, <1>7, RunStages, RunTypes DEF LaunchedAt, runFrame, brokerVars
<1>8. ASSUME NEW u \in Tasks, RunDrains(u)
      PROVE  NotMissedBy(r)'
  <2> DEFINE at == LaunchedAt(r)
             known == sent'[r] \union late'[r]
             b == BucketOf(buckets)
             S == {c \in Open : Known(c.rows, at, known)}
  <2>1. /\ buckets' = Stored(buckets, outputs)
        /\ late'[r] = late[r] \union
             {outputs[i].value : i \in {i \in DOMAIN outputs : outputs[i].time < at}}
    BY <1>8 DEF RunDrains
  <2>2. LaunchedAt(r)' = at /\ sent' = sent
    BY <1>7, <1>8 DEF Run
  <2>3. at \in Int
    BY <1>0 DEF LaunchedAt, Execution, Ages, Never
  <2>4. outputs \in Seq(Message) /\ IsStore(buckets) /\ b \in Open
    BY BucketOfIs DEF NodeTypes
  <2>5. \A i \in DOMAIN outputs : outputs[i].time < at => outputs[i].value \in known
    BY <2>1
  <2>6. sent[r] \union late[r] \subseteq known
    BY <2>1, <2>2
  <2> HIDE DEF at, known
  <2>7. X \in DOMAIN buckets => Known(buckets[X].rows, at, known)
    BY <1>0, <2>6 DEF NotMissedBy, Known, at
  <2>8. CASE outputs = <<>>
    <3>1. buckets' = buckets
      BY <2>1, <2>4, <2>8, StoredIs
    <3> QED BY <2>2, <2>7, <3>1 DEF NotMissedBy, at, known
  <2>9. CASE outputs # <<>>
    <3>1. b \in S
      <4>1. CASE X \in DOMAIN buckets
        BY <2>4, <2>7, <4>1, BucketOfIs
      <4>2. CASE X \notin DOMAIN buckets
        BY <2>4, <4>2, BucketOfIs DEF Known
      <4> QED BY <4>1, <4>2
    <3>2. ASSUME NEW i \in DOMAIN outputs, NEW c \in Open, c \in S
          PROVE  Added(c, outputs[i]) \in S
      <4>1. outputs[i] \in Message
        BY <2>4
      <4> QED BY <2>3, <2>5, <3>2, <4>1, AddedOpen, AddedKnown
    <3>3. BucketAlong(b, outputs)[Len(outputs)] \in S
      <4> HIDE DEF S, b
      <4> QED BY <2>4, <3>1, <3>2, AlongStays
    <3>4. buckets'[X] = BucketAlong(b, outputs)[Len(outputs)]
      BY <2>1, <2>4, <2>9, StoredIs
    <3>5. Known(buckets'[X].rows, at, known)
      BY <3>3, <3>4
    <3> QED BY <2>2, <3>5 DEF NotMissedBy, at, known
  <2> QED BY <2>8, <2>9
<1>9. ASSUME NEW u \in Tasks, Run(u), ~RunDrains(u)
      PROVE  NotMissedBy(r)'
  <2>1. UNCHANGED <<buckets, late>>
    BY <1>9 DEF Run, RunFeeds, RunAsks, RunEnds
  <2> QED BY <1>1, <1>7, <1>9, <2>1
<1>10. CASE Node \/ UNCHANGED vars
  <2>1. UNCHANGED <<buckets, sent, late, runs, lastRun>>
    BY <1>10, NodeStepTypes DEF nodeFrame, vars, brokerVars
  <2> QED BY <1>1, <2>1 DEF LaunchedAt
<1> QED BY <1>2, <1>3, <1>4, <1>5, <1>6, <1>8, <1>9, <1>10 DEF Next, Tick

-----------------------------------------------------------------------------
(* The theorems *)

IInv ==
  /\ Types /\ InTime /\ Control /\ OneHolder
  /\ Counts /\ Alone /\ FedStays /\ NotMissed

\* Nothing has run and nothing is on its way.
LEMMA InitIInv == Init => IInv
<1> SUFFICES ASSUME Init PROVE IInv
  OBVIOUS
<1>1. Types /\ InTime
  BY InitTypes
<1>2. \A t \in Tasks : runs[t] = NotRunning
  BY DEF Init
<1>3. Control /\ OneHolder /\ FedStays
  BY <1>2, FlowAssumption DEF Init, NotRunning, Control, OneHolder, FedStays, FedOf, Holding
<1>4. \A t \in Tasks : InFlight(t) = 0 /\ Owed(t) = 0
  <2> TAKE t \in Tasks
  <2>1. Pending(<<>>, t) = 0
    <3>1. <<>> \in Seq(Asked)
      OBVIOUS
    <3> QED BY <3>1, PendingIs
  <2>2. InFlight(t) = 0 + 0 + 0
    BY <2>1 DEF Init, InFlight
  <2> QED BY <1>2, <2>2 DEF Init, Owed, NotRunning
<1>5. Counts
  BY <1>4 DEF Init, Counts
<1>6. Alone
  BY <1>4 DEF Init, Alone, AloneOf
<1>7. NotMissed
  BY DEF Init, NotMissed, NotMissedBy
<1> QED BY <1>1, <1>3, <1>5, <1>6, <1>7 DEF IInv

\* Every step preserves the invariant.
LEMMA StepIInv == IInv /\ [Next]_vars => IInv'
BY TypesStep, InTimeStep, ControlStep, CountsStep, AloneStep, FedStep, NotMissedStep DEF IInv

(* No datapoint is newer than the broker's time, in the store, in a queue or in the  *)
(* view, no task has run in its future, and no more responses wait for a task than   *)
(* there were ticks.                                                                 *)
THEOREM FlowTypeCorrect == Spec => []TypeOK
<1>1. ASSUME IInv PROVE TypeOK
  <2> USE <1>1 DEF IInv, Types, BrokerTypes, NodeTypes, InTime, BrokerInTime, NodeInTime
  <2>1. \A of \in Views : (X \in DOMAIN of => of[X].time <= time) => Dated(of)
    <3> SUFFICES ASSUME NEW of \in Views, X \in DOMAIN of => of[X].time <= time,
                        NEW topic \in DOMAIN of
                 PROVE  topic = X /\ of[topic].time \in 0..time
      BY DEF Dated
    <3>1. topic = X
      BY DEF Views, NewView
    <3>2. of[X] \in Entry
      BY <3>1 DEF Views, NewView
    <3> QED BY <3>1, <3>2 DEF Entry
  <2>2. ASSUME NEW t \in Tasks
        PROVE  /\ lastRun[t] \in {Never} \union 0..time
               /\ Dated(runs[t].inputs)
               /\ \A topic \in DOMAIN lastUpdate[t] : lastUpdate[t][topic] \in 0..lastRun[t]
               /\ responses[t] \in 0..MaxTicks
    <3>1. lastRun[t] \in {Never} \union 0..time
      BY DEF Ages
    <3>2. runs[t].inputs \in Views
      BY DEF Execution
    <3>3. Dated(runs[t].inputs)
      BY <2>1, <3>2
    <3>4. /\ Pending(requests, t) \in Nat /\ Pending(batch, t) \in Nat /\ responses[t] \in Nat
          /\ Owed(t) \in {0, 1}
          /\ Pending(requests, t) + Pending(batch, t) + responses[t] + Owed(t) <= ticks
      BY InFlightType DEF Counts, InFlight, Owed
    <3>5. responses[t] <= ticks /\ ticks <= MaxTicks /\ ticks \in Int /\ MaxTicks \in Nat
      BY <3>4, FlowAssumption
    <3>6. responses[t] \in 0..MaxTicks
      BY <3>4, <3>5
    <3> QED BY <3>1, <3>3, <3>6
  <2>3. /\ \A i \in DOMAIN inputs : inputs[i] \in Message
        /\ \A i \in DOMAIN outputs : outputs[i] \in Message
    BY ElementsAre
  <2>4. /\ \A i \in DOMAIN inputs : inputs[i].time \in 0..time
        /\ \A i \in DOMAIN outputs : outputs[i].time \in 0..time
    BY <2>3 DEF Message
  <2>5. Dated(view)
    BY <2>1
  <2>6. launching # NoTask => launching \in todo
    BY DEF Control
  <2> QED BY <2>2, <2>4, <2>5, <2>6 DEF TypeOK
<1> QED BY <1>1, InitIInv, StepIInv, PTL DEF Spec

(* A subscription skips no value the store holds as its newest, unless that was       *)
(* stored after the task had been launched at a later time.                           *)
THEOREM MissedCorrect == Spec => MissedOnlyIfLate
<1> DEFINE Seen == \A r \in Readers : Launch(r) /\ X \in DOMAIN buckets =>
                     Latest(buckets[X].rows) \in sent'[r] \union late[r]
<1>1. IInv /\ [Next]_vars => [Seen]_vars
  BY LaunchSees DEF IInv
<1> QED BY <1>1, InitIInv, StepIInv, PTL DEF Spec, MissedOnlyIfLate

(* A blocking execution is given the very values that were sent with its request, if  *)
(* the node took them from the adapter before the request: no other execution can     *)
(* have put its own into the view in between.                                         *)
THEOREM GivenCorrect == Spec => GivenWhatWasSent
<1> DEFINE Kind(r) ==
             \/ Datapoint(runs[r].inputs, X) \in {inputs[i] : i \in DOMAIN inputs}
             \/ Mode[r] = "new" /\ runs[r].inputs[X].time < runs[r].last
             \/ /\ X \in DOMAIN Given(Head(batch))
                /\ Given(Head(batch))[X] = runs[r].inputs[X]
           Right == \A r \in Readers \ NonBlocking :
                      NodeExecutes /\ Head(batch).task = r /\ X \in DOMAIN runs[r].inputs => Kind(r)
<1>1. ASSUME IInv, NEW r \in Readers \ NonBlocking, NodeExecutes, Head(batch).task = r,
             X \in DOMAIN runs[r].inputs
      PROVE  Kind(r)
  <2> DEFINE request == Head(batch)
  <2>1. r \in Tasks \ NonBlocking /\ Types /\ AloneOf(r) /\ FedOf(r)
    BY <1>1 DEF Tasks, IInv, Alone, FedStays
  <2>2. batch # <<>> /\ batch \in Seq(Asked) /\ inputs \in Seq(Message)
    BY <1>1, <2>1 DEF NodeExecutes, Types, NodeTypes
  <2>3. request = Request(r)
    BY <1>1, <2>1, <2>2, HeadIs DEF AloneOf
  <2>4. runs[r].at \in Waiting
    BY <1>1, <2>1, <2>2, HeadIs, NothingAsked
  <2>5. CASE inputs # <<>>
    <3>1. Len(inputs) \in DOMAIN inputs
      BY <2>2, <2>5
    <3>2. inputs[Len(inputs)] = Datapoint(runs[r].inputs, X)
      BY <1>1, <2>1, <2>4, <2>5 DEF FedOf, Waiting, Holding
    <3> QED BY <3>1, <3>2
  <2>6. CASE inputs = <<>>
    <3>1. X \in DOMAIN view /\ view[X] = runs[r].inputs[X]
      BY <1>1, <2>1, <2>4, <2>6 DEF FedOf, Waiting, Holding
    <3>2. request.task = r /\ request.last = runs[r].last
      BY <2>3 DEF Request
    <3>3. runs[r].last \in Ages /\ view[X].time \in Nat
      <4>1. runs[r].inputs[X] \in Entry
        BY <1>1, <2>1, DatapointIs
      <4> QED BY <2>1, <3>1, <4>1 DEF Types, BrokerTypes, Execution, Entry
    <3> HIDE DEF request
    <3>4. CASE \/ Mode[r] = "latest"
               \/ (IF runs[r].last = Never THEN 0 ELSE runs[r].last) <= view[X].time
      <4>1. X \in DOMAIN Given(request) /\ Given(request)[X] = view[X]
        BY <2>1, <3>1, <3>2, <3>4, GivenIs
      <4> QED BY <3>1, <4>1 DEF request
    <3>5. CASE ~(\/ Mode[r] = "latest"
                 \/ (IF runs[r].last = Never THEN 0 ELSE runs[r].last) <= view[X].time)
      <4>1. Mode[r] = "new"
        BY <3>5, FlowAssumption
      <4>2. view[X].time < runs[r].last
        BY <3>3, <3>5 DEF Ages, Never
      <4> QED BY <3>1, <4>1, <4>2
    <3> QED BY <3>4, <3>5
  <2> QED BY <2>5, <2>6
<1>2. IInv /\ [Next]_vars => [Right]_vars
  BY <1>1
<1> QED BY <1>2, InitIInv, StepIInv, PTL DEF Spec, GivenWhatWasSent

=============================================================================
