---------------------------- MODULE BucketProofs ----------------------------
(***************************************************************************)
(* Theorems about one insertion into a bucket, for any rows, policy and    *)
(* datapoint.  A full bucket drops half of what its policy allows, oldest  *)
(* rows first, before it looks whether the datapoint is stored: enough has *)
(* to go that one row fits, and the latest row has to stay.                *)
(***************************************************************************)
EXTENDS Buckets, CollectionLemmas

-----------------------------------------------------------------------------
\* Rows as a bucket keeps them.
IsRows(rows) ==
  /\ rows = [x \in DOMAIN rows |-> rows[x]]
  /\ IsFiniteSet(DOMAIN rows)
  /\ DOMAIN rows \subseteq Int

IsBucket(b) ==
  /\ b = [rows |-> b.rows, maxRows |-> b.maxRows]
  /\ IsRows(b.rows)
  /\ b.maxRows # NoLimit => b.maxRows \in Nat

\* There is one way to have no rows.
LEMMA NoRowsIs ==
  ASSUME NEW rows, IsRows(rows)
  PROVE  rows = NoRows <=> DOMAIN rows = {}
BY DEF IsRows, NoRows

LEMMA LatestIs ==
  ASSUME NEW rows, IsRows(rows), DOMAIN rows # {}
  PROVE  /\ LatestTime(rows) \in DOMAIN rows
         /\ \A y \in DOMAIN rows : y <= LatestTime(rows)
BY Ends DEF IsRows, LatestTime

\* What is dropped: never the latest row, and the first one if anything is.
LEMMA SurvivorsLemma ==
  ASSUME NEW rows, IsRows(rows), DOMAIN rows # {}, NEW max \in Nat,
         Cardinality(DOMAIN rows) >= max
  PROVE  /\ Survivors(rows, max) \subseteq DOMAIN rows
         /\ LatestTime(rows) \in Survivors(rows, max)
         /\ max >= 2 => Cardinality(Survivors(rows, max)) < Cardinality(DOMAIN rows)
<1> DEFINE D == DOMAIN rows
           Before(x) == {y \in D : y < x}
<1>1. IsFiniteSet(D) /\ D \subseteq Int /\ Cardinality(D) \in Nat
  BY FS_CardinalityType DEF IsRows
<1>2. Survivors(rows, max) = {x \in D : Cardinality(Before(x)) >= max \div 2}
  BY DEF Survivors
<1>3. LatestTime(rows) \in Survivors(rows, max)
  <2> DEFINE l == LatestTime(rows)
  <2>1. l \in D /\ \A y \in D : y <= l
    BY LatestIs
  <2>2. Before(l) = D \ {l}
    BY <1>1, <2>1
  <2>3. Cardinality(D \ {l}) = Cardinality(D) - 1
    BY <1>1, <2>1, FS_RemoveElement
  <2>4. Cardinality(D) # 0
    BY <1>1, <2>1, FS_EmptySet
  <2>5. Cardinality(D) - 1 >= max \div 2
    BY <1>1, <2>4
  <2> QED BY <1>2, <2>1, <2>2, <2>3, <2>5
<1>4. ASSUME max >= 2 PROVE Cardinality(Survivors(rows, max)) < Cardinality(D)
  <2>1. PICK first \in D : \A y \in D : first <= y
    BY <1>1, Ends
  <2>2. Before(first) = {}
    BY <1>1, <2>1
  <2>3. Cardinality(Before(first)) = 0
    BY <2>2, FS_EmptySet
  <2>4. ~(0 >= max \div 2)
    BY <1>4
  <2>5. Survivors(rows, max) \subseteq D \ {first}
    BY <1>2, <2>3, <2>4
  <2>6. IsFiniteSet(D \ {first}) /\ Cardinality(D \ {first}) = Cardinality(D) - 1
    BY <1>1, <2>1, FS_RemoveElement
  <2>7. Cardinality(Survivors(rows, max)) <= Cardinality(D) - 1
    BY <2>5, <2>6, FS_Subset
  <2>8. Cardinality(Survivors(rows, max)) \in Nat
    BY <2>5, <2>6, FS_Subset, FS_CardinalityType
  <2> QED BY <1>1, <2>7, <2>8
<1> QED BY <1>2, <1>3, <1>4

\* What is left when a datapoint arrives.
LEMMA KeptLemma ==
  ASSUME NEW b, IsBucket(b)
  PROVE  /\ IsRows(Kept(b))
         /\ DOMAIN Kept(b) \subseteq DOMAIN b.rows
         /\ \A x \in DOMAIN Kept(b) : Kept(b)[x] = b.rows[x]
         /\ DOMAIN b.rows # {} => LatestTime(b.rows) \in DOMAIN Kept(b)
         /\ b.maxRows # NoLimit /\ b.maxRows >= 2 /\ Cardinality(DOMAIN b.rows) <= b.maxRows =>
              Cardinality(DOMAIN Kept(b)) < b.maxRows
<1> DEFINE D == DOMAIN b.rows
<1>1. IsFiniteSet(D) /\ D \subseteq Int /\ IsRows(b.rows) /\ Cardinality(D) \in Nat
  BY FS_CardinalityType DEF IsBucket, IsRows
<1>2. D # {} => LatestTime(b.rows) \in D
  BY <1>1, LatestIs
<1>3. CASE ~IsFull(b)
  <2>1. Kept(b) = b.rows
    BY <1>3 DEF Kept
  <2>2. b.maxRows # NoLimit => b.maxRows \in Nat /\ ~(Cardinality(D) >= b.maxRows)
    BY <1>3 DEF IsFull, IsBucket
  <2> QED BY <1>1, <1>2, <2>1, <2>2
<1>4. CASE IsFull(b)
  <2> DEFINE S == Survivors(b.rows, b.maxRows)
  <2>1. b.maxRows \in Nat /\ Cardinality(D) >= b.maxRows
    BY <1>4 DEF IsFull, IsBucket
  <2>2. DOMAIN Kept(b) = S
    BY <1>4 DEF Kept
  <2>3. S \subseteq D
    BY DEF Survivors
  <2>4. IsRows(Kept(b)) /\ \A x \in DOMAIN Kept(b) : Kept(b)[x] = b.rows[x]
    <3>1. Kept(b) = [x \in S |-> b.rows[x]]
      BY <1>4 DEF Kept
    <3>2. IsFiniteSet(S) /\ S \subseteq Int
      BY <1>1, <2>3, FS_Subset
    <3> HIDE DEF S
    <3> QED BY <3>1, <3>2 DEF IsRows
  <2>5. D # {} => /\ LatestTime(b.rows) \in S
                  /\ b.maxRows >= 2 => Cardinality(S) < Cardinality(D)
    BY <1>1, <2>1, SurvivorsLemma
  <2>6. D = {} => Cardinality(D) = 0
    BY FS_EmptySet
  <2>7. Cardinality(S) \in Nat
    BY <1>1, <2>3, FS_Subset, FS_CardinalityType
  <2>8. b.maxRows >= 2 /\ Cardinality(D) <= b.maxRows => Cardinality(S) < b.maxRows
    BY <1>1, <2>1, <2>5, <2>6, <2>7
  <2> QED BY <2>2, <2>3, <2>4, <2>5, <2>8
<1> QED BY <1>3, <1>4

LEMMA AddedIs ==
  ASSUME NEW b, IsBucket(b), NEW d
  PROVE  /\ IsBucket(Added(b, d)) \/ d.time \notin Int
         /\ Added(b, d).maxRows = b.maxRows
         /\ \/ Added(b, d).rows = Kept(b)
            \/ DOMAIN Added(b, d).rows = DOMAIN Kept(b) \union {d.time}
<1>1. b = [rows |-> b.rows, maxRows |-> b.maxRows]
  BY DEF IsBucket
<1>2. /\ Added(b, d).maxRows = b.maxRows
      /\ Added(b, d) = [rows |-> Added(b, d).rows, maxRows |-> b.maxRows]
      /\ Added(b, d).rows = IF Stores(b, d) THEN Row(Kept(b), d) ELSE Kept(b)
  BY <1>1 DEF Added
<1>3. DOMAIN Row(Kept(b), d) = DOMAIN Kept(b) \union {d.time}
  BY DEF Row
<1>4. IsRows(Kept(b))
  BY KeptLemma
<1>5. d.time \in Int => IsRows(Row(Kept(b), d))
  <2> DEFINE D == DOMAIN Kept(b) \union {d.time}
  <2>1. Row(Kept(b), d) = [x \in D |-> IF x = d.time THEN d.value ELSE Kept(b)[x]]
    BY DEF Row
  <2>2. d.time \in Int => IsFiniteSet(D) /\ D \subseteq Int
    BY <1>4, FS_AddElement DEF IsRows
  <2> HIDE DEF D
  <2> QED BY <2>1, <2>2 DEF IsRows
<1> QED BY <1>2, <1>3, <1>4, <1>5 DEF IsBucket

(* A bucket within a policy of two rows or more stays within it, whatever arrives  *)
(* and whether or not it is stored: add_datapoint makes room before it inserts.    *)
(* (A policy of one row is not kept: half of one is none.)                         *)
THEOREM RetentionKept ==
  ASSUME NEW b, IsBucket(b), b.maxRows # NoLimit, b.maxRows >= 2,
         Cardinality(DOMAIN b.rows) <= b.maxRows,
         NEW d, d.time \in Int
  PROVE  /\ IsBucket(Added(b, d))
         /\ Cardinality(DOMAIN Added(b, d).rows) <= Added(b, d).maxRows
<1>1. b.maxRows \in Nat
  BY DEF IsBucket
<1>2. IsFiniteSet(DOMAIN Kept(b)) /\ Cardinality(DOMAIN Kept(b)) < b.maxRows
  BY KeptLemma DEF IsRows
<1>3. Cardinality(DOMAIN Kept(b)) \in Nat
  BY <1>2, FS_CardinalityType
<1>4. \/ Cardinality(DOMAIN Kept(b) \union {d.time}) = Cardinality(DOMAIN Kept(b))
      \/ Cardinality(DOMAIN Kept(b) \union {d.time}) = Cardinality(DOMAIN Kept(b)) + 1
  BY <1>2, FS_AddElement
<1>5. Cardinality(DOMAIN Kept(b) \union {d.time}) <= b.maxRows
  BY <1>1, <1>2, <1>3, <1>4
<1>6. /\ IsBucket(Added(b, d)) /\ Added(b, d).maxRows = b.maxRows
      /\ \/ DOMAIN Added(b, d).rows = DOMAIN Kept(b)
         \/ DOMAIN Added(b, d).rows = DOMAIN Kept(b) \union {d.time}
  BY AddedIs
<1>7. CASE DOMAIN Added(b, d).rows = DOMAIN Kept(b)
  <2>1. Cardinality(DOMAIN Kept(b)) <= b.maxRows
    BY <1>1, <1>2, <1>3
  <2> QED BY <1>6, <1>7, <2>1, Zenon
<1>8. CASE DOMAIN Added(b, d).rows = DOMAIN Kept(b) \union {d.time}
  BY <1>5, <1>6, <1>8, Zenon
<1> QED BY <1>6, <1>7, <1>8

(* Whatever the policy, an insertion neither drops the latest row nor lets an older *)
(* one become the latest, though rows are dropped whether or not the datapoint is   *)
(* stored and datapoints arrive late.                                               *)
THEOREM LatestKept ==
  ASSUME NEW b, IsBucket(b), DOMAIN b.rows # {}, NEW d, d.time \in Int
  PROVE  /\ LatestTime(b.rows) \in DOMAIN Added(b, d).rows
         /\ LatestTime(b.rows) <= LatestTime(Added(b, d).rows)
<1> DEFINE rows == Added(b, d).rows
<1>1. LatestTime(b.rows) \in DOMAIN rows
  BY KeptLemma, AddedIs
<1>2. IsRows(rows)
  BY AddedIs DEF IsBucket
<1> QED BY <1>1, <1>2, LatestIs

-----------------------------------------------------------------------------
(* Rows that arrive in order *)

\* The latest row stays the latest one when a bucket makes room.
LEMMA KeptLatest ==
  ASSUME NEW b, IsBucket(b), DOMAIN b.rows # {}
  PROVE  /\ DOMAIN Kept(b) # {}
         /\ LatestTime(Kept(b)) = LatestTime(b.rows)
         /\ Latest(Kept(b)) = Latest(b.rows)
<1> DEFINE l == LatestTime(b.rows)
           k == LatestTime(Kept(b))
<1>1. l \in DOMAIN Kept(b) /\ DOMAIN Kept(b) \subseteq DOMAIN b.rows
  BY KeptLemma
<1>2. \A y \in DOMAIN b.rows : y <= l
  BY LatestIs DEF IsBucket
<1>3. k \in DOMAIN Kept(b) /\ \A y \in DOMAIN Kept(b) : y <= k
  BY <1>1, KeptLemma, LatestIs
<1>4. k \in Int /\ l \in Int
  BY <1>1, <1>3 DEF IsBucket, IsRows
<1>5. k = l
  <2> HIDE DEF k, l
  <2>1. k <= l /\ l <= k
    BY <1>1, <1>2, <1>3
  <2> QED BY <1>4, <2>1
<1>6. Kept(b)[l] = b.rows[l]
  BY <1>1, KeptLemma
<1> QED BY <1>1, <1>5, <1>6 DEF Latest

\* What a bucket drops is older than all it keeps.
LEMMA KeptUpward ==
  ASSUME NEW b, IsBucket(b), NEW x \in DOMAIN Kept(b), NEW y \in DOMAIN b.rows, x < y
  PROVE  y \in DOMAIN Kept(b)
<1> DEFINE D == DOMAIN b.rows
           Before(z) == {u \in D : u < z}
<1>1. IsFiniteSet(D) /\ D \subseteq Int /\ x \in D
  BY KeptLemma DEF IsBucket, IsRows
<1>2. CASE ~IsFull(b)
  BY <1>2 DEF Kept
<1>3. CASE IsFull(b)
  <2>1. DOMAIN Kept(b) = {z \in D : Cardinality(Before(z)) >= b.maxRows \div 2}
    BY <1>3 DEF Kept, Survivors
  <2>2. Before(x) \subseteq Before(y)
    BY <1>1
  <2>3. IsFiniteSet(Before(y))
    BY <1>1, FS_Subset
  <2>4. b.maxRows \in Nat /\ b.maxRows \div 2 \in Int
    BY <1>3 DEF IsFull, IsBucket
  <2>5. Cardinality(Before(x)) >= b.maxRows \div 2
    BY <2>1
  <2> HIDE DEF Before
  <2>6. /\ Cardinality(Before(x)) <= Cardinality(Before(y))
        /\ Cardinality(Before(x)) \in Nat /\ Cardinality(Before(y)) \in Nat
    BY <2>2, <2>3, FS_Subset, FS_CardinalityType
  <2>7. Cardinality(Before(y)) >= b.maxRows \div 2
    BY <2>4, <2>5, <2>6
  <2> QED BY <2>1, <2>7
<1> QED BY <1>2, <1>3

\* The latest value after an insertion: the one that was stored, if it came after
\* all rows, and the one there was, if none was stored.
LEMMA LatestAdded ==
  ASSUME NEW b, IsBucket(b), NEW d
  PROVE  /\ ~Stores(b, d) =>
              /\ DOMAIN b.rows # {} /\ DOMAIN Added(b, d).rows # {}
              /\ Latest(Added(b, d).rows) = Latest(b.rows)
              /\ Latest(b.rows) = d.value
         /\ d.time \in Int /\ (\A x \in DOMAIN b.rows : x < d.time) =>
              DOMAIN Added(b, d).rows # {} /\ Latest(Added(b, d).rows) = d.value
<1>1. Added(b, d).rows = IF Stores(b, d) THEN Row(Kept(b), d) ELSE Kept(b)
  <2>1. b = [rows |-> b.rows, maxRows |-> b.maxRows]
    BY DEF IsBucket
  <2> QED BY <2>1 DEF Added
<1>2. ASSUME ~Stores(b, d)
      PROVE  /\ DOMAIN b.rows # {} /\ DOMAIN Added(b, d).rows # {}
             /\ Latest(Added(b, d).rows) = Latest(b.rows)
             /\ Latest(b.rows) = d.value
  <2>1. Kept(b) # NoRows /\ Latest(Kept(b)) = d.value
    BY <1>2 DEF Stores, Differs
  <2>2. DOMAIN Kept(b) # {} /\ DOMAIN b.rows # {}
    BY <2>1, KeptLemma, NoRowsIs
  <2> QED BY <1>1, <1>2, <2>1, <2>2, KeptLatest
<1>3. ASSUME Stores(b, d), d.time \in Int, \A x \in DOMAIN b.rows : x < d.time
      PROVE  DOMAIN Added(b, d).rows # {} /\ Latest(Added(b, d).rows) = d.value
  <2> DEFINE rows == Row(Kept(b), d)
  <2>1. Added(b, d).rows = rows
    BY <1>1, <1>3
  <2>2. DOMAIN rows = DOMAIN Kept(b) \union {d.time} /\ rows[d.time] = d.value
    BY DEF Row
  <2>3. IsRows(rows)
    BY <1>3, <2>1, AddedIs DEF IsBucket
  <2>4. /\ LatestTime(rows) \in DOMAIN rows
        /\ d.time <= LatestTime(rows)
    BY <2>2, <2>3, LatestIs
  <2>5. \A x \in DOMAIN Kept(b) : x < d.time /\ x \in Int
    BY <1>3, KeptLemma DEF IsRows
  <2> HIDE DEF rows
  <2>6. LatestTime(rows) = d.time
    BY <1>3, <2>2, <2>4, <2>5
  <2> QED BY <2>1, <2>2, <2>6 DEF Latest
<1> QED BY <1>2, <1>3

\* Two rows in a row differ.
Alternates(rows) ==
  \A x, y \in DOMAIN rows :
    x < y /\ rows[x] = rows[y] => \E z \in DOMAIN rows : x < z /\ z < y

(* A bucket whose rows arrive in order holds only changes: making room takes no    *)
(* row out of the middle, and what is stored differs from the row before it, the   *)
(* one that is still there after rows were dropped.                                *)
THEOREM ChangesKept ==
  ASSUME NEW b, IsBucket(b), Alternates(b.rows),
         NEW d, d.time \in Int, \A x \in DOMAIN b.rows : x < d.time
  PROVE  Alternates(Added(b, d).rows)
<1> DEFINE kept == Kept(b)
<1>1. /\ IsRows(kept)
      /\ DOMAIN kept \subseteq DOMAIN b.rows
      /\ \A x \in DOMAIN kept : kept[x] = b.rows[x]
  BY KeptLemma
<1>2. DOMAIN b.rows \subseteq Int
  BY DEF IsBucket, IsRows
<1>3. \A x \in DOMAIN kept, y \in DOMAIN b.rows : x < y => y \in DOMAIN kept
  BY KeptUpward
<1>4. Added(b, d).rows = IF Stores(b, d) THEN Row(kept, d) ELSE kept
  <2>1. b = [rows |-> b.rows, maxRows |-> b.maxRows]
    BY DEF IsBucket
  <2> QED BY <2>1 DEF Added
<1>5. Stores(b, d) => kept = NoRows \/ Latest(kept) # d.value
  BY DEF Stores, Differs
<1> HIDE DEF kept
<1>6. Alternates(kept)
  BY <1>1, <1>3 DEF Alternates
<1>7. ASSUME Stores(b, d) PROVE Alternates(Row(kept, d))
  <2> DEFINE rows == Row(kept, d)
  <2>1. /\ DOMAIN rows = DOMAIN kept \union {d.time}
        /\ rows[d.time] = d.value
        /\ \A x \in DOMAIN kept : rows[x] = kept[x]
    <3>1. \A x \in DOMAIN kept : x < d.time /\ x \in Int
      BY <1>1, <1>2
    <3> QED BY <3>1 DEF Row
  <2> HIDE DEF rows
  <2>2. \A x \in DOMAIN kept : x < d.time /\ x \in Int
    BY <1>1, <1>2
  <2> SUFFICES ASSUME NEW x \in DOMAIN rows, NEW y \in DOMAIN rows,
                      x < y, rows[x] = rows[y]
               PROVE  \E z \in DOMAIN rows : x < z /\ z < y
    BY DEF Alternates, rows
  <2>3. x \in DOMAIN kept
    BY <2>1, <2>2
  <2>4. CASE y \in DOMAIN kept
    <3>1. PICK z \in DOMAIN kept : x < z /\ z < y
      BY <1>6, <2>1, <2>3, <2>4 DEF Alternates
    <3> QED BY <2>1, <3>1
  <2>5. CASE y = d.time
    <3> DEFINE l == LatestTime(kept)
    <3>1. l \in DOMAIN kept /\ x <= l
      BY <1>1, <2>3, LatestIs
    <3>2. kept[l] # d.value
      BY <1>1, <1>5, <1>7, <2>3, NoRowsIs DEF Latest
    <3> HIDE DEF l
    <3>3. x # l
      BY <2>1, <2>3, <2>5, <3>2
    <3>4. x < l /\ l < y
      BY <2>2, <2>3, <2>5, <3>1, <3>3
    <3> QED BY <2>1, <3>1, <3>4
  <2> QED BY <2>1, <2>4, <2>5
<1> QED BY <1>4, <1>6, <1>7

=============================================================================
