------------------------------ MODULE Buckets ------------------------------
(***************************************************************************)
(* A bucket of vs-data-store: the rows of one topic by their time, and the *)
(* bound on their number.  [rows: time -> value, maxRows].                 *)
(***************************************************************************)
EXTENDS Integers, FiniteSets

CONSTANT NoLimit   \* max_rows is None

NoRows == [time \in {} |-> 0]

LatestTime(rows) == CHOOSE x \in DOMAIN rows : \A y \in DOMAIN rows : y <= x

Latest(rows) == rows[LatestTime(rows)]

\* MUTATION of Survivors: a full bucket loses all its rows.
NoSurvivors(rows, maxRows) == {}

\* The rows a full bucket keeps: all but the oldest max_rows / 2.
Survivors(rows, maxRows) ==
  {x \in DOMAIN rows :
     Cardinality({y \in DOMAIN rows : y < x}) >= maxRows \div 2}

\* MUTATION of IsFull: one row too late.
IsOverfull(bucket) ==
  bucket.maxRows # NoLimit /\ Cardinality(DOMAIN bucket.rows) > bucket.maxRows

IsFull(bucket) ==
  bucket.maxRows # NoLimit /\ Cardinality(DOMAIN bucket.rows) >= bucket.maxRows

\* The rows that are left when a datapoint arrives, whether it is stored or not.
Kept(bucket) ==
  IF IsFull(bucket)
  THEN [x \in Survivors(bucket.rows, bucket.maxRows) |-> bucket.rows[x]]
  ELSE bucket.rows

\* MUTATION of Differs: every datapoint is stored.
AlwaysDiffers(rows, value) == TRUE

Differs(rows, value) == rows = NoRows \/ Latest(rows) # value

\* Bucket::add_datapoint returns 1.
Stores(bucket, d) == Differs(Kept(bucket), d.value)

\* MUTATION of Row: rows are numbered, not keyed by their time.
NumberedRow(rows, d) ==
  [x \in DOMAIN rows \union {Cardinality(DOMAIN rows)} |->
     IF x = Cardinality(DOMAIN rows) THEN d.value ELSE rows[x]]

\* MUTATION of Row: a row of the same time stays.
RowOnce(rows, d) ==
  [x \in DOMAIN rows \union {d.time} |-> IF x \in DOMAIN rows THEN rows[x] ELSE d.value]

\* BTreeMap::insert: a row of the same time is overwritten.
Row(rows, d) ==
  [x \in DOMAIN rows \union {d.time} |-> IF x = d.time THEN d.value ELSE rows[x]]

Added(bucket, d) ==
  [bucket EXCEPT !.rows = IF Stores(bucket, d) THEN Row(Kept(bucket), d)
                                              ELSE Kept(bucket)]

\* get_data_points_after: the rows at that time count.
TimesFrom(rows, time) == {x \in DOMAIN rows : time <= x}

\* MUTATION of TimesBefore: they do.
TimesUpTo(rows, time) == {x \in DOMAIN rows : x <= time}

\* get_data_points_before: they do not.
TimesBefore(rows, time) == {x \in DOMAIN rows : x < time}

\* get_updated_value: the value just before the time, or else the latest one.
ValueBefore(rows, time) ==
  IF TimesBefore(rows, time) = {} THEN Latest(rows)
  ELSE Latest([x \in TimesBefore(rows, time) |-> rows[x]])

=============================================================================
