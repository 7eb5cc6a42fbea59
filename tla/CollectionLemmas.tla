-------------------------- MODULE CollectionLemmas --------------------------
(***************************************************************************)
(* Facts about numbers, finite sets, sequences and recursive functions     *)
(* that the proofs about several components need.                          *)
(***************************************************************************)
EXTENDS Integers, Sequences, FunctionTheorems, FiniteSetTheorems, TLAPS

-----------------------------------------------------------------------------
(* A sequence without repetitions when one place is taken out and the gap is *)
(* closed, as Vec::retain does for an id listed once.                        *)

\* v holds what is before the gap and what is behind it, each element once.
LEMMA GapClosed ==
  ASSUME NEW S, NEW s \in Seq(S), NEW i \in DOMAIN s,
         \A j, k \in DOMAIN s : s[j] = s[k] => j = k,
         NEW v, v = [j \in 1..(Len(s) - 1) |-> IF j < i THEN s[j] ELSE s[j + 1]]
  PROVE  /\ v \in Seq(S)
         /\ \A j, k \in DOMAIN v : v[j] = v[k] => j = k
         /\ Len(v) = Len(s) - 1
         /\ \A j \in DOMAIN v : v[j] = IF j < i THEN s[j] ELSE s[j + 1]
<1>1. PICK n \in Nat :
        /\ n = Len(s)
        /\ DOMAIN s = 1..n
        /\ i \in 1..n
        /\ \A j \in 1..n : s[j] \in S
        /\ \A j, k \in 1..n : s[j] = s[k] => j = k
  OBVIOUS
<1>2. v = [j \in 1..(n - 1) |-> IF j < i THEN s[j] ELSE s[j + 1]]
  BY <1>1
<1>3. /\ v \in Seq(S)
      /\ Len(v) = n - 1
      /\ DOMAIN v = 1..(n - 1)
  BY <1>1, <1>2
<1>4. \A j \in DOMAIN v : v[j] = IF j < i THEN s[j] ELSE s[j + 1]
  BY <1>2, <1>3
<1>5. \A j, k \in DOMAIN v : v[j] = v[k] => j = k
  BY <1>1, <1>3, <1>4
<1> QED BY <1>1, <1>3, <1>4, <1>5

\* An index that counts from 0 and wraps.
LEMMA NextIndex ==
  ASSUME NEW n \in Nat, NEW c \in Nat, c < n
  PROVE  /\ (c + 1) % n \in Nat
         /\ (c + 1) % n < n
         /\ c + 1 < n => (c + 1) % n = c + 1
         /\ c + 1 = n => (c + 1) % n = 0
OBVIOUS

-----------------------------------------------------------------------------
(* Numbers up to a bound *)

\* A finite set of numbers has both ends.
LEMMA Ends ==
  ASSUME NEW S, IsFiniteSet(S), S \subseteq Int, S # {}
  PROVE  /\ \E x \in S : \A y \in S : y <= x
         /\ \E x \in S : \A y \in S : x <= y
<1> DEFINE HasEnds(U) == /\ \E x \in U : \A y \in U : y <= x
                         /\ \E x \in U : \A y \in U : x <= y
           Bad == {U \in SUBSET S : U # {} /\ ~HasEnds(U)}
<1>1. SUFFICES ASSUME Bad # {} PROVE FALSE
  OBVIOUS
<1>2. Bad \subseteq FiniteSubsetsOf(S)
  BY FS_Subset DEF FiniteSubsetsOf
<1>3. PICK M \in Bad : \A U \in Bad : ~(<<U, M>> \in StrictSubsetOrdering(S))
  <2> HIDE DEF Bad
  <2> QED BY <1>1, <1>2, WFMin, FS_StrictSubsetOrderingWellFounded
<1>4. PICK x \in M : TRUE
  OBVIOUS
<1> DEFINE U == M \ {x}
<1>5. M \subseteq Int /\ x \in Int /\ ~HasEnds(M)
  OBVIOUS
<1>6. CASE U = {}
  <2>1. M = {x}
    BY <1>4, <1>6
  <2> QED BY <1>5, <2>1
<1>7. CASE U # {}
  <2>1. U \notin Bad
    BY <1>3, <1>4 DEF StrictSubsetOrdering
  <2>2. HasEnds(U)
    BY <1>7, <2>1
  <2>3. PICK hi \in U : \A y \in U : y <= hi
    BY <2>2
  <2>4. PICK lo \in U : \A y \in U : lo <= y
    BY <2>2
  <2>5. \E z \in M : \A y \in M : y <= z
    <3>1. CASE hi <= x
      BY <1>4, <1>5, <2>3, <3>1
    <3>2. CASE ~(hi <= x)
      BY <1>4, <1>5, <2>3, <3>2
    <3> QED BY <3>1, <3>2
  <2>6. \E z \in M : \A y \in M : z <= y
    <3>1. CASE x <= lo
      BY <1>4, <1>5, <2>4, <3>1
    <3>2. CASE ~(x <= lo)
      BY <1>4, <1>5, <2>4, <3>2
    <3> QED BY <3>1, <3>2
  <2> QED BY <1>5, <2>5, <2>6
<1> QED BY <1>6, <1>7

\* Induction up to a bound.
LEMMA IntervalInduction ==
  ASSUME NEW n \in Nat, NEW S, 0 \in S,
         \A i \in 0..(n - 1) : i \in S => i + 1 \in S
  PROVE  0..n \subseteq S
<1> DEFINE Bad == (0..n) \ S
<1>1. SUFFICES ASSUME Bad # {} PROVE FALSE
  OBVIOUS
<1>2. IsFiniteSet(Bad) /\ Bad \subseteq Int
  <2>1. IsFiniteSet(0..n)
    BY FS_Interval
  <2>2. Bad \in SUBSET (0..n)
    OBVIOUS
  <2> QED BY <2>1, <2>2, FS_Subset
<1>3. PICK m \in Bad : \A k \in Bad : m <= k
  BY <1>1, <1>2, Ends
<1>4. m # 0 /\ m \in 0..n
  OBVIOUS
<1>5. m - 1 \in 0..(n - 1) /\ m - 1 \in 0..n /\ (m - 1) + 1 = m /\ ~(m <= m - 1)
  BY <1>4
<1>6. m - 1 \in S
  BY <1>3, <1>5
<1> QED BY <1>5, <1>6

\* f starts at x and takes every value from the one before.
Iterates(f, n, S, x, step) ==
  /\ f \in [0..n -> S]
  /\ f[0] = x
  /\ \A i \in 1..n : f[i] = step[i][f[i - 1]]

\* A function that is defined along a sequence exists.
LEMMA RecursionAlong ==
  ASSUME NEW n \in Nat, NEW S, NEW x \in S, NEW step \in [1..n -> [S -> S]]
  PROVE  \E f : Iterates(f, n, S, x, step)
<1> DEFINE Along(f, k) == f[0] = x /\ \A i \in 1..k : f[i] = step[i][f[i - 1]]
           P == {k \in 0..n : \E f \in [0..k -> S] : Along(f, k)}
<1>1. 0 \in P
  <2> DEFINE f == [i \in 0..0 |-> x]
  <2>1. f \in [0..0 -> S] /\ f[0] = x
    OBVIOUS
  <2>2. \A i \in 1..0 : f[i] = step[i][f[i - 1]]
    <3> HIDE DEF f
    <3> QED OBVIOUS
  <2> HIDE DEF f
  <2>3. \E e \in [0..0 -> S] : Along(e, 0)
    BY <2>1, <2>2
  <2> HIDE DEF Along
  <2> QED BY <2>3
<1>2. ASSUME NEW k \in 0..(n - 1), k \in P
      PROVE  k + 1 \in P
  <2>1. PICK f \in [0..k -> S] : Along(f, k)
    BY <1>2
  <2> DEFINE y == step[k + 1][f[k]]
             h == [i \in 0..(k + 1) |-> IF i = k + 1 THEN y ELSE f[i]]
  <2>2. k \in Nat /\ k + 1 \in 1..n /\ k \in 0..k
    OBVIOUS
  <2>3. y \in S
    BY <2>1, <2>2
  <2> HIDE DEF y
  <2>4. h \in [0..(k + 1) -> S]
    BY <2>2, <2>3
  <2>5. h[0] = x
    BY <2>1, <2>2
  <2>6. ASSUME NEW i \in 1..(k + 1)
        PROVE  h[i] = step[i][h[i - 1]]
    <3>1. CASE i = k + 1
      BY <2>2, <3>1 DEF y
    <3>2. CASE i # k + 1
      <4>1. i \in 1..k /\ h[i] = f[i] /\ h[i - 1] = f[i - 1]
        BY <2>2, <3>2
      <4> QED BY <2>1, <4>1
    <3> QED BY <3>1, <3>2
  <2> HIDE DEF h
  <2>7. Along(h, k + 1)
    BY <2>5, <2>6
  <2>8. \E e \in [0..(k + 1) -> S] : Along(e, k + 1)
    BY <2>4, <2>7
  <2> HIDE DEF Along
  <2> QED BY <2>2, <2>8
<1>3. n \in P
  <2> HIDE DEF P
  <2>1. 0..n \subseteq P
    BY <1>1, <1>2, IntervalInduction
  <2> QED BY <2>1
<1>4. PICK f \in [0..n -> S] : Along(f, n)
  BY <1>3
<1>5. Iterates(f, n, S, x, step)
  BY <1>4 DEF Iterates
<1> QED BY <1>5

-----------------------------------------------------------------------------
(* Counting the places of an element in a sequence *)

Places(s, t) == Cardinality({i \in DOMAIN s : s[i] = t})

\* They are finitely many.
LEMMA PlacesType ==
  ASSUME NEW S, NEW s \in Seq(S), NEW t
  PROVE  /\ IsFiniteSet({i \in DOMAIN s : s[i] = t})
         /\ Places(s, t) \in Nat
         /\ Places(<<>>, t) = 0
<1> DEFINE n == Len(s)
           P == {i \in DOMAIN s : s[i] = t}
<1>1. n \in Nat /\ DOMAIN s = 1..n
  OBVIOUS
<1>2. IsFiniteSet(1..n)
  BY <1>1, FS_Interval
<1>3. P \in SUBSET (1..n)
  BY <1>1
<1>4. IsFiniteSet(P)
  <2> HIDE DEF P, n
  <2> QED BY <1>2, <1>3, FS_Subset
<1>5. Places(s, t) \in Nat
  BY <1>4, FS_CardinalityType DEF Places
<1>6. Places(<<>>, t) = 0
  <2>1. {i \in DOMAIN <<>> : (<<>>)[i] = t} = {}
    OBVIOUS
  <2> QED BY <2>1, FS_EmptySet DEF Places
<1> QED BY <1>4, <1>5, <1>6

\* One more element at the end.
LEMMA PlacesAppend ==
  ASSUME NEW S, NEW s \in Seq(S), NEW u \in S, NEW t
  PROVE  Places(Append(s, u), t) = Places(s, t) + IF u = t THEN 1 ELSE 0
<1> DEFINE n == Len(s)
           r == Append(s, u)
           P == {i \in DOMAIN s : s[i] = t}
           Q == {i \in DOMAIN r : r[i] = t}
<1>1. n \in Nat /\ DOMAIN s = 1..n
  OBVIOUS
<1>2. /\ DOMAIN r = 1..(n + 1)
      /\ \A i \in 1..n : r[i] = s[i]
      /\ r[n + 1] = u
  BY <1>1
<1>3. IsFiniteSet(P) /\ Cardinality(P) \in Nat
  BY PlacesType DEF Places
<1> HIDE DEF n, r
<1>4. n + 1 \notin P
  BY <1>1
<1>5. 1..(n + 1) = (1..n) \union {n + 1}
  BY <1>1
<1>6. CASE u = t
  <2>1. Q = P \union {n + 1}
    BY <1>1, <1>2, <1>5, <1>6
  <2> HIDE DEF P, Q
  <2>2. Cardinality(Q) = Cardinality(P) + 1
    BY <1>3, <1>4, <2>1, FS_AddElement
  <2> QED BY <1>6, <2>2 DEF Places, P, Q, r
<1>7. CASE u # t
  <2>1. Q = P
    BY <1>1, <1>2, <1>5, <1>7
  <2> HIDE DEF P, Q
  <2>2. Cardinality(Q) = Cardinality(P) + 0
    BY <1>3, <2>1
  <2> QED BY <1>7, <2>2 DEF Places, P, Q, r
<1> QED BY <1>6, <1>7

\* The first element goes.
LEMMA PlacesTail ==
  ASSUME NEW S, NEW s \in Seq(S), s # <<>>, NEW t
  PROVE  Places(s, t) = Places(Tail(s), t) + IF Head(s) = t THEN 1 ELSE 0
<1> DEFINE n == Len(s)
           r == Tail(s)
           P == {i \in DOMAIN s : s[i] = t}
           Q == {i \in DOMAIN r : r[i] = t}
           R == P \ {1}
           f == [i \in R |-> i - 1]
<1>1. n \in Nat /\ n > 0 /\ DOMAIN s = 1..n
  OBVIOUS
<1>2. /\ r \in Seq(S)
      /\ DOMAIN r = 1..(n - 1)
      /\ \A i \in 1..(n - 1) : r[i] = s[i + 1]
      /\ Head(s) = s[1]
  BY <1>1
<1>3. IsFiniteSet(P) /\ Cardinality(P) \in Nat
  BY PlacesType DEF Places
<1>4. IsFiniteSet(Q) /\ Cardinality(Q) \in Nat
  <2> HIDE DEF r
  <2> QED BY <1>2, PlacesType DEF Places
<1> HIDE DEF n, r
<1>5. f \in Bijection(R, Q)
  <2>1. \A i \in R : i - 1 \in Q
    <3>1. \A i \in 2..n : i - 1 \in 1..(n - 1) /\ (i - 1) + 1 = i
      BY <1>1
    <3>2. \A i \in R : i \in 2..n /\ s[i] = t
      BY <1>1
    <3> QED BY <1>2, <3>1, <3>2
  <2>2. \A i, j \in R : f[i] = f[j] => i = j
    BY <1>1
  <2>3. \A j \in Q : j + 1 \in R /\ f[j + 1] = j
    BY <1>1, <1>2
  <2>4. f \in [R -> Q]
    BY <2>1
  <2>5. \A j \in Q : \E i \in R : f[i] = j
    BY <2>3
  <2> HIDE DEF f, R, Q
  <2> QED BY <2>2, <2>4, <2>5, Fun_IsBij
<1>6. IsFiniteSet(R) /\ Cardinality(R) = Cardinality(Q)
  <2>1. IsFiniteSet(R)
    BY <1>3, FS_RemoveElement
  <2>2. ExistsBijection(R, Q)
    BY <1>5 DEF ExistsBijection
  <2> HIDE DEF R, Q
  <2> QED BY <2>1, <2>2, FS_Bijection
<1>7. CASE Head(s) = t
  <2>1. 1 \in P
    BY <1>1, <1>2, <1>7
  <2> HIDE DEF P, Q
  <2>2. Cardinality(R) = Cardinality(P) - 1
    BY <1>3, <2>1, FS_RemoveElement
  <2>3. Cardinality(P) = Cardinality(Q) + 1
    BY <1>3, <1>4, <1>6, <2>2
  <2> QED BY <1>7, <2>3 DEF Places, P, Q, r
<1>8. CASE Head(s) # t
  <2>1. R = P
    BY <1>1, <1>2, <1>8
  <2> HIDE DEF P, Q, R
  <2>2. Cardinality(P) = Cardinality(Q) + 0
    BY <1>4, <1>6, <2>1
  <2> QED BY <1>8, <2>2 DEF Places, P, Q, r
<1> QED BY <1>7, <1>8

=============================================================================
