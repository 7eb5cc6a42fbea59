------------------------ MODULE TcpConnectionProofs ------------------------
(***************************************************************************)
(* Theorems about one direction of a TCP connection, for any number of     *)
(* messages of any sizes, and any limits of channels, socket and buffer.   *)
(*                                                                         *)
(* The units that are sent and not parsed yet are looked at as one stream: *)
(* the read buffer followed by the socket.  TypeOK needs to know that the  *)
(* buffer is small between reads (TypeInv).  That a message read from the  *)
(* front takes all its units with it needs the order of the stream         *)
(* (StreamInv).  That the limit cuts nothing but large messages needs that *)
(* a stream of which nothing was cut goes on unit by unit (WholeInv).      *)
(***************************************************************************)
EXTENDS TcpConnection, CollectionLemmas

Stream == buffer \o wire

TypeInv ==
  /\ size \in [Messages -> Nat \ {0}]
  /\ sent \in 0..MaxMessages
  /\ outbox \in Seq(Messages) /\ Len(outbox) <= Capacity
  /\ inbox \in Seq(Messages) /\ Len(inbox) <= Capacity
  /\ wire \in Seq(Messages \X Nat) /\ Len(wire) <= WireCap
  /\ buffer \in Seq(Messages \X Nat) /\ Len(buffer) <= MaxBuffer + ReadMax
  /\ ~parsing => Len(buffer) <= MaxBuffer

Before(u, v) == u[1] < v[1] \/ (u[1] = v[1] /\ u[2] < v[2])

\* Units are parts of messages and in their order.
Ordered(sizes, s) ==
  /\ \A i \in DOMAIN s : s[i][2] \in 1..sizes[s[i][1]]
  /\ \A i, j \in DOMAIN s : i < j => Before(s[i], s[j])

\* The messages that wait follow the ones that are in the stream.
StreamInv ==
  /\ Ordered(size, Stream)
  /\ \A j \in DOMAIN outbox : outbox[j] <= sent
  /\ \A i, j \in DOMAIN outbox : i < j => outbox[i] < outbox[j]
  /\ \A i \in DOMAIN Stream : Stream[i][1] <= sent
  /\ \A i \in DOMAIN Stream, j \in DOMAIN outbox : Stream[i][1] < outbox[j]

\* Every unit has the one before it in front of it and the one after it behind it.
Unbroken(sizes, s) ==
  \A i \in DOMAIN s :
    /\ s[i][2] = 1 \/ (i > 1 /\ s[i - 1] = <<s[i][1], s[i][2] - 1>>)
    /\ s[i][2] = sizes[s[i][1]] \/ (i < Len(s) /\ s[i + 1] = <<s[i][1], s[i][2] + 1>>)

WholeInv == IF cut THEN CutHasCause ELSE Unbroken(size, Stream)

IInv == TypeInv /\ StreamInv /\ WholeInv

-----------------------------------------------------------------------------
(* Leaving messages out *)

LEMMA ThinnedToNone ==
  ASSUME NEW S, NEW s \in Seq(S)
  PROVE  Link!Thinned(s, <<>>)
<1> DEFINE none == [i \in {} |-> 1]
<1>1. DOMAIN <<>> = {}
  OBVIOUS
<1>2. none \in [DOMAIN <<>> -> DOMAIN s]
  BY <1>1
<1> QED BY <1>1, <1>2 DEF Link!Thinned

LEMMA ThinnedToAll ==
  ASSUME NEW S, NEW s \in Seq(S)
  PROVE  Link!Thinned(s, s)
<1> DEFINE id == [i \in DOMAIN s |-> i]
<1>1. id \in [DOMAIN s -> DOMAIN s] /\ \A i \in DOMAIN s : id[i] = i
  OBVIOUS
<1> HIDE DEF id
<1> QED BY <1>1 DEF Link!Thinned

LEMMA ThinnedBoth ==
  ASSUME NEW S, NEW s1 \in Seq(S), NEW s2 \in Seq(S), NEW t1 \in Seq(S), NEW t2 \in Seq(S),
         Link!Thinned(s1, t1), Link!Thinned(s2, t2)
  PROVE  Link!Thinned(s1 \o s2, t1 \o t2)
<1> DEFINE n1 == Len(s1) n2 == Len(s2) k1 == Len(t1) k2 == Len(t2)
           s == s1 \o s2
           t == t1 \o t2
<1>1. /\ {n1, n2, k1, k2} \subseteq Nat
      /\ DOMAIN s1 = 1..n1 /\ DOMAIN s2 = 1..n2 /\ DOMAIN t1 = 1..k1 /\ DOMAIN t2 = 1..k2
      /\ DOMAIN s = 1..(n1 + n2) /\ DOMAIN t = 1..(k1 + k2)
  OBVIOUS
<1>2. /\ \A i \in 1..n1 : s[i] = s1[i]
      /\ \A i \in 1..n2 : s[n1 + i] = s2[i]
      /\ \A i \in 1..k1 : t[i] = t1[i]
      /\ \A i \in 1..k2 : t[k1 + i] = t2[i]
  OBVIOUS
<1>3. PICK f1 \in [1..k1 -> 1..n1] :
        /\ \A i, j \in 1..k1 : i < j => f1[i] < f1[j]
        /\ \A i \in 1..k1 : t1[i] = s1[f1[i]]
  BY <1>1 DEF Link!Thinned
<1>4. PICK f2 \in [1..k2 -> 1..n2] :
        /\ \A i, j \in 1..k2 : i < j => f2[i] < f2[j]
        /\ \A i \in 1..k2 : t2[i] = s2[f2[i]]
  BY <1>1 DEF Link!Thinned
<1> DEFINE f == [i \in 1..(k1 + k2) |-> IF i <= k1 THEN f1[i] ELSE n1 + f2[i - k1]]
<1> HIDE DEF n1, n2, k1, k2, s, t
<1>5. /\ \A i \in 1..k1 : f[i] = f1[i] /\ f[i] \in 1..n1
      /\ \A i \in 1..(k1 + k2) : ~(i <= k1) =>
           i - k1 \in 1..k2 /\ f[i] = n1 + f2[i - k1] /\ f2[i - k1] \in 1..n2
  <2>1. \A i \in 1..k1 : i \in 1..(k1 + k2) /\ i <= k1
    BY <1>1
  <2>2. \A i \in 1..(k1 + k2) : ~(i <= k1) => i - k1 \in 1..k2
    BY <1>1
  <2> QED BY <1>3, <1>4, <2>1, <2>2
<1>6. f \in [1..(k1 + k2) -> 1..(n1 + n2)]
  <2>1. \A i \in 1..(k1 + k2) :
          (IF i <= k1 THEN f1[i] ELSE n1 + f2[i - k1]) \in 1..(n1 + n2)
    <3> SUFFICES ASSUME NEW i \in 1..(k1 + k2)
                 PROVE  (IF i <= k1 THEN f1[i] ELSE n1 + f2[i - k1]) \in 1..(n1 + n2)
      OBVIOUS
    <3>1. CASE i <= k1
      <4>1. i \in 1..k1
        BY <1>1, <3>1
      <4>2. f1[i] \in 1..n1
        BY <1>3, <4>1
      <4> QED BY <1>1, <3>1, <4>2
    <3>2. CASE ~(i <= k1)
      <4>1. f2[i - k1] \in 1..n2
        BY <3>2, <1>5
      <4> QED BY <1>1, <3>2, <4>1
    <3> QED BY <3>1, <3>2
  <2> QED BY <2>1
<1> HIDE DEF f
<1>7. ASSUME NEW i \in 1..(k1 + k2), NEW j \in 1..(k1 + k2), i < j
      PROVE  f[i] < f[j]
  <2>1. CASE j <= k1
    <3>1. i \in 1..k1 /\ j \in 1..k1
      BY <1>1, <1>7, <2>1
    <3> QED BY <1>3, <1>5, <1>7, <3>1
  <2>2. CASE i <= k1 /\ ~(j <= k1)
    <3>1. i \in 1..k1
      BY <1>1, <2>2
    <3> DEFINE a == f[i]
               b == f2[j - k1]
    <3>2. a \in 1..n1 /\ f[j] = n1 + b /\ b \in 1..n2
      BY <1>5, <2>2, <3>1
    <3>3. n1 \in Nat
      BY <1>1
    <3> HIDE DEF b
    <3> QED BY <3>2, <3>3
  <2>3. CASE ~(i <= k1)
    <3>1. ~(j <= k1) /\ i - k1 < j - k1
      BY <1>1, <1>7, <2>3
    <3>2. /\ i - k1 \in 1..k2 /\ f[i] = n1 + f2[i - k1] /\ f2[i - k1] \in 1..n2
          /\ j - k1 \in 1..k2 /\ f[j] = n1 + f2[j - k1] /\ f2[j - k1] \in 1..n2
      BY <1>5, <2>3, <3>1
    <3>3. f2[i - k1] < f2[j - k1]
      BY <1>4, <3>1, <3>2
    <3> DEFINE a == f2[i - k1]
               b == f2[j - k1]
    <3>4. n1 \in Nat /\ a < b
      BY <1>1, <3>3
    <3>5. a \in 1..n2 /\ f[i] = n1 + a /\ b \in 1..n2 /\ f[j] = n1 + b
      BY <3>2
    <3> HIDE DEF a, b
    <3>6. a \in Nat /\ b \in Nat
      BY <3>5
    <3> QED BY <3>4, <3>5, <3>6
  <2> QED BY <2>1, <2>2, <2>3
<1>8. ASSUME NEW i \in 1..(k1 + k2)
      PROVE  t[i] = s[f[i]]
  <2>1. CASE i <= k1
    <3>1. i \in 1..k1
      BY <1>1, <2>1
    <3> QED BY <1>2, <1>3, <1>5, <3>1
  <2>2. CASE ~(i <= k1)
    <3>1. i - k1 \in 1..k2 /\ f[i] = n1 + f2[i - k1] /\ f2[i - k1] \in 1..n2 /\ i = k1 + (i - k1)
      BY <1>1, <1>5, <2>2
    <3>2. t[i] = t2[i - k1]
      BY <1>2, <3>1
    <3>3. t2[i - k1] = s2[f2[i - k1]]
      BY <1>4, <3>1
    <3> QED BY <1>2, <3>1, <3>2, <3>3
  <2> QED BY <2>1, <2>2
<1>9. Link!Thinned(s, t)
  BY <1>1, <1>6, <1>7, <1>8 DEF Link!Thinned
<1> QED BY <1>9 DEF s, t

-----------------------------------------------------------------------------
(* The whole messages of a stream *)

\* g tells the messages that end in the first n units, for every n.
WholeAlong(g, sizes, u, S) ==
  /\ g \in [0..Len(u) -> Seq(S)]
  /\ g[0] = <<>>
  /\ \A i \in 1..Len(u) :
       g[i] = IF EndsMessage(sizes, u, i) THEN Append(g[i - 1], u[i][1]) ELSE g[i - 1]

\* The units of u are parts of messages of S, which have the given sizes.
UnitsOf(S, sizes, u) == sizes \in [S -> Nat \ {0}] /\ u \in Seq(S \X Nat)

ToldBy(g, sizes, u, S) == WholeAlong(g, sizes, u, S) /\ Whole(sizes, u) = g[Len(u)]

LEMMA WholeIs ==
  ASSUME NEW S, NEW sizes, NEW u, UnitsOf(S, sizes, u)
  PROVE  \E g : ToldBy(g, sizes, u, S)
<1> DEFINE n == Len(u)
           R == Seq(S)
           Ended(i) == EndsMessage(sizes, u, i)
           message == [i \in 1..n |-> u[i][1]]
           step == [i \in 1..n |-> [r \in R |-> IF Ended(i) THEN Append(r, u[i][1]) ELSE r]]
           Body(f) == [i \in 0..n |->
                         IF i = 0 THEN <<>>
                         ELSE IF Ended(i) THEN Append(f[i - 1], u[i][1])
                         ELSE f[i - 1]]
<1>1. n \in Nat /\ \A i \in 1..n : u[i][1] \in S
  BY DEF UnitsOf
<1>2. <<>> \in R
  OBVIOUS
<1>3. ASSUME NEW i \in 1..n, NEW r \in R
      PROVE  Append(r, u[i][1]) \in R
  BY <1>1, <1>3
<1> HIDE DEF n, R, Ended
<1>4. step \in [1..n -> [R -> R]]
  <2>1. ASSUME NEW i \in 1..n
        PROVE  [r \in R |-> IF Ended(i) THEN Append(r, u[i][1]) ELSE r] \in [R -> R]
    BY <1>3
  <2> QED BY <2>1
<1>5. \A i \in 1..n, r \in R : step[i][r] = IF Ended(i) THEN Append(r, u[i][1]) ELSE r
  OBVIOUS
<1> HIDE DEF step
<1>6. PICK f \in [0..n -> R] : f[0] = <<>> /\ \A i \in 1..n : f[i] = step[i][f[i - 1]]
  <2>1. \E f : Iterates(f, n, R, <<>>, step)
    BY <1>1, <1>2, <1>4, RecursionAlong
  <2> QED BY <2>1 DEF Iterates
<1>7. f = Body(f)
  <2>1. f = [i \in 0..n |-> f[i]]
    OBVIOUS
  <2>2. ASSUME NEW i \in 0..n PROVE f[i] = Body(f)[i]
    <3>1. CASE i = 0
      BY <1>6, <3>1
    <3>2. CASE i # 0
      <4>1. i \in 1..n /\ i - 1 \in 0..n
        BY <1>1, <3>2
      <4>2. f[i - 1] \in R
        BY <4>1
      <4> QED BY <1>5, <1>6, <3>2, <4>1, <4>2
    <3> QED BY <3>1, <3>2
  <2> QED BY <2>1, <2>2, Zenon
<1> DEFINE g == CHOOSE g : g = Body(g)
<1>8. g = Body(g)
  BY <1>7
<1>9. Whole(sizes, u) = g[n]
  BY DEF Whole, n, Ended
<1> HIDE DEF g
<1>10. g[0] = <<>> /\ \A i \in 1..n : g[i] = IF Ended(i) THEN Append(g[i - 1], u[i][1]) ELSE g[i - 1]
  <2>1. \A i \in 0..n : g[i] = Body(g)[i]
    BY <1>8, Zenon
  <2>2. 0 \in 0..n /\ \A i \in 1..n : i \in 0..n /\ i # 0
    BY <1>1
  <2> QED BY <2>1, <2>2
<1> DEFINE P == {i \in 0..n : g[i] \in R}
<1>11. 0 \in P
  BY <1>1, <1>2, <1>10
<1>12. ASSUME NEW i \in 0..(n - 1), i \in P PROVE i + 1 \in P
  <2>1. i + 1 \in 1..n /\ i + 1 \in 0..n /\ (i + 1) - 1 = i
    BY <1>1
  <2>2. g[i + 1] = IF Ended(i + 1) THEN Append(g[i], u[i + 1][1]) ELSE g[i]
    BY <1>10, <2>1
  <2>3. g[i + 1] \in R
    BY <1>3, <1>12, <2>1, <2>2
  <2> QED BY <2>1, <2>3
<1> HIDE DEF P
<1>13. 0..n \subseteq P
  BY <1>1, <1>11, <1>12, IntervalInduction
<1>14. g \in [0..n -> R]
  <2>1. g = [i \in 0..n |-> g[i]]
    <3>1. DOMAIN g = 0..n /\ Body(g) = [i \in DOMAIN Body(g) |-> Body(g)[i]]
      BY <1>8
    <3> HIDE DEF Body
    <3> QED BY <1>8, <3>1, Zenon
  <2>2. \A i \in 0..n : g[i] \in R
    BY <1>13 DEF P
  <2> QED BY <2>1, <2>2
<1>15. WholeAlong(g, sizes, u, S)
  BY <1>10, <1>14 DEF WholeAlong, n, R, Ended
<1>16. Whole(sizes, u) = g[Len(u)]
  BY <1>9 DEF n
<1> QED BY <1>15, <1>16 DEF ToldBy

\* The first n units are the same.
StartAlike(u, v, n) ==
  n \in Nat /\ n <= Len(u) /\ n <= Len(v) /\ \A i \in 1..n : u[i] = v[i]

\* A message is a matter of the units up to its last one.
LEMMA SameStart ==
  ASSUME NEW S, NEW sizes, NEW u, NEW v, UnitsOf(S, sizes, u), UnitsOf(S, sizes, v),
         NEW g, WholeAlong(g, sizes, u, S), NEW h, WholeAlong(h, sizes, v, S)
  PROVE  \A n : StartAlike(u, v, n) => g[n] = h[n]
<1> SUFFICES ASSUME NEW n, StartAlike(u, v, n) PROVE g[n] = h[n]
  OBVIOUS
<1>0. n \in Nat /\ n <= Len(u) /\ n <= Len(v) /\ \A i \in 1..n : u[i] = v[i]
  BY DEF StartAlike
<1>3. sizes \in [S -> Nat \ {0}] /\ u \in Seq(S \X Nat) /\ v \in Seq(S \X Nat)
  BY DEF UnitsOf
<1> DEFINE P == {i \in 0..n : g[i] = h[i]}
<1>1. 0 \in P
  BY <1>0 DEF WholeAlong
<1>2. ASSUME NEW i \in 0..(n - 1), i \in P PROVE i + 1 \in P
  <2>1. i + 1 \in 1..n /\ i + 1 \in 1..Len(u) /\ i + 1 \in 1..Len(v) /\ (i + 1) - 1 = i
        /\ i + 1 \in 0..n
    <3> DEFINE nu == Len(u)
               nv == Len(v)
    <3>1. nu \in Nat /\ nv \in Nat /\ n \in Nat /\ n <= nu /\ n <= nv /\ i \in 0..(n - 1)
      BY <1>0, <1>2, <1>3
    <3> HIDE DEF nu, nv
    <3>2. i + 1 \in 1..n /\ i + 1 \in 1..nu /\ i + 1 \in 1..nv /\ (i + 1) - 1 = i
          /\ i + 1 \in 0..n
      BY <3>1
    <3> QED BY <3>2 DEF nu, nv
  <2>2. u[i + 1] = v[i + 1] /\ u[i + 1][1] \in S
    <3>1. u[i + 1] = v[i + 1]
      BY <1>0, <2>1
    <3>2. u[i + 1] \in S \X Nat
      BY <1>3, <2>1
    <3> QED BY <3>1, <3>2
  <2>3. EndsMessage(sizes, u, i + 1) <=> EndsMessage(sizes, v, i + 1)
    <3> DEFINE z == sizes[u[i + 1][1]]
    <3>1. z \in Nat
      BY <1>3, <2>2
    <3> HIDE DEF z
    <3>2. z <= i + 1 => \A part \in 1..z : (i + 1) - z + part \in 1..n
      BY <1>0, <3>1
    <3>3. z <= i + 1 => \A part \in 1..z : u[(i + 1) - z + part] = v[(i + 1) - z + part]
      BY <1>0, <3>2
    <3> QED BY <2>2, <3>3 DEF EndsMessage, z
  <2>4. g[i + 1] = h[i + 1]
    BY <1>2, <2>1, <2>2, <2>3 DEF WholeAlong
  <2> QED BY <2>1, <2>4
<1> HIDE DEF P
<1>4. 0..n \subseteq P
  BY <1>0, <1>1, <1>2, IntervalInduction
<1> QED BY <1>0, <1>4 DEF P

\* v is u and one unit more.
OneMore(u, v) == StartAlike(u, v, Len(u)) /\ Len(v) = Len(u) + 1

CountsLast(sizes, u, v) ==
  Whole(sizes, v) = IF EndsMessage(sizes, v, Len(v))
                    THEN Append(Whole(sizes, u), v[Len(v)][1]) ELSE Whole(sizes, u)

LEMMA WholeOfOneMore ==
  ASSUME NEW S, NEW sizes, NEW u, NEW v, UnitsOf(S, sizes, u), UnitsOf(S, sizes, v),
         OneMore(u, v)
  PROVE  CountsLast(sizes, u, v)
<1>1. PICK g : ToldBy(g, sizes, u, S)
  BY WholeIs
<1>2. PICK h : ToldBy(h, sizes, v, S)
  BY WholeIs
<1>3. g[Len(u)] = h[Len(u)]
  <2>1. WholeAlong(g, sizes, u, S) /\ WholeAlong(h, sizes, v, S)
    BY <1>1, <1>2 DEF ToldBy
  <2>2. \A k : StartAlike(u, v, k) => g[k] = h[k]
    BY <2>1, SameStart
  <2> QED BY <2>2 DEF OneMore
<1>4. /\ h[Len(v)] = IF EndsMessage(sizes, v, Len(v)) THEN Append(h[Len(u)], v[Len(v)][1]) ELSE h[Len(u)]
  <2>1. Len(v) \in 1..Len(v) /\ Len(v) - 1 = Len(u)
    BY DEF OneMore, UnitsOf
  <2> QED BY <1>2, <2>1 DEF ToldBy, WholeAlong
<1> QED BY <1>1, <1>2, <1>3, <1>4 DEF ToldBy, CountsLast

LEMMA WholeOfNone == ASSUME NEW S, NEW sizes \in [S -> Nat \ {0}] PROVE Whole(sizes, <<>>) = <<>>
<1>1. PICK g : ToldBy(g, sizes, <<>>, S)
  <2>1. <<>> \in Seq(S \X Nat)
    OBVIOUS
  <2>2. UnitsOf(S, sizes, <<>>)
    BY <2>1 DEF UnitsOf
  <2> QED BY <2>2, WholeIs
<1> QED BY <1>1 DEF ToldBy, WholeAlong

\* c is s and behind it e.
IsJoined(c, s, e) ==
  /\ Len(c) = Len(s) + Len(e)
  /\ \A j \in 1..Len(s) : c[j] = s[j]
  /\ \A j \in 1..Len(e) : c[Len(s) + j] = e[j]

LEMMA Joined ==
  ASSUME NEW T, NEW s \in Seq(T), NEW e \in Seq(T)
  PROVE  s \o e \in Seq(T) /\ IsJoined(s \o e, s, e)
BY DEF IsJoined

\* The first k units of message m.
FirstUnits(m, k) == [part \in 1..k |-> <<m, part>>]

PartCounts(sizes, u, m, k) ==
  Whole(sizes, u \o FirstUnits(m, k)) =
    IF k = sizes[m] THEN Append(Whole(sizes, u), m) ELSE Whole(sizes, u)

\* A message counts as soon as its last unit is there, and not before.
LEMMA WholeOfPart ==
  ASSUME NEW S, NEW sizes, NEW u, UnitsOf(S, sizes, u), NEW m \in S, NEW k \in 0..sizes[m]
  PROVE  PartCounts(sizes, u, m, k)
<1> DEFINE z == sizes[m]
           n == Len(u)
           With(i) == u \o FirstUnits(m, i)
           P == {i \in 0..z : Whole(sizes, With(i)) =
                                IF i = z THEN Append(Whole(sizes, u), m) ELSE Whole(sizes, u)}
<1>0. sizes \in [S -> Nat \ {0}] /\ u \in Seq(S \X Nat)
  BY DEF UnitsOf
<1>1. z \in Nat /\ z # 0 /\ n \in Nat
  BY <1>0
<1> HIDE DEF z, n
<1>2. ASSUME NEW i \in 0..z
      PROVE  /\ With(i) \in Seq(S \X Nat) /\ Len(With(i)) = n + i
             /\ \A j \in 1..n : With(i)[j] = u[j]
             /\ \A j \in 1..i : With(i)[n + j] = <<m, j>>
  <2> DEFINE e == FirstUnits(m, i)
  <2>1. e \in Seq(S \X Nat) /\ Len(e) = i /\ \A j \in 1..i : e[j] = <<m, j>>
    BY <1>1 DEF FirstUnits
  <2> HIDE DEF e
  <2>2. u \o e \in Seq(S \X Nat) /\ IsJoined(u \o e, u, e)
    BY <1>0, <2>1, Joined
  <2> QED BY <2>1, <2>2 DEF IsJoined, e, n
<1>3. 0 \in P
  <2>1. FirstUnits(m, 0) = <<>>
    BY DEF FirstUnits
  <2>2. With(0) = u
    BY <1>0, <2>1
  <2> HIDE DEF With
  <2> QED BY <1>1, <2>2
<1> HIDE DEF With
<1>4. ASSUME NEW i \in 0..(z - 1), i \in P PROVE i + 1 \in P
  <2>1. i \in 0..z /\ i + 1 \in 0..z /\ i + 1 \in 1..(i + 1) /\ i # z /\ i \in Nat
    BY <1>1
  <2>2. Whole(sizes, With(i)) = Whole(sizes, u)
    BY <1>4, <2>1
  <2> DEFINE a == With(i)
             b == With(i + 1)
  <2>3. /\ a \in Seq(S \X Nat) /\ Len(a) = n + i
        /\ \A j \in 1..n : a[j] = u[j]
        /\ \A j \in 1..i : a[n + j] = <<m, j>>
    BY <1>2, <2>1
  <2>4. /\ b \in Seq(S \X Nat) /\ Len(b) = n + (i + 1)
        /\ \A j \in 1..n : b[j] = u[j]
        /\ \A j \in 1..(i + 1) : b[n + j] = <<m, j>>
    BY <1>2, <2>1, Zenon
  <2> HIDE DEF a, b
  <2>5. StartAlike(a, b, Len(a)) /\ Len(b) = Len(a) + 1
    <3>1. ASSUME NEW j \in 1..(n + i) PROVE a[j] = b[j]
      <4>1. CASE j <= n
        BY <1>1, <2>3, <2>4, <4>1
      <4>2. CASE ~(j <= n)
        <5>1. j - n \in 1..i /\ j - n \in 1..(i + 1) /\ n + (j - n) = j
          BY <1>1, <2>1, <4>2
        <5> QED BY <2>3, <2>4, <5>1
      <4> QED BY <4>1, <4>2
    <3> QED BY <1>1, <2>1, <2>3, <2>4, <3>1 DEF StartAlike
  <2>6. b[Len(b)] = <<m, i + 1>> /\ b[Len(b)][1] = m
    BY <1>1, <2>1, <2>4
  <2>7. EndsMessage(sizes, b, Len(b)) <=> i + 1 = z
    <3>1. ASSUME EndsMessage(sizes, b, Len(b)) PROVE i + 1 = z
      <4>1. z \in 1..z /\ Len(b) - z + z = Len(b)
        BY <1>1, <2>1, <2>4
      <4>2. b[Len(b) - z + z] = <<m, z>>
        BY <2>6, <3>1, <4>1 DEF EndsMessage, z
      <4> QED BY <2>6, <4>1, <4>2
    <3>2. ASSUME i + 1 = z PROVE EndsMessage(sizes, b, Len(b))
      <4>1. Len(b) = n + z
        BY <2>4, <3>2
      <4>2. z <= Len(b) /\ \A part \in 1..z : part \in 1..(i + 1) /\ Len(b) - z + part = n + part
        BY <1>1, <3>2, <4>1
      <4>3. \A part \in 1..z : b[Len(b) - z + part] = <<m, part>>
        BY <2>4, <4>2
      <4> QED BY <2>6, <4>2, <4>3 DEF EndsMessage, z
    <3> QED BY <3>1, <3>2
  <2>8. CountsLast(sizes, a, b)
    <3>1. UnitsOf(S, sizes, a) /\ UnitsOf(S, sizes, b) /\ OneMore(a, b)
      BY <1>0, <2>3, <2>4, <2>5 DEF UnitsOf, OneMore
    <3> QED BY <3>1, WholeOfOneMore
  <2>9. Whole(sizes, b) = IF i + 1 = z THEN Append(Whole(sizes, u), m) ELSE Whole(sizes, u)
    BY <2>2, <2>6, <2>7, <2>8 DEF a, CountsLast
  <2> QED BY <2>1, <2>9 DEF b
<1> HIDE DEF P
<1>5. 0..z \subseteq P
  BY <1>1, <1>3, <1>4, IntervalInduction
<1>6. k \in P
  BY <1>5 DEF z
<1> QED BY <1>6 DEF P, With, z, PartCounts

\* The stream s is message m, with none of its units behind it, and then r.
MessageThen(sizes, s, m, r) ==
  /\ \A k \in 1..sizes[m] : s[k] = <<m, k>>
  /\ \A i \in DOMAIN r : r[i] = s[sizes[m] + i] /\ r[i][1] # m
  /\ Len(s) = sizes[m] + Len(r)

\* A message at the front is the first one of the stream, and without it the others
\* are whole as before.
LEMMA WholeOfRest ==
  ASSUME NEW S, NEW sizes, NEW s, NEW r, UnitsOf(S, sizes, s), UnitsOf(S, sizes, r),
         NEW m \in S, MessageThen(sizes, s, m, r)
  PROVE  Whole(sizes, s) = <<m>> \o Whole(sizes, r)
<1> DEFINE z == sizes[m]
           n == Len(r)
           front == FirstUnits(m, z)
<1>1. /\ z \in Nat /\ z # 0 /\ n \in Nat /\ DOMAIN r = 1..n
      /\ \A i \in 1..n : r[i][1] \in S /\ r[i][2] \in Nat
      /\ sizes \in [S -> Nat \ {0}] /\ r \in Seq(S \X Nat) /\ s \in Seq(S \X Nat)
  BY DEF UnitsOf
<1>2. /\ \A k \in 1..z : s[k] = <<m, k>>
      /\ \A i \in 1..n : r[i] = s[z + i] /\ r[i][1] # m
      /\ Len(s) = z + n
  BY <1>1 DEF MessageThen
<1>3. PICK g : ToldBy(g, sizes, s, S)
  BY WholeIs
<1>4. PICK h : ToldBy(h, sizes, r, S)
  BY WholeIs
<1> HIDE DEF z, n
<1>5. g[z] = <<m>>
  <2>0. front \in Seq(S \X Nat) /\ Len(front) = z /\ \A k \in 1..z : front[k] = <<m, k>>
    BY <1>1 DEF FirstUnits
  <2>1. UnitsOf(S, sizes, front)
    BY <1>1, <2>0 DEF UnitsOf
  <2>2. Whole(sizes, front) = <<m>>
    <3>1. <<>> \in Seq(S \X Nat) /\ z \in 0..sizes[m] /\ z = sizes[m]
      BY <1>1 DEF z
    <3>2. UnitsOf(S, sizes, <<>>)
      BY <1>1, <3>1 DEF UnitsOf
    <3>3. PartCounts(sizes, <<>>, m, z)
      BY <3>1, <3>2, WholeOfPart
    <3>4. <<>> \o front = front
      BY <2>0
    <3>5. Whole(sizes, <<>>) = <<>>
      BY <1>1, WholeOfNone
    <3>6. Whole(sizes, <<>> \o front) = Append(<<>>, m)
      BY <3>1, <3>3, <3>5 DEF PartCounts
    <3> QED BY <3>4, <3>6
  <2> HIDE DEF front
  <2>3. PICK e : ToldBy(e, sizes, front, S)
    BY <2>1, WholeIs
  <2>4. StartAlike(front, s, z)
    <3>1. \A i \in 1..z : front[i] = s[i]
      BY <1>2, <2>0
    <3>2. z \in Nat /\ z <= Len(front) /\ z <= Len(s)
      <4>1. z \in Nat /\ n \in Nat /\ Len(front) = z /\ Len(s) = z + n
        BY <1>1, <1>2, <2>0
      <4> QED BY <4>1
    <3> QED BY <3>1, <3>2 DEF StartAlike
  <2>5. \A k : StartAlike(front, s, k) => e[k] = g[k]
    <3>1. WholeAlong(e, sizes, front, S) /\ WholeAlong(g, sizes, s, S)
      BY <1>3, <2>3 DEF ToldBy
    <3> QED BY <2>1, <3>1, SameStart
  <2> QED BY <2>0, <2>2, <2>3, <2>4, <2>5 DEF ToldBy
<1> DEFINE P == {i \in 0..n : g[z + i] = <<m>> \o h[i]}
<1> HIDE DEF front
<1>6. h \in [0..n -> Seq(S)] /\ h[0] = <<>>
  BY <1>4 DEF ToldBy, WholeAlong, n
<1>7. 0 \in P
  <2>1. z + 0 = z /\ 0 \in 0..n /\ <<m>> \o <<>> = <<m>>
    BY <1>1
  <2> QED BY <1>5, <1>6, <2>1
<1>8. ASSUME NEW i \in 0..(n - 1), i \in P PROVE i + 1 \in P
  <2> DEFINE x == r[i + 1][1]
             y == sizes[x]
  <2>1. /\ i + 1 \in 1..n /\ i + 1 \in 0..n /\ i \in 0..n /\ (i + 1) - 1 = i /\ i \in Nat
        /\ z + (i + 1) \in 1..(z + n) /\ (z + (i + 1)) - 1 = z + i
    <3>1. z \in Nat /\ n \in Nat
      BY <1>1
    <3> QED BY <3>1
  <2>2. s[z + (i + 1)] = r[i + 1] /\ x \in S /\ x # m /\ y \in Nat /\ y # 0
    BY <1>1, <1>2, <2>1
  <2> HIDE DEF x, y
  <2>3. ASSUME EndsMessage(sizes, s, z + (i + 1)) PROVE EndsMessage(sizes, r, i + 1)
    <3>1. /\ y <= z + (i + 1)
          /\ \A part \in 1..y : s[(z + (i + 1)) - y + part] = <<x, part>>
      BY <2>2, <2>3 DEF EndsMessage, x, y
    <3>2. y <= i + 1
      <4> SUFFICES ASSUME ~(y <= i + 1) PROVE FALSE
        OBVIOUS
      <4>1. (z + (i + 1)) - y + 1 \in 1..z /\ 1 \in 1..y
        <5>1. z \in Nat /\ i \in Nat /\ y \in Nat /\ y # 0 /\ y <= z + (i + 1)
          BY <1>1, <2>1, <2>2, <3>1
        <5> QED BY <5>1
      <4>2. s[(z + (i + 1)) - y + 1] = <<m, (z + (i + 1)) - y + 1>>
        BY <1>2, <4>1
      <4>3. s[(z + (i + 1)) - y + 1] = <<x, 1>>
        BY <3>1, <4>1
      <4> QED BY <2>2, <4>2, <4>3
    <3>3. ASSUME NEW part \in 1..y PROVE r[(i + 1) - y + part] = <<x, part>>
      <4>1. /\ (i + 1) - y + part \in 1..n
            /\ z + ((i + 1) - y + part) = (z + (i + 1)) - y + part
        BY <1>1, <2>1, <2>2, <3>2
      <4>2. r[(i + 1) - y + part] = s[z + ((i + 1) - y + part)]
        BY <1>2, <4>1
      <4> QED BY <3>1, <4>1, <4>2
    <3> QED BY <3>2, <3>3 DEF EndsMessage, x, y
  <2>4. ASSUME EndsMessage(sizes, r, i + 1) PROVE EndsMessage(sizes, s, z + (i + 1))
    <3>1. /\ y <= i + 1
          /\ \A part \in 1..y : r[(i + 1) - y + part] = <<x, part>>
      BY <2>4 DEF EndsMessage, x, y
    <3>2. y <= z + (i + 1)
      BY <1>1, <2>1, <2>2, <3>1
    <3>3. ASSUME NEW part \in 1..y PROVE s[(z + (i + 1)) - y + part] = <<x, part>>
      <4>1. /\ (i + 1) - y + part \in 1..n
            /\ z + ((i + 1) - y + part) = (z + (i + 1)) - y + part
        BY <1>1, <2>1, <2>2, <3>1
      <4>2. r[(i + 1) - y + part] = s[z + ((i + 1) - y + part)]
        BY <1>2, <4>1
      <4> QED BY <3>1, <4>1, <4>2
    <3> QED BY <2>2, <3>2, <3>3 DEF EndsMessage, x, y
  <2>5. g[z + (i + 1)] = IF EndsMessage(sizes, s, z + (i + 1)) THEN Append(g[z + i], x) ELSE g[z + i]
    BY <1>2, <1>3, <2>1, <2>2 DEF ToldBy, WholeAlong, x
  <2>6. h[i + 1] = IF EndsMessage(sizes, r, i + 1) THEN Append(h[i], x) ELSE h[i]
    BY <1>4, <2>1 DEF ToldBy, WholeAlong, x, n
  <2>7. g[z + i] = <<m>> \o h[i] /\ h[i] \in Seq(S)
    BY <1>6, <1>8, <2>1
  <2>8. Append(<<m>> \o h[i], x) = <<m>> \o Append(h[i], x)
    BY <2>2, <2>7
  <2> QED BY <2>1, <2>3, <2>4, <2>5, <2>6, <2>7, <2>8
<1> HIDE DEF P
<1>9. 0..n \subseteq P
  BY <1>1, <1>7, <1>8, IntervalInduction
<1>10. g[z + n] = <<m>> \o h[n]
  BY <1>1, <1>9 DEF P
<1> QED BY <1>2, <1>3, <1>4, <1>10 DEF ToldBy, n

\* What is whole behind a cut was whole before it.
LEMMA WholeOfLater ==
  ASSUME NEW S, NEW sizes, NEW b, NEW w, NEW c,
         UnitsOf(S, sizes, b), UnitsOf(S, sizes, w), UnitsOf(S, sizes, c), IsJoined(c, b, w)
  PROVE  Link!Thinned(Whole(sizes, c), Whole(sizes, w))
<1> DEFINE k == Len(b)
           n == Len(w)
<1>1. k \in Nat /\ n \in Nat /\ sizes \in [S -> Nat \ {0}] /\ \A i \in 1..n : w[i][1] \in S
  BY DEF UnitsOf
<1>2. Len(c) = k + n /\ \A i \in 1..n : c[k + i] = w[i]
  BY DEF IsJoined
<1>3. PICK g : ToldBy(g, sizes, c, S)
  BY WholeIs
<1>4. PICK h : ToldBy(h, sizes, w, S)
  BY WholeIs
<1> HIDE DEF k, n
<1>5. h \in [0..n -> Seq(S)] /\ h[0] = <<>> /\ g \in [0..(k + n) -> Seq(S)]
  BY <1>2, <1>3, <1>4 DEF ToldBy, WholeAlong, n
<1> DEFINE P == {i \in 0..n : Link!Thinned(g[k + i], h[i])}
<1>6. 0 \in P
  <2>1. k + 0 \in 0..(k + n) /\ 0 \in 0..n
    BY <1>1
  <2>2. g[k + 0] \in Seq(S)
    BY <1>5, <2>1
  <2>3. Link!Thinned(g[k + 0], h[0])
    BY <1>5, <2>2, ThinnedToNone
  <2> QED BY <2>1, <2>3
<1>7. ASSUME NEW i \in 0..(n - 1), i \in P PROVE i + 1 \in P
  <2> DEFINE x == w[i + 1][1]
             y == sizes[x]
             s == g[k + i]
             t == h[i]
             s1 == g[k + (i + 1)]
             t1 == h[i + 1]
  <2>1. /\ i + 1 \in 1..n /\ i + 1 \in 0..n /\ i \in 0..n /\ (i + 1) - 1 = i /\ i \in Nat
        /\ k + i \in 0..(k + n)
    BY <1>1
  <2>2. k + (i + 1) \in 1..(k + n) /\ (k + (i + 1)) - 1 = k + i
    <3>1. k \in Nat /\ n \in Nat
      BY <1>1
    <3> QED BY <3>1
  <2>3. c[k + (i + 1)] = w[i + 1] /\ x \in S /\ y \in Nat /\ y # 0
    BY <1>1, <1>2, <2>1
  <2>4. s \in Seq(S) /\ t \in Seq(S) /\ Link!Thinned(s, t)
    BY <1>5, <1>7, <2>1
  <2> HIDE DEF x, y
  <2>5. s1 = IF EndsMessage(sizes, c, k + (i + 1)) THEN Append(s, x) ELSE s
    BY <1>2, <1>3, <2>2, <2>3 DEF ToldBy, WholeAlong, x
  <2>6. t1 = IF EndsMessage(sizes, w, i + 1) THEN Append(t, x) ELSE t
    BY <1>4, <2>1 DEF ToldBy, WholeAlong, x, n
  <2>7. ASSUME EndsMessage(sizes, w, i + 1) PROVE EndsMessage(sizes, c, k + (i + 1))
    <3>1. /\ y <= i + 1
          /\ \A part \in 1..y : w[(i + 1) - y + part] = <<x, part>>
      BY <2>7 DEF EndsMessage, x, y
    <3>2. y <= k + (i + 1)
      BY <1>1, <2>1, <2>3, <3>1
    <3>3. ASSUME NEW part \in 1..y PROVE c[(k + (i + 1)) - y + part] = <<x, part>>
      <4>1. /\ (i + 1) - y + part \in 1..n
            /\ k + ((i + 1) - y + part) = (k + (i + 1)) - y + part
        BY <1>1, <2>1, <2>3, <3>1
      <4>2. w[(i + 1) - y + part] = c[k + ((i + 1) - y + part)]
        BY <1>2, <4>1
      <4> QED BY <3>1, <4>1, <4>2
    <3> QED BY <2>3, <3>2, <3>3 DEF EndsMessage, x, y
  <2> HIDE DEF s, t, s1, t1
  <2>8. /\ <<x>> \in Seq(S) /\ <<>> \in Seq(S)
        /\ Append(s, x) = s \o <<x>> /\ Append(t, x) = t \o <<x>> /\ t = t \o <<>>
    <3>1. x \in S /\ s \in Seq(S) /\ t \in Seq(S)
      BY <2>3, <2>4
    <3>2. <<x>> \in Seq(S) /\ <<>> \in Seq(S)
      BY <3>1
    <3>3. Append(s, x) = s \o <<x>>
      BY <3>1
    <3>4. Append(t, x) = t \o <<x>> /\ t = t \o <<>>
      BY <3>1
    <3> QED BY <3>2, <3>3, <3>4
  <2>9. Link!Thinned(<<x>>, <<x>>) /\ Link!Thinned(<<x>>, <<>>)
    BY <2>8, ThinnedToAll, ThinnedToNone
  <2>10. Link!Thinned(Append(s, x), Append(t, x))
    <3>1. Link!Thinned(s \o <<x>>, t \o <<x>>)
      BY <2>4, <2>8, <2>9, ThinnedBoth
    <3> QED BY <2>8, <3>1
  <2>11. Link!Thinned(Append(s, x), t)
    <3>1. Link!Thinned(s \o <<x>>, t \o <<>>)
      BY <2>4, <2>8, <2>9, ThinnedBoth
    <3> QED BY <2>8, <3>1
  <2>12. Link!Thinned(s1, t1)
    BY <2>4, <2>5, <2>6, <2>7, <2>10, <2>11
  <2> QED BY <2>1, <2>12 DEF s1, t1
<1> HIDE DEF P
<1>8. 0..n \subseteq P
  BY <1>1, <1>6, <1>7, IntervalInduction
<1>9. Link!Thinned(g[k + n], h[n])
  BY <1>1, <1>8 DEF P
<1> QED BY <1>2, <1>3, <1>4, <1>9 DEF ToldBy, n

-----------------------------------------------------------------------------
(* What each step does to the stream *)

LEMMA Limits ==
  /\ Capacity \in Nat \ {0} /\ WireCap \in Nat \ {0}
  /\ ReadMax \in Nat \ {0} /\ MaxBuffer \in Nat \ {0} /\ MaxMessages \in Nat
BY ConnectionAssumption

LEMMA Pieces ==
  ASSUME NEW T, NEW s \in Seq(T), NEW n \in 0..Len(s)
  PROVE  /\ SubSeq(s, 1, n) \in Seq(T) /\ Len(SubSeq(s, 1, n)) = n
         /\ SubSeq(s, n + 1, Len(s)) \in Seq(T)
         /\ IsJoined(s, SubSeq(s, 1, n), SubSeq(s, n + 1, Len(s)))
<1> DEFINE a == SubSeq(s, 1, n)
           b == SubSeq(s, n + 1, Len(s))
<1>1. n \in Nat /\ Len(s) \in Nat /\ n <= Len(s)
  OBVIOUS
<1>2. a \in Seq(T) /\ Len(a) = n /\ \A i \in 1..n : a[i] = s[i]
  OBVIOUS
<1>3. b \in Seq(T) /\ Len(b) = Len(s) - n
  OBVIOUS
<1>4. \A i \in 1..(Len(s) - n) : b[i] = s[n + i]
  OBVIOUS
<1> HIDE DEF a, b
<1>5. IsJoined(s, a, b)
  <2>1. Len(s) = Len(a) + Len(b)
    BY <1>1, <1>2, <1>3
  <2> QED BY <1>2, <1>3, <1>4, <2>1 DEF IsJoined
<1> QED BY <1>2, <1>3, <1>5 DEF a, b

LEMMA UnitsTyped ==
  ASSUME TypeInv, NEW m \in Messages
  PROVE  /\ Units(m) = FirstUnits(m, size[m])
         /\ Units(m) \in Seq(Messages \X Nat) /\ Len(Units(m)) = size[m]
         /\ \A k \in 1..size[m] : Units(m)[k] = <<m, k>>
<1> DEFINE z == size[m]
           e == FirstUnits(m, z)
<1>1. z \in Nat
  BY DEF TypeInv
<1> HIDE DEF z
<1>2. e \in Seq(Messages \X Nat) /\ Len(e) = z /\ \A k \in 1..z : e[k] = <<m, k>>
  BY <1>1 DEF FirstUnits
<1>3. Units(m) = e
  BY DEF Units, FirstUnits, z
<1> QED BY <1>2, <1>3 DEF z

LEMMA TypeStep ==
  ASSUME TypeInv, [Next]_vars
  PROVE  TypeInv'
<1> USE Limits
<1>1. CASE Send
  <2>1. sent + 1 \in Messages /\ Append(outbox, sent + 1) \in Seq(Messages)
        /\ Len(Append(outbox, sent + 1)) <= Capacity
    BY <1>1 DEF TypeInv, Send, Messages
  <2> QED BY <1>1, <2>1 DEF TypeInv, Send, Messages
<1>2. CASE Write
  <2> DEFINE m == Head(outbox)
             n == Least(size[m], WireCap - Len(wire))
             piece == SubSeq(Units(m), 1, n)
  <2>1. m \in Messages /\ Tail(outbox) \in Seq(Messages) /\ Len(Tail(outbox)) <= Capacity
    <3>1. outbox \in Seq(Messages) /\ outbox # <<>> /\ Len(outbox) <= Capacity
      BY <1>2 DEF TypeInv, Write
    <3>2. m \in Messages /\ Tail(outbox) \in Seq(Messages) /\ Len(Tail(outbox)) = Len(outbox) - 1
      BY <3>1
    <3>3. Len(outbox) \in Nat /\ Capacity \in Nat
      BY <3>1
    <3> QED BY <3>1, <3>2, <3>3
  <2>2. size[m] \in Nat /\ Len(wire) \in Nat
    <3>1. size \in [Messages -> Nat \ {0}] /\ wire \in Seq(Messages \X Nat)
      BY DEF TypeInv
    <3> HIDE DEF m
    <3> QED BY <2>1, <3>1
  <2>3. n > 0 /\ wire' = wire \o piece /\ outbox' = Tail(outbox)
        /\ UNCHANGED <<size, sent, buffer, parsing, inbox, writing, reading>>
    BY <1>2 DEF Write
  <2> HIDE DEF m, piece
  <2>4. n \in 0..size[m] /\ n \in Nat /\ n <= WireCap - Len(wire)
    BY <2>2, <2>3 DEF Least
  <2>5. piece \in Seq(Messages \X Nat) /\ Len(piece) = n
    <3>1. Units(m) \in Seq(Messages \X Nat) /\ Len(Units(m)) = size[m]
      BY <2>1, UnitsTyped
    <3> HIDE DEF n
    <3> QED BY <2>4, <3>1, Pieces DEF piece
  <2> HIDE DEF n
  <2>6. wire \o piece \in Seq(Messages \X Nat) /\ Len(wire \o piece) = Len(wire) + n
    <3>1. wire \in Seq(Messages \X Nat)
      BY DEF TypeInv
    <3>2. wire \o piece \in Seq(Messages \X Nat) /\ IsJoined(wire \o piece, wire, piece)
      BY <2>5, <3>1, Joined
    <3> QED BY <2>5, <3>2 DEF IsJoined
  <2>7. Len(wire \o piece) <= WireCap
    BY <2>2, <2>4, <2>6
  <2> QED BY <2>1, <2>3, <2>6, <2>7 DEF TypeInv, Messages
<1>3. CASE WriteFails
  BY <1>3 DEF TypeInv, WriteFails, Messages
<1>4. CASE Read
  <2>1. PICK n \in 1..Least(ReadMax, Len(wire)) :
          /\ buffer' = buffer \o SubSeq(wire, 1, n)
          /\ wire' = SubSeq(wire, n + 1, Len(wire))
    BY <1>4 DEF Read
  <2>2. n \in 0..Len(wire) /\ n \in Nat /\ n <= ReadMax
    BY <2>1 DEF TypeInv, Least
  <2> DEFINE front == SubSeq(wire, 1, n)
             rest == SubSeq(wire, n + 1, Len(wire))
  <2>3. /\ front \in Seq(Messages \X Nat) /\ Len(front) = n
        /\ rest \in Seq(Messages \X Nat) /\ IsJoined(wire, front, rest)
    BY <2>2, Pieces DEF TypeInv
  <2> HIDE DEF front, rest
  <2>4. buffer \o front \in Seq(Messages \X Nat) /\ Len(buffer \o front) = Len(buffer) + n
    <3>1. buffer \in Seq(Messages \X Nat)
      BY DEF TypeInv
    <3>2. buffer \o front \in Seq(Messages \X Nat) /\ IsJoined(buffer \o front, buffer, front)
      BY <2>3, <3>1, Joined
    <3> QED BY <2>3, <3>2 DEF IsJoined
  <2>5. Len(buffer) <= MaxBuffer
    BY <1>4 DEF Read, TypeInv
  <2>6. /\ buffer' = buffer \o front /\ wire' = rest /\ parsing'
        /\ UNCHANGED <<size, sent, outbox, inbox, writing, reading, cut, short>>
    BY <1>4, <2>1 DEF Read, front, rest
  <2>7. Len(buffer') <= MaxBuffer + ReadMax
    <3>1. Len(buffer) \in Nat
      BY DEF TypeInv
    <3> QED BY <2>2, <2>4, <2>5, <2>6, <3>1
  <2>8. Len(wire') <= WireCap
    <3>1. Len(wire) \in Nat /\ Len(wire) <= WireCap /\ Len(rest) \in Nat
      <4>1. wire \in Seq(Messages \X Nat) /\ Len(wire) <= WireCap
        BY DEF TypeInv
      <4> QED BY <2>3, <4>1
    <3>2. Len(wire) = n + Len(rest)
      BY <2>3 DEF IsJoined
    <3> QED BY <2>2, <2>6, <3>1, <3>2
  <2> QED BY <2>3, <2>4, <2>6, <2>7, <2>8 DEF TypeInv, Messages
<1>5. CASE Deliver
  <2> DEFINE m == buffer[1][1]
             rest == SubSeq(buffer, size[m] + 1, Len(buffer))
  <2>1. m \in Messages /\ size[m] \in Nat
    BY <1>5 DEF Deliver, Complete, TypeInv
  <2>2. size[m] \in 0..Len(buffer)
    <3>1. Len(Units(m)) = size[m]
      BY <2>1, UnitsTyped DEF TypeInv
    <3>2. Len(Units(m)) <= Len(buffer)
      BY <1>5 DEF Deliver, Complete, IsPrefix
    <3> QED BY <2>1, <3>1, <3>2
  <2>3. rest \in Seq(Messages \X Nat) /\ Len(rest) = Len(buffer) - size[m]
    <3>1. buffer \in Seq(Messages \X Nat)
      BY DEF TypeInv
    <3> DEFINE front == SubSeq(buffer, 1, size[m])
    <3>2. /\ rest \in Seq(Messages \X Nat) /\ Len(front) = size[m]
          /\ IsJoined(buffer, front, rest)
      BY <2>2, <3>1, Pieces
    <3> HIDE DEF m, front, rest
    <3>3. Len(buffer) = size[m] + Len(rest) /\ Len(rest) \in Nat
      BY <3>2 DEF IsJoined
    <3> QED BY <2>1, <3>2, <3>3
  <2>4. Append(inbox, m) \in Seq(Messages) /\ Len(Append(inbox, m)) <= Capacity
    BY <1>5, <2>1 DEF Deliver, TypeInv
  <2>5. /\ inbox' = Append(inbox, m) /\ buffer' = rest /\ parsing
        /\ UNCHANGED <<size, sent, outbox, wire, parsing, writing, reading, cut, short>>
    BY <1>5 DEF Deliver
  <2> HIDE DEF m, rest
  <2>6. Len(buffer') <= MaxBuffer + ReadMax
    BY <2>1, <2>2, <2>3, <2>5 DEF TypeInv
  <2> QED BY <2>3, <2>4, <2>5, <2>6 DEF TypeInv, Messages
<1>6. CASE StopParsing
  <2>1. (buffer' = buffer /\ ~TooLarge(buffer)) \/ buffer' = <<>>
    BY <1>6 DEF StopParsing
  <2>2. buffer' \in Seq(Messages \X Nat) /\ Len(buffer') <= MaxBuffer
        /\ Len(buffer') <= MaxBuffer + ReadMax
    <3>1. CASE buffer' = buffer /\ ~TooLarge(buffer)
      <4>1. buffer \in Seq(Messages \X Nat) /\ Len(buffer) \in Nat
        BY DEF TypeInv
      <4>2. Len(buffer) <= MaxBuffer
        BY <3>1, <4>1 DEF TooLarge
      <4> QED BY <3>1, <4>1, <4>2
    <3>2. CASE buffer' = <<>>
      <4>1. <<>> \in Seq(Messages \X Nat) /\ Len(<<>>) = 0
        OBVIOUS
      <4> QED BY <3>2, <4>1
    <3> QED BY <2>1, <3>1, <3>2
  <2> QED BY <1>6, <2>2 DEF TypeInv, StopParsing, TooLarge, Messages
<1>7. CASE ReadEnd \/ ReadFails
  BY <1>7 DEF TypeInv, ReadEnd, ReadFails, Messages
<1>8. CASE Receive
  <2>1. Tail(inbox) \in Seq(Messages) /\ Len(Tail(inbox)) <= Capacity
    BY <1>8 DEF Receive, TypeInv
  <2> QED BY <1>8, <2>1 DEF TypeInv, Receive, Messages
<1>9. CASE SenderEnds
  BY <1>9 DEF TypeInv, SenderEnds, Messages
<1>10. CASE ReceiverEnds
  BY <1>10 DEF TypeInv, ReceiverEnds, Messages
<1>11. CASE UNCHANGED vars
  BY <1>11 DEF TypeInv, vars, Messages
<1> QED BY <1>1, <1>2, <1>3, <1>4, <1>5, <1>6, <1>7, <1>8, <1>9, <1>10, <1>11 DEF Next, Transfer

LEMMA JoinedIs ==
  ASSUME NEW T, NEW a \in Seq(T), NEW b \in Seq(T), NEW c \in Seq(T), IsJoined(c, a, b)
  PROVE  c = a \o b
<1> DEFINE d == a \o b
<1>1. d \in Seq(T) /\ IsJoined(d, a, b)
  BY Joined
<1> HIDE DEF d
<1>2. Len(c) = Len(d)
  BY <1>1 DEF IsJoined
<1>3. ASSUME NEW i \in 1..Len(c) PROVE c[i] = d[i]
  <2>1. CASE i <= Len(a)
    <3>1. i \in 1..Len(a)
      BY <2>1
    <3> QED BY <1>1, <3>1 DEF IsJoined
  <2>2. CASE ~(i <= Len(a))
    <3>1. Len(c) = Len(a) + Len(b) /\ Len(a) \in Nat /\ Len(b) \in Nat
      BY DEF IsJoined
    <3>2. i - Len(a) \in 1..Len(b) /\ i = Len(a) + (i - Len(a))
      BY <2>2, <3>1
    <3> QED BY <1>1, <3>2 DEF IsJoined
  <2> QED BY <2>1, <2>2
<1>4. c = d
  BY <1>1, <1>2, <1>3
<1> QED BY <1>4 DEF d

Associates(a, b, c) == (a \o b) \o c = a \o (b \o c)

LEMMA JoinedThrice ==
  ASSUME NEW T, NEW a \in Seq(T), NEW b \in Seq(T), NEW c \in Seq(T)
  PROVE  Associates(a, b, c)
BY DEF Associates

LEMMA StreamTyped ==
  ASSUME TypeInv
  PROVE  /\ Stream \in Seq(Messages \X Nat) /\ IsJoined(Stream, buffer, wire)
         /\ UnitsOf(Messages, size, Stream) /\ UnitsOf(Messages, size, buffer)
         /\ UnitsOf(Messages, size, wire)
<1>1. buffer \in Seq(Messages \X Nat) /\ wire \in Seq(Messages \X Nat)
      /\ size \in [Messages -> Nat \ {0}]
  BY DEF TypeInv
<1>2. buffer \o wire \in Seq(Messages \X Nat) /\ IsJoined(buffer \o wire, buffer, wire)
  BY <1>1, Joined
<1> QED BY <1>1, <1>2 DEF Stream, UnitsOf

LEMMA WriteAdds ==
  ASSUME TypeInv, Write
  PROVE  /\ Head(outbox) \in Messages
         /\ \E n \in 1..size[Head(outbox)] :
              /\ Stream' = Stream \o FirstUnits(Head(outbox), n)
              /\ IF n = size[Head(outbox)]
                 THEN (cut' <=> cut) /\ (short' <=> short) ELSE cut' /\ short'
<1> DEFINE m == Head(outbox)
           z == size[m]
           n == Least(z, WireCap - Len(wire))
<1>1. m \in Messages
  BY DEF TypeInv, Write
<1>2. z \in Nat /\ z # 0 /\ Len(wire) \in Nat /\ WireCap \in Nat
  BY <1>1, Limits DEF TypeInv
<1>3. /\ n > 0 /\ wire' = wire \o SubSeq(Units(m), 1, n) /\ buffer' = buffer
      /\ short' = (short \/ n < z) /\ cut' = (cut \/ n < z)
  BY DEF Write
<1> HIDE DEF m
<1>4. Units(m) = FirstUnits(m, z) /\ Units(m) \in Seq(Messages \X Nat) /\ Len(Units(m)) = z
      /\ \A k \in 1..z : Units(m)[k] = <<m, k>>
  BY <1>1, UnitsTyped
<1> HIDE DEF z
<1>5. n \in 1..z /\ (n < z <=> n # z)
  <2>1. n = z \/ (n = WireCap - Len(wire) /\ ~(z < n) /\ n \in Int)
    BY <1>2 DEF Least
  <2>2. n > 0
    BY <1>3
  <2> HIDE DEF n
  <2> QED BY <1>2, <2>1, <2>2
<1> HIDE DEF n
<1> DEFINE piece == SubSeq(Units(m), 1, n)
           e == FirstUnits(m, n)
<1>6. piece \in Seq(Messages \X Nat) /\ e \in Seq(Messages \X Nat) /\ piece = e
  <2>1. n \in Nat /\ 1..n \subseteq 1..z
    BY <1>2, <1>5
  <2>2. e \in Seq(Messages \X Nat) /\ Len(e) = n /\ \A k \in 1..n : e[k] = <<m, k>>
    BY <1>1, <2>1 DEF FirstUnits
  <2> HIDE DEF e
  <2>3. piece \in Seq(Messages \X Nat) /\ Len(piece) = n /\ \A k \in 1..n : piece[k] = Units(m)[k]
    BY <1>2, <1>4, <1>5
  <2> HIDE DEF piece
  <2>4. \A k \in 1..n : piece[k] = e[k]
    BY <1>4, <2>1, <2>2, <2>3
  <2>5. piece = e
    BY <2>2, <2>3, <2>4
  <2> QED BY <2>2, <2>3, <2>5
<1> HIDE DEF piece, e
<1>7. Stream' = Stream \o e
  <2>1. buffer \in Seq(Messages \X Nat) /\ wire \in Seq(Messages \X Nat)
    BY DEF TypeInv
  <2>2. Associates(buffer, wire, e)
    BY <1>6, <2>1, JoinedThrice
  <2>3. wire' = wire \o e /\ buffer' = buffer
    BY <1>3, <1>6 DEF piece
  <2> QED BY <2>2, <2>3 DEF Stream, Associates
<1>8. IF n = z THEN (cut' <=> cut) /\ (short' <=> short) ELSE cut' /\ short'
  BY <1>3, <1>5
<1>9. \E i \in 1..z : Stream' = Stream \o FirstUnits(m, i)
        /\ IF i = z THEN (cut' <=> cut) /\ (short' <=> short) ELSE cut' /\ short'
  BY <1>5, <1>7, <1>8 DEF e
<1> QED BY <1>1, <1>9 DEF m, z

LEMMA ReadKeeps ==
  ASSUME TypeInv, Read
  PROVE  Stream' = Stream
<1>1. PICK n \in 1..Least(ReadMax, Len(wire)) :
        /\ buffer' = buffer \o SubSeq(wire, 1, n)
        /\ wire' = SubSeq(wire, n + 1, Len(wire))
  BY DEF Read
<1> DEFINE front == SubSeq(wire, 1, n)
           rest == SubSeq(wire, n + 1, Len(wire))
<1>2. wire \in Seq(Messages \X Nat) /\ buffer \in Seq(Messages \X Nat)
      /\ Len(wire) \in Nat /\ ReadMax \in Nat
  BY Limits DEF TypeInv
<1>3. n \in 0..Len(wire)
  BY <1>1, <1>2 DEF Least
<1>4. /\ front \in Seq(Messages \X Nat) /\ rest \in Seq(Messages \X Nat)
      /\ IsJoined(wire, front, rest)
  BY <1>2, <1>3, Pieces
<1>5. buffer' = buffer \o front /\ wire' = rest
  BY <1>1
<1> HIDE DEF front, rest
<1>6. wire = front \o rest
  BY <1>2, <1>4, JoinedIs
<1>7. Associates(buffer, front, rest)
  BY <1>2, <1>4, JoinedThrice
<1> QED BY <1>5, <1>6, <1>7 DEF Stream, Associates

\* r is s without its first k units.
SuffixOf(r, s, k) ==
  /\ k \in Nat /\ Len(s) = k + Len(r)
  /\ \A i \in 1..Len(r) : r[i] = s[k + i]

\* The front of the stream is a message: it is taken off with all its units.
LEMMA DeliverTakes ==
  ASSUME TypeInv, TypeInv', StreamInv, Deliver
  PROVE  /\ buffer[1][1] \in Messages
         /\ MessageThen(size, Stream, buffer[1][1], Stream')
         /\ SuffixOf(Stream', Stream, size[buffer[1][1]])
<1> DEFINE m == buffer[1][1]
           z == size[m]
           rest == SubSeq(buffer, z + 1, Len(buffer))
           front == SubSeq(buffer, 1, z)
           s == Stream
           r == Stream'
<1>1. buffer \in Seq(Messages \X Nat) /\ wire \in Seq(Messages \X Nat) /\ Len(buffer) \in Nat
      /\ wire' = wire /\ size' = size
  BY DEF TypeInv, Deliver
<1>2. m \in Messages /\ z \in Nat /\ z # 0
  BY DEF TypeInv, Deliver, Complete
<1>3. IsPrefix(Units(m), buffer) /\ buffer' = rest
  BY DEF Deliver, Complete
<1> HIDE DEF m
<1>4. Units(m) \in Seq(Messages \X Nat) /\ Len(Units(m)) = z
      /\ \A k \in 1..z : Units(m)[k] = <<m, k>>
  BY <1>2, UnitsTyped
<1> HIDE DEF z
<1>5. z \in 0..Len(buffer) /\ SubSeq(Units(m), 1, z) = front
  BY <1>1, <1>2, <1>3, <1>4 DEF IsPrefix
<1>6. /\ rest \in Seq(Messages \X Nat) /\ front \in Seq(Messages \X Nat) /\ Len(front) = z
      /\ IsJoined(buffer, front, rest)
  BY <1>1, <1>5, Pieces
<1>7. \A k \in 1..z : front[k] = <<m, k>>
  <2>1. \A k \in 1..z : SubSeq(Units(m), 1, z)[k] = Units(m)[k]
    BY <1>2, <1>4
  <2> QED BY <1>4, <1>5, <2>1
<1> HIDE DEF rest, front
<1>8. s \in Seq(Messages \X Nat) /\ IsJoined(s, buffer, wire)
  BY StreamTyped
<1>9. r \in Seq(Messages \X Nat) /\ IsJoined(r, rest, wire)
  <2>1. r = rest \o wire
    BY <1>1, <1>3 DEF Stream
  <2> QED BY <1>1, <1>6, <2>1, Joined
<1> HIDE DEF s, r
<1>10. /\ Len(buffer) = z + Len(rest) /\ Len(s) = Len(buffer) + Len(wire)
       /\ Len(r) = Len(rest) + Len(wire)
       /\ {Len(rest), Len(wire), Len(r), Len(s)} \subseteq Nat
  BY <1>1, <1>6, <1>8, <1>9 DEF IsJoined
<1>11. \A k \in 1..z : s[k] = <<m, k>>
  <2>1. \A k \in 1..z : k \in 1..Len(buffer)
    BY <1>1, <1>5
  <2>2. \A k \in 1..z : s[k] = buffer[k]
    BY <1>8, <2>1 DEF IsJoined
  <2>3. \A k \in 1..z : buffer[k] = front[k]
    BY <1>6 DEF IsJoined
  <2> QED BY <1>7, <2>2, <2>3
<1>12. ASSUME NEW i \in 1..Len(r) PROVE r[i] = s[z + i]
  <2>1. CASE i \in 1..Len(rest)
    <3>1. r[i] = rest[i] /\ buffer[z + i] = rest[i]
      BY <1>6, <1>9, <2>1 DEF IsJoined
    <3>2. z + i \in 1..Len(buffer)
      BY <1>2, <1>10, <2>1
    <3> QED BY <1>8, <3>1, <3>2 DEF IsJoined
  <2>2. CASE i \notin 1..Len(rest)
    <3>1. i - Len(rest) \in 1..Len(wire) /\ i = Len(rest) + (i - Len(rest))
          /\ z + i = Len(buffer) + (i - Len(rest))
      BY <1>2, <1>10, <2>2
    <3>2. r[i] = wire[i - Len(rest)]
      BY <1>9, <3>1 DEF IsJoined
    <3>3. s[z + i] = wire[i - Len(rest)]
      BY <1>8, <3>1 DEF IsJoined
    <3> QED BY <3>2, <3>3
  <2> QED BY <2>1, <2>2
<1>13. Len(s) = z + Len(r)
  BY <1>2, <1>10
<1>14. ASSUME NEW i \in 1..Len(r) PROVE r[i][1] # m
  <2>1. z \in 1..Len(s) /\ z + i \in 1..Len(s) /\ z < z + i /\ z \in 1..z
    BY <1>2, <1>10, <1>13
  <2>2. DOMAIN s = 1..Len(s)
    BY <1>8
  <2>3. /\ Before(s[z], s[z + i])
        /\ s[z + i][2] \in 1..size[s[z + i][1]]
    BY <2>1, <2>2 DEF StreamInv, Ordered, s
  <2>4. s[z] = <<m, z>> /\ s[z + i] = r[i]
    BY <1>11, <1>12, <2>1
  <2>5. SUFFICES ASSUME r[i][1] = m PROVE FALSE
    OBVIOUS
  <2>6. m < m \/ z < r[i][2]
    BY <2>3, <2>4, <2>5 DEF Before
  <2>7. r[i][2] \in 1..z
    BY <2>3, <2>4, <2>5 DEF z
  <2>8. m \in Nat
    BY <1>2 DEF Messages
  <2> QED BY <1>2, <2>6, <2>7, <2>8
<1>15. SuffixOf(r, s, z)
  BY <1>2, <1>12, <1>13 DEF SuffixOf
<1>16. MessageThen(size, s, m, r)
  <2>1. DOMAIN r = 1..Len(r)
    BY <1>9
  <2> QED BY <1>11, <1>12, <1>13, <1>14, <2>1 DEF MessageThen, z
<1> QED BY <1>2, <1>15, <1>16 DEF s, r, z, m

LEMMA StopKeeps ==
  ASSUME TypeInv, StopParsing
  PROVE  \/ ~TooLarge(buffer) /\ (cut' <=> cut) /\ Stream' = Stream
         \/ TooLarge(buffer) /\ cut' /\ Stream' = wire /\ SuffixOf(Stream', Stream, Len(buffer))
<1>1. CASE ~TooLarge(buffer)
  BY <1>1 DEF StopParsing, Stream
<1>2. CASE TooLarge(buffer)
  <2>1. buffer' = <<>> /\ wire' = wire /\ cut'
    BY <1>2 DEF StopParsing
  <2>2. wire \in Seq(Messages \X Nat) /\ buffer \in Seq(Messages \X Nat)
    BY DEF TypeInv
  <2>3. Stream' = wire
    BY <2>1, <2>2 DEF Stream
  <2>4. SuffixOf(wire, Stream, Len(buffer))
    BY <2>2, StreamTyped DEF IsJoined, SuffixOf
  <2> QED BY <1>2, <2>1, <2>3, <2>4
<1> QED BY <1>1, <1>2

\* The stream is left as it is, or units are taken off its front.
LEMMA SuffixKept ==
  ASSUME TypeInv, TypeInv', StreamInv, size' = size, NEW k, SuffixOf(Stream', Stream, k)
  PROVE  /\ Ordered(size, Stream)'
         /\ \A i \in DOMAIN Stream' : \E j \in DOMAIN Stream : Stream'[i] = Stream[j]
<1> DEFINE s == Stream
           r == Stream'
<1>1. s \in Seq(Messages \X Nat)
  BY StreamTyped
<1>2. r \in Seq(Messages \X Nat)
  <2>1. buffer' \in Seq(Messages \X Nat) /\ wire' \in Seq(Messages \X Nat)
    BY DEF TypeInv, Messages
  <2> QED BY <2>1 DEF Stream
<1>3. Ordered(size, s)
  BY DEF StreamInv
<1>4. SuffixOf(r, s, k)
  OBVIOUS
<1> HIDE DEF s, r
<1>5. DOMAIN s = 1..Len(s) /\ DOMAIN r = 1..Len(r) /\ Len(s) \in Nat /\ Len(r) \in Nat
  BY <1>1, <1>2
<1>6. \A i \in DOMAIN r : k + i \in DOMAIN s /\ r[i] = s[k + i]
  BY <1>4, <1>5 DEF SuffixOf
<1>7. \A i, j \in DOMAIN r : i < j => k + i < k + j
  BY <1>4, <1>5 DEF SuffixOf
<1>8. Ordered(size, r)
  BY <1>3, <1>6, <1>7 DEF Ordered
<1> QED BY <1>6, <1>8 DEF r, s, Ordered

LEMMA StreamSame ==
  ASSUME TypeInv, Stream' = Stream
  PROVE  SuffixOf(Stream', Stream, 0)
<1>1. Len(Stream) \in Nat
  BY StreamTyped
<1> QED BY <1>1 DEF SuffixOf

LEMMA StreamEmptied ==
  ASSUME TypeInv, Stream' = <<>>
  PROVE  SuffixOf(Stream', Stream, Len(Stream))
<1>1. Len(Stream) \in Nat
  BY StreamTyped
<1> QED BY <1>1 DEF SuffixOf

LEMMA StreamStep ==
  ASSUME TypeInv, TypeInv', StreamInv, [Next]_vars
  PROVE  StreamInv'
<1>1. /\ size' = size /\ sent \in Nat /\ sent' \in Nat /\ sent <= sent'
      /\ outbox \in Seq(Messages) /\ outbox' \in Seq(Messages)
  <2>1. sent \in Nat /\ sent' \in Nat /\ outbox \in Seq(Messages) /\ outbox' \in Seq(Messages)
    BY DEF TypeInv, Messages
  <2>2. size' = size /\ (sent' = sent \/ sent' = sent + 1)
    BY DEF Next, Transfer, Send, Write, WriteFails, Read, Deliver, StopParsing, ReadEnd,
           ReadFails, Receive, SenderEnds, ReceiverEnds, vars
  <2> QED BY <2>1, <2>2
<1> DEFINE Follow(q, n) == /\ \A j \in DOMAIN q : q[j] <= n
                           /\ \A i, j \in DOMAIN q : i < j => q[i] < q[j]
           Ahead(s, q, n) == /\ \A i \in DOMAIN s : s[i][1] <= n
                             /\ \A i \in DOMAIN s, j \in DOMAIN q : s[i][1] < q[j]
<1>2. Ordered(size, Stream) /\ Follow(outbox, sent) /\ Ahead(Stream, outbox, sent)
  BY DEF StreamInv
<1>3. /\ DOMAIN outbox = 1..Len(outbox) /\ Len(outbox) \in Nat
      /\ \A j \in DOMAIN outbox : outbox[j] \in Nat
      /\ Stream \in Seq(Messages \X Nat) /\ \A i \in DOMAIN Stream : Stream[i][1] \in Nat
  <2>1. Messages \subseteq Nat
    BY Limits DEF Messages
  <2>2. \A j \in DOMAIN outbox : outbox[j] \in Messages
    BY <1>1
  <2>3. Stream \in Seq(Messages \X Nat)
    BY StreamTyped
  <2>4. \A i \in DOMAIN Stream : Stream[i][1] \in Messages
    BY <2>3
  <2>5. DOMAIN outbox = 1..Len(outbox) /\ Len(outbox) \in Nat
    BY <1>1
  <2>6. /\ \A j \in DOMAIN outbox : outbox[j] \in Nat
        /\ \A i \in DOMAIN Stream : Stream[i][1] \in Nat
    BY <2>1, <2>2, <2>4
  <2> QED BY <2>3, <2>5, <2>6
<1>4. CASE Write
  <2> DEFINE m == Head(outbox)
  <2>1. m \in Messages /\ outbox # <<>> /\ outbox' = Tail(outbox) /\ sent' = sent
    BY <1>4, WriteAdds DEF Write
  <2>2. PICK n \in 1..size[m] : Stream' = Stream \o FirstUnits(m, n)
    BY <1>4, WriteAdds
  <2> DEFINE s == Stream
             r == Stream'
             e == FirstUnits(m, n)
             z == size[m]
  <2>3. m = outbox[1] /\ 1 \in DOMAIN outbox
    BY <1>1, <2>1
  <2>4. z \in Nat /\ m \in Nat /\ m <= sent /\ \A i \in DOMAIN s : s[i][1] < m
    BY <1>2, <2>1, <2>3 DEF TypeInv, Messages
  <2>5. DOMAIN outbox' = 1..(Len(outbox) - 1)
        /\ \A j \in 1..(Len(outbox) - 1) : outbox'[j] = outbox[j + 1]
    BY <1>1, <2>1
  <2>6. Follow(outbox', sent')
    <3>1. \A j \in 1..(Len(outbox) - 1) : j + 1 \in DOMAIN outbox
      BY <1>3
    <3>2. \A i, j \in 1..(Len(outbox) - 1) : i < j => i + 1 < j + 1
      BY <1>3
    <3> QED BY <1>2, <2>1, <2>5, <3>1, <3>2
  <2>7. \A j \in DOMAIN outbox' : m < outbox'[j] /\ outbox'[j] \in Nat
    <3>1. \A j \in 1..(Len(outbox) - 1) : j + 1 \in DOMAIN outbox /\ 1 < j + 1
      BY <1>3
    <3> QED BY <1>2, <1>3, <2>3, <2>5, <3>1
  <2> HIDE DEF m, z
  <2>8. e \in Seq(Messages \X Nat) /\ Len(e) = n /\ n \in 1..z /\ \A j \in 1..n : e[j] = <<m, j>>
    <3>1. n \in 1..z /\ n \in Nat /\ 1..n \subseteq Nat
      BY <2>2, <2>4 DEF z
    <3> QED BY <2>1, <3>1 DEF FirstUnits
  <2> HIDE DEF e
  <2>9. r \in Seq(Messages \X Nat) /\ IsJoined(r, s, e)
    <3>1. r = s \o e
      BY <2>2 DEF e
    <3> QED BY <1>3, <2>8, <3>1, Joined
  <2>10. /\ \A i \in DOMAIN s : s[i][1] \in Nat
         /\ s \in Seq(Messages \X Nat)
         /\ Ordered(size, s)
         /\ Ahead(s, outbox, sent)
    BY <1>2, <1>3
  <2> HIDE DEF s, r
  <2>11. DOMAIN s = 1..Len(s) /\ Len(s) \in Nat /\ DOMAIN r = 1..(Len(s) + n) /\ n \in Nat
    BY <2>4, <2>8, <2>9, <2>10 DEF IsJoined
  <2>12. \A i \in DOMAIN r :
           \/ i \in DOMAIN s /\ r[i] = s[i]
           \/ i - Len(s) \in 1..n /\ r[i] = <<m, i - Len(s)>> /\ i \notin DOMAIN s
    <3> SUFFICES ASSUME NEW i \in DOMAIN r, i \notin DOMAIN s
                 PROVE  i - Len(s) \in 1..n /\ r[i] = <<m, i - Len(s)>>
      BY <2>9, <2>11 DEF IsJoined
    <3>1. i - Len(s) \in 1..n /\ i = Len(s) + (i - Len(s))
      BY <2>11
    <3>2. r[i] = e[i - Len(s)]
      BY <2>8, <2>9, <3>1 DEF IsJoined
    <3> QED BY <2>8, <3>1, <3>2
  <2>13. Ordered(size, r)
    <3>1. ASSUME NEW i \in DOMAIN r PROVE r[i][2] \in 1..size[r[i][1]]
      <4>1. CASE i \in DOMAIN s /\ r[i] = s[i]
        BY <2>10, <4>1 DEF Ordered
      <4>2. CASE i - Len(s) \in 1..n /\ r[i] = <<m, i - Len(s)>>
        <5>1. i - Len(s) \in 1..z
          BY <2>4, <2>8, <4>2
        <5> QED BY <4>2, <5>1 DEF z
      <4> QED BY <2>12, <4>1, <4>2
    <3>2. ASSUME NEW i \in DOMAIN r, NEW j \in DOMAIN r, i < j PROVE Before(r[i], r[j])
      <4>1. CASE j \in DOMAIN s
        <5>1. i \in DOMAIN s
          BY <2>11, <3>2, <4>1
        <5> QED BY <2>10, <2>12, <3>2, <4>1, <5>1 DEF Ordered
      <4>2. CASE i \in DOMAIN s /\ j \notin DOMAIN s
        BY <2>4, <2>12, <4>2 DEF Before
      <4>3. CASE i \notin DOMAIN s /\ j \notin DOMAIN s
        <5>1. r[i] = <<m, i - Len(s)>> /\ r[j] = <<m, j - Len(s)>>
          BY <2>12, <4>3
        <5>2. i - Len(s) < j - Len(s)
          BY <2>11, <3>2
        <5> QED BY <5>1, <5>2 DEF Before
      <4> QED BY <4>1, <4>2, <4>3
    <3> QED BY <3>1, <3>2 DEF Ordered
  <2>14. \A i \in DOMAIN r : r[i][1] \in Nat /\ r[i][1] <= m
    BY <2>4, <2>10, <2>12
  <2>15. Ahead(r, outbox', sent')
    BY <1>1, <2>1, <2>4, <2>7, <2>14
  <2>16. Ordered(size', Stream') /\ Follow(outbox', sent') /\ Ahead(Stream', outbox', sent')
    BY <1>1, <2>6, <2>13, <2>15 DEF r
  <2> QED BY <2>16 DEF StreamInv, Ordered
<1>5. CASE ~Write
  <2>1. \E k : SuffixOf(Stream', Stream, k)
    <3>1. CASE Deliver
      BY <3>1, DeliverTakes
    <3>2. CASE StopParsing
      BY <3>2, StopKeeps, StreamSame
    <3>3. CASE Read
      BY <3>3, ReadKeeps, StreamSame
    <3>4. CASE ReceiverEnds
      <4>1. buffer' = <<>> /\ wire' = <<>>
        BY <3>4 DEF ReceiverEnds
      <4>2. Stream' = <<>>
        BY <4>1 DEF Stream
      <4> QED BY <4>2, StreamEmptied
    <3>5. CASE ~Deliver /\ ~StopParsing /\ ~Read /\ ~ReceiverEnds
      <4>1. Stream' = Stream
        BY <1>5, <3>5
        DEF Next, Transfer, Send, WriteFails, ReadEnd, ReadFails, Receive, SenderEnds, vars, Stream
      <4> QED BY <4>1, StreamSame
    <3> QED BY <3>1, <3>2, <3>3, <3>4, <3>5
  <2>2. /\ Ordered(size, Stream)'
        /\ \A i \in DOMAIN Stream' : \E j \in DOMAIN Stream : Stream'[i] = Stream[j]
    BY <1>1, <2>1, SuffixKept
  <2>3. CASE Send
    <3>1. outbox' = Append(outbox, sent + 1) /\ sent' = sent + 1
      BY <2>3 DEF Send
    <3>2. /\ DOMAIN outbox' = 1..(Len(outbox) + 1)
          /\ \A j \in 1..Len(outbox) : outbox'[j] = outbox[j]
          /\ outbox'[Len(outbox) + 1] = sent + 1
      BY <1>1, <3>1
    <3>3. \A j \in DOMAIN outbox' :
            (j \in DOMAIN outbox /\ outbox'[j] = outbox[j]) \/ j = Len(outbox) + 1
      BY <1>3, <3>2
    <3>4. Follow(outbox', sent')
      BY <1>1, <1>2, <1>3, <3>1, <3>2, <3>3
    <3>5. Ahead(Stream', outbox', sent')
      <4>1. sent' = sent + 1 /\ sent \in Nat
        BY <1>1, <3>1
      <4>2. ASSUME NEW i \in DOMAIN Stream'
            PROVE  Stream'[i][1] <= sent + 1 /\ \A j \in DOMAIN outbox' : Stream'[i][1] < outbox'[j]
        <5>1. PICK k \in DOMAIN Stream : Stream'[i] = Stream[k]
          BY <2>2
        <5> DEFINE m == Stream[k][1]
        <5>2. m \in Nat /\ m <= sent /\ \A j \in DOMAIN outbox : m < outbox[j]
          BY <1>2, <1>3
        <5>3. Stream'[i][1] = m
          BY <5>1
        <5> HIDE DEF m
        <5>4. m < sent + 1
          BY <4>1, <5>2
        <5>5. \A j \in DOMAIN outbox' : m < outbox'[j]
          BY <3>2, <3>3, <5>2, <5>4
        <5> QED BY <4>1, <5>2, <5>3, <5>4, <5>5
      <4> QED BY <4>1, <4>2
    <3> QED BY <2>2, <3>4, <3>5 DEF StreamInv
  <2>4. CASE ~Send
    <3>1. sent' = sent /\ (outbox' = outbox \/ outbox' = <<>>)
      BY <1>5, <2>4
      DEF Next, Transfer, WriteFails, Read, Deliver, StopParsing, ReadEnd, ReadFails, Receive,
          SenderEnds, ReceiverEnds, vars
    <3>2. Follow(outbox', sent')
      BY <1>2, <3>1
    <3>3. Ahead(Stream', outbox', sent')
      BY <1>2, <2>2, <3>1
    <3> QED BY <2>2, <3>2, <3>3 DEF StreamInv
  <2> QED BY <2>3, <2>4
<1> QED BY <1>4, <1>5

-----------------------------------------------------------------------------
(* What is cut *)

\* A buffer that starts with a message whose units all follow, and is no smaller than
\* it, has the message at its front.
LEMMA FrontIsWhole ==
  ASSUME TypeInv, StreamInv, Unbroken(size, Stream), buffer # <<>>,
         size[buffer[1][1]] <= Len(buffer)
  PROVE  Complete
<1> DEFINE s == Stream
           m == buffer[1][1]
           z == size[m]
<1>1. buffer \in Seq(Messages \X Nat) /\ Len(buffer) \in Nat /\ 1 \in 1..Len(buffer)
  BY DEF TypeInv
<1>2. m \in Messages /\ z \in Nat /\ z # 0
  BY <1>1 DEF TypeInv
<1>3. s \in Seq(Messages \X Nat) /\ IsJoined(s, buffer, wire) /\ Len(wire) \in Nat
      /\ DOMAIN s = 1..Len(s)
  BY StreamTyped DEF TypeInv
<1>4. Len(s) = Len(buffer) + Len(wire) /\ \A i \in 1..Len(buffer) : i \in DOMAIN s /\ s[i] = buffer[i]
  BY <1>1, <1>3 DEF IsJoined
<1>5. Unbroken(size, s)
  OBVIOUS
<1>6. z <= Len(buffer)
  OBVIOUS
<1> HIDE DEF s
<1>7. s[1] = <<m, 1>>
  <2>1. s[1] \in Messages \X Nat /\ s[1][1] = m
    BY <1>1, <1>3, <1>4
  <2>2. s[1][2] = 1
    BY <1>1, <1>4, <1>5 DEF Unbroken
  <2> QED BY <2>1, <2>2
<1> HIDE DEF m, z
<1> DEFINE P == {k \in 0..(z - 1) : s[k + 1] = <<m, k + 1>>}
<1>8. 0 \in P
  BY <1>2, <1>7
<1>9. ASSUME NEW k \in 0..((z - 1) - 1), k \in P PROVE k + 1 \in P
  <2>1. k + 1 \in 0..(z - 1) /\ k + 1 \in 1..Len(buffer) /\ k + 1 # z
    BY <1>1, <1>2, <1>6
  <2>2. s[k + 1] = <<m, k + 1>> /\ k + 1 \in DOMAIN s
    BY <1>4, <1>9, <2>1
  <2>3. s[k + 1][2] = size[s[k + 1][1]] \/ s[(k + 1) + 1] = <<s[k + 1][1], s[k + 1][2] + 1>>
    BY <1>5, <2>2 DEF Unbroken
  <2>4. s[(k + 1) + 1] = <<m, (k + 1) + 1>>
    BY <2>1, <2>2, <2>3 DEF z
  <2> QED BY <2>1, <2>4
<1> HIDE DEF P
<1>10. 0..(z - 1) \subseteq P
  <2>1. z - 1 \in Nat
    BY <1>2
  <2> QED BY <1>8, <1>9, <2>1, IntervalInduction
<1>11. ASSUME NEW k \in 1..z PROVE buffer[k] = <<m, k>>
  <2>1. k - 1 \in P /\ (k - 1) + 1 = k /\ k \in 1..Len(buffer)
    BY <1>1, <1>2, <1>6, <1>10
  <2> QED BY <1>4, <2>1 DEF P
<1>12. Units(m) \in Seq(Messages \X Nat) /\ Len(Units(m)) = z
       /\ \A k \in 1..z : Units(m)[k] = <<m, k>>
  BY <1>2, UnitsTyped DEF z
<1>13. SubSeq(Units(m), 1, z) = SubSeq(buffer, 1, z)
  <2> DEFINE a == SubSeq(Units(m), 1, z)
             b == SubSeq(buffer, 1, z)
  <2>1. a \in Seq(Messages \X Nat) /\ Len(a) = z /\ \A k \in 1..z : a[k] = Units(m)[k]
    BY <1>2, <1>12
  <2>2. b \in Seq(Messages \X Nat) /\ Len(b) = z /\ \A k \in 1..z : b[k] = buffer[k]
    BY <1>1, <1>2, <1>6
  <2> HIDE DEF a, b
  <2>3. \A k \in 1..z : a[k] = b[k]
    BY <1>11, <1>12, <2>1, <2>2
  <2>4. a = b
    BY <2>1, <2>2, <2>3
  <2> QED BY <2>4 DEF a, b
<1>14. IsPrefix(Units(m), buffer)
  BY <1>6, <1>12, <1>13 DEF IsPrefix
<1> QED BY <1>14 DEF Complete, m

\* The limit is met only by a message that does not fit it.
LEMMA OnlyLargeIsCut ==
  ASSUME TypeInv, StreamInv, Unbroken(size, Stream), StopParsing, TooLarge(buffer)
  PROVE  \E m \in 1..sent : size[m] > MaxBuffer + 1
<1> DEFINE m == buffer[1][1]
<1>1. buffer \in Seq(Messages \X Nat) /\ Len(buffer) \in Nat /\ MaxBuffer \in Nat
  BY Limits DEF TypeInv
<1>2. Len(buffer) > MaxBuffer /\ buffer # <<>>
  BY <1>1 DEF TooLarge
<1>3. m \in Messages /\ size[m] \in Nat /\ m \in Nat /\ m >= 1
  BY <1>1, <1>2 DEF TypeInv, Messages
<1>4. ~Complete
  BY DEF StopParsing
<1>5. ~(size[m] <= Len(buffer))
  BY <1>2, <1>4, FrontIsWhole
<1>6. m <= sent
  <2>1. 1 \in 1..Len(buffer) /\ IsJoined(Stream, buffer, wire) /\ Stream \in Seq(Messages \X Nat)
        /\ Len(wire) \in Nat
    BY <1>1, <1>2, StreamTyped DEF TypeInv
  <2>2. 1 \in DOMAIN Stream /\ Stream[1] = buffer[1]
    BY <1>1, <2>1 DEF IsJoined
  <2> QED BY <2>2 DEF StreamInv
<1>7. sent \in Nat
  BY DEF TypeInv, Messages
<1> HIDE DEF m
<1>8. m \in 1..sent /\ size[m] > MaxBuffer + 1
  BY <1>1, <1>2, <1>3, <1>5, <1>6, <1>7
<1> QED BY <1>8

LEMMA UnbrokenStep ==
  ASSUME TypeInv, TypeInv', StreamInv, [Next]_vars, Unbroken(size, Stream), ~cut'
  PROVE  Unbroken(size, Stream)'
<1> DEFINE s == Stream
           r == Stream'
<1>1. /\ s \in Seq(Messages \X Nat) /\ DOMAIN s = 1..Len(s) /\ Len(s) \in Nat
      /\ r \in Seq(Messages \X Nat) /\ DOMAIN r = 1..Len(r) /\ Len(r) \in Nat
  <2>1. buffer' \in Seq(Messages \X Nat) /\ wire' \in Seq(Messages \X Nat)
    BY DEF TypeInv, Messages
  <2>2. r \in Seq(Messages \X Nat)
    BY <2>1 DEF Stream
  <2>3. s \in Seq(Messages \X Nat)
    BY StreamTyped
  <2> HIDE DEF s, r
  <2> QED BY <2>2, <2>3
<1>2. size' = size
  BY DEF Next, Transfer, Send, Write, WriteFails, Read, Deliver, StopParsing, ReadEnd, ReadFails,
         Receive, SenderEnds, ReceiverEnds, vars
<1>3. Unbroken(size, s) /\ Ordered(size, s)
  BY DEF StreamInv
<1>4. CASE Write
  <2> DEFINE m == Head(outbox)
             z == size[m]
             e == FirstUnits(m, z)
  <2>1. m \in Messages /\ z \in Nat /\ z # 0
    <3>1. m \in Messages
      BY <1>4, WriteAdds
    <3> QED BY <3>1 DEF TypeInv
  <2>2. r = s \o e
    BY <1>4, WriteAdds
  <2> HIDE DEF m, z
  <2>3. e \in Seq(Messages \X Nat) /\ Len(e) = z /\ \A j \in 1..z : e[j] = <<m, j>>
    BY <2>1 DEF FirstUnits
  <2> HIDE DEF e
  <2>4. IsJoined(r, s, e)
    BY <1>1, <2>2, <2>3, Joined
  <2> HIDE DEF s, r
  <2>5. /\ Len(r) = Len(s) + z
        /\ \A i \in 1..Len(s) : r[i] = s[i]
        /\ \A j \in 1..z : r[Len(s) + j] = <<m, j>>
    BY <2>3, <2>4 DEF IsJoined
  <2>6. Len(s) \in Nat /\ Len(r) \in Nat /\ z \in Nat /\ z # 0 /\ Len(r) = Len(s) + z
    BY <1>1, <2>1, <2>5
  <2>7. ASSUME NEW i \in DOMAIN r
        PROVE  /\ r[i][2] = 1 \/ (i > 1 /\ r[i - 1] = <<r[i][1], r[i][2] - 1>>)
               /\ r[i][2] = size[r[i][1]] \/ (i < Len(r) /\ r[i + 1] = <<r[i][1], r[i][2] + 1>>)
    <3>1. CASE i \in 1..Len(s)
      <4>1. /\ s[i][2] = 1 \/ (i > 1 /\ s[i - 1] = <<s[i][1], s[i][2] - 1>>)
            /\ s[i][2] = size[s[i][1]] \/ (i < Len(s) /\ s[i + 1] = <<s[i][1], s[i][2] + 1>>)
        BY <1>1, <1>3, <3>1 DEF Unbroken
      <4>2. i > 1 => i - 1 \in 1..Len(s)
        BY <1>1, <3>1
      <4>3. i < Len(s) => i + 1 \in 1..Len(s) /\ i < Len(r)
        <5> DEFINE n == Len(s)
                   o == Len(r)
        <5>1. n \in Nat /\ z \in Nat /\ o = n + z /\ i \in 1..n
          BY <2>6, <3>1
        <5> HIDE DEF n, o
        <5>2. i < n => i + 1 \in 1..n /\ i < o
          BY <5>1
        <5> QED BY <5>2 DEF n, o
      <4> QED BY <2>5, <3>1, <4>1, <4>2, <4>3
    <3>2. CASE i \notin 1..Len(s)
      <4> DEFINE j == i - Len(s)
      <4>1. j \in 1..z /\ i = Len(s) + j
        <5>1. i \in 1..Len(r)
          BY <1>1
        <5> QED BY <2>6, <3>2, <5>1
      <4> HIDE DEF j
      <4>2. j # 1 => j - 1 \in 1..z /\ i - 1 = Len(s) + (j - 1) /\ i > 1
        BY <2>6, <4>1
      <4>3. j # z => j + 1 \in 1..z /\ i + 1 = Len(s) + (j + 1) /\ i < Len(r)
        BY <2>6, <4>1
      <4>4. r[i] = <<m, j>>
        BY <2>5, <4>1
      <4>5. j # 1 => r[i - 1] = <<m, j - 1>>
        BY <2>5, <4>2
      <4>6. j # z => r[i + 1] = <<m, j + 1>>
        BY <2>5, <4>3
      <4> QED BY <4>2, <4>3, <4>4, <4>5, <4>6 DEF z
    <3> QED BY <3>1, <3>2
  <2>8. Unbroken(size, r)
    BY <2>7 DEF Unbroken
  <2> QED BY <1>2, <2>8 DEF r, Unbroken
<1>5. CASE Deliver
  <2> DEFINE m == buffer[1][1]
             z == size[m]
  <2>1. m \in Messages /\ z \in Nat /\ z # 0
    <3>1. m \in Messages
      BY <1>5, DeliverTakes
    <3> QED BY <3>1 DEF TypeInv
  <2>2. MessageThen(size, s, m, r) /\ SuffixOf(r, s, z)
    BY <1>5, DeliverTakes
  <2> HIDE DEF m, z, s, r
  <2>3. Len(s) = z + Len(r) /\ \A i \in 1..Len(r) : r[i] = s[z + i]
    BY <2>2 DEF SuffixOf
  <2>4. s[z] = <<m, z>> /\ \A i \in 1..Len(r) : r[i][1] # m
    <3>1. z \in 1..z
      BY <2>1
    <3> QED BY <1>1, <2>2, <3>1 DEF MessageThen, z
  <2>5. Len(s) \in Nat /\ Len(r) \in Nat /\ z \in Nat /\ z # 0 /\ Len(s) = z + Len(r)
    BY <1>1, <2>1, <2>3
  <2>6. ASSUME NEW i \in DOMAIN r
        PROVE  /\ r[i][2] = 1 \/ (i > 1 /\ r[i - 1] = <<r[i][1], r[i][2] - 1>>)
               /\ r[i][2] = size[r[i][1]] \/ (i < Len(r) /\ r[i + 1] = <<r[i][1], r[i][2] + 1>>)
    <3>1. i \in 1..Len(r)
      BY <1>1
    <3>2. z + i \in 1..Len(s) /\ i \in Nat
      BY <2>5, <3>1
    <3>3. i \in 1..Len(r) /\ z + i \in DOMAIN s /\ i \in Nat /\ r[i] = s[z + i]
      BY <1>1, <2>3, <3>1, <3>2
    <3>4. /\ s[z + i][2] = 1
             \/ (z + i > 1 /\ s[(z + i) - 1] = <<s[z + i][1], s[z + i][2] - 1>>)
          /\ s[z + i][2] = size[s[z + i][1]]
             \/ (z + i < Len(s) /\ s[(z + i) + 1] = <<s[z + i][1], s[z + i][2] + 1>>)
      BY <1>3, <3>3 DEF Unbroken
    <3>5. ASSUME r[i][2] # 1 PROVE i > 1 /\ r[i - 1] = <<r[i][1], r[i][2] - 1>>
      <4>1. s[(z + i) - 1] = <<r[i][1], r[i][2] - 1>>
        BY <3>3, <3>4, <3>5
      <4>2. CASE i = 1
        <5>1. (z + i) - 1 = z
          BY <2>1, <4>2
        <5> QED BY <2>4, <3>3, <4>1, <5>1
      <4>3. CASE i # 1
        <5>1. i - 1 \in 1..Len(r) /\ z + (i - 1) = (z + i) - 1 /\ i > 1
          BY <2>5, <3>1, <4>3
        <5> QED BY <2>3, <4>1, <5>1
      <4> QED BY <4>2, <4>3
    <3>6. ASSUME r[i][2] # size[r[i][1]] PROVE i < Len(r) /\ r[i + 1] = <<r[i][1], r[i][2] + 1>>
      <4>1. z + i < Len(s) /\ s[(z + i) + 1] = <<r[i][1], r[i][2] + 1>>
        BY <3>3, <3>4, <3>6
      <4>2. i < Len(r) /\ i + 1 \in 1..Len(r) /\ z + (i + 1) = (z + i) + 1
        BY <2>5, <3>1, <4>1
      <4> QED BY <2>3, <4>1, <4>2
    <3> QED BY <3>5, <3>6
  <2>7. Unbroken(size, r)
    BY <2>6 DEF Unbroken
  <2> QED BY <1>2, <2>7 DEF r, Unbroken
<1>6. CASE ReceiverEnds
  <2>1. buffer' = <<>> /\ wire' = <<>>
    BY <1>6 DEF ReceiverEnds
  <2>2. r = <<>>
    BY <2>1 DEF Stream
  <2> QED BY <2>2 DEF Unbroken
<1>7. CASE ~Write /\ ~Deliver /\ ~ReceiverEnds
  <2>1. ASSUME StopParsing PROVE r = s
    BY <2>1, StopKeeps
  <2>2. ASSUME Read PROVE r = s
    BY <2>2, ReadKeeps
  <2>3. ASSUME ~StopParsing, ~Read PROVE r = s
    BY <1>7, <2>3
    DEF Next, Transfer, Send, WriteFails, ReadEnd, ReadFails, Receive, SenderEnds, vars, Stream
  <2>4. r = s
    BY <2>1, <2>2, <2>3
  <2> HIDE DEF s, r
  <2>5. Unbroken(size, r)
    BY <1>3, <2>4
  <2> QED BY <1>2, <2>5 DEF r, Unbroken
<1> QED BY <1>4, <1>5, <1>6, <1>7

LEMMA WholeStep ==
  ASSUME TypeInv, TypeInv', StreamInv, WholeInv, [Next]_vars
  PROVE  WholeInv'
<1>1. /\ size' = size /\ sent \in Nat /\ sent' \in Nat /\ sent <= sent'
      /\ short => short'
      /\ cut => cut'
  <2>1. sent \in Nat /\ sent' \in Nat
    BY DEF TypeInv, Messages
  <2>2. size' = size /\ (sent' = sent \/ sent' = sent + 1)
    BY DEF Next, Transfer, Send, Write, WriteFails, Read, Deliver, StopParsing, ReadEnd,
           ReadFails, Receive, SenderEnds, ReceiverEnds, vars
  <2>3. (short => short') /\ (cut => cut')
    <3>1. ASSUME Write PROVE (short => short') /\ (cut => cut')
      BY <3>1, WriteAdds
    <3>2. ASSUME StopParsing PROVE (short => short') /\ (cut => cut')
      BY <3>2, StopKeeps DEF StopParsing
    <3>3. ASSUME ~Write, ~StopParsing PROVE (short => short') /\ (cut => cut')
      BY <3>3
      DEF Next, Transfer, Send, WriteFails, Read, Deliver, ReadEnd, ReadFails, Receive, SenderEnds,
          ReceiverEnds, vars
    <3> QED BY <3>1, <3>2, <3>3
  <2> QED BY <2>1, <2>2, <2>3
<1>2. CASE cut
  <2>1. CASE short
    BY <1>1, <1>2, <2>1 DEF WholeInv, CutHasCause
  <2>2. CASE ~short
    <3>1. PICK m \in 1..sent : size[m] > MaxBuffer + 1
      BY <1>2, <2>2 DEF WholeInv, CutHasCause
    <3>2. m \in 1..sent'
      BY <1>1
    <3>3. CutHasCause'
      BY <1>1, <3>1, <3>2 DEF CutHasCause
    <3> QED BY <1>1, <1>2, <3>3 DEF WholeInv
  <2> QED BY <2>1, <2>2
<1>3. CASE ~cut /\ ~cut'
  <2>1. Unbroken(size, Stream)'
    BY <1>3, UnbrokenStep DEF WholeInv
  <2> QED BY <1>3, <2>1 DEF WholeInv
<1>4. CASE ~cut /\ cut'
  <2>1. Unbroken(size, Stream)
    BY <1>4 DEF WholeInv
  <2>2. CASE Write
    BY <1>4, <2>2, WriteAdds DEF WholeInv, CutHasCause
  <2>3. CASE StopParsing
    <3>1. TooLarge(buffer)
      BY <1>4, <2>3, StopKeeps
    <3>2. PICK m \in 1..sent : size[m] > MaxBuffer + 1
      BY <2>1, <2>3, <3>1, OnlyLargeIsCut
    <3>3. m \in 1..sent'
      BY <1>1
    <3>4. CutHasCause'
      BY <1>1, <3>2, <3>3 DEF CutHasCause
    <3> QED BY <1>4, <3>4 DEF WholeInv
  <2>4. Write \/ StopParsing
    BY <1>4
    DEF Next, Transfer, Send, WriteFails, Read, Deliver, ReadEnd, ReadFails, Receive, SenderEnds,
        ReceiverEnds, vars
  <2> QED BY <2>2, <2>3, <2>4
<1> QED BY <1>2, <1>3, <1>4

LEMMA InitInv == Init => IInv
<1> SUFFICES ASSUME Init PROVE IInv
  OBVIOUS
<1>1. /\ outbox = <<>> /\ wire = <<>> /\ buffer = <<>> /\ inbox = <<>> /\ sent = 0 /\ ~cut
      /\ size \in [Messages -> Sizes]
  BY DEF Init
<1>2. TypeInv
  <2>1. size \in [Messages -> Nat \ {0}]
    BY <1>1, ConnectionAssumption
  <2>2. <<>> \in Seq(Messages) /\ <<>> \in Seq(Messages \X Nat) /\ Len(<<>>) = 0
    OBVIOUS
  <2> QED BY <1>1, <2>1, <2>2, Limits DEF TypeInv
<1>3. Stream = <<>>
  BY <1>1 DEF Stream
<1>4. StreamInv
  BY <1>1, <1>3 DEF StreamInv, Ordered
<1>5. WholeInv
  BY <1>1, <1>3 DEF WholeInv, Unbroken
<1> QED BY <1>2, <1>4, <1>5 DEF IInv

LEMMA AlwaysInv == Spec => []IInv
<1>1. IInv /\ [Next]_vars => IInv'
  BY TypeStep, StreamStep, WholeStep DEF IInv
<1> QED BY <1>1, InitInv, PTL DEF Spec

(* Neither channel nor the socket holds more than it can, and the read task's buffer *)
(* is never above its limit by more than one read, for any sizes and limits.         *)
THEOREM ConnectionTypeCorrect == Spec => []TypeOK
<1>1. IInv => TypeOK
  BY DEF IInv, TypeInv, TypeOK
<1> QED BY <1>1, AlwaysInv, PTL

(* As long as no write was cut short, what the read task drops above its limit is    *)
(* part of a message that is larger than the limit and one unit: no stream of        *)
(* messages that fit is ever cut, however it comes in reads.                         *)
THEOREM CutCorrect == Spec => []CutHasCause
<1>1. IInv => CutHasCause
  BY DEF IInv, WholeInv, CutHasCause
<1> QED BY <1>1, AlwaysInv, PTL

-----------------------------------------------------------------------------
(* The connection implements the link *)

Pending == inbox \o Whole(size, Stream) \o outbox

LEMMA WholeTyped ==
  ASSUME NEW S, NEW sizes, NEW u, UnitsOf(S, sizes, u)
  PROVE  Whole(sizes, u) \in Seq(S)
<1>1. PICK g : ToldBy(g, sizes, u, S)
  BY WholeIs
<1>2. Len(u) \in 0..Len(u)
  BY DEF UnitsOf
<1> QED BY <1>1, <1>2 DEF ToldBy, WholeAlong

\* A message that is sent is the last one.
LEMMA SentIsLast ==
  ASSUME NEW S, NEW i \in Seq(S), NEW w \in Seq(S), NEW o \in Seq(S), NEW x \in S
  PROVE  i \o w \o Append(o, x) = Append(i \o w \o o, x)
OBVIOUS

\* A message that is written stays where it was, and so does one that is parsed; the
\* message that is received was the first one.
StaysWhenWritten(i, w, o) == i \o Append(w, Head(o)) \o Tail(o) = i \o w \o o
StaysWhenParsed(i, w, o, x) == Append(i, x) \o w \o o = i \o (<<x>> \o w) \o o
FirstIsReceived(i, w, o) ==
  /\ i \o w \o o # <<>>
  /\ Head(i \o w \o o) = Head(i)
  /\ Tail(i \o w \o o) = Tail(i) \o w \o o

LEMMA WrittenStays ==
  ASSUME NEW S, NEW i \in Seq(S), NEW w \in Seq(S), NEW o \in Seq(S), o # <<>>
  PROVE  StaysWhenWritten(i, w, o)
<1> DEFINE x == Head(o)
           r == Tail(o)
<1>1. x \in S /\ r \in Seq(S) /\ o = <<x>> \o r
  OBVIOUS
<1> HIDE DEF x, r
<1>2. Append(w, x) = w \o <<x>> /\ <<x>> \in Seq(S)
  BY <1>1
<1>3. (i \o (w \o <<x>>)) \o r = (i \o w) \o (<<x>> \o r)
  BY <1>1, <1>2
<1> QED BY <1>1, <1>2, <1>3 DEF StaysWhenWritten, x, r

LEMMA ParsedStays ==
  ASSUME NEW S, NEW i \in Seq(S), NEW w \in Seq(S), NEW o \in Seq(S), NEW x \in S
  PROVE  StaysWhenParsed(i, w, o, x)
BY DEF StaysWhenParsed

LEMMA ReceivedIsFirst ==
  ASSUME NEW S, NEW i \in Seq(S), NEW w \in Seq(S), NEW o \in Seq(S), i # <<>>
  PROVE  FirstIsReceived(i, w, o)
BY DEF FirstIsReceived

LEMMA ThinnedOfThree ==
  ASSUME NEW S, NEW s1 \in Seq(S), NEW s2 \in Seq(S), NEW s3 \in Seq(S),
         NEW t1 \in Seq(S), NEW t2 \in Seq(S), NEW t3 \in Seq(S),
         Link!Thinned(s1, t1), Link!Thinned(s2, t2), Link!Thinned(s3, t3)
  PROVE  Link!Thinned(s1 \o s2 \o s3, t1 \o t2 \o t3)
<1>1. Link!Thinned(s1 \o s2, t1 \o t2)
  BY ThinnedBoth
<1>2. s1 \o s2 \in Seq(S) /\ t1 \o t2 \in Seq(S)
  OBVIOUS
<1> QED BY <1>1, <1>2, ThinnedBoth

LEMMA ThinnedByHead ==
  ASSUME NEW S, NEW s \in Seq(S), s # <<>>
  PROVE  Link!Thinned(s, Tail(s))
<1> DEFINE x == Head(s)
           t == Tail(s)
<1>1. x \in S /\ t \in Seq(S) /\ <<x>> \in Seq(S) /\ <<>> \in Seq(S)
  OBVIOUS
<1>2. s = <<x>> \o t /\ t = <<>> \o t
  OBVIOUS
<1> HIDE DEF x, t
<1>3. Link!Thinned(<<x>>, <<>>) /\ Link!Thinned(t, t)
  BY <1>1, ThinnedToNone, ThinnedToAll
<1>4. Link!Thinned(<<x>> \o t, <<>> \o t)
  BY <1>1, <1>3, ThinnedBoth
<1>5. Link!Thinned(s, t)
  BY <1>2, <1>4
<1> QED BY <1>5 DEF t

\* A step of the link in terms of Pending and Broken.
Sends == \E m \in Messages : Pending' = Append(Pending, m) /\ received' = received /\ Broken' = Broken

Receives ==
  /\ Pending # <<>>
  /\ received' = Append(received, Head(Pending))
  /\ Pending' = Tail(Pending)
  /\ Broken' = Broken

Loses == Broken' = TRUE /\ Link!Thinned(Pending, Pending') /\ received' = received

Stays == Pending' = Pending /\ received' = received /\ Broken' = Broken

LEMMA ConnectionStep ==
  ASSUME TypeInv, TypeInv', StreamInv, [Next]_vars
  PROVE  Sends \/ Receives \/ Loses \/ Stays
<1> DEFINE w == Whole(size, Stream)
           ww == Whole(size', Stream')
<1>1. /\ inbox \in Seq(Messages) /\ w \in Seq(Messages) /\ outbox \in Seq(Messages)
      /\ Pending = inbox \o w \o outbox
  BY StreamTyped, WholeTyped DEF TypeInv, Pending
<1>2. /\ inbox' \in Seq(Messages) /\ ww \in Seq(Messages) /\ outbox' \in Seq(Messages)
      /\ Pending' = inbox' \o ww \o outbox'
  <2>1. UnitsOf(Messages, size, Stream)'
    BY StreamTyped, PTL
  <2>2. ww \in Seq(Messages)
    BY <2>1, WholeTyped
  <2> QED BY <2>2 DEF TypeInv, Messages, Pending
<1>3. size' = size
  BY DEF Next, Transfer, Send, Write, WriteFails, Read, Deliver, StopParsing, ReadEnd, ReadFails,
         Receive, SenderEnds, ReceiverEnds, vars
<1> HIDE DEF w, ww
<1>4. \A s : UnitsOf(Messages, size, s) => Whole(size, s) \in Seq(Messages)
  BY WholeTyped
<1>5. CASE Send
  <2>1. /\ Stream' = Stream /\ inbox' = inbox /\ outbox' = Append(outbox, sent') /\ received' = received
        /\ sent' \in Messages /\ Broken' = Broken
    BY <1>5 DEF Send, Stream, TypeInv, Messages, Broken
  <2>2. ww = w
    BY <1>3, <2>1 DEF w, ww
  <2>3. inbox \o w \o Append(outbox, sent') = Append(inbox \o w \o outbox, sent')
    BY <1>1, <2>1, SentIsLast
  <2>4. Pending' = Append(Pending, sent')
    BY <1>1, <1>2, <2>1, <2>2, <2>3
  <2> QED BY <2>1, <2>4 DEF Sends
<1>6. CASE Write
  <2> DEFINE m == Head(outbox)
  <2>1. /\ outbox # <<>> /\ outbox' = Tail(outbox) /\ inbox' = inbox /\ received' = received
        /\ writing' = writing /\ reading' = reading
    BY <1>6 DEF Write
  <2>2. m \in Messages
    BY <1>6, WriteAdds
  <2>3. PICK n \in 1..size[m] :
          /\ Stream' = Stream \o FirstUnits(m, n)
          /\ IF n = size[m] THEN (cut' <=> cut) /\ (short' <=> short) ELSE cut' /\ short'
    BY <1>6, WriteAdds
  <2> HIDE DEF m
  <2>4. PartCounts(size, Stream, m, n)
    <3>1. size[m] \in Nat
      BY <2>2 DEF TypeInv
    <3>2. n \in 0..size[m]
      BY <3>1
    <3> QED BY <2>2, <3>2, StreamTyped, WholeOfPart
  <2>5. ww = IF n = size[m] THEN Append(w, m) ELSE w
    BY <1>3, <2>3, <2>4 DEF PartCounts, w, ww
  <2>6. CASE n = size[m]
    <3>1. StaysWhenWritten(inbox, w, outbox)
      BY <1>1, <2>1, WrittenStays
    <3>2. Pending' = Pending
      BY <1>1, <1>2, <2>1, <2>5, <2>6, <3>1 DEF StaysWhenWritten, m
    <3>3. Broken' = Broken
      BY <2>1, <2>3, <2>6 DEF Broken
    <3> QED BY <2>1, <3>2, <3>3 DEF Stays
  <2>7. CASE n # size[m]
    <3>1. Link!Thinned(inbox, inbox) /\ Link!Thinned(w, w) /\ Link!Thinned(outbox, outbox')
      BY <1>1, <2>1, ThinnedToAll, ThinnedByHead
    <3>2. Link!Thinned(inbox \o w \o outbox, inbox \o w \o outbox')
      BY <1>1, <1>2, <3>1, ThinnedOfThree
    <3>3. Link!Thinned(Pending, Pending')
      BY <1>1, <1>2, <2>1, <2>5, <2>7, <3>2
    <3>4. Broken' = TRUE
      BY <2>3, <2>7 DEF Broken
    <3> QED BY <2>1, <3>3, <3>4 DEF Loses
  <2> QED BY <2>6, <2>7
<1>7. CASE Read
  <2>1. /\ Stream' = Stream /\ inbox' = inbox /\ outbox' = outbox /\ received' = received
        /\ Broken' = Broken
    BY <1>7, ReadKeeps DEF Read, Broken
  <2>2. Pending' = Pending
    BY <1>3, <2>1 DEF Pending
  <2> QED BY <2>1, <2>2 DEF Stays
<1>8. CASE Deliver
  <2> DEFINE m == buffer[1][1]
  <2>1. m \in Messages /\ MessageThen(size, Stream, m, Stream')
    BY <1>8, DeliverTakes
  <2>2. /\ inbox' = Append(inbox, m) /\ outbox' = outbox /\ received' = received
        /\ Broken' = Broken
    BY <1>8 DEF Deliver, Broken
  <2> HIDE DEF m
  <2>3. UnitsOf(Messages, size, Stream')
    <3>1. UnitsOf(Messages, size, Stream)'
      BY StreamTyped, PTL
    <3> QED BY <1>3, <3>1
  <2>4. w = <<m>> \o ww
    BY <1>3, <2>1, <2>3, StreamTyped, WholeOfRest DEF w, ww
  <2>5. StaysWhenParsed(inbox, ww, outbox, m)
    BY <1>1, <1>2, <2>1, ParsedStays
  <2>6. Pending' = Pending
    BY <1>1, <1>2, <2>2, <2>4, <2>5 DEF StaysWhenParsed
  <2> QED BY <2>2, <2>6 DEF Stays
<1>9. CASE StopParsing
  <2>1. inbox' = inbox /\ outbox' = outbox /\ received' = received
        /\ writing' = writing /\ reading' = reading
    BY <1>9 DEF StopParsing
  <2>2. CASE Stream' = Stream /\ (cut' <=> cut)
    <3>1. Pending' = Pending
      BY <1>3, <2>1, <2>2 DEF Pending
    <3>2. Broken' = Broken
      BY <2>1, <2>2 DEF Broken
    <3> QED BY <2>1, <3>1, <3>2 DEF Stays
  <2>3. CASE Stream' = wire /\ cut'
    <3>1. Link!Thinned(w, ww)
      BY <1>3, <2>3, StreamTyped, WholeOfLater DEF w, ww
    <3>2. Link!Thinned(inbox, inbox) /\ Link!Thinned(outbox, outbox)
      BY <1>1, ThinnedToAll
    <3>3. Link!Thinned(inbox \o w \o outbox, inbox \o ww \o outbox)
      BY <1>1, <1>2, <3>1, <3>2, ThinnedOfThree
    <3>4. Link!Thinned(Pending, Pending')
      BY <1>1, <1>2, <2>1, <3>3
    <3>5. Broken' = TRUE
      BY <2>3 DEF Broken
    <3> QED BY <2>1, <3>4, <3>5 DEF Loses
  <2> QED BY <1>9, <2>2, <2>3, StopKeeps
<1>10. CASE Receive
  <2>1. /\ inbox # <<>> /\ inbox' = Tail(inbox) /\ outbox' = outbox
        /\ received' = Append(received, Head(inbox)) /\ Stream' = Stream /\ Broken' = Broken
    BY <1>10 DEF Receive, Stream, Broken
  <2>2. ww = w
    BY <1>3, <2>1 DEF w, ww
  <2> DEFINE p == Pending
  <2>3. /\ p # <<>> /\ Head(p) = Head(inbox)
        /\ Tail(p) = Tail(inbox) \o w \o outbox
    <3>1. FirstIsReceived(inbox, w, outbox)
      BY <1>1, <2>1, ReceivedIsFirst
    <3> QED BY <1>1, <3>1 DEF FirstIsReceived
  <2>4. Pending' = Tail(Pending)
    BY <1>2, <2>1, <2>2, <2>3
  <2> QED BY <2>1, <2>3, <2>4 DEF Receives
<1>11. CASE WriteFails \/ SenderEnds
  <2>1. outbox' = <<>> /\ inbox' = inbox /\ Stream' = Stream /\ received' = received /\ Broken' = TRUE
    BY <1>11 DEF WriteFails, SenderEnds, Stream, Broken
  <2>2. ww = w
    BY <1>3, <2>1 DEF w, ww
  <2>3. Link!Thinned(inbox, inbox) /\ Link!Thinned(w, w) /\ Link!Thinned(outbox, <<>>)
    BY <1>1, ThinnedToAll, ThinnedToNone
  <2>4. Link!Thinned(inbox \o w \o outbox, inbox \o w \o outbox')
    BY <1>1, <1>2, <2>1, <2>3, ThinnedOfThree
  <2>5. Link!Thinned(Pending, Pending')
    BY <1>1, <1>2, <2>1, <2>2, <2>4
  <2> QED BY <2>1, <2>5 DEF Loses
<1>12. CASE ReadEnd \/ ReadFails
  <2>1. /\ inbox' = inbox /\ outbox' = outbox /\ Stream' = Stream /\ received' = received
        /\ Broken' = TRUE
    BY <1>12 DEF ReadEnd, ReadFails, Stream, Broken
  <2>2. Pending' = Pending
    BY <1>3, <2>1 DEF Pending
  <2>3. Pending \in Seq(Messages)
    BY <1>1
  <2>4. Link!Thinned(Pending, Pending')
    BY <2>2, <2>3, ThinnedToAll
  <2> QED BY <2>1, <2>4 DEF Loses
<1>13. CASE ReceiverEnds
  <2>1. /\ inbox' = <<>> /\ outbox' = outbox /\ buffer' = <<>> /\ wire' = <<>>
        /\ received' = received /\ Broken' = TRUE
    BY <1>13 DEF ReceiverEnds, Broken
  <2>2. ww = <<>>
    <3>1. Stream' = <<>>
      BY <2>1 DEF Stream
    <3>2. size \in [Messages -> Nat \ {0}]
      BY DEF TypeInv
    <3> QED BY <1>3, <3>1, <3>2, WholeOfNone DEF ww
  <2>3. Link!Thinned(inbox, <<>>) /\ Link!Thinned(w, <<>>) /\ Link!Thinned(outbox, outbox)
    BY <1>1, ThinnedToAll, ThinnedToNone
  <2>4. Link!Thinned(inbox \o w \o outbox, inbox' \o ww \o outbox')
    BY <1>1, <1>2, <2>1, <2>2, <2>3, ThinnedOfThree
  <2>5. Link!Thinned(Pending, Pending')
    BY <1>1, <1>2, <2>4
  <2> QED BY <2>1, <2>5 DEF Loses
<1>14. CASE UNCHANGED vars
  BY <1>14 DEF vars, Stays, Pending, Stream, Broken
<1> QED BY <1>5, <1>6, <1>7, <1>8, <1>9, <1>10, <1>11, <1>12, <1>13, <1>14 DEF Next, Transfer

(* A connection is a FIFO link, whatever the sizes, the limits and the reads: until  *)
(* it breaks every message is received once and in its order, and when it breaks     *)
(* messages are lost, but none is repeated, made up or overtaken.                    *)
THEOREM ConnectionImplementsLink == Spec => ImplementsLink
<1>1. Init => Link!LinkInit
  <2> SUFFICES ASSUME Init PROVE Link!LinkInit
    OBVIOUS
  <2>1. /\ inbox = <<>> /\ outbox = <<>> /\ buffer = <<>> /\ wire = <<>> /\ received = <<>>
        /\ cut = FALSE /\ writing = TRUE /\ reading = TRUE
    BY DEF Init
  <2>2. Whole(size, buffer \o wire) = <<>>
    <3>1. buffer \o wire = <<>>
      BY <2>1
    <3>2. size \in [Messages -> Nat \ {0}]
      BY InitInv DEF IInv, TypeInv
    <3> QED BY <3>1, <3>2, WholeOfNone
  <2>3. Broken = FALSE
    BY <2>1 DEF Broken
  <2>4. inbox \o Whole(size, buffer \o wire) \o outbox = <<>>
    BY <2>1, <2>2
  <2> QED BY <2>1, <2>3, <2>4 DEF Link!LinkInit
<1>2. IInv /\ IInv' /\ [Next]_vars => [Link!LinkNext]_(Link!lvars)
  <2> SUFFICES ASSUME IInv, IInv', [Next]_vars PROVE [Link!LinkNext]_(Link!lvars)
    OBVIOUS
  <2>1. Sends \/ Receives \/ Loses \/ Stays
    BY ConnectionStep DEF IInv
  <2> QED BY <2>1
      DEF Sends, Receives, Loses, Stays, Pending, Stream, Link!LinkNext, Link!Send, Link!Receive,
          Link!Lose, Link!lvars
<1> QED BY <1>1, <1>2, AlwaysInv, PTL DEF Spec, ImplementsLink, Link!LinkSpec

=============================================================================
