-------------------------- MODULE CommanderProofs --------------------------
(* Round robin, for any number of tasks. *)
EXTENDS CommanderRounds, CollectionLemmas

\* How many turns go to other tasks before the one at place i gets its own.
Ahead(i) == IF i - 1 >= current THEN i - 1 - current
                                ELSE i - 1 - current + Len(tasks)

\* What a task has waited and what it still has to wait fit in one round.
RoundsInv ==
  RoundsTypeOK /\ \A i \in DOMAIN tasks : waited[tasks[i]] + Ahead(i) < Len(tasks)

LEMMA InitRounds == RoundsInit => RoundsInv
BY DEF RoundsInit, Init, RoundsInv, RoundsTypeOK

\* Adding behind the vector's end makes every distance longer by at most the
\* place that was added.
LEMMA AddRounds ==
  ASSUME RoundsInv, NEW t \in Tasks, Add(t)
  PROVE  RoundsInv'
<1> DEFINE n == Len(tasks)
<1>1. /\ tasks \in Seq(Tasks)
      /\ n \in Nat /\ DOMAIN tasks = 1..n
      /\ current \in Nat
      /\ waited \in [Tasks -> Nat]
      /\ \A i \in 1..n : tasks[i] \in Tasks /\ tasks[i] # t
      /\ \A i, j \in 1..n : tasks[i] = tasks[j] => i = j
      /\ current < n \/ (current = 0 /\ n = 0)
  BY DEF RoundsInv, RoundsTypeOK, Add, Listed
<1>2. /\ tasks' = Append(tasks, t)
      /\ current' = current
      /\ waited' = [waited EXCEPT ![t] = 0]
  BY <1>1 DEF Add, AddTasks
<1>3. /\ tasks' \in Seq(Tasks)
      /\ Len(tasks') = n + 1
      /\ DOMAIN tasks' = 1..(n + 1)
      /\ \A i \in 1..n : tasks'[i] = tasks[i]
      /\ tasks'[n + 1] = t
      /\ \A i \in 1..(n + 1) : i \in 1..n \/ i = n + 1
  BY <1>1, <1>2
<1>4. /\ waited' \in [Tasks -> Nat]
      /\ waited'[t] = 0
      /\ \A i \in 1..n : waited'[tasks[i]] = waited[tasks[i]]
  BY <1>1, <1>2
<1>5. \A i \in 1..n : waited[tasks[i]] + Ahead(i) < n
  BY <1>1 DEF RoundsInv
<1>6. ASSUME NEW i \in 1..(n + 1)
      PROVE  waited'[tasks'[i]] + Ahead(i)' < n + 1
  <2>1. CASE i \in 1..n
    <3>1. waited[tasks[i]] \in Nat
      BY <1>1, <2>1
    <3>2. waited[tasks[i]] + Ahead(i) < n
      BY <1>5, <2>1
    <3>3. waited'[tasks'[i]] = waited[tasks[i]]
      BY <1>3, <1>4, <2>1
    <3> QED BY <1>1, <1>2, <1>3, <2>1, <3>1, <3>2, <3>3 DEF Ahead
  <2>2. CASE i = n + 1
    BY <1>1, <1>2, <1>3, <1>4, <2>2 DEF Ahead
  <2> QED BY <1>3, <2>1, <2>2
<1>7. \A i, j \in 1..(n + 1) : tasks'[i] = tasks'[j] => i = j
  BY <1>1, <1>3
<1>8. RoundsTypeOK'
  BY <1>1, <1>2, <1>3, <1>4, <1>7 DEF RoundsTypeOK
<1> QED BY <1>3, <1>6, <1>8 DEF RoundsInv

\* Handing out a task moves the index one place: everybody else comes one turn
\* closer and has waited one turn more.
LEMMA TurnRounds ==
  ASSUME RoundsInv, NEW t \in Tasks, Turn(t)
  PROVE  RoundsInv'
<1> DEFINE n == Len(tasks)
<1>1. /\ tasks \in Seq(Tasks)
      /\ n \in Nat /\ DOMAIN tasks = 1..n
      /\ current \in Nat
      /\ current < n
      /\ waited \in [Tasks -> Nat]
      /\ \A i \in 1..n : tasks[i] \in Tasks
      /\ \A i, j \in 1..n : tasks[i] = tasks[j] => i = j
      /\ t = tasks[current + 1]
  BY DEF RoundsInv, RoundsTypeOK, Turn, GetNext
<1>2. /\ tasks' = tasks
      /\ current' = (current + 1) % n
      /\ waited' = [u \in Tasks |-> IF u \in Listed \ {t} THEN waited[u] + 1 ELSE 0]
  BY DEF Turn, GetNext
<1>3. /\ current' \in Nat
      /\ current' < n
      /\ current + 1 < n => current' = current + 1
      /\ current + 1 = n => current' = 0
  BY <1>1, <1>2, NextIndex
<1>4. waited' \in [Tasks -> Nat]
  BY <1>1, <1>2
<1>5. /\ n \in Nat
      /\ Len(tasks) = n
      /\ Len(tasks') = n
      /\ current \in Nat
      /\ current < n
  BY <1>1, <1>2
<1> HIDE DEF n
<1>6. ASSUME NEW i \in 1..n
      PROVE  waited'[tasks[i]] + Ahead(i)' < n
  <2>1. CASE i = current + 1
    <3>1. waited'[tasks[i]] = 0
      BY <1>1, <1>2, <2>1
    <3>2. Ahead(i)' = n - 1
      <4>1. CASE i < n
        BY <1>3, <1>5, <2>1, <4>1 DEF Ahead
      <4>2. CASE i = n
        <5>1. current' = 0 /\ i - 1 >= 0 /\ n - 1 = i - 1
          BY <1>3, <1>5, <2>1, <4>2
        <5> QED BY <1>5, <5>1 DEF Ahead
      <4> QED BY <1>5, <4>1, <4>2
    <3> QED BY <1>5, <3>1, <3>2
  <2>2. CASE i # current + 1
    <3>1. tasks[i] \in Listed \ {t}
      <4>1. current + 1 \in 1..n
        BY <1>1
      <4> QED BY <1>1, <2>2, <4>1 DEF Listed
    <3>2. waited'[tasks[i]] = waited[tasks[i]] + 1
      <4>1. tasks[i] \in Tasks
        BY <1>1
      <4>2. waited'[tasks[i]] =
               IF tasks[i] \in Listed \ {t} THEN waited[tasks[i]] + 1 ELSE 0
        BY <1>2, <4>1
      <4> QED BY <3>1, <4>2
    <3>3. waited[tasks[i]] \in Nat /\ waited[tasks[i]] + Ahead(i) < n
      <4>1. tasks[i] \in Tasks
        BY <1>1
      <4>2. i \in DOMAIN tasks /\ Len(tasks) = n
        BY <1>1, <1>5
      <4>3. waited[tasks[i]] + Ahead(i) < Len(tasks)
        BY <4>2 DEF RoundsInv
      <4> QED BY <1>1, <4>1, <4>2, <4>3
    <3>4. Ahead(i)' = Ahead(i) - 1
      <4>1. CASE current + 1 < n
        BY <1>3, <1>5, <2>2, <4>1 DEF Ahead
      <4>2. CASE current + 1 = n
        BY <1>3, <1>5, <2>2, <4>2 DEF Ahead
      <4> QED BY <1>5, <4>1, <4>2
    <3>5. Ahead(i) \in Int
      BY <1>5 DEF Ahead
    <3> QED BY <1>5, <3>2, <3>3, <3>4, <3>5
  <2> QED BY <2>1, <2>2
<1>7. RoundsTypeOK'
  BY <1>1, <1>2, <1>3, <1>4 DEF RoundsTypeOK
<1>8. /\ DOMAIN tasks' = 1..n
      /\ tasks' = tasks
  BY <1>1, <1>2 DEF n
<1> QED BY <1>5, <1>6, <1>7, <1>8 DEF RoundsInv

\* A removal starts a new count from the head of the vector.
LEMMA RemoveRounds ==
  ASSUME RoundsInv, NEW t \in Tasks, Remove(t)
  PROVE  RoundsInv'
<1>1. /\ tasks \in Seq(Tasks)
      /\ \A i, j \in DOMAIN tasks : tasks[i] = tasks[j] => i = j
  BY DEF RoundsInv, RoundsTypeOK
<1>2. PICK i \in DOMAIN tasks : tasks[i] = t
  BY DEF Remove, Listed
<1>3. /\ tasks' = [j \in 1..(Len(tasks) - 1) |-> IF j < i THEN tasks[j]
                                                           ELSE tasks[j + 1]]
      /\ current' = 0
      /\ waited' = [u \in Tasks |-> 0]
  BY <1>1, <1>2 DEF Remove, RemoveTask, Retain, Place, CloseGap
<1>4. tasks' \in Seq(Tasks)
  BY <1>1, <1>2, <1>3, GapClosed
<1>5. \A j, k \in DOMAIN tasks' : tasks'[j] = tasks'[k] => j = k
  BY <1>1, <1>2, <1>3, GapClosed
<1>6. /\ Len(tasks') \in Nat
      /\ DOMAIN tasks' = 1..Len(tasks')
      /\ \A j \in DOMAIN tasks' : tasks'[j] \in Tasks
      /\ 0 < Len(tasks') \/ tasks' = <<>>
  BY <1>4
<1>7. \A j \in DOMAIN tasks' : waited'[tasks'[j]] + Ahead(j)' < Len(tasks')
  BY <1>3, <1>6 DEF Ahead
<1>8. RoundsTypeOK'
  BY <1>3, <1>4, <1>5, <1>6 DEF RoundsTypeOK
<1> QED BY <1>7, <1>8 DEF RoundsInv

LEMMA InvariantRounds == RoundsSpec => []RoundsInv
<1>1. ASSUME RoundsInv, RoundsNext PROVE RoundsInv'
  BY <1>1, AddRounds, TurnRounds, RemoveRounds DEF RoundsNext
<1>2. ASSUME RoundsInv, UNCHANGED roundVars PROVE RoundsInv'
  BY <1>2 DEF roundVars, commanderVars, RoundsInv, RoundsTypeOK, Ahead
<1> QED BY InitRounds, <1>1, <1>2, PTL DEF RoundsSpec

(* The vector lists every task once and the index stays inside it, also when  *)
(* a removal takes the place it points to.                                    *)
THEOREM RoundsTypeCorrect == RoundsSpec => []RoundsTypeOK
<1>1. RoundsInv => RoundsTypeOK
  BY DEF RoundsInv
<1> QED BY <1>1, InvariantRounds, PTL

(* With any number of tasks, coming and going at any time, nobody waits for   *)
(* more turns than the other tasks of the vector are: get_next_tasks hands    *)
(* out every task once a round.                                               *)
THEOREM RoundRobin == RoundsSpec => []NobodyOvertakes
<1>1. ASSUME RoundsInv PROVE NobodyOvertakes
  <2> SUFFICES ASSUME NEW i \in DOMAIN tasks
               PROVE  waited[tasks[i]] < Len(tasks)
    BY DEF NobodyOvertakes, Listed
  <2>1. /\ waited[tasks[i]] + Ahead(i) < Len(tasks)
        /\ waited[tasks[i]] \in Nat
        /\ Len(tasks) \in Nat
        /\ i \in 1..Len(tasks)
        /\ current \in Nat
        /\ current < Len(tasks)
    BY <1>1 DEF RoundsInv, RoundsTypeOK
  <2>2. Ahead(i) \in Nat
    BY <2>1 DEF Ahead
  <2> QED BY <2>1, <2>2
<1> QED BY <1>1, InvariantRounds, PTL

=============================================================================
