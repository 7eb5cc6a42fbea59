-------------------------- MODULE CommanderRounds --------------------------
(***************************************************************************)
(* The round-robin commander on its own: tasks come, are handed out and    *)
(* are removed in any order.  The history variable `waited' counts the     *)
(* turns other tasks got while a task waited; the count of every task      *)
(* starts again with a removal, because the removal sends the commander    *)
(* back to the head of its vector.                                         *)
(***************************************************************************)
EXTENDS LinearCommander

VARIABLE waited

roundVars == <<commanderVars, waited>>

RoundsInit ==
  /\ Init
  /\ waited = [t \in Tasks |-> 0]

\* An id stands for a new task each time it is added.
Add(t) ==
  /\ t \notin Listed
  /\ AddTasks(<<t>>)
  /\ waited' = [waited EXCEPT ![t] = 0]

Turn(t) ==
  /\ GetNext(t)
  /\ waited' = [u \in Tasks |-> IF u \in Listed \ {t} THEN waited[u] + 1 ELSE 0]

Remove(t) ==
  /\ t \in Listed
  /\ RemoveTask(t)
  /\ waited' = [u \in Tasks |-> 0]

RoundsNext == \E t \in Tasks : Add(t) \/ Turn(t) \/ Remove(t)

RoundsSpec == RoundsInit /\ [][RoundsNext]_roundVars

-----------------------------------------------------------------------------
\* The vector holds tasks, each once, and the index points into it.
RoundsTypeOK ==
  /\ tasks \in Seq(Tasks)
  /\ current \in Nat
  /\ waited \in [Tasks -> Nat]
  /\ \A i, j \in DOMAIN tasks : tasks[i] = tasks[j] => i = j
  /\ current < Len(tasks) \/ (current = 0 /\ tasks = <<>>)

\* Round robin: between two removals, while a task waits every other task of
\* the vector gets at most one turn, also when tasks are added in the middle of
\* a round or at its very end, where the index wraps.
NobodyOvertakes ==
  \A t \in Listed : waited[t] < Len(tasks)

=============================================================================
