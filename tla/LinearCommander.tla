-------------------------- MODULE LinearCommander --------------------------
(***************************************************************************)
(* The round-robin scheduler of the broker                                 *)
(* (src/libs/vs-broker/src/commander/linear.rs): a vector of registered    *)
(* tasks and the index of the one to hand out next.  The index counts from *)
(* 0, as in the source.                                                    *)
(***************************************************************************)
EXTENDS Naturals, Sequences

CONSTANT Tasks      \* the task ids, BrokerTaskConfig::task_id

VARIABLES tasks,    \* LinearBrokerCommander::tasks
          current   \* LinearBrokerCommander::current_task

commanderVars == <<tasks, current>>

Listed == {tasks[i] : i \in DOMAIN tasks}

Place(s, t) == CHOOSE i \in DOMAIN s : s[i] = t

CloseGap(s, i) == [j \in 1..(Len(s) - 1) |-> IF j < i THEN s[j] ELSE s[j + 1]]

\* The vector without t.  A task id is drawn at random and announced once, so
\* t is listed at most once and retain() closes exactly one gap.
Retain(s, t) ==
  IF \E i \in DOMAIN s : s[i] = t THEN CloseGap(s, Place(s, t)) ELSE s

Init ==
  /\ tasks = <<>>
  /\ current = 0

\* MUTATION of AddTasks: a new task goes to the head of the vector.
AddTasksInFront(ts) ==
  /\ tasks' = ts \o tasks
  /\ UNCHANGED current

\* add_task for each element of ts, in order.
AddTasks(ts) ==
  /\ tasks' = tasks \o ts
  /\ UNCHANGED current

\* MUTATION of GetNext: the index stays where it is.
GetFirst(t) ==
  /\ tasks # <<>>
  /\ t = tasks[current + 1]
  /\ UNCHANGED commanderVars

\* get_next_tasks when it returns the one-element vector <<t>>.
GetNext(t) ==
  /\ tasks # <<>>
  /\ t = tasks[current + 1]
  /\ current' = (current + 1) % Len(tasks)
  /\ UNCHANGED tasks

\* MUTATION of RemoveTask: the index is not reset.
RemoveTaskOnly(t) ==
  /\ tasks' = Retain(tasks, t)
  /\ UNCHANGED current

RemoveTask(t) ==
  /\ tasks' = Retain(tasks, t)
  /\ current' = 0

=============================================================================
