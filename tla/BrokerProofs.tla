---------------------------- MODULE BrokerProofs ----------------------------
(***************************************************************************)
(* Theorems about the broker for any number of tasks, adapters and runs.   *)
(*                                                                         *)
(* Registry and lock: RegistryAgrees and LookupsSafe are not inductive.    *)
(* They need to know which of tick's local variables are in use (TickInv), *)
(* that what the nodes announce is new (PendingInv), and that no run is    *)
(* detached before the first failure (JoinedInv).                          *)
(*                                                                         *)
(* Outputs: no execution that is reported Completed loses its outputs.     *)
(* They are kept once they were sent (KeptStays), and everything that      *)
(* leads to "Completed" is downstream of sending them: an answering node,  *)
(* a response on its way, a finished run (SentInv).                        *)
(*                                                                         *)
(* Serial: when every task is triggered at every turn, tick launches one   *)
(* run and awaits it, so that it has no handle to drop when one fails.     *)
(*                                                                         *)
(* Responses: until an execution fails, or when tick runs one task at a    *)
(* time, a blocking run takes the response to its own request.             *)
(* recv_response only compares the task id, so this rests on counting: a   *)
(* task has one run at most (OneRun), which no second launch can join      *)
(* (NotQueued), and at most one request or response on its way, the one    *)
(* its run has sent (OneInFlight).                                         *)
(*                                                                         *)
(* Calls: the same invariant gives the refinement of RemoteCalls, since    *)
(* the one run of a task and the one message on its way determine the      *)
(* stage of its call.                                                      *)
(***************************************************************************)
EXTENDS Broker, CollectionLemmas

\* Where tick stands decides which of its local variables are in use; the
\* awaited runs are distinct and still there.
TickInv ==
  /\ pc = "record" => launching # NoRun /\ ~IsFree(launching)
  /\ pc \in {"idle", "read", "launch", "await"} => launching = NoRun
  /\ pc \in {"idle", "read"} => handles = <<>>
  /\ pc \in {"idle", "read", "await"} => queued = {}
  /\ \A i \in DOMAIN handles : ~IsFree(handles[i]) /\ handles[i] # launching
  /\ \A i, j \in DOMAIN handles : handles[i] = handles[j] => i = j

\* A task is announced once: what is still to be read has not been read before.
PendingInv ==
  /\ registered \subseteq announced
  /\ \A a \in Adapters : \A i \in DOMAIN newTasks[a] :
       /\ AdapterOf[newTasks[a][i]] = a
       /\ newTasks[a][i] \in announced \ registered
  /\ \A a \in Adapters : \A i, j \in DOMAIN newTasks[a] :
       newTasks[a][i] = newTasks[a][j] => i = j

\* Until a task is dropped, every run is one that tick will await, and every
\* executing task has such a run.
JoinedInv ==
  Dropped = {} =>
    /\ \A r \in RunIds : IsFree(r) \/ Joined(r)
    /\ \A t \in registered : status[t] = "Executing" =>
         \E r \in RunIds : runs[r].task = t /\ Joined(r)
    /\ pc # "try_lock_panicked"

-----------------------------------------------------------------------------
\* retain() takes out one element and keeps the others, each once.
LEMMA RetainLemma ==
  ASSUME NEW s \in Seq(Tasks), NEW i \in DOMAIN s,
         \A j, k \in DOMAIN s : s[j] = s[k] => j = k,
         NEW v, v = commander!Retain(s, s[i])
  PROVE  /\ v \in Seq(Tasks)
         /\ \A j, k \in DOMAIN v : v[j] = v[k] => j = k
         /\ \A j \in DOMAIN v : \E k \in DOMAIN s : s[k] = v[j] /\ k # i
         /\ \A k \in DOMAIN s : k # i => \E j \in DOMAIN v : v[j] = s[k]
<1>1. commander!Place(s, s[i]) = i
  BY DEF commander!Place
<1>2. commander!Retain(s, s[i]) = commander!CloseGap(s, i)
  BY <1>1 DEF commander!Retain
<1>3. v = [j \in 1..(Len(s) - 1) |-> IF j < i THEN s[j] ELSE s[j + 1]]
  BY <1>2 DEF commander!CloseGap
<1>4. /\ v \in Seq(Tasks)
      /\ \A j, k \in DOMAIN v : v[j] = v[k] => j = k
      /\ Len(v) = Len(s) - 1
      /\ \A j \in DOMAIN v : v[j] = IF j < i THEN s[j] ELSE s[j + 1]
  BY <1>3, GapClosed
<1> DEFINE n == Len(s)
<1>5. /\ n \in Nat
      /\ DOMAIN s = 1..n
      /\ DOMAIN v = 1..(n - 1)
      /\ i \in 1..n
  BY <1>4
<1> HIDE DEF n
<1>6. ASSUME NEW j \in DOMAIN v
      PROVE  \E k \in DOMAIN s : s[k] = v[j] /\ k # i
  <2>1. CASE j < i
    <3>1. j \in DOMAIN s /\ s[j] = v[j] /\ j # i
      BY <1>4, <1>5, <2>1
    <3> QED BY <3>1
  <2>2. CASE ~(j < i)
    <3>1. j + 1 \in DOMAIN s /\ s[j + 1] = v[j] /\ j + 1 # i
      BY <1>4, <1>5, <2>2
    <3> QED BY <3>1
  <2> QED BY <2>1, <2>2
<1>7. ASSUME NEW k \in DOMAIN s, k # i
      PROVE  \E j \in DOMAIN v : v[j] = s[k]
  <2>1. CASE k < i
    <3>1. k \in DOMAIN v /\ v[k] = s[k]
      BY <1>4, <1>5, <2>1
    <3> QED BY <3>1
  <2>2. CASE ~(k < i)
    <3>1. k - 1 \in DOMAIN v /\ ~(k - 1 < i) /\ (k - 1) + 1 = k
      BY <1>5, <1>7, <2>2
    <3>2. v[k - 1] = s[k]
      BY <1>4, <3>1
    <3> QED BY <3>1, <3>2
  <2> QED BY <2>1, <2>2
<1> QED BY <1>4, <1>6, <1>7

-----------------------------------------------------------------------------
(* Every step keeps the types *)

\* The commander's and the broker's variables.
LEMMA RegistryTypeStep ==
  ASSUME TypeOK, RegistryAgrees, TickInv, [Next]_vars
  PROVE  RegistryTypeOK'
<1> USE TasksAssumption, TimeAssumption, BoundsAssumption
    DEF TypeOK, RegistryTypeOK, registryVars, Statuses
<1>1. ASSUME NEW a \in Adapters, ReadNewTasks(a) PROVE RegistryTypeOK'
  BY <1>1 DEF ReadNewTasks, commander!AddTasks, Arrived, NodeTypeOK
<1>2. ASSUME NEW t \in Tasks, QueueNext(t) PROVE RegistryTypeOK'
  BY <1>2 DEF QueueNext, commander!GetNext
<1>3. ASSUME NEW t \in Tasks, Launch(t) PROVE RegistryTypeOK'
  BY <1>3 DEF Launch
<1>4. ASSUME RecordFirst PROVE RegistryTypeOK'
  <2>1. 0 \in {Never} \union (0..MaxAge)
    OBVIOUS
  <2> QED BY <1>4, <2>1 DEF RecordFirst, Recorded
<1>5. ASSUME RecordAfterRun PROVE RegistryTypeOK'
  <2>1. 0 \in {Never} \union (0..MaxAge)
    OBVIOUS
  <2> QED BY <1>5, <2>1 DEF RecordAfterRun, Recorded
<1>6. ASSUME NEW delta \in Deltas, UpdateTime(delta) PROVE RegistryTypeOK'
  BY <1>6 DEF UpdateTime, Min2, Never
<1>7. ASSUME AwaitCompleted PROVE RegistryTypeOK'
  BY <1>7 DEF AwaitCompleted
<1>8. ASSUME AwaitFailed PROVE RegistryTypeOK'
  <2> DEFINE t == runs[Head(handles)].task
  <2>1. tasks' = commander!Retain(tasks, t) /\ current' = 0
    BY <1>8 DEF AwaitFailed, DropHandles, commander!RemoveTask
  <2>2. tasks' \in Seq(Tasks)
    <3>1. CASE \E i \in DOMAIN tasks : tasks[i] = t
      BY <2>1, <3>1, RetainLemma DEF RegistryAgrees
    <3>2. CASE ~\E i \in DOMAIN tasks : tasks[i] = t
      BY <2>1, <3>2 DEF commander!Retain
    <3> QED BY <3>1, <3>2
  <2>3. Never \in {Never} \union (0..MaxAge)
    OBVIOUS
  <2> HIDE DEF t
  <2> QED BY <1>8, <2>1, <2>2, <2>3 DEF AwaitFailed, DropHandles, t
<1>9. CASE UNCHANGED <<registryVars>>
  BY <1>9
<1> QED
  BY <1>1, <1>2, <1>3, <1>4, <1>5, <1>6, <1>7, <1>8, <1>9
  DEF Next, Tick, RunStep, Node, Halted, vars, runFrame, nodeFrame, registryVars, tickVars,
    nodeVars, replyVars, Recorded, StartTick, TryLockPanics, NothingToDo,
    SkipUntriggered, TopicUpdatedPanics, TickReturns, RunSend, RunSendFails,
    RunDrain, RunAnswered, RunUnanswered, RunTimeout, Announce, NodeReceive,
    NodeExecute, NodeRespond, NodeFails, NodeStops

\* The local variables of tick.
LEMMA TickTypeStep ==
  ASSUME TypeOK, RegistryAgrees, TickInv, [Next]_vars
  PROVE  TickTypeOK'
<1> USE TasksAssumption, TimeAssumption, BoundsAssumption
    DEF TypeOK, TickTypeOK, tickVars, Panics
<1>1. ASSUME StartTick PROVE TickTypeOK'
  BY <1>1 DEF StartTick
<1>2. ASSUME NEW a \in Adapters, ReadNewTasks(a) PROVE TickTypeOK'
  BY <1>2 DEF ReadNewTasks
<1>3. ASSUME NEW a \in Adapters, TryLockPanics(a) PROVE TickTypeOK'
  BY <1>3 DEF TryLockPanics
<1>4. ASSUME NothingToDo PROVE TickTypeOK'
  BY <1>4 DEF NothingToDo
<1>5. ASSUME NEW t \in Tasks, QueueNext(t) PROVE TickTypeOK'
  BY <1>5 DEF QueueNext, RegistryTypeOK
<1>6. ASSUME NEW t \in Tasks, SkipUntriggered(t) PROVE TickTypeOK'
  BY <1>6 DEF SkipUntriggered
<1>7. ASSUME NEW t \in Tasks, Launch(t) PROVE TickTypeOK'
  BY <1>7 DEF Launch
<1>8. ASSUME RecordFirst PROVE TickTypeOK'
  BY <1>8 DEF RecordFirst, Recorded, TickInv
<1>9. ASSUME RecordAfterRun PROVE TickTypeOK'
  BY <1>9 DEF RecordAfterRun, Recorded, TickInv
<1>10. ASSUME TopicUpdatedPanics PROVE TickTypeOK'
  BY <1>10 DEF TopicUpdatedPanics
<1>11. ASSUME NEW delta \in Deltas, UpdateTime(delta) PROVE TickTypeOK'
  BY <1>11 DEF UpdateTime
<1>12. ASSUME AwaitCompleted PROVE TickTypeOK'
  BY <1>12 DEF AwaitCompleted
<1>13. ASSUME AwaitFailed PROVE TickTypeOK'
  BY <1>13 DEF AwaitFailed, DropHandles
<1>14. ASSUME TickReturns PROVE TickTypeOK'
  BY <1>14 DEF TickReturns
<1>15. CASE UNCHANGED <<tickVars>>
  BY <1>15
<1> QED
  BY <1>1, <1>2, <1>3, <1>4, <1>5, <1>6, <1>7, <1>8, <1>9, <1>10, <1>11, <1>12,
     <1>13, <1>14, <1>15
  DEF Next, Tick, RunStep, Node, Halted, vars, runFrame, nodeFrame, registryVars, tickVars,
    nodeVars, replyVars, Recorded, RunSend, RunSendFails, RunDrain, RunAnswered,
    RunUnanswered, RunTimeout, Announce, NodeReceive, NodeExecute, NodeRespond,
    NodeFails, NodeStops

\* Replacing one run by a well-formed one.
LEMMA RunUpdate ==
  ASSUME RunTypeOK, NEW r \in RunIds, NEW x \in Run,
         x.task = NoTask <=> x.at = "free",
         runs' = [runs EXCEPT ![r] = x]
  PROVE  RunTypeOK'
BY DEF RunTypeOK

\* The end of a run, awaited or detached.
LEMMA FinishType ==
  ASSUME RunTypeOK, NEW r \in RunIds, ~IsFree(r), NEW res \in Results, Finish(r, res)
  PROVE  RunTypeOK'
<1>1. NotRunning \in Run /\ NotRunning.task = NoTask /\ NotRunning.at = "free"
  BY DEF NotRunning, Run, Stages, Results
<1>2. [runs[r] EXCEPT !.at = "done", !.result = res] \in Run
  BY DEF RunTypeOK, Run, Stages
<1>3. [runs[r] EXCEPT !.at = "done", !.result = res].task # NoTask
  BY DEF RunTypeOK, Run, IsFree
<1>4. [runs[r] EXCEPT !.at = "done", !.result = res].at = "done"
  BY DEF RunTypeOK, Run
<1>5. CASE Joined(r)
  BY <1>2, <1>3, <1>4, <1>5, RunUpdate DEF Finish
<1>6. CASE ~Joined(r)
  BY <1>1, <1>6, RunUpdate DEF Finish
<1> QED BY <1>5, <1>6

\* The runs.
LEMMA RunTypeStep ==
  ASSUME TypeOK, RegistryAgrees, TickInv, [Next]_vars
  PROVE  RunTypeOK'
<1> USE TasksAssumption, TimeAssumption, BoundsAssumption
    DEF TypeOK, RunTypeOK, Run, Stages, Results, NotRunning, IsFree
<1>1. ASSUME NEW t \in Tasks, Launch(t) PROVE RunTypeOK'
  BY <1>1 DEF Launch
<1>2. ASSUME AwaitCompleted PROVE RunTypeOK'
  BY <1>2 DEF AwaitCompleted
<1>3. ASSUME AwaitFailed PROVE RunTypeOK'
  BY <1>3 DEF AwaitFailed, DropHandles
<1>4. ASSUME NEW r \in RunIds, RunSend(r) PROVE RunTypeOK'
  <2> DEFINE x == [runs[r] EXCEPT !.at = "sent"]
  <2>1. runs[r] \in Run /\ runs[r].task # NoTask
    BY <1>4 DEF RunSend
  <2>2. x \in Run /\ x.at = "sent" /\ x.task # NoTask
    BY <2>1
  <2>3. runs' = [runs EXCEPT ![r] = x]
    BY <1>4 DEF RunSend
  <2> HIDE DEF x
  <2>4. x.task = NoTask <=> x.at = "free"
    BY <2>2
  <2> QED BY <2>2, <2>3, <2>4, RunUpdate
<1>5. ASSUME NEW r \in RunIds, RunSendFails(r) PROVE RunTypeOK'
  BY <1>5, FinishType DEF RunSendFails
<1>6. ASSUME NEW r \in RunIds, RunDrain(r) PROVE RunTypeOK'
  BY <1>6 DEF RunDrain, Taken
<1>7. ASSUME NEW r \in RunIds, RunAnswered(r) PROVE RunTypeOK'
  BY <1>7, FinishType DEF RunAnswered
<1>8. ASSUME NEW r \in RunIds, RunUnanswered(r) PROVE RunTypeOK'
  <2>1. CASE runs[r].task \in NonBlocking
    BY <1>8, <2>1, FinishType DEF RunUnanswered
  <2>2. CASE runs[r].task \notin NonBlocking
    <3> DEFINE polls == runs[r].polls + 1
               x == [runs[r] EXCEPT !.at = "waiting", !.polls = polls]
    <3>1. /\ runs[r] \in Run
          /\ runs[r].task # NoTask
          /\ polls \in Nat
      BY <1>8 DEF RunUnanswered
    <3>2. x \in Run /\ x.task # NoTask /\ x.at = "waiting"
      BY <3>1
    <3>3. runs' = [runs EXCEPT ![r] = x]
      BY <1>8, <2>2 DEF RunUnanswered
    <3> HIDE DEF x
    <3>4. x.task = NoTask <=> x.at = "free"
      BY <3>2
    <3> QED BY <3>2, <3>3, <3>4, RunUpdate
  <2> QED BY <2>1, <2>2
<1>9. ASSUME NEW r \in RunIds, RunTimeout(r) PROVE RunTypeOK'
  BY <1>9, FinishType DEF RunTimeout
<1>10. CASE UNCHANGED <<runs>>
  BY <1>10
<1> QED
  BY <1>1, <1>2, <1>3, <1>4, <1>5, <1>6, <1>7, <1>8, <1>9, <1>10
  DEF Next, Tick, RunStep, Node, Halted, vars, runFrame, nodeFrame, registryVars, tickVars,
    nodeVars, replyVars, Recorded, StartTick, ReadNewTasks, TryLockPanics,
    NothingToDo, QueueNext, SkipUntriggered, RecordFirst, RecordAfterRun,
    TopicUpdatedPanics, UpdateTime, TickReturns, Announce, NodeReceive, NodeExecute,
    NodeRespond, NodeFails, NodeStops

\* The adapters and the nodes.
LEMMA NodeTypeStep ==
  ASSUME TypeOK, RegistryAgrees, TickInv, [Next]_vars
  PROVE  NodeTypeOK'
<1> USE TasksAssumption, TimeAssumption, BoundsAssumption
    DEF TypeOK, NodeTypeOK, nodeVars, replyVars, nodeFrame, runFrame
<1>1. ASSUME NEW a \in Adapters, ReadNewTasks(a) PROVE NodeTypeOK'
  BY <1>1 DEF ReadNewTasks
<1>2. ASSUME NEW r \in RunIds, RunSend(r) PROVE NodeTypeOK'
  BY <1>2, SMTT(30) DEF RunSend, Adapter, RunTypeOK, Run
<1>3. ASSUME NEW r \in RunIds, RunDrain(r) PROVE NodeTypeOK'
  BY <1>3 DEF RunDrain, Taken, Adapter, RunTypeOK, Run
<1>4. ASSUME NEW r \in RunIds, RunAnswered(r) PROVE NodeTypeOK'
  <2> DEFINE t == runs[r].task
  <2>1. t \in Tasks
    BY <1>4 DEF RunAnswered, RunTypeOK, Run
  <2>2. responses[t] - 1 \in Nat
    BY <1>4, <2>1 DEF RunAnswered
  <2>3. responses' = [responses EXCEPT ![t] = responses[t] - 1]
    BY <1>4 DEF RunAnswered
  <2>4. responses' \in [Tasks -> Nat]
    BY <2>1, <2>2, <2>3
  <2> QED BY <1>4, <2>4 DEF RunAnswered
<1>5. ASSUME NEW t \in Tasks, Announce(t) PROVE NodeTypeOK'
  BY <1>5 DEF Announce
<1>6. ASSUME NEW a \in Adapters, NodeReceive(a) PROVE NodeTypeOK'
  BY <1>6 DEF NodeReceive
<1>7. ASSUME NEW a \in Adapters, NodeExecute(a) PROVE NodeTypeOK'
  BY <1>7, SMTT(30) DEF NodeExecute
<1>8. ASSUME NEW a \in Adapters, NodeRespond(a) PROVE NodeTypeOK'
  <2> DEFINE t == Head(batch[a])
  <2>1. batch[a] \in Seq(Tasks) /\ batch[a] # <<>>
    BY <1>8 DEF NodeRespond
  <2>2. t \in Tasks /\ Tail(batch[a]) \in Seq(Tasks)
    BY <2>1
  <2>3. responses' \in [Tasks -> Nat]
    <3>1. responses[t] + 1 \in Nat
      BY <2>2, SMTT(30)
    <3>2. responses' = [responses EXCEPT ![t] = responses[t] + 1]
      BY <1>8 DEF NodeRespond
    <3> QED BY <2>2, <3>1, <3>2
  <2>4. batch' \in [Adapters -> Seq(Tasks)]
    BY <1>8, <2>2 DEF NodeRespond
  <2>5. \A x \in Adapters : answering'[x] => batch'[x] # <<>>
    BY <1>8 DEF NodeRespond
  <2> QED BY <1>8, <2>3, <2>4, <2>5 DEF NodeRespond
<1>9. ASSUME NEW a \in Adapters, NodeFails(a) PROVE NodeTypeOK'
  BY <1>9, SMTT(30) DEF NodeFails
<1>10. ASSUME NEW a \in Adapters, NodeStops(a) PROVE NodeTypeOK'
  BY <1>10 DEF NodeStops
<1>11. CASE UNCHANGED <<newTasks, nodeVars, replyVars, announced>>
  BY <1>11
<1> QED
  BY <1>1, <1>2, <1>3, <1>4, <1>5, <1>6, <1>7, <1>8, <1>9, <1>10, <1>11
  DEF Next, Tick, RunStep, Node, Halted, vars, runFrame, nodeFrame, registryVars, tickVars,
    nodeVars, replyVars, Recorded, StartTick, TryLockPanics, NothingToDo, QueueNext,
    SkipUntriggered, Launch, RecordFirst, RecordAfterRun, TopicUpdatedPanics,
    UpdateTime, AwaitCompleted, AwaitFailed, TickReturns, RunSendFails,
    RunUnanswered, RunTimeout

\* All of them.
LEMMA TypeStep ==
  ASSUME TypeOK, RegistryAgrees, TickInv, [Next]_vars
  PROVE  TypeOK'
BY RegistryTypeStep, TickTypeStep, RunTypeStep, NodeTypeStep DEF TypeOK

-----------------------------------------------------------------------------
(* What the runs and the nodes leave alone *)

\* A step of a run touches no other run; it keeps a run that tick will await,
\* and its task.
LEMMA RunStepKeeps ==
  ASSUME TypeOK, NEW r \in RunIds, RunStep(r)
  PROVE  /\ UNCHANGED <<registryVars, tickVars, newTasks, announced>>
         /\ \A s \in RunIds : IsFree(s) => IsFree(s)'
         /\ \A s \in RunIds : ~IsFree(s) /\ Joined(s) =>
              ~IsFree(s)' /\ runs'[s].task = runs[s].task
<1> USE DEF TypeOK, RunTypeOK, Run, IsFree, NotRunning
<1>1. CASE RunSend(r)
  BY <1>1 DEF RunSend, runFrame, Joined
<1>2. CASE RunSendFails(r)
  BY <1>2 DEF RunSendFails, Finish, runFrame, Joined
<1>3. CASE RunDrain(r)
  BY <1>3 DEF RunDrain, Taken, runFrame, Joined
<1>4. CASE RunAnswered(r)
  BY <1>4 DEF RunAnswered, Finish, runFrame, Joined
<1>5. CASE RunUnanswered(r)
  <2>1. CASE runs[r].task \in NonBlocking
    <3>1. Finish(r, "ok") /\ UNCHANGED runFrame /\ ~IsFree(r)
      BY <1>5, <2>1 DEF RunUnanswered
    <3> QED BY <3>1 DEF Finish, runFrame, Joined
  <2>2. CASE runs[r].task \notin NonBlocking
    <3>1. PICK polls : runs' = [runs EXCEPT ![r] =
                                  [@ EXCEPT !.at = "waiting", !.polls = polls]]
      BY <1>5, <2>2 DEF RunUnanswered
    <3> QED BY <1>5, <3>1 DEF RunUnanswered, runFrame, Joined
  <2> QED BY <2>1, <2>2
<1>6. CASE RunTimeout(r)
  BY <1>6 DEF RunTimeout, Finish, runFrame, Joined
<1> QED
  BY <1>1, <1>2, <1>3, <1>4, <1>5, <1>6 DEF RunStep

\* A node touches nothing of the broker's and no run.
LEMMA NodeKeeps ==
  ASSUME NEW a \in Adapters, Node(a)
  PROVE  UNCHANGED <<registryVars, tickVars, runs, newTasks, announced>>
BY DEF Node, nodeFrame, NodeReceive, NodeExecute, NodeRespond, NodeFails, NodeStops

-----------------------------------------------------------------------------
\* Reading new tasks, choosing the next one and dropping one change both
\* sides alike.
LEMMA RegistryStep ==
  ASSUME TypeOK, RegistryAgrees, TickInv, LookupsSafe, PendingInv, [Next]_vars
  PROVE  RegistryAgrees'
<1> USE DEF RegistryAgrees, commander!Listed
<1>1. ASSUME NEW a \in Adapters, ReadNewTasks(a)
      PROVE  RegistryAgrees'
  <2> DEFINE s == newTasks[a]
             m == Len(tasks)
             n == Len(s)
  <2>1. /\ s \in Seq(Tasks)
        /\ tasks \in Seq(Tasks)
        /\ m \in Nat /\ DOMAIN tasks = 1..m
        /\ n \in Nat /\ DOMAIN s = 1..n
        /\ current \in Nat
    BY DEF TypeOK, RegistryTypeOK, NodeTypeOK
  <2>2. /\ tasks' = tasks \o s
        /\ current' = current
        /\ registered' = registered \union {s[i] : i \in DOMAIN s}
    BY <1>1 DEF ReadNewTasks, commander!AddTasks, Arrived
  <2>3. /\ \A i \in 1..n : s[i] \notin registered
        /\ \A i, j \in 1..n : s[i] = s[j] => i = j
    BY <2>1 DEF PendingInv
  <2> HIDE DEF s
  <2>4. /\ Len(tasks') = m + n
        /\ DOMAIN tasks' = 1..(m + n)
        /\ \A i \in 1..m : tasks'[i] = tasks[i]
        /\ \A i \in 1..n : tasks'[m + i] = s[i]
    BY <2>1, <2>2
  <2>5. \A k \in 1..(m + n) : k \in 1..m \/ \E i \in 1..n : k = m + i
    <3> SUFFICES ASSUME NEW k \in 1..(m + n), k \notin 1..m
                 PROVE  k - m \in 1..n /\ k = m + (k - m)
      OBVIOUS
    <3> QED BY <2>1
  <2>6. commander!Listed' = registered'
    <3>1. ASSUME NEW k \in 1..(m + n)
          PROVE  tasks'[k] \in registered'
      <4>1. CASE k \in 1..m
        BY <2>1, <2>2, <2>4, <4>1
      <4>2. CASE \E i \in 1..n : k = m + i
        BY <2>1, <2>2, <2>4, <4>2
      <4> QED BY <2>5, <4>1, <4>2
    <3>2. \A t \in registered : \E k \in 1..(m + n) : tasks'[k] = t
      BY <2>1, <2>4
    <3>3. \A i \in 1..n : \E k \in 1..(m + n) : tasks'[k] = s[i]
      BY <2>1, <2>4
    <3>4. registered' \subseteq {tasks'[k] : k \in 1..(m + n)}
      BY <2>1, <2>2, <3>2, <3>3
    <3> QED BY <2>4, <3>1, <3>4
  <2>7. \A i, j \in 1..(m + n) : tasks'[i] = tasks'[j] => i = j
    <3>1. \A i, j \in 1..m : tasks'[i] = tasks'[j] => i = j
      BY <2>1, <2>4
    <3>2. ASSUME NEW i \in 1..m, NEW j \in 1..n
          PROVE  tasks'[i] # tasks'[m + j]
      <4>1. tasks[i] \in registered
        BY <2>1
      <4>2. s[j] \notin registered
        BY <2>3
      <4>3. tasks'[i] = tasks[i] /\ tasks'[m + j] = s[j]
        BY <2>4
      <4> QED BY <4>1, <4>2, <4>3
    <3>3. \A i, j \in 1..n : tasks'[m + i] = tasks'[m + j] => i = j
      BY <2>1, <2>3, <2>4
    <3> SUFFICES ASSUME NEW i \in 1..(m + n), NEW j \in 1..(m + n),
                        tasks'[i] = tasks'[j]
                 PROVE  i = j
      OBVIOUS
    <3>4. CASE i \in 1..m /\ j \in 1..m
      BY <3>1, <3>4
    <3>5. CASE i \in 1..m /\ j \notin 1..m
      <4>1. PICK k \in 1..n : j = m + k
        BY <2>5, <3>5
      <4> QED BY <3>2, <3>5, <4>1
    <3>6. CASE i \notin 1..m /\ j \in 1..m
      <4>1. PICK k \in 1..n : i = m + k
        BY <2>5, <3>6
      <4> QED BY <3>2, <3>6, <4>1
    <3>7. CASE i \notin 1..m /\ j \notin 1..m
      <4>1. PICK k \in 1..n : i = m + k
        BY <2>5, <3>7
      <4>2. PICK l \in 1..n : j = m + l
        BY <2>5, <3>7
      <4> QED BY <3>3, <4>1, <4>2
    <3> QED BY <3>4, <3>5, <3>6, <3>7
  <2>8. current' < Len(tasks') \/ (current' = 0 /\ tasks' = <<>>)
    BY <2>1, <2>2, <2>4
  <2> QED BY <2>4, <2>6, <2>7, <2>8
<1>2. ASSUME NEW t \in Tasks, QueueNext(t)
      PROVE  RegistryAgrees'
  <2>1. UNCHANGED <<tasks, registered>> /\ current' = (current + 1) % Len(tasks)
    BY <1>2 DEF QueueNext, commander!GetNext
  <2>2. current < Len(tasks)
    BY <1>2 DEF QueueNext, commander!GetNext
  <2>3. current' < Len(tasks)
    BY <2>1, <2>2, NextIndex DEF TypeOK, RegistryTypeOK
  <2> QED BY <2>1, <2>3
<1>3. ASSUME AwaitFailed
      PROVE  RegistryAgrees'
  <2> DEFINE t == runs[Head(handles)].task
  <2>1. /\ tasks' = commander!Retain(tasks, t)
        /\ current' = 0
        /\ registered' = registered \ {t}
    BY <1>3 DEF AwaitFailed, DropHandles, commander!RemoveTask
  <2>2. t \in registered
    BY <1>3 DEF AwaitFailed, DropHandles, LookupsSafe, TypeOK, TickTypeOK
  <2> HIDE DEF t
  <2>3. PICK i \in DOMAIN tasks : tasks[i] = t
    BY <2>2
  <2>4. tasks \in Seq(Tasks)
    BY DEF TypeOK, RegistryTypeOK
  <2>5. /\ tasks' \in Seq(Tasks)
        /\ \A j, k \in DOMAIN tasks' : tasks'[j] = tasks'[k] => j = k
        /\ \A j \in DOMAIN tasks' : \E k \in DOMAIN tasks : tasks[k] = tasks'[j] /\ k # i
        /\ \A k \in DOMAIN tasks : k # i => \E j \in DOMAIN tasks' : tasks'[j] = tasks[k]
    <3>1. tasks' = commander!Retain(tasks, tasks[i])
      BY <2>1, <2>3
    <3>2. \A j, k \in DOMAIN tasks : tasks[j] = tasks[k] => j = k
      OBVIOUS
    <3> HIDE DEF RegistryAgrees, commander!Listed
    <3>3. tasks' \in Seq(Tasks)
      BY <2>3, <2>4, <3>1, <3>2, RetainLemma
    <3>4. \A j, k \in DOMAIN tasks' : tasks'[j] = tasks'[k] => j = k
      BY <2>3, <2>4, <3>1, <3>2, RetainLemma
    <3>5. \A j \in DOMAIN tasks' : \E k \in DOMAIN tasks : tasks[k] = tasks'[j] /\ k # i
      BY <2>3, <2>4, <3>1, <3>2, RetainLemma
    <3>6. \A k \in DOMAIN tasks : k # i => \E j \in DOMAIN tasks' : tasks'[j] = tasks[k]
      BY <2>3, <2>4, <3>1, <3>2, RetainLemma
    <3> QED BY <3>3, <3>4, <3>5, <3>6
  <2>6. commander!Listed' = registered'
    <3>1. \A j \in DOMAIN tasks' : tasks'[j] \in registered'
      BY <2>1, <2>3, <2>5
    <3>2. \A u \in registered' : \E j \in DOMAIN tasks' : tasks'[j] = u
      BY <2>1, <2>3, <2>5
    <3> QED BY <3>1, <3>2
  <2>7. 0 < Len(tasks') \/ tasks' = <<>>
    BY <2>5
  <2> QED BY <2>1, <2>5, <2>6, <2>7
<1>4. ASSUME UNCHANGED <<tasks, current, registered>>
      PROVE  RegistryAgrees'
  BY <1>4
<1>5. ASSUME NEW r \in RunIds, RunStep(r)
      PROVE  RegistryAgrees'
  BY <1>4, <1>5, RunStepKeeps DEF registryVars
<1>6. ASSUME NEW a \in Adapters, Node(a)
      PROVE  RegistryAgrees'
  BY <1>4, <1>6, NodeKeeps DEF registryVars
<1> QED
  BY <1>1, <1>2, <1>3, <1>4, <1>5, <1>6
  DEF Next, Tick, StartTick, TryLockPanics, NothingToDo, SkipUntriggered, Launch,
      RecordFirst, RecordAfterRun, Recorded, TopicUpdatedPanics, UpdateTime,
      AwaitCompleted, TickReturns, Announce, Halted, nodeFrame, registryVars, vars

\* Runs enter the handles once, when launched, and leave them once, when
\* awaited; neither a run nor a node can end a run that is still awaited.
LEMMA TickStep ==
  ASSUME TypeOK, TickInv, [Next]_vars
  PROVE  TickInv'
<1> USE DEF TickInv
<1>1. ASSUME UNCHANGED <<launching, handles, runs, queued>>, pc' = pc \/ pc' \in Panics
      PROVE  TickInv'
  BY <1>1 DEF IsFree, Panics
<1>2. CASE StartTick \/ NothingToDo \/ TickReturns
  BY <1>2 DEF StartTick, NothingToDo, TickReturns, IsFree
<1>3. ASSUME NEW t \in Tasks, QueueNext(t) \/ SkipUntriggered(t)
      PROVE  TickInv'
  BY <1>3 DEF QueueNext, SkipUntriggered, IsFree
<1>4. ASSUME NEW t \in Tasks, Launch(t)
      PROVE  TickInv'
  BY <1>4 DEF Launch, IsFree, TypeOK, TickTypeOK, RunTypeOK, RunIds, NoRun
<1>5. CASE RecordFirst \/ RecordAfterRun
  <2>1. /\ pc = "record" /\ pc' = "launch"
        /\ handles' = Append(handles, launching)
        /\ launching' = NoRun
        /\ UNCHANGED <<runs, queued>>
    BY <1>5 DEF RecordFirst, RecordAfterRun, Recorded
  <2>2. handles \in Seq(RunIds) /\ launching \in RunIds /\ NoRun \notin RunIds
    BY <2>1 DEF TypeOK, TickTypeOK, RunIds, NoRun
  <2>3. /\ DOMAIN handles = 1..Len(handles)
        /\ Len(handles) \in Nat
        /\ DOMAIN handles' = 1..(Len(handles) + 1)
        /\ \A i \in DOMAIN handles : handles'[i] = handles[i] /\ handles[i] \in RunIds
        /\ handles'[Len(handles) + 1] = launching
    BY <2>1, <2>2
  <2>4. \A i \in DOMAIN handles' : i \in DOMAIN handles \/ i = Len(handles) + 1
    BY <2>3
  <2>5. \A i \in DOMAIN handles' : runs'[handles'[i]].at # "free" /\ handles'[i] # launching'
    BY <2>1, <2>2, <2>3, <2>4 DEF IsFree
  <2>6. \A i, j \in DOMAIN handles' : handles'[i] = handles'[j] => i = j
    BY <2>1, <2>3, <2>4
  <2> QED BY <2>1, <2>5, <2>6 DEF IsFree
<1>6. ASSUME NEW delta \in Deltas, UpdateTime(delta)
      PROVE  TickInv'
  BY <1>6 DEF UpdateTime, IsFree
<1>7. CASE AwaitCompleted
  BY <1>7 DEF AwaitCompleted, IsFree, TypeOK, TickTypeOK, RunTypeOK
<1>8. CASE AwaitFailed
  BY <1>8 DEF AwaitFailed, DropHandles, IsFree
<1>9. ASSUME NEW r \in RunIds, RunStep(r)
      PROVE  TickInv'
  BY <1>9, RunStepKeeps DEF tickVars, Joined, TypeOK, TickTypeOK
<1>10. ASSUME NEW a \in Adapters, Node(a)
       PROVE  TickInv'
  BY <1>1, <1>10, NodeKeeps DEF tickVars
<1> QED
  BY <1>1, <1>2, <1>3, <1>4, <1>5, <1>6, <1>7, <1>8, <1>9, <1>10
  DEF Next, Tick, TryLockPanics, ReadNewTasks, TopicUpdatedPanics, Announce, Halted,
      Panics, nodeFrame, tickVars, vars

\* A task leaves the maps only in AwaitFailed, which leaves nothing queued
\* and nothing awaited behind.
LEMMA LookupsStep ==
  ASSUME TypeOK, TickInv, LookupsSafe, [Next]_vars
  PROVE  LookupsSafe'
<1> USE DEF LookupsSafe
<1>1. ASSUME NEW a \in Adapters, ReadNewTasks(a)
      PROVE  LookupsSafe'
  BY <1>1 DEF ReadNewTasks
<1>2. ASSUME NEW t \in Tasks, QueueNext(t)
      PROVE  LookupsSafe'
  BY <1>2 DEF QueueNext
<1>3. ASSUME NEW t \in Tasks, SkipUntriggered(t)
      PROVE  LookupsSafe'
  BY <1>3 DEF SkipUntriggered, registryVars
<1>4. ASSUME NEW t \in Tasks, Launch(t)
      PROVE  LookupsSafe'
  BY <1>4 DEF Launch, TickInv, TypeOK, TickTypeOK, RunTypeOK, IsFree
<1>5. CASE RecordFirst \/ RecordAfterRun
  BY <1>5 DEF RecordFirst, RecordAfterRun, Recorded, TypeOK, TickTypeOK
<1>6. CASE AwaitCompleted
  BY <1>6 DEF AwaitCompleted, TickInv, TypeOK, TickTypeOK
<1>7. CASE AwaitFailed
  BY <1>7 DEF AwaitFailed, DropHandles, TickInv
<1>8. ASSUME UNCHANGED <<registered, queued, launching, handles, runs>>,
             pc' = "record" => pc = "record"
      PROVE  LookupsSafe'
  BY <1>8
<1>9. ASSUME NEW r \in RunIds, RunStep(r)
      PROVE  LookupsSafe'
  BY <1>9, RunStepKeeps DEF registryVars, tickVars, TickInv, Joined, TypeOK, TickTypeOK
<1>10. ASSUME NEW a \in Adapters, Node(a)
       PROVE  LookupsSafe'
  BY <1>8, <1>10, NodeKeeps DEF registryVars, tickVars
<1> QED
  BY <1>1, <1>2, <1>3, <1>4, <1>5, <1>6, <1>7, <1>8, <1>9, <1>10
  DEF Next, Tick, StartTick, TryLockPanics, NothingToDo, TopicUpdatedPanics, UpdateTime,
      TickReturns, Announce, Halted, Panics, nodeFrame, registryVars, tickVars, vars

\* A task enters the queue of its own adapter, once, and leaves it when it is
\* registered.
LEMMA PendingStep ==
  ASSUME TypeOK, LookupsSafe, PendingInv, [Next]_vars
  PROVE  PendingInv'
<1> USE DEF PendingInv
<1>1. ASSUME NEW a \in Adapters, ReadNewTasks(a)
      PROVE  PendingInv'
  BY <1>1 DEF ReadNewTasks, Arrived, TypeOK, NodeTypeOK
<1>2. ASSUME NEW t \in Tasks, Announce(t)
      PROVE  PendingInv'
  <2> DEFINE a == AdapterOf[t]
             n == Len(newTasks[a])
  <2>1. /\ a \in Adapters
        /\ newTasks \in [Adapters -> Seq(Tasks)]
        /\ newTasks[a] \in Seq(Tasks)
        /\ n \in Nat /\ DOMAIN newTasks[a] = 1..n
        /\ registered \subseteq Tasks
    BY TasksAssumption DEF TypeOK, NodeTypeOK, RegistryTypeOK
  <2>2. /\ registered' = registered
        /\ announced' = announced \union {t}
        /\ t \notin announced
        /\ newTasks' = [newTasks EXCEPT ![a] = Append(newTasks[a], t)]
    BY <1>2 DEF Announce, nodeFrame, registryVars
  <2>3. /\ newTasks'[a] = Append(newTasks[a], t)
        /\ \A x \in Adapters : x # a => newTasks'[x] = newTasks[x]
    BY <2>1, <2>2
  <2>4. /\ DOMAIN newTasks'[a] = 1..(n + 1)
        /\ \A i \in 1..n : newTasks'[a][i] = newTasks[a][i]
        /\ newTasks'[a][n + 1] = t
        /\ \A i \in 1..(n + 1) : i \in 1..n \/ i = n + 1
    BY <2>1, <2>3
  <2>5. \A i \in 1..n : /\ AdapterOf[newTasks[a][i]] = a
                       /\ newTasks[a][i] \in announced \ registered
    BY <2>1
  <2>6. \A i, j \in 1..n : newTasks[a][i] = newTasks[a][j] => i = j
    BY <2>1
  <2>7. \A i \in 1..(n + 1) : /\ AdapterOf[newTasks'[a][i]] = a
                             /\ newTasks'[a][i] \in announced' \ registered'
    BY <2>2, <2>4, <2>5
  <2>8. \A i, j \in 1..(n + 1) : newTasks'[a][i] = newTasks'[a][j] => i = j
    BY <2>2, <2>4, <2>5, <2>6
  <2>9. ASSUME NEW x \in Adapters, x # a
        PROVE  /\ \A i \in DOMAIN newTasks'[x] :
                    /\ AdapterOf[newTasks'[x][i]] = x
                    /\ newTasks'[x][i] \in announced' \ registered'
               /\ \A i, j \in DOMAIN newTasks'[x] :
                    newTasks'[x][i] = newTasks'[x][j] => i = j
    BY <2>2, <2>3, <2>9
  <2>10. registered' \subseteq announced'
    BY <2>2
  <2>11. \A x \in Adapters : \A i \in DOMAIN newTasks'[x] :
           /\ AdapterOf[newTasks'[x][i]] = x
           /\ newTasks'[x][i] \in announced' \ registered'
    BY <2>4, <2>7, <2>9
  <2>12. \A x \in Adapters : \A i, j \in DOMAIN newTasks'[x] :
           newTasks'[x][i] = newTasks'[x][j] => i = j
    BY <2>4, <2>8, <2>9
  <2> QED BY <2>10, <2>11, <2>12
<1>3. CASE AwaitFailed
  BY <1>3 DEF AwaitFailed, DropHandles, LookupsSafe, TypeOK, TickTypeOK
<1>4. ASSUME UNCHANGED <<registered, announced, newTasks>>
      PROVE  PendingInv'
  BY <1>4
<1>5. ASSUME NEW r \in RunIds, RunStep(r)
      PROVE  PendingInv'
  BY <1>4, <1>5, RunStepKeeps DEF registryVars
<1>6. ASSUME NEW a \in Adapters, Node(a)
      PROVE  PendingInv'
  BY <1>4, <1>6, NodeKeeps DEF registryVars
<1> QED
  BY <1>1, <1>2, <1>3, <1>4, <1>5, <1>6
  DEF Next, Tick, StartTick, TryLockPanics, NothingToDo, QueueNext, SkipUntriggered,
      Launch, RecordFirst, RecordAfterRun, Recorded, TopicUpdatedPanics, UpdateTime,
      AwaitCompleted, TickReturns, Halted, registryVars, vars

-----------------------------------------------------------------------------
(* Once a task has been dropped it stays dropped: nothing announces it again. *)
LEMMA DroppedStays ==
  ASSUME TypeOK, PendingInv, [Next]_vars
  PROVE  Dropped \subseteq Dropped'
<1> USE DEF Dropped, Arrived
<1>1. ASSUME NEW a \in Adapters, ReadNewTasks(a)
      PROVE  Dropped \subseteq Dropped'
  <2>1. /\ registered' = registered \union Arrived(a)
        /\ announced' = announced
        /\ newTasks' = [newTasks EXCEPT ![a] = <<>>]
    BY <1>1 DEF ReadNewTasks
  <2>2. \A t \in Arrived(a) : AdapterOf[t] = a
    BY DEF PendingInv
  <2>3. \A x \in Adapters : Arrived(x)' \subseteq Arrived(x)
    BY <2>1 DEF TypeOK, NodeTypeOK
  <2> SUFFICES ASSUME NEW t \in Dropped
               PROVE  t \in Dropped'
    OBVIOUS
  <2>4. t \in Tasks /\ AdapterOf[t] \in Adapters
    BY TasksAssumption DEF TypeOK, NodeTypeOK
  <2>5. t \notin Arrived(AdapterOf[t])' /\ t \notin Arrived(a)
    BY <2>2, <2>3, <2>4
  <2> QED BY <2>1, <2>5
<1>2. ASSUME NEW u \in Tasks, Announce(u)
      PROVE  Dropped \subseteq Dropped'
  <2> DEFINE a == AdapterOf[u]
  <2>1. /\ a \in Adapters
        /\ newTasks[a] \in Seq(Tasks)
        /\ newTasks \in [Adapters -> Seq(Tasks)]
    BY TasksAssumption DEF TypeOK, NodeTypeOK
  <2>2. /\ registered' = registered
        /\ announced' = announced \union {u}
        /\ u \notin announced
        /\ newTasks' = [newTasks EXCEPT ![a] = Append(newTasks[a], u)]
    BY <1>2 DEF Announce, nodeFrame, registryVars
  <2>3. \A x \in Adapters : Arrived(x)' \subseteq Arrived(x) \union {u}
    BY <2>1, <2>2
  <2> HIDE DEF a, Arrived
  <2> SUFFICES ASSUME NEW t \in Dropped
               PROVE  t \in Dropped'
    OBVIOUS
  <2>4. t \in Tasks /\ AdapterOf[t] \in Adapters /\ t # u
    BY <2>2, TasksAssumption DEF TypeOK, NodeTypeOK
  <2> QED BY <2>2, <2>3, <2>4
<1>3. CASE AwaitFailed
  BY <1>3 DEF AwaitFailed, DropHandles
<1>4. ASSUME UNCHANGED <<registered, announced, newTasks>>
      PROVE  Dropped \subseteq Dropped'
  BY <1>4
<1>5. ASSUME NEW r \in RunIds, RunStep(r)
      PROVE  Dropped \subseteq Dropped'
  BY <1>4, <1>5, RunStepKeeps DEF registryVars
<1>6. ASSUME NEW a \in Adapters, Node(a)
      PROVE  Dropped \subseteq Dropped'
  BY <1>4, <1>6, NodeKeeps DEF registryVars
<1> QED
  BY <1>1, <1>2, <1>3, <1>4, <1>5, <1>6
  DEF Next, Tick, StartTick, TryLockPanics, NothingToDo, QueueNext, SkipUntriggered,
      Launch, RecordFirst, RecordAfterRun, Recorded, TopicUpdatedPanics, UpdateTime,
      AwaitCompleted, TickReturns, Halted, registryVars, vars

(* A tick that ends with an error drops the task whose execution failed. *)
LEMMA FailureDrops ==
  ASSUME TypeOK, LookupsSafe, PendingInv, AwaitFailed
  PROVE  runs[Head(handles)].task \in Dropped'
<1> DEFINE t == runs[Head(handles)].task
<1>1. /\ t \in registered
      /\ registered' = registered \ {t}
      /\ UNCHANGED <<announced, newTasks>>
  BY DEF AwaitFailed, DropHandles, LookupsSafe, TypeOK, TickTypeOK
<1>2. t \in Tasks /\ AdapterOf[t] \in Adapters
  BY <1>1, TasksAssumption DEF TypeOK, RegistryTypeOK
<1>3. t \in announced /\ t \notin Arrived(AdapterOf[t])
  BY <1>1, <1>2 DEF PendingInv, Arrived
<1>4. t \in Dropped'
  BY <1>1, <1>3 DEF Dropped, Arrived
<1> QED BY <1>4

(* No run is awaited when tick has not launched any yet. *)
LEMMA NothingJoined ==
  ASSUME TickInv, pc \in {"idle", "read"}, NEW r \in RunIds
  PROVE  ~Joined(r)
BY DEF TickInv, Joined, RunIds, NoRun

\* Only AwaitFailed detaches runs, and it drops a task.
LEMMA JoinedStep ==
  ASSUME TypeOK, TickInv, LookupsSafe, PendingInv, JoinedInv, [Next]_vars
  PROVE  JoinedInv'
<1> SUFFICES ASSUME Dropped' = {}
             PROVE  /\ \A r \in RunIds : IsFree(r)' \/ Joined(r)'
                    /\ \A t \in registered' : status'[t] = "Executing" =>
                         \E r \in RunIds : runs'[r].task = t /\ Joined(r)'
                    /\ pc' # "try_lock_panicked"
  BY DEF JoinedInv
<1> DEFINE Goal == /\ \A r \in RunIds : IsFree(r)' \/ Joined(r)'
                   /\ \A t \in registered' : status'[t] = "Executing" =>
                        \E r \in RunIds : runs'[r].task = t /\ Joined(r)'
                   /\ pc' # "try_lock_panicked"
<1>1. /\ \A r \in RunIds : IsFree(r) \/ Joined(r)
      /\ \A t \in registered : status[t] = "Executing" =>
           \E r \in RunIds : runs[r].task = t /\ Joined(r)
      /\ pc # "try_lock_panicked"
  BY DroppedStays DEF JoinedInv
<1>2. ASSUME UNCHANGED <<runs, launching, handles>>,
             \A t \in registered' : status'[t] = "Executing" =>
               t \in registered /\ status[t] = "Executing",
             pc' # "try_lock_panicked"
      PROVE  Goal
  <2> USE <1>2 DEF IsFree, Joined
  <2>1. \A r \in RunIds : IsFree(r)' \/ Joined(r)'
    BY <1>1
  <2>2. \A t \in registered' : status'[t] = "Executing" =>
          \E r \in RunIds : runs'[r].task = t /\ Joined(r)'
    <3> SUFFICES ASSUME NEW t \in registered', status'[t] = "Executing"
                 PROVE  \E r \in RunIds : runs'[r].task = t /\ Joined(r)'
      OBVIOUS
    <3>1. PICK r \in RunIds : runs[r].task = t /\ Joined(r)
      BY <1>1
    <3>2. runs'[r].task = t /\ Joined(r)'
      BY <3>1
    <3> QED BY <3>2
  <2> QED BY <2>1, <2>2
<1>3. ASSUME NEW a \in Adapters, ReadNewTasks(a)
      PROVE  Goal
  <2>1. /\ registered' = registered \union Arrived(a)
        /\ status' = [t \in Tasks |-> IF t \in Arrived(a) THEN "Idle" ELSE status[t]]
        /\ pc' = "read"
        /\ UNCHANGED <<runs, launching, handles>>
    BY <1>3 DEF ReadNewTasks
  <2>2. registered \subseteq Tasks /\ Arrived(a) \subseteq Tasks
    BY DEF TypeOK, RegistryTypeOK, NodeTypeOK, Arrived
  <2>3. \A t \in registered' : status'[t] = "Executing" =>
          t \in registered /\ status[t] = "Executing"
    BY <2>1, <2>2
  <2> QED BY <1>2, <2>1, <2>3
<1>4. ASSUME NEW a \in Adapters, TryLockPanics(a)
      PROVE  FALSE
  <2>1. PICK r \in RunIds : Holds(r, a)
    BY <1>4 DEF TryLockPanics, Locked
  <2>2. ~IsFree(r)
    BY <2>1 DEF Holds, IsFree
  <2>3. ~Joined(r)
    BY <1>4, NothingJoined DEF TryLockPanics
  <2> QED BY <1>1, <2>2, <2>3
<1>5. ASSUME NEW t \in Tasks, QueueNext(t)
      PROVE  Goal
  BY <1>1, <1>5 DEF QueueNext, IsFree, Joined, TypeOK, RegistryTypeOK
<1>6. ASSUME NEW t \in Tasks, Launch(t)
      PROVE  Goal
  <2>1. PICK r \in RunIds :
          /\ IsFree(r)
          /\ runs' = [runs EXCEPT ![r] =
                        [task |-> t, at |-> "spawned", polls |-> 0, result |-> "none",
                         early |-> age[t] = Never /\ HasInputs(t)]]
          /\ launching' = r
    BY <1>6 DEF Launch
  <2>2. /\ status' = [status EXCEPT ![t] = "Executing"]
        /\ pc' = "record"
        /\ UNCHANGED <<handles, registered>>
        /\ launching = NoRun
    BY <1>6 DEF Launch, TickInv
  <2>3. /\ runs'[r].task = t
        /\ \A s \in RunIds : s # r => runs'[s] = runs[s]
    BY <2>1 DEF TypeOK, RunTypeOK
  <2>4. Joined(r)'
    BY <2>1 DEF Joined
  <2>5. \A s \in RunIds : Joined(s) => s # r /\ Joined(s)'
    BY <2>1, <2>2 DEF Joined, TickInv, RunIds, NoRun
  <2>6. \A s \in RunIds : IsFree(s)' \/ Joined(s)'
    BY <1>1, <2>3, <2>4, <2>5 DEF IsFree
  <2>7. ASSUME NEW u \in registered', status'[u] = "Executing"
        PROVE  \E s \in RunIds : runs'[s].task = u /\ Joined(s)'
    <3>1. CASE u = t
      BY <2>3, <2>4, <3>1
    <3>2. CASE u # t
      <4>1. u \in registered /\ status[u] = "Executing"
        BY <2>2, <2>7, <3>2 DEF TypeOK, RegistryTypeOK
      <4>2. PICK s \in RunIds : runs[s].task = u /\ Joined(s)
        BY <1>1, <4>1
      <4> QED BY <2>3, <2>5, <4>2
    <3> QED BY <3>1, <3>2
  <2> QED BY <2>2, <2>6, <2>7
<1>7. CASE RecordFirst \/ RecordAfterRun
  <2>1. /\ handles' = Append(handles, launching)
        /\ launching' = NoRun
        /\ pc' = "launch"
        /\ UNCHANGED <<runs, registered, status>>
    BY <1>7 DEF RecordFirst, RecordAfterRun, Recorded
  <2>2. \A r \in RunIds : Joined(r) => Joined(r)'
    <3>1. handles \in Seq(RunIds)
      BY DEF TypeOK, TickTypeOK
    <3>2. /\ \A i \in DOMAIN handles : i \in DOMAIN handles' /\ handles'[i] = handles[i]
          /\ Len(handles) + 1 \in DOMAIN handles'
          /\ handles'[Len(handles) + 1] = launching
      BY <2>1, <3>1
    <3> QED BY <3>2 DEF Joined
  <2> QED BY <1>1, <2>1, <2>2 DEF IsFree
<1>8. CASE AwaitCompleted
  <2> DEFINE r == Head(handles)
  <2>1. /\ handles # <<>>
        /\ status' = [status EXCEPT ![runs[r].task] = "Completed"]
        /\ runs' = [runs EXCEPT ![r] = NotRunning]
        /\ handles' = Tail(handles)
        /\ pc = "await"
        /\ UNCHANGED <<registered, launching, pc>>
    BY <1>8 DEF AwaitCompleted
  <2>2. /\ handles \in Seq(RunIds)
        /\ runs \in [RunIds -> Run]
        /\ status \in [Tasks -> Statuses]
        /\ registered \subseteq Tasks
    BY DEF TypeOK, RegistryTypeOK, TickTypeOK, RunTypeOK
  <2>3. \A s \in RunIds : Joined(s) /\ s # r => Joined(s)'
    <3>1. \A i \in DOMAIN handles : handles[i] # r =>
            i - 1 \in DOMAIN handles' /\ handles'[i - 1] = handles[i]
      BY <2>1, <2>2
    <3> QED BY <2>1, <3>1 DEF Joined
  <2> HIDE DEF r
  <2>4. r \in RunIds => runs'[r].at = "free"
    BY <2>1, <2>2 DEF NotRunning
  <2>5. \A s \in RunIds : s # r => runs'[s] = runs[s]
    BY <2>1, <2>2
  <2>6. \A s \in RunIds : IsFree(s)' \/ Joined(s)'
    BY <1>1, <2>3, <2>4, <2>5 DEF IsFree
  <2>7. ASSUME NEW u \in registered', status'[u] = "Executing"
        PROVE  \E s \in RunIds : runs'[s].task = u /\ Joined(s)'
    <3>1. u \in registered /\ u # runs[r].task /\ status[u] = "Executing"
      BY <2>1, <2>2, <2>7
    <3>2. PICK s \in RunIds : runs[s].task = u /\ Joined(s)
      BY <1>1, <3>1
    <3> QED BY <2>3, <2>5, <3>1, <3>2
  <2> QED BY <2>1, <2>6, <2>7
<1>9. CASE AwaitFailed
  BY <1>9, FailureDrops
<1>10. ASSUME NEW r \in RunIds, RunStep(r)
       PROVE  Goal
  <2>1. /\ UNCHANGED <<registered, status, pc>>
        /\ \A s \in RunIds : Joined(s)' <=> Joined(s)
    BY <1>10, RunStepKeeps DEF registryVars, tickVars, Joined
  <2>2. \A t \in registered, s \in RunIds : runs[s].task = t => ~IsFree(s)
    BY TasksAssumption DEF TypeOK, RegistryTypeOK, RunTypeOK, IsFree
  <2> QED BY <1>1, <1>10, <2>1, <2>2, RunStepKeeps
<1>11. ASSUME NEW a \in Adapters, Node(a)
       PROVE  Goal
  BY <1>1, <1>2, <1>11, NodeKeeps DEF registryVars, tickVars
<1> QED
  BY <1>1, <1>2, <1>3, <1>4, <1>5, <1>6, <1>7, <1>8, <1>9, <1>10, <1>11
  DEF Next, Tick, StartTick, NothingToDo, SkipUntriggered, TopicUpdatedPanics,
      UpdateTime, TickReturns, Announce, Halted, nodeFrame, registryVars, tickVars, vars

-----------------------------------------------------------------------------
(* The theorems *)

IInv ==
  TypeOK /\ RegistryAgrees /\ LookupsSafe /\ TickInv /\ PendingInv /\ JoinedInv

\* The initial states satisfy the inductive invariant.
LEMMA InitIInv == Init => IInv
<1> SUFFICES ASSUME Init PROVE IInv
  OBVIOUS
<1> USE TasksAssumption, TimeAssumption, BoundsAssumption DEF Init
<1>1. TypeOK
  BY DEF TypeOK, RegistryTypeOK, TickTypeOK, RunTypeOK, NodeTypeOK, commander!Init,
         Statuses, Panics, NotRunning, Run, Stages, Results
<1>2. RegistryAgrees
  BY DEF RegistryAgrees, commander!Init, commander!Listed
<1>3. LookupsSafe
  BY DEF LookupsSafe
<1>4. TickInv
  BY DEF TickInv
<1>5. PendingInv
  BY DEF PendingInv
<1>6. JoinedInv
  BY DEF JoinedInv, IsFree, NotRunning
<1> QED BY <1>1, <1>2, <1>3, <1>4, <1>5, <1>6 DEF IInv

\* Every step preserves it.
LEMMA StepIInv == IInv /\ [Next]_vars => IInv'
BY TypeStep, RegistryStep, LookupsStep, TickStep, PendingStep, JoinedStep DEF IInv

\* It holds in every reachable state.
LEMMA InvariantIInv == Spec => []IInv
<1> QED BY InitIInv, StepIInv, PTL DEF Spec

(* Every variable of the broker, the runs, the adapters and the nodes keeps its *)
(* type, for any number of tasks, adapters and runs.                            *)
THEOREM TypeCorrect == Spec => []TypeOK
<1>1. IInv => TypeOK
  BY DEF IInv
<1> QED BY <1>1, InvariantIInv, PTL

(* The commander and the broker's two maps list the same tasks, each once, and  *)
(* the commander's index stays inside its vector, whatever is announced, and    *)
(* whenever an execution fails.                                                 *)
THEOREM RegistryCorrect == Spec => []RegistryAgrees
<1>1. IInv => RegistryAgrees
  BY DEF IInv
<1> QED BY <1>1, InvariantIInv, PTL

(* No unwrap() of tick on the broker's maps can fail: not in the launch loop,   *)
(* not when a launch is recorded, not when a run is awaited.                    *)
THEOREM LookupsCorrect == Spec => []LookupsSafe
<1>1. IInv => LookupsSafe
  BY DEF IInv
<1> QED BY <1>1, InvariantIInv, PTL

(* Until an execution fails no run outlives the tick that spawned it, and no    *)
(* task is left in Executing between two ticks.                                 *)
THEOREM QuietCorrect == Spec => []QuietBetweenTicks
<1>1. IInv => QuietBetweenTicks
  <2> SUFFICES ASSUME IInv, Dropped = {}, pc \in {"idle", "read"}
               PROVE  /\ \A r \in RunIds : IsFree(r)
                      /\ \A t \in registered : status[t] # "Executing"
    BY DEF QuietBetweenTicks
  <2>1. \A r \in RunIds : ~Joined(r)
    BY NothingJoined DEF IInv
  <2> QED BY <2>1 DEF IInv, JoinedInv
<1> QED BY <1>1, InvariantIInv, PTL

(* Until an execution fails, try_lock() in read_new_tasks never finds the       *)
(* adapter locked: the panic needs a run that tick has detached.                *)
THEOREM NoLockPanicCorrect == Spec => []NoLockPanicBeforeFailure
<1>1. IInv => NoLockPanicBeforeFailure
  BY DEF IInv, JoinedInv, NoLockPanicBeforeFailure
<1> QED BY <1>1, InvariantIInv, PTL

-----------------------------------------------------------------------------
(* Outputs *)

\* The broker has the outputs of the task, or has them in its queue.
Kept(t) == t \in stored \union outputs[AdapterOf[t]]

\* A request goes to the adapter of its task and nowhere else.
AllOf(s, a) == \A i \in DOMAIN s : AdapterOf[s[i]] = a
RoutedInv == \A a \in Adapters : AllOf(requests[a], a) /\ AllOf(batch[a], a)

\* Outputs go before the response that reports them.
AnsweringKept == \A a \in Adapters : answering[a] => Kept(Head(batch[a]))
ResponsesKept == \A t \in Tasks : responses[t] > 0 => Kept(t)

\* A blocking run that ends well has taken a response.
DoneKept ==
  \A r \in RunIds :
    runs[r].at = "done" /\ runs[r].result = "ok" /\ runs[r].task \notin NonBlocking
      => Kept(runs[r].task)

SentInv == RoutedInv /\ AnsweringKept /\ ResponsesKept /\ DoneKept

-----------------------------------------------------------------------------
\* Only RunDrain takes outputs out of a queue, and it stores all it takes.
LEMMA KeptStays ==
  ASSUME TypeOK, [Next]_vars, NEW t \in Tasks, Kept(t)
  PROVE  Kept(t)'
<1> USE TasksAssumption DEF TypeOK, NodeTypeOK, Kept
<1>1. ASSUME NEW r \in RunIds, RunDrain(r) PROVE Kept(t)'
  <2>1. /\ stored' = stored \union outputs[Adapter(r)]
        /\ outputs' = [outputs EXCEPT ![Adapter(r)] = {}]
    BY <1>1 DEF RunDrain, Taken
  <2>2. CASE AdapterOf[t] = Adapter(r)
    BY <2>1, <2>2
  <2>3. CASE AdapterOf[t] # Adapter(r)
    BY <2>1, <2>3
  <2> QED BY <2>2, <2>3
<1>2. ASSUME NEW a \in Adapters, NodeExecute(a) PROVE Kept(t)'
  BY <1>2 DEF NodeExecute, nodeFrame
<1>3. CASE UNCHANGED <<outputs, stored>>
  BY <1>3
<1> QED
  BY <1>1, <1>2, <1>3
  DEF Next, Tick, RunStep, Node, Halted, vars, runFrame, nodeFrame, nodeVars,
    replyVars, Recorded, StartTick, ReadNewTasks, TryLockPanics, NothingToDo,
    QueueNext, SkipUntriggered, Launch, RecordFirst, RecordAfterRun,
    TopicUpdatedPanics, UpdateTime, AwaitCompleted, AwaitFailed, TickReturns,
    RunSend, RunSendFails, RunAnswered, RunUnanswered, RunTimeout, Announce,
    NodeReceive, NodeRespond, NodeFails, NodeStops

\* A queue of requests stays with its adapter when it grows by one of the
\* adapter's tasks, loses its head or is emptied.
LEMMA QueueSteps ==
  ASSUME NEW s \in Seq(Tasks), NEW a, AllOf(s, a), NEW t \in Tasks
  PROVE  /\ AllOf(<<>>, a)
         /\ AdapterOf[t] = a => AllOf(Append(s, t), a)
         /\ s # <<>> => AllOf(Tail(s), a) /\ AdapterOf[Head(s)] = a
<1> DEFINE n == Len(s)
<1>1. n \in Nat /\ DOMAIN s = 1..n
  OBVIOUS
<1>2. AllOf(<<>>, a)
  BY DEF AllOf
<1>3. ASSUME AdapterOf[t] = a PROVE AllOf(Append(s, t), a)
  <2> DEFINE r == Append(s, t)
  <2>1. /\ DOMAIN r = 1..(n + 1)
        /\ \A i \in 1..n : r[i] = s[i]
        /\ r[n + 1] = t
    BY <1>1
  <2>2. \A i \in 1..(n + 1) : i \in 1..n \/ i = n + 1
    BY <1>1
  <2> HIDE DEF n, r
  <2>3. \A i \in DOMAIN r : AdapterOf[r[i]] = a
    BY <1>1, <1>3, <2>1, <2>2 DEF AllOf
  <2> QED BY <2>3 DEF AllOf, r
<1>4. ASSUME s # <<>> PROVE AllOf(Tail(s), a) /\ AdapterOf[Head(s)] = a
  <2> DEFINE r == Tail(s)
  <2>1. /\ DOMAIN r = 1..(n - 1)
        /\ \A i \in 1..(n - 1) : r[i] = s[i + 1]
        /\ Head(s) = s[1] /\ 1 \in 1..n
    BY <1>1, <1>4
  <2>2. \A i \in 1..(n - 1) : i + 1 \in 1..n
    BY <1>1
  <2> HIDE DEF n, r
  <2>3. \A i \in DOMAIN r : AdapterOf[r[i]] = a
    BY <1>1, <2>1, <2>2 DEF AllOf
  <2>4. AdapterOf[Head(s)] = a
    BY <1>1, <2>1 DEF AllOf
  <2> QED BY <2>3, <2>4 DEF AllOf, r
<1> QED BY <1>2, <1>3, <1>4

\* Requests are sent to the adapter of their task, moved as a whole, worked off
\* from the front, or lost.
LEMMA RoutedStep ==
  ASSUME TypeOK, RoutedInv, [Next]_vars
  PROVE  RoutedInv'
<1> USE TasksAssumption DEF TypeOK, NodeTypeOK, RoutedInv
<1>0. \A a : AllOf(<<>>, a)
  BY DEF AllOf
<1>1. ASSUME NEW r \in RunIds, RunSend(r) PROVE RoutedInv'
  <2> DEFINE t == runs[r].task
             a == AdapterOf[t]
             s == Append(requests[a], t)
  <2>1. t \in Tasks /\ a \in Adapters
    BY <1>1 DEF RunSend, RunTypeOK, Run
  <2>2. requests' = [requests EXCEPT ![a] = s] /\ batch' = batch
    BY <1>1 DEF RunSend, Adapter
  <2> HIDE DEF t
  <2>3. AllOf(s, a)
    BY <2>1, QueueSteps
  <2> HIDE DEF a, s
  <2> QED BY <2>1, <2>2, <2>3
<1>2. ASSUME NEW a \in Adapters, NodeReceive(a) PROVE RoutedInv'
  <2>1. /\ batch' = [batch EXCEPT ![a] = requests[a]]
        /\ requests' = [requests EXCEPT ![a] = <<>>]
    BY <1>2 DEF NodeReceive
  <2> QED BY <1>0, <2>1
<1>3. ASSUME NEW a \in Adapters, NodeRespond(a) PROVE RoutedInv'
  <2> DEFINE s == Tail(batch[a])
  <2>1. batch[a] \in Seq(Tasks) /\ batch[a] # <<>>
    BY <1>3 DEF NodeRespond
  <2>2. Head(batch[a]) \in Tasks
    BY <2>1
  <2>3. AllOf(s, a)
    BY <2>1, <2>2, QueueSteps
  <2>4. batch' = [batch EXCEPT ![a] = s] /\ requests' = requests
    BY <1>3 DEF NodeRespond
  <2> HIDE DEF s
  <2> QED BY <2>3, <2>4
<1>4. ASSUME NEW a \in Adapters, NodeFails(a) PROVE RoutedInv'
  <2>1. batch' = [batch EXCEPT ![a] = <<>>] /\ requests' = requests
    BY <1>4 DEF NodeFails
  <2> QED BY <1>0, <2>1
<1>5. ASSUME NEW a \in Adapters, NodeStops(a) PROVE RoutedInv'
  <2>1. /\ batch' = [batch EXCEPT ![a] = <<>>]
        /\ requests' = [requests EXCEPT ![a] = <<>>]
    BY <1>5 DEF NodeStops
  <2> QED BY <1>0, <2>1
<1>6. CASE UNCHANGED <<requests, batch>>
  BY <1>6
<1> QED
  BY <1>1, <1>2, <1>3, <1>4, <1>5, <1>6
  DEF Next, Tick, RunStep, Node, Halted, vars, runFrame, nodeFrame, nodeVars,
    replyVars, Recorded, StartTick, ReadNewTasks, TryLockPanics, NothingToDo,
    QueueNext, SkipUntriggered, Launch, RecordFirst, RecordAfterRun,
    TopicUpdatedPanics, UpdateTime, AwaitCompleted, AwaitFailed, TickReturns,
    RunSendFails, RunDrain, RunAnswered, RunUnanswered, RunTimeout, Announce,
    NodeExecute

\* A node answers the request whose outputs it has sent, and stays with it
\* until it has responded.
LEMMA AnsweringStep ==
  ASSUME TypeOK, RoutedInv, AnsweringKept, [Next]_vars
  PROVE  AnsweringKept'
<1> USE DEF TypeOK, NodeTypeOK
<1> SUFFICES ASSUME NEW a \in Adapters, answering'[a]
             PROVE  Kept(Head(batch[a]))'
  BY DEF AnsweringKept
<1>1. CASE NodeExecute(a)
  <2>1. batch[a] \in Seq(Tasks) /\ batch[a] # <<>>
    BY <1>1 DEF NodeExecute
  <2>2. Head(batch[a]) \in Tasks
    BY <2>1
  <2>3. AdapterOf[Head(batch[a])] = a
    BY <2>1, <2>2, QueueSteps DEF RoutedInv
  <2>4. Head(batch[a]) \in outputs'[a] /\ batch' = batch
    BY <1>1 DEF NodeExecute
  <2> QED BY <2>3, <2>4 DEF Kept
<1>2. CASE answering[a] /\ batch'[a] = batch[a]
  <2>1. batch[a] \in Seq(Tasks) /\ batch[a] # <<>>
    BY <1>2
  <2>2. Head(batch[a]) \in Tasks
    BY <2>1
  <2>3. Kept(Head(batch[a]))
    BY <1>2 DEF AnsweringKept
  <2>4. Head(batch[a]) \in stored' \union outputs'[AdapterOf[Head(batch[a])]]
    BY <2>2, <2>3, KeptStays DEF Kept
  <2> QED BY <1>2, <2>4 DEF Kept
<1>3. NodeExecute(a) \/ (answering[a] /\ batch'[a] = batch[a])
  <2>1. ASSUME NEW b \in Adapters, Node(b), ~NodeExecute(a)
        PROVE  answering[a] /\ batch'[a] = batch[a]
    <3>1. CASE NodeReceive(b)
      BY <2>1, <3>1 DEF NodeReceive
    <3>2. CASE NodeExecute(b)
      BY <2>1, <3>2 DEF NodeExecute
    <3>3. CASE NodeRespond(b)
      BY <2>1, <3>3 DEF NodeRespond
    <3>4. CASE NodeFails(b)
      BY <2>1, <3>4 DEF NodeFails
    <3>5. CASE NodeStops(b)
      BY <2>1, <3>5 DEF NodeStops
    <3> QED BY <2>1, <3>1, <3>2, <3>3, <3>4, <3>5 DEF Node
  <2>2. CASE UNCHANGED <<batch, answering>>
    BY <2>2
  <2> QED
    BY <2>1, <2>2
    DEF Next, Tick, RunStep, Halted, vars, runFrame, nodeFrame, nodeVars, replyVars,
      Recorded, StartTick, ReadNewTasks, TryLockPanics, NothingToDo, QueueNext,
      SkipUntriggered, Launch, RecordFirst, RecordAfterRun, TopicUpdatedPanics,
      UpdateTime, AwaitCompleted, AwaitFailed, TickReturns, RunSend, RunSendFails,
      RunDrain, RunAnswered, RunUnanswered, RunTimeout, Announce
<1> QED BY <1>1, <1>2, <1>3

\* A response comes from a node that is answering.
LEMMA ResponsesStep ==
  ASSUME TypeOK, AnsweringKept, ResponsesKept, [Next]_vars
  PROVE  ResponsesKept'
<1> USE DEF TypeOK, NodeTypeOK
<1> SUFFICES ASSUME NEW t \in Tasks, responses'[t] > 0
             PROVE  Kept(t)'
  BY DEF ResponsesKept
<1>1. Kept(t)
  <2>1. CASE responses[t] > 0
    BY <2>1 DEF ResponsesKept
  <2>2. CASE \E a \in Adapters : answering[a] /\ t = Head(batch[a])
    BY <2>2 DEF AnsweringKept
  <2>3. responses[t] > 0 \/ \E a \in Adapters : answering[a] /\ t = Head(batch[a])
    <3>1. ASSUME NEW r \in RunIds, RunAnswered(r) PROVE responses[t] > 0
      BY <3>1 DEF RunAnswered, RunTypeOK, Run
    <3>2. ASSUME NEW a \in Adapters, NodeRespond(a), responses[t] = 0
          PROVE  answering[a] /\ t = Head(batch[a])
      BY <3>2 DEF NodeRespond
    <3>3. CASE UNCHANGED responses
      BY <3>3
    <3>4. responses[t] \in Nat
      OBVIOUS
    <3>5. responses[t] > 0 \/ responses[t] = 0
      BY <3>4
    <3> QED
      BY <3>1, <3>2, <3>3, <3>5
      DEF Next, Tick, RunStep, Node, Halted, vars, runFrame, nodeFrame, nodeVars,
        replyVars, Recorded, StartTick, ReadNewTasks, TryLockPanics, NothingToDo,
        QueueNext, SkipUntriggered, Launch, RecordFirst, RecordAfterRun,
        TopicUpdatedPanics, UpdateTime, AwaitCompleted, AwaitFailed, TickReturns,
        RunSend, RunSendFails, RunDrain, RunUnanswered, RunTimeout, Announce,
        NodeReceive, NodeExecute, NodeFails, NodeStops
  <2> QED BY <2>1, <2>2, <2>3
<1> QED BY <1>1, KeptStays

\* A run that ends well has found a response, or does not wait for one.
LEMMA DoneStep ==
  ASSUME TypeOK, ResponsesKept, DoneKept, [Next]_vars
  PROVE  DoneKept'
<1> USE DEF TypeOK, RunTypeOK, Run
<1> SUFFICES ASSUME NEW r \in RunIds, runs'[r].at = "done", runs'[r].result = "ok",
                    runs'[r].task \notin NonBlocking
             PROVE  Kept(runs[r].task)'
  BY DEF DoneKept
<1>1. CASE runs'[r] = runs[r]
  <2>1. runs[r].task \in Tasks /\ Kept(runs[r].task)
    BY <1>1 DEF DoneKept
  <2>2. runs[r].task \in stored' \union outputs'[AdapterOf[runs[r].task]]
    BY <2>1, KeptStays DEF Kept
  <2> QED BY <1>1, <2>2 DEF Kept
<1>2. CASE RunAnswered(r)
  <2>1. runs[r].task \in Tasks /\ Kept(runs[r].task)
    BY <1>2 DEF RunAnswered, ResponsesKept
  <2>2. runs'[r].task = runs[r].task
    BY <1>2 DEF RunAnswered, Finish, NotRunning
  <2>3. runs[r].task \in stored' \union outputs'[AdapterOf[runs[r].task]]
    BY <2>1, KeptStays DEF Kept
  <2> QED BY <2>2, <2>3 DEF Kept
<1>3. runs'[r] = runs[r] \/ RunAnswered(r)
  <2>1. ASSUME NEW s \in RunIds, RunStep(s), ~RunAnswered(r)
        PROVE  runs'[r] = runs[r]
    <3>1. CASE RunSend(s)
      BY <3>1 DEF RunSend
    <3>2. CASE RunSendFails(s)
      BY <3>2 DEF RunSendFails, Finish, NotRunning
    <3>3. CASE RunDrain(s)
      BY <3>3 DEF RunDrain
    <3>4. CASE RunAnswered(s)
      BY <2>1, <3>4 DEF RunAnswered, Finish
    <3>5. CASE RunUnanswered(s)
      <4>1. CASE runs[s].task \in NonBlocking
        <5>1. Finish(s, "ok")
          BY <3>5, <4>1 DEF RunUnanswered
        <5> QED BY <4>1, <5>1 DEF Finish, NotRunning
      <4>2. CASE runs[s].task \notin NonBlocking
        <5>1. PICK polls : runs' = [runs EXCEPT ![s] =
                                      [@ EXCEPT !.at = "waiting", !.polls = polls]]
          BY <3>5, <4>2 DEF RunUnanswered
        <5> QED BY <5>1
      <4> QED BY <4>1, <4>2
    <3>6. CASE RunTimeout(s)
      BY <3>6 DEF RunTimeout, Finish, NotRunning
    <3> QED BY <2>1, <3>1, <3>2, <3>3, <3>4, <3>5, <3>6 DEF RunStep
  <2>2. ASSUME NEW t \in Tasks, Launch(t) PROVE runs'[r] = runs[r]
    BY <2>2 DEF Launch
  <2>3. ASSUME AwaitCompleted PROVE runs'[r] = runs[r]
    BY <2>3 DEF AwaitCompleted, NotRunning
  <2>4. ASSUME AwaitFailed PROVE runs'[r] = runs[r]
    BY <2>4 DEF AwaitFailed, DropHandles, NotRunning
  <2>5. CASE UNCHANGED runs
    BY <2>5
  <2> QED
    BY <2>1, <2>2, <2>3, <2>4, <2>5
    DEF Next, Tick, Node, Halted, vars, nodeFrame, Recorded, StartTick,
      ReadNewTasks, TryLockPanics, NothingToDo, QueueNext, SkipUntriggered,
      RecordFirst, RecordAfterRun, TopicUpdatedPanics, UpdateTime, TickReturns,
      Announce, NodeReceive, NodeExecute, NodeRespond, NodeFails, NodeStops
<1> QED BY <1>1, <1>2, <1>3

\* Only a run that ended well makes its task Completed.
LEMMA CompletedStep ==
  ASSUME TypeOK, TypeOK', DoneKept, CompletedOutputsKept, [Next]_vars
  PROVE  CompletedOutputsKept'
<1> USE TasksAssumption DEF TypeOK, RegistryTypeOK
<1> SUFFICES ASSUME NEW t \in Tasks, t \in registered', t \notin NonBlocking,
                    status'[t] = "Completed"
             PROVE  Kept(t)'
  BY DEF CompletedOutputsKept, Kept
<1>1. CASE t \in registered /\ status[t] = "Completed"
  BY <1>1, KeptStays DEF CompletedOutputsKept, Kept
<1>2. CASE AwaitCompleted /\ t = runs[Head(handles)].task
  <2>1. Head(handles) \in RunIds
    BY <1>2 DEF AwaitCompleted, TickTypeOK
  <2>2. Kept(t)
    BY <1>2, <2>1 DEF AwaitCompleted, DoneKept
  <2> QED BY <2>2, KeptStays
<1>3. \/ t \in registered /\ status[t] = "Completed"
      \/ AwaitCompleted /\ t = runs[Head(handles)].task
  <2>1. ASSUME NEW a \in Adapters, ReadNewTasks(a)
        PROVE  t \in registered /\ status[t] = "Completed"
    BY <2>1 DEF ReadNewTasks
  <2>2. ASSUME NEW u \in Tasks, QueueNext(u)
        PROVE  t \in registered /\ status[t] = "Completed"
    BY <2>2 DEF QueueNext
  <2>3. ASSUME NEW u \in Tasks, Launch(u)
        PROVE  t \in registered /\ status[t] = "Completed"
    BY <2>3 DEF Launch
  <2>4. ASSUME AwaitCompleted
        PROVE  \/ t \in registered /\ status[t] = "Completed"
               \/ t = runs[Head(handles)].task
    BY <2>4 DEF AwaitCompleted
  <2>5. ASSUME AwaitFailed
        PROVE  t \in registered /\ status[t] = "Completed"
    BY <2>5 DEF AwaitFailed
  <2>6. CASE UNCHANGED <<registered, status>>
    BY <2>6
  <2> QED
    BY <2>1, <2>2, <2>3, <2>4, <2>5, <2>6
    DEF Next, Tick, RunStep, Node, Halted, vars, runFrame, nodeFrame, registryVars,
      Recorded, StartTick, TryLockPanics, NothingToDo, SkipUntriggered, RecordFirst,
      RecordAfterRun, TopicUpdatedPanics, UpdateTime, TickReturns, RunSend,
      RunSendFails, RunDrain, RunAnswered, RunUnanswered, RunTimeout, Announce,
      NodeReceive, NodeExecute, NodeRespond, NodeFails, NodeStops
<1> QED BY <1>1, <1>2, <1>3

-----------------------------------------------------------------------------
OutputsInv == IInv /\ SentInv /\ CompletedOutputsKept

\* Nothing has been sent yet, and no task is registered.
LEMMA InitOutputs == Init => OutputsInv
<1> SUFFICES ASSUME Init PROVE OutputsInv
  OBVIOUS
<1>1. SentInv
  BY TasksAssumption
  DEF Init, SentInv, RoutedInv, AllOf, AnsweringKept, ResponsesKept, DoneKept, NotRunning
<1>2. CompletedOutputsKept
  BY DEF Init, CompletedOutputsKept
<1> QED BY <1>1, <1>2, InitIInv DEF OutputsInv

\* Every step preserves the invariant.
LEMMA StepOutputs == OutputsInv /\ [Next]_vars => OutputsInv'
<1> SUFFICES ASSUME OutputsInv, [Next]_vars PROVE OutputsInv'
  OBVIOUS
<1>1. IInv'
  BY StepIInv DEF OutputsInv
<1>2. SentInv'
  BY RoutedStep, AnsweringStep, ResponsesStep, DoneStep DEF OutputsInv, SentInv, IInv
<1>3. CompletedOutputsKept'
  BY <1>1, CompletedStep DEF OutputsInv, SentInv, IInv
<1> QED BY <1>1, <1>2, <1>3 DEF OutputsInv

(* When a blocking execution is reported Completed, what the node sent before  *)
(* its response is in the datastore or in the adapter's queue: no order of     *)
(* polls, time-outs, late responses and detached runs loses it.                *)
THEOREM OutputsCorrect == Spec => []CompletedOutputsKept
<1>1. OutputsInv => CompletedOutputsKept
  BY DEF OutputsInv
<1> QED BY <1>1, InitOutputs, StepOutputs, PTL DEF Spec

-----------------------------------------------------------------------------
(* Serial *)

\* Every task is triggered whenever its turn comes.
Always == \A t \in Tasks : Span[t] = 0

\* Tick launches what it has queued at once, awaits it before it queues the
\* next task, and has nothing else to await.
SerialInv ==
  /\ \A r \in RunIds : IsFree(r) \/ Joined(r)
  /\ \A t \in registered : status[t] = "Queued" => t \in queued
  /\ \A t, u \in queued : t = u
  /\ queued # {} => handles = <<>> /\ launching = NoRun
  /\ launching # NoRun => handles = <<>>
  /\ \A i \in DOMAIN handles : i = 1
  /\ pc # "try_lock_panicked"

\* The run that tick launches, records and awaits is the only one.
LEMMA SerialStep ==
  ASSUME Always, IInv, SerialInv, [Next]_vars
  PROVE  SerialInv'
<1> USE DEF SerialInv
<1>1. ASSUME UNCHANGED <<runs, registered, status, queued, launching, handles>>,
             pc' # "try_lock_panicked"
      PROVE  SerialInv'
  BY <1>1 DEF IsFree, Joined
<1>2. ASSUME NEW a \in Adapters, ReadNewTasks(a)
      PROVE  SerialInv'
  <2>1. /\ registered' = registered \union Arrived(a)
        /\ status' = [t \in Tasks |-> IF t \in Arrived(a) THEN "Idle" ELSE status[t]]
        /\ pc' = "read"
        /\ UNCHANGED <<runs, queued, launching, handles>>
    BY <1>2 DEF ReadNewTasks
  <2>2. registered' \subseteq Tasks
    BY <2>1 DEF IInv, TypeOK, RegistryTypeOK, NodeTypeOK, Arrived
  <2>3. \A t \in registered' : status'[t] = "Queued" => t \in queued'
    BY <2>1, <2>2
  <2> QED BY <2>1, <2>3 DEF IsFree, Joined
<1>3. ASSUME NEW a \in Adapters, TryLockPanics(a)
      PROVE  FALSE
  <2>1. PICK r \in RunIds : Holds(r, a)
    BY <1>3 DEF TryLockPanics, Locked
  <2>2. ~IsFree(r)
    BY <2>1 DEF Holds, IsFree
  <2>3. ~Joined(r)
    BY <1>3, NothingJoined DEF TryLockPanics, IInv
  <2> QED BY <2>2, <2>3
<1>4. ASSUME NEW t \in Tasks, QueueNext(t)
      PROVE  SerialInv'
  <2>1. /\ status' = [status EXCEPT ![t] = "Queued"]
        /\ queued' = {u \in registered : status'[u] = "Queued"}
        /\ pc' = "launch"
        /\ UNCHANGED <<runs, registered, launching, handles>>
    BY <1>4 DEF QueueNext
  <2>2. handles = <<>> /\ launching = NoRun /\ queued = {}
    BY <1>4 DEF QueueNext, IInv, TickInv
  <2>3. \A u \in registered : status'[u] = "Queued" => u = t
    BY <2>1, <2>2 DEF IInv, TypeOK, RegistryTypeOK
  <2> QED BY <2>1, <2>2, <2>3 DEF IsFree, Joined
<1>5. ASSUME NEW t \in Tasks, SkipUntriggered(t)
      PROVE  FALSE
  <2>1. age[t] # Never /\ ~(age[t] >= 0)
    BY <1>5 DEF SkipUntriggered, Triggered, Always
  <2> QED BY <2>1 DEF IInv, TypeOK, RegistryTypeOK
<1>6. ASSUME NEW t \in Tasks, Launch(t)
      PROVE  SerialInv'
  <2>1. PICK r \in RunIds :
          /\ IsFree(r)
          /\ runs' = [runs EXCEPT ![r] =
                        [task |-> t, at |-> "spawned", polls |-> 0, result |-> "none",
                         early |-> age[t] = Never /\ HasInputs(t)]]
          /\ launching' = r
    BY <1>6 DEF Launch
  <2>2. /\ t \in queued
        /\ queued' = queued \ {t}
        /\ status' = [status EXCEPT ![t] = "Executing"]
        /\ pc' = "record"
        /\ UNCHANGED <<registered, handles>>
    BY <1>6 DEF Launch
  <2>3. queued' = {} /\ handles = <<>>
    BY <2>2
  <2>4. \A s \in RunIds : IsFree(s)
    BY <2>2 DEF Joined, RunIds, NoRun
  <2>5. \A s \in RunIds : s # r => runs'[s] = runs[s]
    BY <2>1 DEF IInv, TypeOK, RunTypeOK
  <2>6. \A s \in RunIds : IsFree(s)' \/ Joined(s)'
    BY <2>1, <2>4, <2>5 DEF IsFree, Joined
  <2>7. \A u \in registered : status'[u] = "Queued" => u \in queued'
    BY <2>2 DEF IInv, TypeOK, RegistryTypeOK
  <2> QED BY <2>2, <2>3, <2>6, <2>7
<1>7. CASE RecordFirst \/ RecordAfterRun
  <2>1. /\ pc = "record" /\ pc' = "launch"
        /\ handles' = Append(handles, launching)
        /\ launching' = NoRun
        /\ UNCHANGED <<runs, registered, status, queued>>
    BY <1>7 DEF RecordFirst, RecordAfterRun, Recorded
  <2>2. launching # NoRun
    BY <2>1 DEF IInv, TickInv
  <2>3. handles = <<>> /\ queued = {}
    BY <2>2
  <2>4. handles' = <<launching>>
    BY <2>1, <2>3
  <2>5. \A s \in RunIds : Joined(s) => Joined(s)'
    BY <2>3, <2>4 DEF Joined
  <2> QED BY <2>1, <2>3, <2>4, <2>5 DEF IsFree
<1>8. CASE AwaitCompleted \/ AwaitFailed
  <2> DEFINE r == Head(handles)
  <2>1. /\ handles # <<>> /\ handles \in Seq(RunIds)
        /\ pc = "await" /\ launching = NoRun /\ queued = {}
    BY <1>8 DEF AwaitCompleted, AwaitFailed, IInv, TickInv, TypeOK, TickTypeOK
  <2>2. r \in RunIds /\ \A s \in RunIds : Joined(s) => s = r
    <3>1. r \in RunIds /\ r = handles[1]
      BY <2>1
    <3>2. \A s \in RunIds : s # launching
      BY <2>1 DEF RunIds, NoRun
    <3> HIDE DEF r
    <3> QED BY <3>1, <3>2 DEF Joined
  <2>3. Tail(handles) = <<>>
    <3>1. \A i \in DOMAIN handles : i = 1
      OBVIOUS
    <3> HIDE DEF SerialInv, r
    <3>2. DOMAIN handles = 1..Len(handles) /\ Len(handles) \in Nat
      BY <2>1
    <3>3. ~(2 <= Len(handles))
      BY <3>1, <3>2
    <3> DEFINE rest == Tail(handles)
    <3>4. Len(rest) = 0 /\ rest \in Seq(RunIds)
      BY <2>1, <3>2, <3>3
    <3> HIDE DEF rest
    <3>5. rest = <<>>
      BY <3>4
    <3> QED BY <3>5 DEF rest
  <2>4. runs[r].at = "done"
    BY <1>8 DEF AwaitCompleted, AwaitFailed
  <2> HIDE DEF r
  <2>5. /\ handles' = <<>>
        /\ \A s \in RunIds : runs'[s] = IF s = r THEN NotRunning ELSE runs[s]
    <3>1. CASE AwaitCompleted
      <4>1. handles' = <<>> /\ runs' = [runs EXCEPT ![r] = NotRunning]
        BY <2>3, <3>1 DEF AwaitCompleted, r
      <4> QED BY <2>2, <4>1 DEF IInv, TypeOK, RunTypeOK
    <3>2. CASE AwaitFailed
      <4>1. \A s \in RunIds : s # r => runs[s].at # "done"
        BY <2>2 DEF IsFree
      <4> QED BY <2>4, <3>2, <4>1 DEF AwaitFailed, DropHandles
    <3> QED BY <1>8, <3>1, <3>2
  <2>6. \A s \in RunIds : IsFree(s)'
    BY <2>2, <2>5 DEF IsFree, NotRunning
  <2>7. /\ UNCHANGED <<queued, launching>>
        /\ pc' # "try_lock_panicked"
    BY <1>8, <2>1 DEF AwaitCompleted, AwaitFailed
  <2>8. \A t \in registered' : status'[t] = "Queued" => t \in queued'
    <3>1. \A t \in registered' : status'[t] = "Queued" => t \in registered /\ status[t] = "Queued"
      <4>1. CASE AwaitCompleted
        BY <4>1 DEF AwaitCompleted, IInv, TypeOK, RegistryTypeOK
      <4>2. CASE AwaitFailed
        BY <4>2 DEF AwaitFailed, IInv, TypeOK, RegistryTypeOK
      <4> QED BY <1>8, <4>1, <4>2
    <3> QED BY <2>7, <3>1
  <2> QED BY <2>1, <2>5, <2>6, <2>7, <2>8
<1>9. ASSUME NEW r \in RunIds, RunStep(r)
      PROVE  SerialInv'
  <2>1. UNCHANGED <<registered, status, queued, launching, handles, pc>>
    BY <1>9, RunStepKeeps DEF registryVars, tickVars, IInv
  <2>2. \A s \in RunIds : IsFree(s)' \/ Joined(s)'
    BY <1>9, <2>1, RunStepKeeps DEF IInv, Joined
  <2> QED BY <2>1, <2>2
<1>10. ASSUME NEW a \in Adapters, Node(a)
       PROVE  SerialInv'
  BY <1>1, <1>10, NodeKeeps DEF registryVars, tickVars
<1> QED
  BY <1>1, <1>2, <1>3, <1>4, <1>5, <1>6, <1>7, <1>8, <1>9, <1>10
  DEF Next, Tick, StartTick, NothingToDo, TopicUpdatedPanics, UpdateTime, TickReturns,
      Announce, Halted, nodeFrame, registryVars, tickVars, vars, IInv, TickInv

\* Nothing runs before the first tick.
LEMMA InitSerial == Init => SerialInv
BY DEF Init, SerialInv, IsFree, NotRunning

(* When every task is triggered at every turn, read_new_tasks never finds an    *)
(* adapter locked, not even after failures and time-outs: the handle whose      *)
(* failure ends the tick is the only one, so no run is detached and left with   *)
(* the lock.                                                                    *)
THEOREM SerialNeverPanics ==
  ASSUME Always
  PROVE  Spec => []NeverPanicsAtTryLock
<1>1. IInv /\ SerialInv /\ [Next]_vars => IInv' /\ SerialInv'
  BY StepIInv, SerialStep
<1>2. SerialInv => NeverPanicsAtTryLock
  BY DEF SerialInv, NeverPanicsAtTryLock
<1> QED BY <1>1, <1>2, InitIInv, InitSerial, PTL DEF Spec

-----------------------------------------------------------------------------
(* Responses *)

\* The run has sent its request and has not taken a response to it.
Unserved(r) ==
  \/ runs[r].at \in {"sent", "drained", "waiting"}
  \/ runs[r].at = "done" /\ runs[r].result = "timeout"

OneRun ==
  \A r, s \in RunIds : ~IsFree(r) /\ runs[r].task = runs[s].task => r = s

NotQueued == \A r \in RunIds : ~IsFree(r) => runs[r].task \notin queued

\* (A task that was dropped may leave a request behind; it is never run again.)
OneInFlight ==
  \A t \in Tasks \ (NonBlocking \union Dropped) :
    /\ InFlight(t) <= 1
    /\ InFlight(t) > 0 => \E r \in RunIds : runs[r].task = t /\ Unserved(r)

\* The run tick is recording, or died while it recorded it, is of a registered
\* task (LookupsSafe says so of the awaited ones).
LaunchedInv == launching # NoRun => runs[launching].task \in registered

AloneInv == Dropped = {} \/ Always => OneRun /\ NotQueued /\ OneInFlight

-----------------------------------------------------------------------------
(* What is on its way for a task *)

\* The three parts of InFlight are numbers.
LEMMA InFlightType ==
  ASSUME TypeOK, NEW t \in Tasks
  PROVE  /\ AdapterOf[t] \in Adapters
         /\ requests[AdapterOf[t]] \in Seq(Tasks)
         /\ batch[AdapterOf[t]] \in Seq(Tasks)
         /\ Places(requests[AdapterOf[t]], t) \in Nat
         /\ Places(batch[AdapterOf[t]], t) \in Nat
         /\ responses[t] \in Nat
         /\ InFlight(t) \in Nat
<1> USE TasksAssumption DEF TypeOK, NodeTypeOK
<1>1. AdapterOf[t] \in Adapters
  OBVIOUS
<1>2. requests[AdapterOf[t]] \in Seq(Tasks) /\ batch[AdapterOf[t]] \in Seq(Tasks)
  BY <1>1
<1>3. /\ Places(requests[AdapterOf[t]], t) \in Nat
      /\ Places(batch[AdapterOf[t]], t) \in Nat
  BY <1>2, PlacesType
<1>4. responses[t] \in Nat
  OBVIOUS
<1>5. InFlight(t) \in Nat
  BY <1>3, <1>4 DEF InFlight, Occurrences, Places
<1> QED BY <1>1, <1>2, <1>3, <1>4, <1>5

\* A request is one more on its way for its task, and for no other.
LEMMA SendCounts ==
  ASSUME TypeOK, NEW r \in RunIds, RunSend(r), NEW t \in Tasks
  PROVE  InFlight(t)' = InFlight(t) + IF runs[r].task = t THEN 1 ELSE 0
<1> DEFINE u == runs[r].task
           q == requests[AdapterOf[t]]
<1>1. u \in Tasks /\ AdapterOf[u] \in Adapters
  BY TasksAssumption DEF RunSend, TypeOK, RunTypeOK, Run
<1>2. /\ requests' = [requests EXCEPT ![AdapterOf[u]] = Append(requests[AdapterOf[u]], u)]
      /\ UNCHANGED <<batch, responses>>
  BY DEF RunSend, Adapter, replyVars
<1> HIDE DEF u
<1>3. requests \in [Adapters -> Seq(Tasks)]
  BY DEF TypeOK, NodeTypeOK
<1>4. CASE u = t
  <2>1. requests'[AdapterOf[t]] = Append(q, t)
    BY <1>1, <1>2, <1>3, <1>4
  <2>2. Places(Append(q, t), t) = Places(q, t) + 1
    BY InFlightType, PlacesAppend
  <2> HIDE DEF q
  <2>3. InFlight(t)' = Places(Append(q, t), t)
                         + Places(batch[AdapterOf[t]], t) + responses[t]
    BY <1>2, <2>1 DEF InFlight, Occurrences, Places
  <2>4. InFlight(t) = Places(q, t) + Places(batch[AdapterOf[t]], t) + responses[t]
    BY DEF InFlight, Occurrences, Places, q
  <2>5. Places(q, t) \in Nat
    BY InFlightType DEF q
  <2> QED BY <1>4, <2>2, <2>3, <2>4, <2>5, InFlightType DEF u
<1>5. CASE u # t
  <2>1. Places(requests'[AdapterOf[t]], t) = Places(q, t)
    <3>1. CASE AdapterOf[u] = AdapterOf[t]
      <4>1. requests'[AdapterOf[t]] = Append(q, u)
        BY <1>1, <1>2, <1>3, <3>1
      <4>2. Places(Append(q, u), t) = Places(q, t) + 0
        BY <1>1, <1>5, InFlightType, PlacesAppend
      <4>3. Places(q, t) + 0 = Places(q, t)
        BY InFlightType
      <4> QED BY <4>1, <4>2, <4>3
    <3>2. CASE AdapterOf[u] # AdapterOf[t]
      <4>1. requests'[AdapterOf[t]] = q
        BY <1>1, <1>2, <1>3, <3>2, InFlightType
      <4> QED BY <4>1
    <3> QED BY <3>1, <3>2
  <2>2. InFlight(t)' = InFlight(t)
    BY <1>2, <2>1 DEF InFlight, Occurrences, Places
  <2> QED BY <1>5, <2>2, InFlightType DEF u
<1> QED BY <1>4, <1>5

\* A node puts nothing on its way: it moves requests, turns one into its
\* response, or loses them.
LEMMA NodeCounts ==
  ASSUME TypeOK, RoutedInv, NEW a \in Adapters, Node(a), NEW t \in Tasks
  PROVE  InFlight(t)' \in Nat /\ InFlight(t)' <= InFlight(t)
<1> DEFINE b == AdapterOf[t]
           nq == Places(requests[b], t)
           nb == Places(batch[b], t)
<1>1. /\ b \in Adapters
      /\ requests[b] \in Seq(Tasks) /\ batch[b] \in Seq(Tasks)
      /\ nq \in Nat /\ nb \in Nat /\ responses[t] \in Nat
  BY InFlightType
<1>2. InFlight(t) = nq + nb + responses[t]
  BY DEF InFlight, Occurrences, Places
<1>3. InFlight(t)' = Places(requests'[b], t)
                       + Places(batch'[b], t) + responses'[t]
  BY DEF InFlight, Occurrences, Places
<1>4. Places(<<>>, t) = 0
  BY <1>1, PlacesType
<1>5. /\ requests \in [Adapters -> Seq(Tasks)]
      /\ batch \in [Adapters -> Seq(Tasks)]
      /\ responses \in [Tasks -> Nat]
  BY DEF TypeOK, NodeTypeOK
<1> HIDE DEF b, nq, nb
<1>6. CASE UNCHANGED <<requests, batch, responses>>
  BY <1>1, <1>2, <1>3, <1>6 DEF nq, nb
<1>7. CASE NodeReceive(a)
  <2>1. /\ batch[a] = <<>>
        /\ batch' = [batch EXCEPT ![a] = requests[a]]
        /\ requests' = [requests EXCEPT ![a] = <<>>]
        /\ responses' = responses
    BY <1>7 DEF NodeReceive
  <2>2. CASE a = b
    <3>1. requests'[b] = <<>> /\ batch'[b] = requests[b] /\ nb = 0
      BY <1>1, <1>4, <1>5, <2>1, <2>2 DEF nb
    <3>2. InFlight(t)' = 0 + nq + responses[t]
      BY <1>3, <1>4, <2>1, <3>1 DEF nq
    <3> QED BY <1>1, <1>2, <3>1, <3>2
  <2>3. CASE a # b
    <3>1. requests'[b] = requests[b] /\ batch'[b] = batch[b]
      BY <1>1, <1>5, <2>1, <2>3
    <3> QED BY <1>1, <1>2, <1>3, <2>1, <3>1 DEF nq, nb
  <2> QED BY <2>2, <2>3
<1>8. CASE NodeRespond(a)
  <2> DEFINE u == Head(batch[a])
  <2>1. /\ answering[a]
        /\ responses' = [responses EXCEPT ![u] = responses[u] + 1]
        /\ batch' = [batch EXCEPT ![a] = Tail(batch[a])]
        /\ requests' = requests
    BY <1>8 DEF NodeRespond
  <2>2. batch[a] \in Seq(Tasks) /\ batch[a] # <<>>
    BY <2>1 DEF TypeOK, NodeTypeOK
  <2>3. u \in Tasks
    BY <2>2
  <2>4. AdapterOf[u] = a
    BY <2>2, <2>3, QueueSteps DEF RoutedInv
  <2>5. CASE a = b
    <3>1. batch'[b] = Tail(batch[b])
      BY <1>1, <1>5, <2>1, <2>5
    <3> DEFINE nt == Places(Tail(batch[b]), t)
    <3>2. nb = nt + IF u = t THEN 1 ELSE 0
      BY <2>2, <2>5, PlacesTail DEF nb
    <3>3. responses'[t] = responses[t] + IF u = t THEN 1 ELSE 0
      BY <1>1, <1>5, <2>1, <2>3
    <3>4. nt \in Nat
      <4>1. Tail(batch[b]) \in Seq(Tasks)
        BY <2>2, <2>5
      <4> QED BY <4>1, PlacesType
    <3>5. InFlight(t)' = nq + nt + responses'[t]
      BY <1>3, <2>1, <3>1 DEF nq
    <3> HIDE DEF nt, u
    <3> QED BY <1>1, <1>2, <3>2, <3>3, <3>4, <3>5
  <2>6. CASE a # b
    <3>1. batch'[b] = batch[b] /\ u # t
      BY <1>1, <1>5, <2>1, <2>4, <2>6 DEF b
    <3>2. responses'[t] = responses[t]
      BY <1>5, <2>1, <3>1
    <3> QED BY <1>1, <1>2, <1>3, <2>1, <3>1, <3>2 DEF nq, nb
  <2> QED BY <2>5, <2>6
<1>9. CASE NodeFails(a)
  <2>1. batch'[b] = <<>> \/ batch'[b] = batch[b]
    BY <1>1, <1>5, <1>9 DEF NodeFails
  <2>2. UNCHANGED <<requests, responses>>
    BY <1>9 DEF NodeFails
  <2>3. Places(batch'[b], t) <= nb /\ Places(batch'[b], t) \in Nat
    BY <1>1, <1>4, <2>1 DEF nb
  <2> QED BY <1>1, <1>2, <1>3, <2>2, <2>3 DEF nq
<1>10. CASE NodeStops(a)
  <2>1. /\ batch'[b] = <<>> \/ batch'[b] = batch[b]
        /\ requests'[b] = <<>> \/ requests'[b] = requests[b]
        /\ responses' = responses
    BY <1>1, <1>5, <1>10 DEF NodeStops
  <2>2. Places(batch'[b], t) <= nb /\ Places(batch'[b], t) \in Nat
    BY <1>1, <1>4, <2>1 DEF nb
  <2>3. Places(requests'[b], t) <= nq /\ Places(requests'[b], t) \in Nat
    BY <1>1, <1>4, <2>1 DEF nq
  <2> QED BY <1>1, <1>2, <1>3, <2>1, <2>2, <2>3
<1>11. CASE NodeExecute(a)
  BY <1>6, <1>11 DEF NodeExecute
<1> QED BY <1>7, <1>8, <1>9, <1>10, <1>11 DEF Node

\* A response is taken: one less on its way for the task of the run.
LEMMA AnsweredCounts ==
  ASSUME TypeOK, NEW r \in RunIds, RunAnswered(r), NEW t \in Tasks
  PROVE  InFlight(t)' = InFlight(t) - IF runs[r].task = t THEN 1 ELSE 0
<1> DEFINE u == runs[r].task
<1>1. u \in Tasks
  BY DEF RunAnswered, TypeOK, RunTypeOK, Run
<1>2. /\ responses' = [responses EXCEPT ![u] = responses[u] - 1]
      /\ UNCHANGED <<requests, batch>>
  BY DEF RunAnswered, nodeVars
<1> HIDE DEF u
<1>3. responses'[t] = responses[t] - IF u = t THEN 1 ELSE 0
  <2>1. responses \in [Tasks -> Nat]
    BY DEF TypeOK, NodeTypeOK
  <2> QED BY <1>1, <1>2, <2>1
<1> DEFINE nq == Places(requests[AdapterOf[t]], t)
           nb == Places(batch[AdapterOf[t]], t)
<1>4. /\ InFlight(t) = nq + nb + responses[t]
      /\ InFlight(t)' = nq + nb + responses'[t]
  BY <1>2 DEF InFlight, Occurrences, Places
<1>5. nq \in Nat /\ nb \in Nat /\ responses[t] \in Nat
  BY InFlightType
<1> HIDE DEF nq, nb
<1> QED BY <1>3, <1>4, <1>5 DEF u

-----------------------------------------------------------------------------
(* The steps of the runs *)

\* A step of a run leaves the others as they are.
LEMMA OthersStay ==
  ASSUME NEW r \in RunIds, RunStep(r), NEW s \in RunIds, s # r
  PROVE  runs'[s] = runs[s]
<1>1. CASE RunSend(r)
  BY <1>1 DEF RunSend
<1>2. CASE RunSendFails(r)
  BY <1>2 DEF RunSendFails, Finish
<1>3. CASE RunDrain(r)
  BY <1>3 DEF RunDrain
<1>4. CASE RunAnswered(r)
  BY <1>4 DEF RunAnswered, Finish
<1>5. CASE RunUnanswered(r)
  <2>1. CASE runs[r].task \in NonBlocking
    <3>1. Finish(r, "ok")
      BY <1>5, <2>1 DEF RunUnanswered
    <3> QED BY <3>1 DEF Finish
  <2>2. CASE runs[r].task \notin NonBlocking
    <3>1. PICK polls : runs' = [runs EXCEPT ![r] =
                                  [@ EXCEPT !.at = "waiting", !.polls = polls]]
      BY <1>5, <2>2 DEF RunUnanswered
    <3> QED BY <3>1
  <2> QED BY <2>1, <2>2
<1>6. CASE RunTimeout(r)
  BY <1>6 DEF RunTimeout, Finish
<1> QED BY <1>1, <1>2, <1>3, <1>4, <1>5, <1>6 DEF RunStep

\* Every run keeps its task while tick will await it.
LEMMA RunStepAlone ==
  ASSUME TypeOK, NEW r \in RunIds, RunStep(r), OneRun, NotQueued,
         \A s \in RunIds : IsFree(s) \/ Joined(s)
  PROVE  OneRun' /\ NotQueued'
<1>1. /\ queued' = queued
      /\ \A s \in RunIds : IsFree(s) => IsFree(s)'
      /\ \A s \in RunIds : ~IsFree(s) => runs'[s].task = runs[s].task
  BY RunStepKeeps DEF tickVars
<1>2. ~IsFree(r)
  BY DEF RunStep, RunSend, RunSendFails, RunDrain, RunAnswered, RunUnanswered,
         RunTimeout, IsFree
<1>3. \A s \in RunIds : s # r => runs'[s] = runs[s]
  BY OthersStay
<1>4. \A s \in RunIds : runs'[s].task = runs[s].task
  BY <1>1, <1>2, <1>3
<1> QED BY <1>1, <1>4 DEF OneRun, NotQueued

\* A run that sends is the only one of its task, so nothing was on its way;
\* one that takes a response takes the last that was.
LEMMA RunStepInFlight ==
  ASSUME TypeOK, PendingInv, NEW r \in RunIds, RunStep(r), OneRun, OneInFlight,
         \A s \in RunIds : IsFree(s) \/ Joined(s)
  PROVE  OneInFlight'
<1>0. Dropped \subseteq Dropped'
  BY DroppedStays DEF Next
<1> DEFINE u == runs[r].task
<1>1. /\ ~IsFree(r) /\ Joined(r)
      /\ u \in Tasks
      /\ runs[r] \in Run
      /\ runs'[r].task = u
  <2>1. ~IsFree(r)
    BY DEF RunStep, RunSend, RunSendFails, RunDrain, RunAnswered, RunUnanswered,
           RunTimeout, IsFree
  <2> QED BY <2>1, RunStepKeeps DEF TypeOK, RunTypeOK, Run, IsFree
<1>2. \A s \in RunIds : s # r /\ Unserved(s) =>
        runs'[s].task = runs[s].task /\ Unserved(s)'
  BY OthersStay DEF Unserved
<1>3. \A s \in RunIds : runs[s].task = u => s = r
  BY <1>1 DEF OneRun
<1> SUFFICES ASSUME NEW t \in Tasks \ (NonBlocking \union Dropped)
             PROVE  /\ InFlight(t)' <= 1
                    /\ InFlight(t)' > 0 =>
                         \E s \in RunIds : runs'[s].task = t /\ Unserved(s)'
  BY <1>0 DEF OneInFlight
<1>4. /\ InFlight(t) \in Nat
      /\ InFlight(t) <= 1
      /\ InFlight(t) > 0 => \E s \in RunIds : runs[s].task = t /\ Unserved(s)
  BY InFlightType DEF OneInFlight
<1>5. ASSUME InFlight(t)' = InFlight(t), t = u /\ Unserved(r) => Unserved(r)'
      PROVE  /\ InFlight(t)' <= 1
             /\ InFlight(t)' > 0 =>
                  \E s \in RunIds : runs'[s].task = t /\ Unserved(s)'
  <2> SUFFICES ASSUME InFlight(t) > 0
               PROVE  \E s \in RunIds : runs'[s].task = t /\ Unserved(s)'
    BY <1>4, <1>5
  <2>1. PICK s \in RunIds : runs[s].task = t /\ Unserved(s)
    BY <1>4
  <2>2. runs'[s].task = t /\ Unserved(s)'
    BY <1>1, <1>2, <1>5, <2>1
  <2> QED BY <2>2
<1>6. CASE RunSend(r)
  <2>1. runs[r].at = "spawned" /\ runs'[r].at = "sent"
    BY <1>1, <1>6 DEF RunSend, TypeOK, RunTypeOK
  <2>2. CASE t = u
    <3>1. ~\E s \in RunIds : runs[s].task = t /\ Unserved(s)
      BY <1>3, <2>1, <2>2 DEF Unserved
    <3>2. InFlight(t) = 0
      BY <1>4, <3>1
    <3>3. InFlight(t)' = 1
      BY <1>6, <2>2, <3>2, SendCounts
    <3>4. runs'[r].task = t /\ Unserved(r)'
      BY <1>1, <2>1, <2>2 DEF Unserved
    <3> QED BY <3>3, <3>4
  <2>3. CASE t # u
    <3>1. InFlight(t)' = InFlight(t) + 0
      BY <1>6, <2>3, SendCounts
    <3> QED BY <1>4, <1>5, <2>3, <3>1
  <2> QED BY <2>2, <2>3
<1>7. CASE RunSendFails(r)
  <2>1. InFlight(t)' = InFlight(t)
    BY <1>7 DEF RunSendFails, InFlight, nodeVars, replyVars
  <2>2. ~Unserved(r)
    BY <1>7 DEF RunSendFails, Unserved
  <2> QED BY <1>5, <2>1, <2>2
<1>8. CASE RunDrain(r)
  <2>1. InFlight(t)' = InFlight(t)
    BY <1>8 DEF RunDrain, InFlight, nodeVars
  <2>2. Unserved(r)'
    BY <1>8 DEF RunDrain, Unserved, TypeOK, RunTypeOK
  <2> QED BY <1>5, <2>1, <2>2
<1>9. CASE RunAnswered(r)
  <2>1. CASE t = u
    <3>1. InFlight(t)' = InFlight(t) - 1
      BY <1>9, <2>1, AnsweredCounts
    <3>2. InFlight(t)' <= 1 /\ ~(InFlight(t)' > 0)
      BY <1>4, <3>1
    <3> QED BY <3>2
  <2>2. CASE t # u
    <3>1. InFlight(t)' = InFlight(t) - 0
      BY <1>9, <2>2, AnsweredCounts
    <3> QED BY <1>4, <1>5, <2>2, <3>1
  <2> QED BY <2>1, <2>2
<1>10. CASE RunUnanswered(r)
  <2>1. InFlight(t)' = InFlight(t)
    BY <1>10 DEF RunUnanswered, InFlight, nodeVars, replyVars
  <2>2. CASE u \in NonBlocking
    BY <1>5, <2>1, <2>2
  <2>3. CASE u \notin NonBlocking
    <3>1. PICK polls : runs' = [runs EXCEPT ![r] =
                                  [@ EXCEPT !.at = "waiting", !.polls = polls]]
      BY <1>10, <2>3 DEF RunUnanswered
    <3>2. runs'[r].at = "waiting"
      BY <1>1, <3>1 DEF TypeOK, RunTypeOK, Run
    <3> QED BY <1>5, <2>1, <3>2 DEF Unserved
  <2> QED BY <2>2, <2>3
<1>11. CASE RunTimeout(r)
  <2>1. InFlight(t)' = InFlight(t)
    BY <1>11 DEF RunTimeout, InFlight, nodeVars, replyVars
  <2>2. runs'[r].at = "done" /\ runs'[r].result = "timeout"
    BY <1>1, <1>11 DEF RunTimeout, Finish, TypeOK, RunTypeOK, Run
  <2> QED BY <1>5, <2>1, <2>2 DEF Unserved
<1> QED BY <1>6, <1>7, <1>8, <1>9, <1>10, <1>11 DEF RunStep

-----------------------------------------------------------------------------
(* The invariant *)

\* Until an execution fails, or when tick runs one task at a time, every task
\* has one run at most, and at most one request or response on its way.
LEMMA AloneStep ==
  ASSUME IInv, RoutedInv, Always => SerialInv, AloneInv, [Next]_vars
  PROVE  AloneInv'
<1> USE DEF IInv
<1> DEFINE Goal == OneRun' /\ NotQueued' /\ OneInFlight'
<1> SUFFICES ASSUME Dropped' = {} \/ Always PROVE Goal
  BY DEF AloneInv, Always
<1>0. Dropped \subseteq Dropped'
  BY DroppedStays
<1>1. Dropped = {} \/ Always
  BY <1>0
<1>2. OneRun /\ NotQueued /\ OneInFlight
  BY <1>1 DEF AloneInv
<1>3. \A r \in RunIds : IsFree(r) \/ Joined(r)
  BY <1>1 DEF JoinedInv, SerialInv
<1>4. ASSUME UNCHANGED <<runs, requests, batch, responses>>, queued' \subseteq queued
      PROVE  Goal
  <2>1. OneRun' /\ NotQueued'
    BY <1>2, <1>4 DEF OneRun, NotQueued, IsFree
  <2>2. OneInFlight'
    BY <1>0, <1>2, <1>4 DEF OneInFlight, InFlight, Unserved
  <2> QED BY <2>1, <2>2
<1>5. ASSUME NEW t \in Tasks, QueueNext(t)
      PROVE  Goal
  <2>1. \A r \in RunIds : IsFree(r)
    BY <1>3, <1>5, NothingJoined DEF QueueNext
  <2>2. UNCHANGED <<runs, requests, batch, responses>>
    BY <1>5 DEF QueueNext, nodeVars, replyVars
  <2>3. OneRun' /\ NotQueued'
    BY <2>1, <2>2 DEF OneRun, NotQueued, IsFree
  <2>4. OneInFlight'
    BY <1>0, <1>2, <2>2 DEF OneInFlight, InFlight, Unserved
  <2> QED BY <2>3, <2>4
<1>6. ASSUME NEW t \in Tasks, Launch(t)
      PROVE  Goal
  <2>1. PICK r \in RunIds :
          /\ IsFree(r)
          /\ runs' = [runs EXCEPT ![r] =
                        [task |-> t, at |-> "spawned", polls |-> 0, result |-> "none",
                         early |-> age[t] = Never /\ HasInputs(t)]]
    BY <1>6 DEF Launch
  <2>2. /\ t \in queued
        /\ queued' = queued \ {t}
        /\ UNCHANGED <<requests, batch, responses>>
    BY <1>6 DEF Launch, nodeVars, replyVars
  <2>3. /\ runs'[r].task = t
        /\ \A s \in RunIds : s # r => runs'[s] = runs[s]
    BY <2>1 DEF TypeOK, RunTypeOK
  <2>4. \A s \in RunIds : runs[s].task # t
    <3> SUFFICES ASSUME NEW s \in RunIds, runs[s].task = t PROVE FALSE
      OBVIOUS
    <3>1. ~IsFree(s)
      BY TasksAssumption DEF TypeOK, RunTypeOK, IsFree
    <3> QED BY <1>2, <2>2, <3>1 DEF NotQueued
  <2>5. OneRun'
    BY <1>2, <2>3, <2>4 DEF OneRun, IsFree
  <2>6. NotQueued'
    BY <1>2, <2>2, <2>3 DEF NotQueued, IsFree
  <2>7. \A s \in RunIds : Unserved(s) => runs'[s] = runs[s]
    BY <2>1, <2>3 DEF Unserved, IsFree
  <2>8. OneInFlight'
    <3>1. \A u \in Tasks : InFlight(u)' = InFlight(u)
      BY <2>2 DEF InFlight
    <3>2. \A s \in RunIds : Unserved(s) => Unserved(s)' /\ runs'[s].task = runs[s].task
      BY <2>7 DEF Unserved
    <3> QED BY <1>0, <1>2, <3>1, <3>2 DEF OneInFlight
  <2> QED BY <2>5, <2>6, <2>8
<1>7. CASE AwaitCompleted
  <2> DEFINE r == Head(handles)
  <2>1. /\ r \in RunIds
        /\ runs[r].at = "done" /\ runs[r].result = "ok"
        /\ runs' = [runs EXCEPT ![r] = NotRunning]
        /\ UNCHANGED <<queued, requests, batch, responses>>
    BY <1>7 DEF AwaitCompleted, TypeOK, TickTypeOK, nodeVars, replyVars
  <2> HIDE DEF r
  <2>2. /\ runs'[r].at = "free"
        /\ \A s \in RunIds : s # r => runs'[s] = runs[s]
    BY <2>1 DEF TypeOK, RunTypeOK, NotRunning
  <2>3. OneRun'
    <3>1. runs'[r].task = NoTask
      BY <2>1 DEF TypeOK, RunTypeOK, NotRunning
    <3>2. \A s \in RunIds : ~IsFree(s) => runs[s].task # NoTask
      BY DEF TypeOK, RunTypeOK, IsFree
    <3> QED BY <1>2, <2>2, <3>1, <3>2 DEF OneRun, IsFree
  <2>4. NotQueued'
    BY <1>2, <2>1, <2>2 DEF NotQueued, IsFree
  <2>5. OneInFlight'
    <3>1. \A u \in Tasks : InFlight(u)' = InFlight(u)
      BY <2>1 DEF InFlight
    <3>2. \A s \in RunIds : Unserved(s) => Unserved(s)' /\ runs'[s].task = runs[s].task
      BY <2>1, <2>2 DEF Unserved
    <3> QED BY <1>0, <1>2, <3>1, <3>2 DEF OneInFlight
  <2> QED BY <2>3, <2>4, <2>5
<1>8. CASE AwaitFailed
  <2> DEFINE r == Head(handles)
             t == runs[r].task
  <2>1. Always
    BY <1>8, FailureDrops
  <2>2. /\ t \in Dropped'
        /\ runs[r].at = "done"
        /\ \A s \in RunIds : runs'[s] = IF runs[s].at = "done" THEN NotRunning ELSE runs[s]
        /\ UNCHANGED <<queued, requests, batch, responses>>
    BY <1>8, FailureDrops DEF AwaitFailed, DropHandles, nodeVars, replyVars
  <2>3. \A s \in RunIds : IsFree(s) \/ s = r
    <3>1. \A i \in DOMAIN handles : handles[i] = r
      BY <1>8, <2>1 DEF SerialInv, AwaitFailed, TypeOK, TickTypeOK
    <3>2. launching = NoRun
      BY <1>8 DEF AwaitFailed, TickInv
    <3> HIDE DEF r
    <3> QED BY <1>3, <3>1, <3>2 DEF Joined, RunIds, NoRun
  <2> HIDE DEF r
  <2>4. \A s \in RunIds : IsFree(s)'
    BY <2>2, <2>3 DEF IsFree, NotRunning
  <2>5. \A u \in Tasks : InFlight(u)' = InFlight(u)
    BY <2>2 DEF InFlight
  <2>6. \A s \in RunIds : Unserved(s) => runs[s].task = t
    BY <2>3 DEF Unserved, IsFree
  <2> HIDE DEF t
  <2>7. ASSUME NEW u \in Tasks \ (NonBlocking \union Dropped')
        PROVE  InFlight(u)' <= 1 /\ ~(InFlight(u)' > 0)
    <3>1. u # t /\ u \in Tasks \ (NonBlocking \union Dropped)
      BY <1>0, <2>2, <2>7
    <3>2. ~(InFlight(u) > 0) /\ InFlight(u) <= 1
      BY <1>2, <2>6, <3>1 DEF OneInFlight
    <3> QED BY <2>5, <3>2
  <2>8. OneInFlight'
    BY <2>7 DEF OneInFlight
  <2> QED BY <2>4, <2>8 DEF OneRun, NotQueued
<1>9. ASSUME NEW r \in RunIds, RunStep(r)
      PROVE  Goal
  <2>1. OneRun' /\ NotQueued'
    BY <1>2, <1>3, <1>9, RunStepAlone
  <2>2. OneInFlight'
    BY <1>2, <1>3, <1>9, RunStepInFlight
  <2> QED BY <2>1, <2>2
<1>10. ASSUME NEW a \in Adapters, Node(a)
       PROVE  Goal
  <2>1. UNCHANGED <<runs, queued>>
    BY <1>10, NodeKeeps DEF tickVars
  <2>2. OneRun' /\ NotQueued'
    BY <1>2, <2>1 DEF OneRun, NotQueued, IsFree
  <2>3. ASSUME NEW t \in Tasks \ (NonBlocking \union Dropped)
        PROVE  /\ InFlight(t)' <= 1
               /\ InFlight(t)' > 0 =>
                    \E r \in RunIds : runs'[r].task = t /\ Unserved(r)'
    <3>1. InFlight(t)' \in Nat /\ InFlight(t)' <= InFlight(t) /\ InFlight(t) \in Nat
      BY <1>10, NodeCounts, InFlightType
    <3>2. InFlight(t) <= 1 /\ (InFlight(t)' > 0 => InFlight(t) > 0)
      BY <1>2, <3>1 DEF OneInFlight
    <3>3. InFlight(t) > 0 => \E r \in RunIds : runs[r].task = t /\ Unserved(r)
      BY <1>2 DEF OneInFlight
    <3>4. \A r \in RunIds : Unserved(r) => Unserved(r)'
      BY <2>1 DEF Unserved
    <3> QED BY <2>1, <3>1, <3>2, <3>3, <3>4
  <2>4. OneInFlight'
    BY <1>0, <2>3 DEF OneInFlight
  <2> QED BY <2>2, <2>4
<1> QED
  BY <1>4, <1>5, <1>6, <1>7, <1>8, <1>9, <1>10
  DEF Next, Tick, StartTick, ReadNewTasks, TryLockPanics, NothingToDo, SkipUntriggered,
      RecordFirst, RecordAfterRun, Recorded, TopicUpdatedPanics, UpdateTime, TickReturns,
      Announce, Halted, nodeFrame, nodeVars, replyVars, tickVars, vars

\* A launched task was queued, and only a tick that is awaiting forgets one.
LEMMA LaunchedStep ==
  ASSUME IInv, LaunchedInv, [Next]_vars
  PROVE  LaunchedInv'
<1> USE DEF IInv, LaunchedInv
<1>1. ASSUME NEW t \in Tasks, Launch(t)
      PROVE  LaunchedInv'
  <2>1. PICK r \in RunIds : launching' = r /\ runs'[r].task = t
    BY <1>1 DEF Launch, TypeOK, RunTypeOK
  <2> QED BY <1>1, <2>1 DEF Launch, LookupsSafe
<1>2. CASE RecordFirst \/ RecordAfterRun
  BY <1>2 DEF RecordFirst, RecordAfterRun, Recorded
<1>3. CASE AwaitCompleted \/ AwaitFailed
  BY <1>3 DEF AwaitCompleted, AwaitFailed, TickInv
<1>4. ASSUME UNCHANGED <<launching, runs>>, registered \subseteq registered'
      PROVE  LaunchedInv'
  BY <1>4
<1>5. ASSUME NEW r \in RunIds, RunStep(r)
      PROVE  LaunchedInv'
  <2>1. UNCHANGED <<launching, registered>>
    BY <1>5, RunStepKeeps DEF registryVars, tickVars
  <2>2. CASE launching # NoRun
    <3>1. launching \in RunIds /\ ~IsFree(launching) /\ Joined(launching)
      BY <2>2, TasksAssumption
      DEF TypeOK, TickTypeOK, RegistryTypeOK, RunTypeOK, IsFree, Joined
    <3> QED BY <1>5, <2>1, <3>1, RunStepKeeps
  <2> QED BY <2>1, <2>2
<1>6. ASSUME NEW a \in Adapters, Node(a)
      PROVE  LaunchedInv'
  BY <1>4, <1>6, NodeKeeps DEF registryVars, tickVars
<1> QED
  BY <1>1, <1>2, <1>3, <1>4, <1>5, <1>6
  DEF Next, Tick, StartTick, ReadNewTasks, TryLockPanics, NothingToDo, QueueNext,
      SkipUntriggered, TopicUpdatedPanics, UpdateTime, TickReturns, Announce, Halted,
      nodeFrame, registryVars, tickVars, vars

ResponsesInv ==
  IInv /\ RoutedInv /\ (Always => SerialInv) /\ LaunchedInv /\ AloneInv

\* Nothing runs and nothing is on its way.
LEMMA InitResponses == Init => ResponsesInv
<1> SUFFICES ASSUME Init PROVE ResponsesInv
  OBVIOUS
<1>1. RoutedInv
  BY InitOutputs DEF OutputsInv, SentInv
<1>2. \A r \in RunIds : IsFree(r)
  BY DEF Init, IsFree, NotRunning
<1>3. OneRun /\ NotQueued
  BY <1>2 DEF OneRun, NotQueued
<1>4. ASSUME NEW t \in Tasks PROVE InFlight(t) = 0
  <2>1. AdapterOf[t] \in Adapters
    BY TasksAssumption
  <2>2. Places(<<>>, t) = 0
    <3>1. <<>> \in Seq(Tasks)
      OBVIOUS
    <3> QED BY <3>1, PlacesType
  <2>3. InFlight(t) = Places(<<>>, t) + Places(<<>>, t) + 0
    BY <2>1 DEF Init, InFlight, Occurrences, Places
  <2> QED BY <2>2, <2>3
<1>5. OneInFlight
  BY <1>4 DEF OneInFlight
<1>6. LaunchedInv
  BY DEF Init, LaunchedInv
<1> QED BY <1>1, <1>3, <1>5, <1>6, InitIInv, InitSerial DEF ResponsesInv, AloneInv

\* Every step preserves the invariant.
LEMMA StepResponses == ResponsesInv /\ [Next]_vars => ResponsesInv'
<1> SUFFICES ASSUME ResponsesInv, [Next]_vars PROVE ResponsesInv'
  OBVIOUS
<1>1. IInv'
  BY StepIInv DEF ResponsesInv
<1>2. RoutedInv'
  BY RoutedStep DEF ResponsesInv, IInv
<1>3. AloneInv'
  BY AloneStep DEF ResponsesInv
<1>4. Always => SerialInv'
  BY SerialStep DEF ResponsesInv
<1>5. LaunchedInv'
  BY LaunchedStep DEF ResponsesInv
<1> QED BY <1>1, <1>2, <1>3, <1>4, <1>5 DEF ResponsesInv, Always

\* A blocking run that finds a response takes the only one on its way.
LEMMA OwnStep ==
  ASSUME ResponsesInv, Dropped = {} \/ Always, NEW r \in RunIds, [Next]_vars
  PROVE  TakesOwnResponse(r)
<1> SUFFICES ASSUME NEW t \in Tasks \ NonBlocking,
                    RunAnswered(r), runs[r].task = t
             PROVE  InFlight(t)' = 0
  BY DEF TakesOwnResponse
<1>1. t \notin Dropped
  <2>1. IsFree(r) \/ Joined(r)
    BY DEF ResponsesInv, IInv, JoinedInv, SerialInv
  <2>2. ~IsFree(r)
    BY DEF RunAnswered, IsFree
  <2>3. t \in registered
    BY <2>1, <2>2
    DEF Joined, ResponsesInv, IInv, LookupsSafe, LaunchedInv, RunIds, NoRun
  <2> QED BY <2>3 DEF Dropped
<1>2. InFlight(t)' = InFlight(t) - 1
  BY AnsweredCounts DEF ResponsesInv, IInv
<1>3. InFlight(t) \in Nat /\ InFlight(t) <= 1
  BY <1>1, InFlightType DEF ResponsesInv, IInv, AloneInv, OneInFlight
<1>4. InFlight(t) > 0
  <2>1. responses[t] > 0
    BY DEF RunAnswered
  <2> QED BY <2>1, InFlightType DEF ResponsesInv, IInv, InFlight, Occurrences, Places
<1> QED BY <1>2, <1>3, <1>4

(* Until an execution fails, a blocking run that finds a response has found    *)
(* the one to its own request: none is left on its way for the task.           *)
THEOREM ResponsesCorrect == Spec => ResponseIsOwnBeforeFailure
<1> DEFINE Own == Dropped = {} => \A r \in RunIds : TakesOwnResponse(r)
<1>1. ResponsesInv /\ [Next]_vars => [Own]_vars
  BY OwnStep
<1> QED BY <1>1, InitResponses, StepResponses, PTL DEF Spec, ResponseIsOwnBeforeFailure

(* When every task is triggered at every turn it finds its own response for    *)
(* ever: a task whose execution timed out is dropped before its late response  *)
(* can meet a second run.                                                      *)
THEOREM SerialResponsesCorrect ==
  ASSUME Always
  PROVE  Spec => ResponseIsOwn
<1> DEFINE Own == \A r \in RunIds : TakesOwnResponse(r)
<1>1. ResponsesInv /\ [Next]_vars => [Own]_vars
  BY OwnStep
<1> QED BY <1>1, InitResponses, StepResponses, PTL DEF Spec, ResponseIsOwn

-----------------------------------------------------------------------------
(* Calls *)

\* What is left of a request is with the node or has become a response.
LEMMA InFlightIs ==
  ASSUME TypeOK, NEW t \in Tasks
  PROVE  /\ InFlight(t) \in Nat /\ responses[t] \in Nat
         /\ ~AtNode(t) => InFlight(t) = responses[t]
         /\ AtNode(t) => InFlight(t) > responses[t]
<1> DEFINE nq == Places(requests[AdapterOf[t]], t)
           nb == Places(batch[AdapterOf[t]], t)
<1>1. nq \in Nat /\ nb \in Nat /\ responses[t] \in Nat /\ InFlight(t) \in Nat
  BY InFlightType
<1>2. InFlight(t) = nq + nb + responses[t] /\ (AtNode(t) <=> nq + nb > 0)
  BY DEF InFlight, AtNode, Occurrences, Places
<1> HIDE DEF nq, nb
<1>3. ~(nq + nb > 0) => nq + nb = 0
  BY <1>1
<1> QED BY <1>1, <1>2, <1>3

\* The steps a request takes with the node: none, it is lost, or it is answered.
Still(t) == (AtNode(t)' <=> AtNode(t)) /\ responses'[t] = responses[t]
Gone(t) == AtNode(t) /\ ~AtNode(t)' /\ responses'[t] = responses[t]
Answered(t) == AtNode(t) /\ responses'[t] = responses[t] + 1

LEMMA NodeMoves ==
  ASSUME TypeOK, RoutedInv, NEW a \in Adapters, Node(a), NEW t \in Tasks
  PROVE  \/ Still(t)
         \/ Gone(t) /\ ~NodeRespond(a)
         \/ Answered(t) /\ NodeRespond(a) /\ t = Head(batch[a])
<1> DEFINE b == AdapterOf[t]
           nq == Places(requests[b], t)
           nb == Places(batch[b], t)
<1>1. /\ b \in Adapters
      /\ requests[b] \in Seq(Tasks) /\ batch[b] \in Seq(Tasks)
      /\ nq \in Nat /\ nb \in Nat /\ responses[t] \in Nat
  BY InFlightType
<1>2. /\ AtNode(t) <=> nq + nb > 0
      /\ AtNode(t)' <=> Places(requests'[b], t) + Places(batch'[b], t) > 0
  BY DEF AtNode, Occurrences, Places
<1>3. Places(<<>>, t) = 0
  BY <1>1, PlacesType
<1>4. /\ requests \in [Adapters -> Seq(Tasks)]
      /\ batch \in [Adapters -> Seq(Tasks)]
      /\ responses \in [Tasks -> Nat]
  BY DEF TypeOK, NodeTypeOK
<1> HIDE DEF b
<1>5. ASSUME requests'[b] = requests[b], batch'[b] = batch[b], responses'[t] = responses[t]
      PROVE  Still(t)
  BY <1>2, <1>5 DEF Still
<1>6. CASE UNCHANGED <<requests, batch, responses>>
  BY <1>5, <1>6
<1>7. CASE NodeReceive(a)
  <2>1. /\ batch[a] = <<>>
        /\ batch' = [batch EXCEPT ![a] = requests[a]]
        /\ requests' = [requests EXCEPT ![a] = <<>>]
        /\ responses' = responses
    BY <1>7 DEF NodeReceive
  <2>2. CASE a = b
    <3>1. requests'[b] = <<>> /\ batch'[b] = requests[b] /\ nb = 0
      BY <1>1, <1>3, <1>4, <2>1, <2>2
    <3>2. AtNode(t)' <=> 0 + nq > 0
      BY <1>2, <1>3, <3>1
    <3>3. 0 + nq = nq + nb
      BY <1>1, <3>1
    <3> HIDE DEF nq, nb
    <3> QED BY <1>2, <2>1, <3>2, <3>3 DEF Still
  <2>3. CASE a # b
    BY <1>1, <1>4, <1>5, <2>1, <2>3
  <2> QED BY <2>2, <2>3
<1>8. CASE NodeRespond(a)
  <2> DEFINE u == Head(batch[a])
  <2>1. /\ answering[a]
        /\ responses' = [responses EXCEPT ![u] = responses[u] + 1]
        /\ batch' = [batch EXCEPT ![a] = Tail(batch[a])]
        /\ requests' = requests
    BY <1>8 DEF NodeRespond
  <2>2. batch[a] \in Seq(Tasks) /\ batch[a] # <<>>
    BY <2>1 DEF TypeOK, NodeTypeOK
  <2>3. u \in Tasks
    BY <2>2
  <2>4. AdapterOf[u] = a
    BY <2>2, <2>3, QueueSteps DEF RoutedInv
  <2> DEFINE nt == Places(Tail(batch[a]), t)
  <2>5. /\ nt \in Nat
        /\ Places(batch[a], t) = nt + IF u = t THEN 1 ELSE 0
    <3>1. Tail(batch[a]) \in Seq(Tasks)
      BY <2>2
    <3> QED BY <2>2, <3>1, PlacesType, PlacesTail
  <2>6. CASE t = u
    <3>1. b = a /\ nb = nt + 1
      BY <2>4, <2>5, <2>6 DEF b
    <3>2. AtNode(t)
      <4> HIDE DEF nq, nb, nt
      <4> QED BY <1>1, <1>2, <2>5, <3>1
    <3>3. responses'[t] = responses[t] + 1
      BY <1>4, <2>1, <2>3, <2>6
    <3> QED BY <1>8, <2>6, <3>2, <3>3 DEF Answered
  <2>7. CASE t # u
    <3>1. responses'[t] = responses[t] /\ requests'[b] = requests[b]
      BY <1>4, <2>1, <2>7
    <3>2. Places(batch'[b], t) = nb
      <4>1. CASE a = b
        <5>1. batch'[b] = Tail(batch[a])
          BY <1>1, <1>4, <2>1, <4>1
        <5>2. nt + 0 = nt
          BY <2>5
        <5> QED BY <2>5, <2>7, <4>1, <5>1, <5>2
      <4>2. CASE a # b
        BY <1>1, <1>4, <2>1, <4>2
      <4> QED BY <4>1, <4>2
    <3> QED BY <1>2, <3>1, <3>2 DEF Still
  <2> QED BY <2>6, <2>7
<1>9. ASSUME batch'[b] = <<>> \/ batch'[b] = batch[b],
             requests'[b] = <<>> \/ requests'[b] = requests[b],
             responses' = responses, ~NodeRespond(a)
      PROVE  Still(t) \/ (Gone(t) /\ ~NodeRespond(a))
  <2>1. AtNode(t)' => AtNode(t)
    <3>1. /\ Places(batch'[b], t) \in {0, nb}
          /\ Places(requests'[b], t) \in {0, nq}
      BY <1>3, <1>9
    <3> HIDE DEF nq, nb
    <3> QED BY <1>1, <1>2, <3>1
  <2> QED BY <1>9, <2>1 DEF Still, Gone
<1>10. CASE NodeFails(a)
  <2>1. /\ ~answering[a] /\ batch' = [batch EXCEPT ![a] = <<>>]
        /\ UNCHANGED <<requests, responses>>
    BY <1>10 DEF NodeFails
  <2>2. ~NodeRespond(a)
    BY <2>1 DEF NodeRespond
  <2>3. batch'[b] = <<>> \/ batch'[b] = batch[b]
    BY <1>1, <1>4, <2>1
  <2> QED BY <1>9, <2>1, <2>2, <2>3
<1>11. CASE NodeStops(a)
  <2>1. /\ batch' = [batch EXCEPT ![a] = <<>>]
        /\ requests' = [requests EXCEPT ![a] = <<>>]
        /\ UNCHANGED responses
        /\ nodeUp[a] /\ nodeUp'[a] = FALSE
    BY <1>11 DEF NodeStops, TypeOK, NodeTypeOK
  <2>2. ~NodeRespond(a)
    BY <2>1 DEF NodeRespond
  <2>3. /\ batch'[b] = <<>> \/ batch'[b] = batch[b]
        /\ requests'[b] = <<>> \/ requests'[b] = requests[b]
    BY <1>1, <1>4, <2>1
  <2> QED BY <1>9, <2>1, <2>2, <2>3
<1>12. CASE NodeExecute(a)
  BY <1>6, <1>12 DEF NodeExecute
<1> QED BY <1>7, <1>8, <1>10, <1>11, <1>12 DEF Node

\* A step of a run is seen in its own task's call only.
LEMMA OtherCalls ==
  ASSUME TypeOK, NEW r \in RunIds, RunStep(r), Joined(r),
         NEW t \in Tasks, runs[r].task # t
  PROVE  (Calling(t)' <=> Calling(t)) /\ (TimedOut(t)' <=> TimedOut(t))
<1>1. ~IsFree(r)
  BY DEF RunStep, RunSend, RunSendFails, RunDrain, RunAnswered, RunUnanswered,
         RunTimeout, IsFree
<1>2. runs'[r].task # t
  BY <1>1, RunStepKeeps
<1>3. \A s \in RunIds : s # r => runs'[s] = runs[s]
  BY OthersStay
<1>4. \A s \in RunIds : (runs[s].task = t \/ runs'[s].task = t) => runs'[s] = runs[s]
  BY <1>2, <1>3
<1> QED BY <1>4 DEF Calling, TimedOut

\* The only run of a task decides what stage its call is at.
LEMMA CallOfRun ==
  ASSUME NEW r \in RunIds, NEW t, runs[r].task = t,
         \A s \in RunIds : runs[s].task = t => s = r
  PROVE  /\ Calling(t) <=> runs[r].at \in {"sent", "drained", "waiting"}
         /\ TimedOut(t) <=> runs[r].at = "done" /\ runs[r].result = "timeout"
BY DEF Calling, TimedOut

\* Tick starts no call and ends none, unless it ends with a failure.
LEMMA TickCalls ==
  ASSUME TypeOK, TickInv, Tick, ~AwaitFailed, NEW t \in Tasks
  PROVE  CallStage(t)' = CallStage(t)
<1>1. UNCHANGED <<requests, batch, responses>>
  BY DEF Tick, StartTick, ReadNewTasks, TryLockPanics, NothingToDo, QueueNext,
         SkipUntriggered, Launch, RecordFirst, RecordAfterRun, Recorded,
         TopicUpdatedPanics, UpdateTime, AwaitCompleted, AwaitFailed, TickReturns,
         nodeVars, replyVars
<1>2. (AtNode(t)' <=> AtNode(t)) /\ responses'[t] = responses[t]
  BY <1>1 DEF AtNode
<1>3. ASSUME NEW r \in RunIds, \A s \in RunIds : s # r => runs'[s] = runs[s],
             runs[r].task = t =>
               /\ runs[r].at \notin {"sent", "drained", "waiting"}
               /\ ~(runs[r].at = "done" /\ runs[r].result = "timeout"),
             runs'[r].task = t =>
               /\ runs'[r].at \notin {"sent", "drained", "waiting"}
               /\ ~(runs'[r].at = "done" /\ runs'[r].result = "timeout")
      PROVE  (Calling(t)' <=> Calling(t)) /\ (TimedOut(t)' <=> TimedOut(t))
  BY <1>3 DEF Calling, TimedOut
<1>4. (Calling(t)' <=> Calling(t)) /\ (TimedOut(t)' <=> TimedOut(t))
  <2>1. CASE UNCHANGED runs
    BY <2>1 DEF Calling, TimedOut
  <2>2. ASSUME NEW u \in Tasks, Launch(u)
        PROVE  (Calling(t)' <=> Calling(t)) /\ (TimedOut(t)' <=> TimedOut(t))
    <3>1. PICK r \in RunIds :
            /\ IsFree(r)
            /\ runs' = [runs EXCEPT ![r] =
                 [task |-> u, at |-> "spawned", polls |-> 0, result |-> "none",
                  early |-> age[u] = Never /\ HasInputs(u)]]
      BY <2>2 DEF Launch
    <3>2. runs'[r].at = "spawned" /\ \A s \in RunIds : s # r => runs'[s] = runs[s]
      BY <3>1 DEF TypeOK, RunTypeOK
    <3>3. runs[r].at = "free"
      BY <3>1 DEF IsFree
    <3> QED BY <1>3, <3>2, <3>3
  <2>3. CASE AwaitCompleted
    <3> DEFINE r == Head(handles)
    <3>1. /\ handles # <<>>
          /\ runs[r].at = "done" /\ runs[r].result = "ok"
          /\ runs' = [runs EXCEPT ![r] = NotRunning]
      BY <2>3 DEF AwaitCompleted
    <3>2. r \in RunIds
      BY <3>1 DEF TypeOK, TickTypeOK
    <3> HIDE DEF r
    <3>3. runs'[r].at = "free" /\ \A s \in RunIds : s # r => runs'[s] = runs[s]
      BY <3>1, <3>2 DEF TypeOK, RunTypeOK, NotRunning
    <3> QED BY <1>3, <3>1, <3>2, <3>3
  <2> QED
    BY <2>1, <2>2, <2>3
    DEF Tick, StartTick, ReadNewTasks, TryLockPanics, NothingToDo, QueueNext,
        SkipUntriggered, RecordFirst, RecordAfterRun, Recorded, TopicUpdatedPanics,
        UpdateTime, TickReturns
<1> QED BY <1>2, <1>4 DEF CallStage

\* A step of a run takes the call of its task one stage further, or nowhere.
CallMoves(t) ==
  \/ CallStage(t)' = CallStage(t)
  \/ CallStage(t) = "idle" /\ CallStage(t)' = "asked"
  \/ CallStage(t) = "answered" /\ CallStage(t)' = "idle"
  \/ CallStage(t) \in {"asked", "answered", "lost"} /\ CallStage(t)' = "given up"

LEMMA RunCalls ==
  ASSUME ResponsesInv, Dropped = {}, NEW r \in RunIds, RunStep(r),
         NEW t \in Tasks \ NonBlocking, runs[r].task = t
  PROVE  CallMoves(t)
<1> DEFINE Out == {"sent", "drained", "waiting"}
<1>1. /\ TypeOK /\ OneRun /\ OneInFlight
      /\ \A s \in RunIds : IsFree(s) \/ Joined(s)
  BY DEF ResponsesInv, IInv, AloneInv, JoinedInv
<1>2. /\ ~IsFree(r) /\ Joined(r) /\ t \in Tasks
      /\ runs[r] \in Run /\ runs \in [RunIds -> Run]
  <2>1. ~IsFree(r)
    BY DEF RunStep, RunSend, RunSendFails, RunDrain, RunAnswered, RunUnanswered,
           RunTimeout, IsFree
  <2> QED BY <1>1, <2>1 DEF TypeOK, RunTypeOK, Run, IsFree
<1>3. runs'[r].task = t /\ \A s \in RunIds : s # r => runs'[s] = runs[s]
  BY <1>1, <1>2, OthersStay, RunStepKeeps
<1>4. /\ \A s \in RunIds : runs[s].task = t => s = r
      /\ \A s \in RunIds : runs'[s].task = t => s = r
  BY <1>1, <1>2, <1>3 DEF OneRun
<1>5. /\ Calling(t) <=> runs[r].at \in Out
      /\ TimedOut(t) <=> runs[r].at = "done" /\ runs[r].result = "timeout"
  BY <1>4, CallOfRun
<1>6. /\ Calling(t)' <=> runs'[r].at \in Out
      /\ TimedOut(t)' <=> runs'[r].at = "done" /\ runs'[r].result = "timeout"
  BY <1>3, <1>4 DEF Calling, TimedOut
<1>7. ASSUME runs[r].at \in Out, runs'[r].at \in Out,
             UNCHANGED <<requests, batch, responses>>
      PROVE  CallStage(t)' = CallStage(t)
  BY <1>5, <1>6, <1>7 DEF CallStage, AtNode
<1>8. CASE RunSend(r)
  <2>1. runs[r].at = "spawned" /\ runs'[r].at = "sent" /\ responses' = responses
    BY <1>2, <1>8 DEF RunSend, replyVars
  <2>2. CallStage(t) = "idle"
    BY <1>5, <2>1 DEF CallStage
  <2>3. InFlight(t) = 0
    <3>1. ~(InFlight(t) > 0)
      BY <1>1, <1>2, <1>4, <2>1 DEF OneInFlight, Unserved
    <3> QED BY <1>1, <1>2, <3>1, InFlightIs
  <2>4. responses[t] = 0
    BY <1>1, <1>2, <2>3, InFlightIs
  <2>5. AtNode(t)'
    <3> DEFINE q == requests[AdapterOf[t]]
    <3>1. requests' = [requests EXCEPT ![AdapterOf[t]] = Append(q, t)] /\ batch' = batch
      BY <1>8 DEF RunSend, Adapter
    <3>2. /\ AdapterOf[t] \in Adapters /\ q \in Seq(Tasks)
          /\ Places(q, t) \in Nat /\ Places(batch[AdapterOf[t]], t) \in Nat
      BY <1>1, <1>2, InFlightType
    <3>3. Places(Append(q, t), t) = Places(q, t) + 1
      BY <1>2, <3>2, PlacesAppend
    <3>4. requests'[AdapterOf[t]] = Append(q, t)
      BY <1>1, <3>1, <3>2 DEF TypeOK, NodeTypeOK
    <3>5. AtNode(t)' <=>
            Places(Append(q, t), t) + Places(batch[AdapterOf[t]], t) > 0
      BY <3>1, <3>4 DEF AtNode, Occurrences, Places
    <3> HIDE DEF q
    <3> QED BY <3>2, <3>3, <3>5
  <2>6. CallStage(t)' = "asked"
    BY <1>6, <2>1, <2>4, <2>5 DEF CallStage
  <2> QED BY <2>2, <2>6 DEF CallMoves
<1>9. CASE RunSendFails(r)
  <2>1. /\ runs[r].at = "spawned" /\ runs'[r].at = "done" /\ runs'[r].result = "failed"
    BY <1>2, <1>9 DEF RunSendFails, Finish
  <2>2. CallStage(t) = "idle" /\ CallStage(t)' = "idle"
    BY <1>5, <1>6, <2>1 DEF CallStage
  <2> QED BY <2>2 DEF CallMoves
<1>10. CASE RunDrain(r)
  <2>1. runs[r].at \in Out /\ runs'[r].at = "drained"
    BY <1>2, <1>10 DEF RunDrain
  <2>2. UNCHANGED <<requests, batch, responses>>
    BY <1>10 DEF RunDrain, nodeVars
  <2> QED BY <1>7, <2>1, <2>2 DEF CallMoves
<1>11. CASE RunAnswered(r)
  <2>1. /\ runs[r].at = "drained" /\ responses[t] > 0
        /\ runs'[r].at = "done" /\ runs'[r].result = "ok"
    BY <1>2, <1>11 DEF RunAnswered, Finish
  <2>2. CallStage(t) = "answered" /\ CallStage(t)' = "idle"
    BY <1>5, <1>6, <2>1 DEF CallStage
  <2> QED BY <2>2 DEF CallMoves
<1>12. CASE RunUnanswered(r)
  <2>1. PICK polls : runs' = [runs EXCEPT ![r] =
                                [@ EXCEPT !.at = "waiting", !.polls = polls]]
    BY <1>12 DEF RunUnanswered
  <2>2. runs[r].at \in Out /\ runs'[r].at = "waiting"
    BY <1>2, <1>12, <2>1 DEF RunUnanswered, Run
  <2>3. UNCHANGED <<requests, batch, responses>>
    BY <1>12 DEF RunUnanswered, nodeVars, replyVars
  <2> QED BY <1>7, <2>2, <2>3 DEF CallMoves
<1>13. CASE RunTimeout(r)
  <2>1. runs[r].at \in Out /\ runs'[r].at = "done" /\ runs'[r].result = "timeout"
    BY <1>2, <1>13 DEF RunTimeout, Finish, Run
  <2>2. CallStage(t) \in {"asked", "answered", "lost"}
    BY <1>5, <2>1 DEF CallStage
  <2>3. CallStage(t)' = "given up"
    BY <1>6, <2>1 DEF CallStage
  <2> QED BY <2>2, <2>3 DEF CallMoves
<1> QED BY <1>8, <1>9, <1>10, <1>11, <1>12, <1>13 DEF RunStep

\* A step of a run leaves what is on its way for other tasks where it is.
LEMMA RunNetwork ==
  ASSUME TypeOK, NEW r \in RunIds, RunStep(r), NEW t \in Tasks, runs[r].task # t,
         runs[r].task \in Tasks
  PROVE  (AtNode(t)' <=> AtNode(t)) /\ responses'[t] = responses[t]
<1> DEFINE u == runs[r].task
           b == AdapterOf[t]
<1>1. CASE UNCHANGED <<requests, batch, responses>>
  BY <1>1 DEF AtNode
<1>2. CASE RunSend(r)
  <2>1. /\ requests' = [requests EXCEPT ![AdapterOf[u]] = Append(requests[AdapterOf[u]], u)]
        /\ UNCHANGED <<batch, responses>>
    BY <1>2 DEF RunSend, Adapter, replyVars
  <2>2. /\ b \in Adapters /\ requests[b] \in Seq(Tasks)
        /\ requests \in [Adapters -> Seq(Tasks)] /\ Places(requests[b], t) \in Nat
    BY InFlightType DEF TypeOK, NodeTypeOK
  <2> HIDE DEF u
  <2>3. Places(requests'[b], t) = Places(requests[b], t)
    <3>1. CASE AdapterOf[u] = b
      <4>1. requests'[b] = Append(requests[b], u)
        BY <2>1, <2>2, <3>1
      <4>2. Places(Append(requests[b], u), t) = Places(requests[b], t) + 0
        BY <2>2, PlacesAppend DEF u
      <4> QED BY <2>2, <4>1, <4>2
    <3>2. CASE AdapterOf[u] # b
      BY <2>1, <2>2, <3>2
    <3> QED BY <3>1, <3>2
  <2> QED BY <2>1, <2>3 DEF AtNode, Occurrences, Places
<1>3. CASE RunAnswered(r)
  <2>1. responses' = [responses EXCEPT ![u] = responses[u] - 1] /\ UNCHANGED <<requests, batch>>
    BY <1>3 DEF RunAnswered, nodeVars
  <2>2. responses'[t] = responses[t]
    BY <2>1 DEF TypeOK, NodeTypeOK
  <2> QED BY <2>1, <2>2 DEF AtNode
<1> QED
  BY <1>1, <1>2, <1>3
  DEF RunStep, RunSendFails, RunDrain, RunUnanswered, RunTimeout, nodeVars, replyVars

\* A step of a node answers the call of one task, or loses some.
LEMMA NodeCalls ==
  ASSUME ResponsesInv, Dropped = {}, NEW a \in Adapters, Node(a),
         NEW t \in Tasks \ NonBlocking
  PROVE  \/ CallStage(t)' = CallStage(t)
         \/ /\ CallStage(t) = "asked" /\ CallStage(t)' = "lost"
            /\ ~NodeRespond(a)
         \/ /\ CallStage(t) = "asked" /\ CallStage(t)' = "answered"
            /\ NodeRespond(a) /\ t = Head(batch[a])
<1>1. TypeOK /\ RoutedInv /\ OneRun /\ OneInFlight
  BY DEF ResponsesInv, IInv, AloneInv
<1>2. (Calling(t)' <=> Calling(t)) /\ (TimedOut(t)' <=> TimedOut(t))
  BY NodeKeeps DEF Calling, TimedOut
<1>3. /\ InFlight(t) \in Nat /\ responses[t] \in Nat /\ InFlight(t) <= 1
      /\ AtNode(t) => InFlight(t) > responses[t]
  BY <1>1, InFlightIs DEF OneInFlight
<1>4. AtNode(t) => responses[t] = 0 /\ (Calling(t) \/ TimedOut(t))
  <2> SUFFICES ASSUME AtNode(t) PROVE responses[t] = 0 /\ (Calling(t) \/ TimedOut(t))
    OBVIOUS
  <2>1. responses[t] = 0 /\ InFlight(t) > 0
    BY <1>3
  <2>2. PICK s \in RunIds : runs[s].task = t /\ Unserved(s)
    BY <1>1, <2>1 DEF OneInFlight
  <2> QED BY <2>1, <2>2 DEF Unserved, Calling, TimedOut
<1>5. CASE Still(t)
  BY <1>2, <1>5 DEF CallStage, Still
<1>6. CASE Gone(t) /\ ~NodeRespond(a)
  <2>1. CASE TimedOut(t)
    BY <1>2, <2>1 DEF CallStage
  <2>2. CASE ~TimedOut(t)
    <3>1. CallStage(t) = "asked"
      BY <1>4, <1>6, <2>2 DEF CallStage, Gone
    <3>2. CallStage(t)' = "lost"
      BY <1>2, <1>4, <1>6, <2>2 DEF CallStage, Gone
    <3> QED BY <1>6, <3>1, <3>2
  <2> QED BY <2>1, <2>2
<1>7. CASE Answered(t) /\ NodeRespond(a) /\ t = Head(batch[a])
  <2>1. CASE TimedOut(t)
    BY <1>2, <2>1 DEF CallStage
  <2>2. CASE ~TimedOut(t)
    <3>1. CallStage(t) = "asked"
      BY <1>4, <1>7, <2>2 DEF CallStage, Answered
    <3>2. responses'[t] > 0
      BY <1>4, <1>7 DEF Answered
    <3>3. CallStage(t)' = "answered"
      BY <1>2, <1>4, <1>7, <2>2, <3>2 DEF CallStage, Answered
    <3> QED BY <1>7, <3>1, <3>3
  <2> QED BY <2>1, <2>2
<1> QED BY <1>1, <1>5, <1>6, <1>7, NodeMoves

\* One call moves, and the others stay.
LEMMA OneCallMoves ==
  ASSUME Dropped = {}, Dropped' = {}, NEW t \in Tasks \ NonBlocking,
         \A u \in Tasks \ NonBlocking : u # t => CallStage(u)' = CallStage(u),
         CallMoves(t) \/ (CallStage(t) = "asked" /\ CallStage(t)' = "answered")
  PROVE  [Calls!CallsNext]_(Calls!cvars)
<1> DEFINE stage == [u \in Tasks \ NonBlocking |-> CallStage(u)]
<1>1. UNCHANGED (Dropped # {})
  OBVIOUS
<1>2. /\ stage[t] = CallStage(t)
      /\ [u \in Tasks \ NonBlocking |-> CallStage(u)'] = [stage EXCEPT ![t] = CallStage(t)']
  OBVIOUS
<1>3. CASE CallStage(t)' = CallStage(t)
  <2>1. \A u \in Tasks \ NonBlocking : CallStage(u)' = CallStage(u)
    BY <1>3
  <2> QED BY <1>1, <2>1 DEF Calls!cvars
<1>4. CASE CallStage(t) = "idle" /\ CallStage(t)' = "asked"
  <2>1. Calls!Ask(t)
    BY <1>1, <1>2, <1>4 DEF Calls!Ask, Calls!To
  <2> QED BY <2>1 DEF Calls!CallsNext
<1>5. CASE CallStage(t) = "answered" /\ CallStage(t)' = "idle"
  <2>1. Calls!Return(t)
    BY <1>1, <1>2, <1>5 DEF Calls!Return, Calls!To
  <2> QED BY <2>1 DEF Calls!CallsNext
<1>6. CASE CallStage(t) \in {"asked", "answered", "lost"} /\ CallStage(t)' = "given up"
  <2>1. Calls!GiveUp(t)
    BY <1>1, <1>2, <1>6 DEF Calls!GiveUp, Calls!To
  <2> QED BY <2>1 DEF Calls!CallsNext
<1>7. CASE CallStage(t) = "asked" /\ CallStage(t)' = "answered"
  <2>1. Calls!Answer(t)
    BY <1>1, <1>2, <1>7 DEF Calls!Answer, Calls!To
  <2> QED BY <2>1 DEF Calls!CallsNext
<1> QED BY <1>3, <1>4, <1>5, <1>6, <1>7 DEF CallMoves

\* No call moves, or some are lost.
LEMMA SomeCallsLost ==
  ASSUME Dropped = {}, Dropped' = {},
         \A u \in Tasks \ NonBlocking :
           \/ CallStage(u)' = CallStage(u)
           \/ CallStage(u) = "asked" /\ CallStage(u)' = "lost"
  PROVE  Calls!CallsNext
<1> DEFINE C == Tasks \ NonBlocking
           T == {u \in C : CallStage(u)' # CallStage(u)}
<1>1. UNCHANGED (Dropped # {})
  OBVIOUS
<1>2. \A u \in C : CallStage(u)' = IF u \in T THEN "lost" ELSE CallStage(u)
  OBVIOUS
<1>3. \A u \in T : u \in C /\ CallStage(u) = "asked"
  OBVIOUS
<1>4. T \in SUBSET C
  OBVIOUS
<1> HIDE DEF T
<1>5. Calls!Lose(T)
  BY <1>1, <1>2, <1>3 DEF Calls!Lose
<1> QED BY <1>4, <1>5 DEF Calls!CallsNext

\* Until an execution fails every step is one of the calls', or none; the
\* failure breaks them.
LEMMA CallsStep ==
  ASSUME ResponsesInv, [Next]_vars
  PROVE  [Calls!CallsNext]_(Calls!cvars)
<1> DEFINE C == Tasks \ NonBlocking
<1>1. TypeOK /\ LookupsSafe /\ TickInv /\ PendingInv /\ JoinedInv
  BY DEF ResponsesInv, IInv
<1>2. CASE Dropped' # {}
  <2>1. [u \in C |-> CallStage(u)'] \in [C -> Calls!CallStages]
    <3>1. \A u \in C : CallStage(u)' \in Calls!CallStages
      BY DEF CallStage, Calls!CallStages
    <3> QED BY <3>1
  <2>2. Calls!Break
    BY <1>2, <2>1 DEF Calls!Break
  <2> QED BY <2>2 DEF Calls!CallsNext
<1>3. CASE Dropped' = {}
  <2>1. Dropped = {}
    BY <1>1, <1>3, DroppedStays
  <2>2. \A r \in RunIds : IsFree(r) \/ Joined(r)
    BY <1>1, <2>1 DEF JoinedInv
  <2>3. ASSUME \A u \in C : CallStage(u)' = CallStage(u)
        PROVE  [Calls!CallsNext]_(Calls!cvars)
    BY <1>3, <2>1, <2>3, SomeCallsLost
  <2>4. CASE Tick
    <3>1. ~AwaitFailed
      BY <1>1, <1>3, FailureDrops
    <3> QED BY <1>1, <2>3, <2>4, <3>1, TickCalls
  <2>5. ASSUME NEW r \in RunIds, RunStep(r)
        PROVE  [Calls!CallsNext]_(Calls!cvars)
    <3>1. ~IsFree(r)
      BY <2>5 DEF RunStep, RunSend, RunSendFails, RunDrain, RunAnswered, RunUnanswered,
                  RunTimeout, IsFree
    <3>2. PICK t \in Tasks : runs[r].task = t
      BY <1>1, <3>1 DEF TypeOK, RunTypeOK, Run, IsFree
    <3>3. ASSUME NEW u \in C, u # t
          PROVE  CallStage(u)' = CallStage(u)
      <4>1. (Calling(u)' <=> Calling(u)) /\ (TimedOut(u)' <=> TimedOut(u))
        BY <1>1, <2>2, <2>5, <3>1, <3>2, <3>3, OtherCalls
      <4>2. (AtNode(u)' <=> AtNode(u)) /\ responses'[u] = responses[u]
        BY <1>1, <2>5, <3>2, <3>3, RunNetwork
      <4> QED BY <4>1, <4>2 DEF CallStage
    <3>4. CASE t \in NonBlocking
      BY <2>3, <3>3, <3>4
    <3>5. CASE t \notin NonBlocking
      <4>1. CallMoves(t)
        BY <2>1, <2>5, <3>2, <3>5, RunCalls
      <4>2. t \in C /\ \A u \in C : u # t => CallStage(u)' = CallStage(u)
        BY <3>3, <3>5
      <4> QED BY <1>3, <2>1, <4>1, <4>2, OneCallMoves
    <3> QED BY <3>4, <3>5
  <2>6. ASSUME NEW u \in Tasks, Announce(u)
        PROVE  [Calls!CallsNext]_(Calls!cvars)
    <3>1. UNCHANGED <<runs, requests, batch, responses>>
      BY <2>6 DEF Announce, nodeFrame, nodeVars
    <3>2. \A t \in C : CallStage(t)' = CallStage(t)
      BY <3>1 DEF CallStage, Calling, TimedOut, AtNode
    <3> QED BY <2>3, <3>2
  <2>7. ASSUME NEW a \in Adapters, Node(a)
        PROVE  [Calls!CallsNext]_(Calls!cvars)
    <3>1. CASE \A t \in C : CallStage(t)' = CallStage(t)
                            \/ (CallStage(t) = "asked" /\ CallStage(t)' = "lost")
      BY <1>3, <2>1, <3>1, SomeCallsLost
    <3>2. ASSUME NEW t \in C, CallStage(t) = "asked", CallStage(t)' = "answered",
                 NodeRespond(a), t = Head(batch[a])
          PROVE  [Calls!CallsNext]_(Calls!cvars)
      <4>1. \A u \in C : u # t => CallStage(u)' = CallStage(u)
        BY <2>1, <2>7, <3>2, NodeCalls
      <4> QED BY <1>3, <2>1, <3>2, <4>1, OneCallMoves
    <3> QED BY <2>1, <2>7, <3>1, <3>2, NodeCalls
  <2>8. CASE UNCHANGED vars
    <3>1. \A t \in C : CallStage(t)' = CallStage(t)
      BY <2>8 DEF vars, nodeVars, replyVars, CallStage, Calling, TimedOut, AtNode
    <3> QED BY <2>3, <3>1
  <2> QED BY <2>4, <2>5, <2>6, <2>7, <2>8 DEF Next, Halted
<1> QED BY <1>2, <1>3

(* Until an execution fails, the broker, its adapters and the nodes implement  *)
(* remote calls: one at a time per blocking task, answered at most once and    *)
(* only when asked, returned only when answered, not repeated after a time-out.*)
THEOREM CallsCorrect == Spec => ImplementsCalls
<1>1. Init => Calls!CallsInit
  <2> SUFFICES ASSUME Init PROVE Calls!CallsInit
    OBVIOUS
  <2>1. Dropped = {}
    BY DEF Init, Dropped
  <2>2. \A t \in Tasks : CallStage(t) = "idle"
    BY DEF Init, NotRunning, CallStage, Calling, TimedOut
  <2> QED BY <2>1, <2>2 DEF Calls!CallsInit
<1>2. ResponsesInv /\ [Next]_vars => [Calls!CallsNext]_(Calls!cvars)
  BY CallsStep
<1> QED BY <1>1, <1>2, InitResponses, StepResponses, PTL
        DEF Spec, ImplementsCalls, Calls!CallsSpec

=============================================================================
