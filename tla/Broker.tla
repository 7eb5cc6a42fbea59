------------------------------- MODULE Broker -------------------------------
(***************************************************************************)
(* The broker of vs-broker with its round-robin commander, the channel     *)
(* adapters that connect it to the nodes, and the nodes.                   *)
(*                                                                         *)
(* Three kinds of actors run concurrently: the thread that calls           *)
(* Broker::tick, the executions tick spawns on the tokio runtime (a "run"  *)
(* here: it owns the adapter's lock from its first step to its last), and  *)
(* one node per adapter.                                                   *)
(*                                                                         *)
(* Both ends of a channel adapter drain the channel before they look at    *)
(* any of their queues, and each kind of message has a queue of its own,   *)
(* so a channel and the queue behind it are one variable per kind.  The    *)
(* payload of datapoints is left out; `stored' remembers whose outputs     *)
(* the datastore holds.                                                    *)
(***************************************************************************)
EXTENDS Integers, Sequences, FiniteSets

CONSTANTS
  Tasks,        \* task ids
  Adapters,     \* channel adapters, each with one node at its other end
  AdapterOf,    \* the adapter of the node that announces a task
  NonBlocking,  \* the tasks with BrokerCommanderFlags::NonBlocking
  Span,         \* the trigger: 0 for Always, the span for Rate(span)
  Reads,        \* the tasks whose outputs a task's subscriptions match
  Deltas,       \* the delta_time values tick is called with
  MaxAge,       \* ages are counted up to this bound
  MaxRuns,      \* bound on the executions alive at once
  MaxPolls,     \* how often a run looks for its response in 500 ms
  MaxInFlight,  \* bound on the requests and responses in flight for a task
  NoTask

Min2(a, b) == IF a <= b THEN a ELSE b

RunIds == 1..MaxRuns
NoRun == 0
Never == -1    \* the age of a task whose last_execution_time is None

ASSUME TasksAssumption ==
  /\ IsFiniteSet(Tasks)
  /\ NoTask \notin Tasks
  /\ AdapterOf \in [Tasks -> Adapters]
  /\ NonBlocking \subseteq Tasks
  /\ Reads \in [Tasks -> SUBSET Tasks]
ASSUME TimeAssumption ==
  /\ MaxAge \in Nat
  /\ Span \in [Tasks -> 0..MaxAge]
  /\ Deltas \subseteq Nat
ASSUME BoundsAssumption ==
  /\ MaxRuns \in Nat
  /\ MaxPolls \in Nat \ {0}
  /\ MaxInFlight \in Nat

VARIABLES
  tasks, current,   \* the commander
  registered,       \* the keys of task_states and of task_configs
  status,           \* BrokerTaskState::status of the registered tasks
  age,              \* time_monotonic - last_execution_time, Never for None
  pc,               \* where Broker::tick stands
  unread,           \* the adapters read_new_tasks has not visited yet
  queued,           \* the queued tasks the launch loop has not visited yet
  launching,        \* the run spawned by the current iteration of that loop
  handles,          \* join_handles, in the order they are awaited
  runs,             \* the spawned executions
  newTasks,         \* per adapter: announced, not yet read by the broker
  requests,         \* per adapter: ExecuteTask sent, not yet drained by the node
  batch,            \* per adapter: the requests the current node tick works on
  answering,        \* per adapter: outputs of the batch's head sent, response not
  outputs,          \* per adapter: whose outputs the broker has not taken yet
  responses,        \* per task: responses the broker has not taken yet
  stored,           \* whose outputs the broker's datastore holds
  nodeUp,           \* per adapter: the node still exists
  announced         \* the tasks given to BrokerNode::add_task

commander == INSTANCE LinearCommander

registryVars == <<tasks, current, registered, status, age>>
tickVars == <<pc, unread, queued, launching, handles>>
nodeVars == <<requests, batch, answering, nodeUp>>
replyVars == <<outputs, responses, stored>>
vars == <<registryVars, tickVars, runs, newTasks, nodeVars, replyVars, announced>>

-----------------------------------------------------------------------------
(* Runs *)

NotRunning ==
  [task |-> NoTask, at |-> "free", early |-> FALSE, polls |-> 0, result |-> "none"]

IsFree(r) == runs[r].at = "free"
Adapter(r) == AdapterOf[runs[r].task]

\* The run holds the lock of its adapter: the guard of the future lives from
\* the first await to the end of the future.
Holds(r, a) ==
  /\ runs[r].at \in {"sent", "drained", "waiting"}
  /\ Adapter(r) = a

Locked(a) == \E r \in RunIds : Holds(r, a)

\* A handle of the run is still awaited, or will be.
Joined(r) == r = launching \/ \E i \in DOMAIN handles : handles[i] = r

\* The future ends with this result.  With its JoinHandle dropped nobody will
\* see the result.
Finish(r, result) ==
  runs' = [runs EXCEPT ![r] =
             IF Joined(r) THEN [@ EXCEPT !.at = "done", !.result = result]
                          ELSE NotRunning]

Occurrences(s, t) == Cardinality({i \in DOMAIN s : s[i] = t})

\* The requests and responses on their way for a task.
InFlight(t) ==
  LET a == AdapterOf[t]
  IN  Occurrences(requests[a], t) + Occurrences(batch[a], t) + responses[t]

-----------------------------------------------------------------------------
Init ==
  /\ commander!Init
  /\ registered = {}
  /\ status = [t \in Tasks |-> "Idle"]
  /\ age = [t \in Tasks |-> Never]
  /\ pc = "idle"
  /\ unread = {}
  /\ queued = {}
  /\ launching = NoRun
  /\ handles = <<>>
  /\ runs = [r \in RunIds |-> NotRunning]
  /\ newTasks = [a \in Adapters |-> <<>>]
  /\ requests = [a \in Adapters |-> <<>>]
  /\ batch = [a \in Adapters |-> <<>>]
  /\ answering = [a \in Adapters |-> FALSE]
  /\ outputs = [a \in Adapters |-> {}]
  /\ responses = [t \in Tasks |-> 0]
  /\ stored = {}
  /\ nodeUp = [a \in Adapters |-> TRUE]
  /\ announced = {}

-----------------------------------------------------------------------------
(* Broker::tick *)

StartTick ==
  /\ pc = "idle"
  /\ pc' = "read"
  /\ unread' = Adapters
  /\ UNCHANGED <<registryVars, queued, launching, handles, runs, newTasks,
                 nodeVars, replyVars, announced>>

Arrived(a) == {newTasks[a][i] : i \in DOMAIN newTasks[a]}

\* One iteration of read_new_tasks, in the order of a HashMap.  A lock that a
\* run still holds makes try_lock().unwrap() panic.
ReadNewTasks(a) ==
  /\ pc = "read"
  /\ a \in unread
  /\ ~Locked(a)
  /\ commander!AddTasks(newTasks[a])
  /\ registered' = registered \union Arrived(a)
  /\ status' = [t \in Tasks |-> IF t \in Arrived(a) THEN "Idle" ELSE status[t]]
  /\ age' = [t \in Tasks |-> IF t \in Arrived(a) THEN Never ELSE age[t]]
  /\ newTasks' = [newTasks EXCEPT ![a] = <<>>]
  /\ unread' = unread \ {a}
  /\ UNCHANGED <<pc, queued, launching, handles, runs, nodeVars, replyVars,
                 announced>>

TryLockPanics(a) ==
  /\ pc = "read"
  /\ a \in unread
  /\ Locked(a)
  /\ pc' = "try_lock_panicked"
  /\ UNCHANGED <<registryVars, unread, queued, launching, handles, runs,
                 newTasks, nodeVars, replyVars, announced>>

\* Nothing is registered: tick returns Ok before it advances the time.
NothingToDo ==
  /\ pc = "read"
  /\ unread = {}
  /\ tasks = <<>>
  /\ pc' = "idle"
  /\ UNCHANGED <<registryVars, unread, queued, launching, handles, runs,
                 newTasks, nodeVars, replyVars, announced>>

\* The next task joins the ones an earlier tick queued and did not launch.
QueueNext(t) ==
  /\ pc = "read"
  /\ unread = {}
  /\ commander!GetNext(t)
  /\ status' = [status EXCEPT ![t] = "Queued"]
  /\ queued' = {u \in registered : status'[u] = "Queued"}
  /\ pc' = "launch"
  /\ UNCHANGED <<registered, age, unread, launching, handles, runs, newTasks,
                 nodeVars, replyVars, announced>>

\* check_trigger
Triggered(t) == age[t] = Never \/ age[t] >= Span[t]

\* get_task_inputs finds something to send.
HasInputs(t) == Reads[t] \intersect stored # {}

SkipUntriggered(t) ==
  /\ pc = "launch"
  /\ t \in queued
  /\ ~Triggered(t)
  /\ queued' = queued \ {t}
  /\ UNCHANGED <<registryVars, pc, unread, launching, handles, runs, newTasks,
                 nodeVars, replyVars, announced>>

\* One iteration of the launch loop up to the spawn.  `early' records that the
\* task has inputs and no last execution time: topic_updated needs the latter.
Launch(t) ==
  /\ pc = "launch"
  /\ t \in queued
  /\ Triggered(t)
  /\ \E r \in RunIds :
       /\ IsFree(r)
       /\ \A s \in RunIds : s < r => ~IsFree(s)
       /\ runs' = [runs EXCEPT ![r] =
                     [task |-> t, at |-> "spawned", polls |-> 0, result |-> "none",
                      early |-> age[t] = Never /\ HasInputs(t)]]
       /\ launching' = r
  /\ status' = [status EXCEPT ![t] = "Executing"]
  /\ queued' = queued \ {t}
  /\ pc' = "record"
  /\ UNCHANGED <<tasks, current, registered, age, unread, handles, newTasks,
                 nodeVars, replyVars, announced>>

Recorded(t) ==
  /\ age' = [age EXCEPT ![t] = 0]
  /\ handles' = Append(handles, launching)
  /\ launching' = NoRun
  /\ pc' = "launch"
  /\ UNCHANGED <<tasks, current, registered, status, unread, queued, runs,
                 newTasks, nodeVars, replyVars, announced>>

\* The rest of the iteration, when tick gets the lock of the inputs list before
\* the run does: the list is empty.
RecordFirst ==
  /\ pc = "record"
  /\ runs[launching].at = "spawned"
  /\ Recorded(runs[launching].task)

\* The run got that lock first and kept it to its end; tick finds the inputs
\* in the list unless the run failed before it filled it.
FedEarly(r) == runs[r].early /\ runs[r].result # "failed"

RecordAfterRun ==
  /\ pc = "record"
  /\ runs[launching].at = "done"
  /\ ~FedEarly(launching)
  /\ Recorded(runs[launching].task)

\* topic_updated unwraps the last execution time of a task that never ran.
TopicUpdatedPanics ==
  /\ pc = "record"
  /\ runs[launching].at = "done"
  /\ FedEarly(launching)
  /\ pc' = "topic_updated_panicked"
  /\ UNCHANGED <<registryVars, unread, queued, launching, handles, runs,
                 newTasks, nodeVars, replyVars, announced>>

\* The loop is over: BrokerTime::update.
UpdateTime(delta) ==
  /\ pc = "launch"
  /\ queued = {}
  /\ age' = [t \in Tasks |-> IF age[t] = Never THEN Never
                             ELSE Min2(age[t] + delta, MaxAge)]
  /\ pc' = "await"
  /\ UNCHANGED <<tasks, current, registered, status, unread, queued, launching,
                 handles, runs, newTasks, nodeVars, replyVars, announced>>

AwaitCompleted ==
  /\ pc = "await"
  /\ handles # <<>>
  /\ LET r == Head(handles)
     IN  /\ runs[r].at = "done"
         /\ runs[r].result = "ok"
         /\ status' = [status EXCEPT ![runs[r].task] = "Completed"]
         /\ runs' = [runs EXCEPT ![r] = NotRunning]
  /\ handles' = Tail(handles)
  /\ UNCHANGED <<tasks, current, registered, age, pc, unread, queued, launching,
                 newTasks, nodeVars, replyVars, announced>>

\* MUTATION of DropHandles: the remaining handles wait for the next tick.
KeepHandles ==
  /\ runs' = [runs EXCEPT ![Head(handles)] = NotRunning]
  /\ handles' = Tail(handles)

\* The remaining handles are dropped, which detaches the runs behind them.
DropHandles ==
  /\ runs' = [r \in RunIds |-> IF runs[r].at = "done" THEN NotRunning
                                                      ELSE runs[r]]
  /\ handles' = <<>>

\* The first failure ends the tick: the task is forgotten everywhere.
AwaitFailed ==
  /\ pc = "await"
  /\ handles # <<>>
  /\ LET r == Head(handles)
         t == runs[r].task
     IN  /\ runs[r].at = "done"
         /\ runs[r].result # "ok"
         /\ registered' = registered \ {t}
         /\ status' = [status EXCEPT ![t] = "Idle"]
         /\ age' = [age EXCEPT ![t] = Never]
         /\ commander!RemoveTask(t)
  /\ DropHandles
  /\ pc' = "idle"
  /\ UNCHANGED <<unread, queued, launching, newTasks, nodeVars, replyVars,
                 announced>>

\* MUTATION of TickReturns: tick does not wait for the runs it spawned.
TickReturnsEarly ==
  /\ pc = "await"
  /\ pc' = "idle"
  /\ handles' = <<>>
  /\ UNCHANGED <<registryVars, unread, queued, launching, runs, newTasks,
                 nodeVars, replyVars, announced>>

TickReturns ==
  /\ pc = "await"
  /\ handles = <<>>
  /\ pc' = "idle"
  /\ UNCHANGED <<registryVars, unread, queued, launching, handles, runs,
                 newTasks, nodeVars, replyVars, announced>>

Panics == {"try_lock_panicked", "topic_updated_panicked"}
Panicked == pc \in Panics

\* The thread of the broker is gone; the other actors go on.
Halted == Panicked /\ UNCHANGED vars

-----------------------------------------------------------------------------
(* The spawned executions *)

runFrame == <<registryVars, tickVars, newTasks, announced>>

\* The run takes the adapter's lock and the lock of its inputs list, sends the
\* inputs and the request.
RunSend(r) ==
  LET a == Adapter(r)
      t == runs[r].task
  IN  /\ runs[r].at = "spawned"
      /\ ~Locked(a)
      /\ nodeUp[a]
      /\ InFlight(t) < MaxInFlight
      /\ requests' = [requests EXCEPT ![a] = Append(@, t)]
      /\ runs' = [runs EXCEPT ![r].at = "sent"]
      /\ UNCHANGED <<runFrame, batch, answering, nodeUp, replyVars>>

\* The node dropped its end of the channel: send_inputs, or send_execute when
\* there are no inputs, returns an error.
RunSendFails(r) ==
  /\ runs[r].at = "spawned"
  /\ ~Locked(Adapter(r))
  /\ ~nodeUp[Adapter(r)]
  /\ Finish(r, "failed")
  /\ UNCHANGED <<runFrame, nodeVars, replyVars>>

\* MUTATION of Taken: a run stores only what its own task has written.
TakenByItsTask(r) == outputs[Adapter(r)] \intersect {runs[r].task}

Taken(r) == outputs[Adapter(r)]

\* recv_outputs until there are no more: whatever this adapter has received.
RunDrain(r) ==
  LET a == Adapter(r)
  IN  /\ runs[r].at \in {"sent", "waiting"}
      /\ runs[r].polls < MaxPolls
      /\ stored' = stored \union Taken(r)
      /\ outputs' = [outputs EXCEPT ![a] = {}]
      /\ runs' = [runs EXCEPT ![r].at = "drained"]
      /\ UNCHANGED <<runFrame, nodeVars, responses>>

\* MUTATION of RunAnswered: the response is found and left where it is.
AnsweredByAPeek(r) ==
  /\ runs[r].at = "drained"
  /\ responses[runs[r].task] > 0
  /\ Finish(r, "ok")
  /\ UNCHANGED <<runFrame, nodeVars, replyVars>>

\* recv_response finds a response with the id of the task.
RunAnswered(r) ==
  LET t == runs[r].task
  IN  /\ runs[r].at = "drained"
      /\ responses[t] > 0
      /\ responses' = [responses EXCEPT ![t] = @ - 1]
      /\ Finish(r, "ok")
      /\ UNCHANGED <<runFrame, nodeVars, outputs, stored>>

\* It finds none: a non-blocking run is done all the same.
RunUnanswered(r) ==
  LET t == runs[r].task
  IN  /\ runs[r].at = "drained"
      /\ responses[t] = 0
      /\ IF t \in NonBlocking
         THEN Finish(r, "ok")
         ELSE LET polls == runs[r].polls + 1
              IN  runs' = [runs EXCEPT ![r] =
                             [@ EXCEPT !.at = "waiting", !.polls = polls]]
      /\ UNCHANGED <<runFrame, nodeVars, replyVars>>

\* MUTATION of RunTimeout: nobody looks at the clock.
NeverTimesOut(r) == FALSE

\* MUTATION of RunTimeout: a time-out is no failure.
TimeoutIsNoFailure(r) ==
  /\ runs[r].at \in {"sent", "waiting"}
  /\ runs[r].task \notin NonBlocking
  /\ Finish(r, "ok")
  /\ UNCHANGED <<runFrame, nodeVars, replyVars>>

\* 500 ms after the request.  The clock is read before each look, the first one
\* included.
RunTimeout(r) ==
  /\ runs[r].at \in {"sent", "waiting"}
  /\ runs[r].task \notin NonBlocking
  /\ Finish(r, "timeout")
  /\ UNCHANGED <<runFrame, nodeVars, replyVars>>

-----------------------------------------------------------------------------
(* The nodes *)

nodeFrame == <<registryVars, tickVars, runs, stored>>

\* BrokerNode::add_task
Announce(t) ==
  LET a == AdapterOf[t]
  IN  /\ t \notin announced
      /\ nodeUp[a]
      /\ announced' = announced \union {t}
      /\ newTasks' = [newTasks EXCEPT ![a] = Append(@, t)]
      /\ UNCHANGED <<nodeFrame, nodeVars, outputs, responses>>

\* BrokerNode::tick up to recv_execute, which takes every request there is.
NodeReceive(a) ==
  /\ nodeUp[a]
  /\ batch[a] = <<>>
  /\ requests[a] # <<>>
  /\ batch' = [batch EXCEPT ![a] = requests[a]]
  /\ requests' = [requests EXCEPT ![a] = <<>>]
  /\ UNCHANGED <<nodeFrame, newTasks, answering, nodeUp, outputs, responses,
                 announced>>

\* on_execute of the first request, which writes something, and send_outputs.
NodeExecute(a) ==
  /\ batch[a] # <<>>
  /\ ~answering[a]
  /\ outputs' = [outputs EXCEPT ![a] = @ \union {Head(batch[a])}]
  /\ answering' = [answering EXCEPT ![a] = TRUE]
  /\ UNCHANGED <<nodeFrame, newTasks, requests, batch, nodeUp, responses,
                 announced>>

\* MUTATION of NodeRespond: the node stays with the request it has answered.
NodeRespondsOn(a) ==
  /\ answering[a]
  /\ responses' = [responses EXCEPT ![Head(batch[a])] = @ + 1]
  /\ batch' = [batch EXCEPT ![a] = Tail(@)]
  /\ UNCHANGED <<nodeFrame, newTasks, requests, answering, nodeUp, outputs,
                 announced>>

NodeRespond(a) ==
  /\ answering[a]
  /\ responses' = [responses EXCEPT ![Head(batch[a])] = @ + 1]
  /\ batch' = [batch EXCEPT ![a] = Tail(@)]
  /\ answering' = [answering EXCEPT ![a] = FALSE]
  /\ UNCHANGED <<nodeFrame, newTasks, requests, nodeUp, outputs, announced>>

\* on_execute fails and ends the node's tick: the drained requests behind it
\* are lost with it.
NodeFails(a) ==
  /\ batch[a] # <<>>
  /\ ~answering[a]
  /\ batch' = [batch EXCEPT ![a] = <<>>]
  /\ UNCHANGED <<nodeFrame, newTasks, requests, answering, nodeUp, outputs,
                 responses, announced>>

\* The node is dropped: its end of the channel closes.
NodeStops(a) ==
  /\ nodeUp[a]
  /\ nodeUp' = [nodeUp EXCEPT ![a] = FALSE]
  /\ requests' = [requests EXCEPT ![a] = <<>>]
  /\ batch' = [batch EXCEPT ![a] = <<>>]
  /\ answering' = [answering EXCEPT ![a] = FALSE]
  /\ UNCHANGED <<nodeFrame, newTasks, outputs, responses, announced>>

-----------------------------------------------------------------------------
Tick ==
  \/ StartTick
  \/ \E a \in Adapters : ReadNewTasks(a) \/ TryLockPanics(a)
  \/ NothingToDo
  \/ \E t \in Tasks : QueueNext(t) \/ SkipUntriggered(t) \/ Launch(t)
  \/ RecordFirst \/ RecordAfterRun \/ TopicUpdatedPanics
  \/ \E delta \in Deltas : UpdateTime(delta)
  \/ AwaitCompleted \/ AwaitFailed \/ TickReturns

RunStep(r) ==
  \/ RunSend(r) \/ RunSendFails(r)
  \/ RunDrain(r) \/ RunAnswered(r) \/ RunUnanswered(r) \/ RunTimeout(r)

Node(a) ==
  NodeReceive(a) \/ NodeExecute(a) \/ NodeRespond(a) \/ NodeFails(a) \/ NodeStops(a)

Next ==
  \/ Tick
  \/ \E r \in RunIds : RunStep(r)
  \/ \E t \in Tasks : Announce(t)
  \/ \E a \in Adapters : Node(a)
  \/ Halted

Spec == Init /\ [][Next]_vars

(***************************************************************************)
(* The broker's thread calls tick in a loop.  The runtime polls every      *)
(* spawned future; its Mutex serves waiters in order, so a run that waits  *)
(* for a lock that is released again and again gets it.  Nothing is        *)
(* assumed of the nodes, of the calls to add_task, or that time-outs come  *)
(* late.                                                                   *)
(***************************************************************************)
RunFairness(r) ==
  /\ SF_vars(RunSend(r) \/ RunSendFails(r))
  /\ WF_vars(RunDrain(r) \/ RunAnswered(r) \/ RunUnanswered(r) \/ RunTimeout(r))

Fairness == WF_vars(Tick) /\ \A r \in RunIds : RunFairness(r)

FairSpec == Spec /\ Fairness

-----------------------------------------------------------------------------
(* Properties *)

Statuses == {"Idle", "Queued", "Executing", "Completed"}
Stages == {"free", "spawned", "sent", "drained", "waiting", "done"}
Results == {"none", "ok", "failed", "timeout"}
Run == [task : Tasks \union {NoTask}, at : Stages, early : BOOLEAN,
        polls : Nat, result : Results]

RegistryTypeOK ==
  /\ tasks \in Seq(Tasks)
  /\ current \in Nat
  /\ registered \subseteq Tasks
  /\ status \in [Tasks -> Statuses]
  /\ age \in [Tasks -> {Never} \union (0..MaxAge)]

TickTypeOK ==
  /\ pc \in {"idle", "read", "launch", "record", "await"} \union Panics
  /\ unread \subseteq Adapters
  /\ queued \subseteq Tasks
  /\ launching \in {NoRun} \union RunIds
  /\ handles \in Seq(RunIds)

RunTypeOK ==
  /\ runs \in [RunIds -> Run]
  /\ \A r \in RunIds : runs[r].task = NoTask <=> runs[r].at = "free"

NodeTypeOK ==
  /\ newTasks \in [Adapters -> Seq(Tasks)]
  /\ requests \in [Adapters -> Seq(Tasks)]
  /\ batch \in [Adapters -> Seq(Tasks)]
  /\ answering \in [Adapters -> BOOLEAN]
  /\ \A a \in Adapters : answering[a] => batch[a] # <<>>
  /\ outputs \in [Adapters -> SUBSET Tasks]
  /\ responses \in [Tasks -> Nat]
  /\ stored \subseteq Tasks
  /\ nodeUp \in [Adapters -> BOOLEAN]
  /\ announced \subseteq Tasks

\* Every variable has its type; a free run has no task, and a node that answers
\* has a request to answer.
TypeOK == RegistryTypeOK /\ TickTypeOK /\ RunTypeOK /\ NodeTypeOK

\* The commander lists exactly the tasks the broker has a state and a
\* configuration for, each once, and its index is one of the list's.  The
\* launch loop, set_task_status and get_tasks_with_status index one with the
\* keys of the other; a removal rewrites both and resets the index.
RegistryAgrees ==
  /\ commander!Listed = registered
  /\ \A i, j \in DOMAIN tasks : tasks[i] = tasks[j] => i = j
  /\ current < Len(tasks) \/ (current = 0 /\ tasks = <<>>)

\* Every unwrap() tick does on task_states, task_configs or adapters finds its
\* entry: what the launch loop is about to visit, the run it is recording and
\* the runs it awaits belong to registered tasks, though an error return, a
\* removal or a late result may come between any two of these steps.
LookupsSafe ==
  /\ queued \subseteq registered
  /\ pc = "record" => runs[launching].task \in registered
  /\ \A i \in DOMAIN handles : runs[handles[i]].task \in registered

\* The tasks the broker has read and forgotten again.
Dropped ==
  {t \in announced \ registered : t \notin Arrived(AdapterOf[t])}

\* As long as no execution has failed, nothing the broker spawned outlives the
\* tick that spawned it: between two ticks no run is alive and no task is left
\* in Executing.
QuietBetweenTicks ==
  Dropped = {} /\ pc \in {"idle", "read"} =>
    /\ \A r \in RunIds : IsFree(r)
    /\ \A t \in registered : status[t] # "Executing"

\* As long as no execution has failed, read_new_tasks finds every adapter
\* unlocked.
NoLockPanicBeforeFailure ==
  Dropped = {} => pc # "try_lock_panicked"

\* A run that waits for a response takes the one to its own request:
\* afterwards nothing is on its way for its task.  (recv_response takes the
\* first response with the id of the task, whichever request it answers.)
TakesOwnResponse(r) ==
  \A t \in Tasks \ NonBlocking :
    RunAnswered(r) /\ runs[r].task = t => InFlight(t)' = 0

ResponseIsOwn == [][\A r \in RunIds : TakesOwnResponse(r)]_vars

\* The same as long as no execution has failed.
ResponseIsOwnBeforeFailure ==
  [][Dropped = {} => \A r \in RunIds : TakesOwnResponse(r)]_vars

\* The call a blocking task has with its node, as its caller and the queues between
\* them have it.
Calling(t) == \E r \in RunIds : runs[r].task = t /\ runs[r].at \in {"sent", "drained", "waiting"}
TimedOut(t) ==
  \E r \in RunIds : runs[r].task = t /\ runs[r].at = "done" /\ runs[r].result = "timeout"
AtNode(t) == Occurrences(requests[AdapterOf[t]], t) + Occurrences(batch[AdapterOf[t]], t) > 0

CallStage(t) ==
  IF TimedOut(t) THEN "given up"
  ELSE IF ~Calling(t) THEN "idle"
  ELSE IF responses[t] > 0 THEN "answered"
  ELSE IF AtNode(t) THEN "asked" ELSE "lost"

Calls == INSTANCE RemoteCalls WITH
           Callers <- Tasks \ NonBlocking,
           stage <- [t \in Tasks \ NonBlocking |-> CallStage(t)],
           broken <- Dropped # {}

\* Until an execution has failed, broker, adapters and nodes implement calls that
\* are made one at a time per task, answered at most once and only when asked, and
\* not repeated after a time-out: though a response only names its task, requests
\* are drained in batches and failing nodes lose some of them.
ImplementsCalls == Calls!CallsSpec

\* The broker's thread never dies in read_new_tasks.
NeverPanicsAtTryLock == pc # "try_lock_panicked"

\* It never dies in topic_updated.
NeverPanicsAtTopicUpdated == pc # "topic_updated_panicked"

\* When a blocking execution is reported Completed, the outputs the node sent
\* before its response are in the datastore or in the adapter's queue: no
\* order of polling loses them.
CompletedOutputsKept ==
  \A t \in registered \ NonBlocking :
    status[t] = "Completed" => t \in stored \union outputs[AdapterOf[t]]

\* A tick always comes to an end, whatever the nodes do or fail to do: no run
\* waits for a lock or a response for ever, and neither does tick.
TickEnds == pc # "idle" ~> pc = "idle" \/ Panicked

\* A task that is announced gets an execution that completes, or is dropped,
\* or the broker panics, however the other tasks behave.
TaskServed ==
  \A t \in Tasks :
    t \in announced ~> status[t] = "Completed" \/ t \in Dropped \/ Panicked

=============================================================================
