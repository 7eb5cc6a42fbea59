------------------------------ MODULE DataFlow ------------------------------
(***************************************************************************)
(* Which values of a topic reach the tasks that subscribe to it: the times *)
(* the broker keeps per task, the queries they select rows with, the two   *)
(* queues between broker and node, the view of the node and the filter it  *)
(* applies again.                                                          *)
(*                                                                         *)
(* Writers write the topic X and stamp it with the time of their request;  *)
(* readers subscribe to it.  All tasks belong to one node behind one       *)
(* channel adapter.  Module Broker has the control around this: here every *)
(* tick launches an arbitrary set of tasks (what the commander queued and  *)
(* the triggers let pass) and no execution fails.                          *)
(***************************************************************************)
EXTENDS Sequences, DataView

CONSTANTS
  Writers, Readers,
  Mode,         \* of a reader's subscription: "latest" or "new"
  NonBlocking,  \* the tasks with BrokerCommanderFlags::NonBlocking
  Deltas,       \* the delta_time values tick is called with
  MaxTicks,     \* bound on the calls of tick
  NoTask

Tasks == Writers \union Readers
Never == -1    \* last_execution_time is None

ASSUME FlowAssumption ==
  /\ Writers \intersect Readers = {}
  /\ NoTask \notin Tasks
  /\ Mode \in [Readers -> {"latest", "new"}]
  /\ NonBlocking \subseteq Tasks
  /\ Deltas \subseteq Nat
  /\ MaxTicks \in Nat

VARIABLES
  ticks,       \* how often tick was called
  time,        \* BrokerTime::time_monotonic
  lastRun,     \* BrokerTaskState::last_execution_time
  lastUpdate,  \* BrokerTaskState::last_topic_update
  pc, todo,    \* tick, and the tasks it has still to launch
  launching,   \* the task whose launch it has not recorded yet
  runs,        \* per task: the spawned execution
  buckets,     \* of the broker's datastore
  inputs, requests,     \* from the broker to the node
  outputs, responses,   \* from the node to the broker
  nodePc, view, batch,  \* the node
  writes,      \* the last value written
  sent,        \* history, per reader: the values a launch selected
  late         \* history, per reader: the values stored after a launch at a later time

brokerVars == <<ticks, time, lastRun, lastUpdate, pc, todo, launching>>
nodeVars == <<nodePc, view, batch, writes>>
vars == <<brokerVars, runs, buckets, inputs, requests, outputs, responses, nodeVars, sent, late>>

X == <<"x">>

NotRunning == [at |-> "none", inputs |-> NewView, now |-> 0, last |-> Never]

\* The adapter's lock is taken before the inputs are sent.
Locked == \E t \in Tasks : runs[t].at \in {"fed", "asked", "drained"}

Init ==
  /\ ticks = 0 /\ time = 0
  /\ lastRun = [t \in Tasks |-> Never]
  /\ lastUpdate = [t \in Tasks |-> [topic \in {} |-> 0]]
  /\ pc = "idle" /\ todo = {} /\ launching = NoTask
  /\ runs = [t \in Tasks |-> NotRunning]
  /\ buckets = [topic \in {} |-> NoRows]
  /\ inputs = <<>> /\ requests = <<>> /\ outputs = <<>>
  /\ responses = [t \in Tasks |-> 0]
  /\ nodePc = "inputs" /\ view = NewView /\ batch = <<>>
  /\ writes = 0
  /\ sent = [r \in Readers |-> {}]
  /\ late = [r \in Readers |-> {}]

-----------------------------------------------------------------------------
(* Broker::tick *)

tickFrame == <<inputs, requests, outputs, responses, buckets, nodeVars, late>>

StartTick ==
  /\ pc = "idle"
  /\ ticks < MaxTicks
  /\ ticks' = ticks + 1
  /\ todo' \in SUBSET Tasks \ {{}}
  /\ pc' = "launch"
  /\ UNCHANGED <<time, lastRun, lastUpdate, launching, runs, sent, tickFrame>>

\* get_task_inputs; a task that never ran asks from time zero on.
TaskInputs(t) ==
  IF t \notin Readers THEN NewView
  ELSE IF Mode[t] = "latest" THEN AddQuery(NewView, buckets, DOMAIN buckets)
  ELSE AddQueryAfterPer(NewView, buckets, DOMAIN buckets,
                        IF lastRun[t] = Never THEN 0 ELSE lastRun[t], lastUpdate[t])

Values(of) == {of[topic].value : topic \in DOMAIN of}

Launch(t) ==
  /\ pc = "launch" /\ launching = NoTask
  /\ t \in todo
  /\ launching' = t
  /\ runs' = [runs EXCEPT ![t] =
                [at |-> "spawned", inputs |-> TaskInputs(t), now |-> time, last |-> lastRun[t]]]
  /\ sent' = [r \in Readers |-> IF r = t THEN sent[r] \union Values(TaskInputs(t)) ELSE sent[r]]
  /\ UNCHANGED <<ticks, time, lastRun, lastUpdate, pc, todo, tickFrame>>

\* set_last_execution_time, after topic_updated.
Recorded ==
  /\ lastRun' = [lastRun EXCEPT ![launching] = time]
  /\ todo' = todo \ {launching}
  /\ launching' = NoTask
  /\ UNCHANGED <<ticks, time, pc, runs, sent, tickFrame>>

\* tick finds the list of inputs empty, as the execution has not started.
RecordFirst ==
  /\ launching # NoTask
  /\ runs[launching].at = "spawned"
  /\ UNCHANGED lastUpdate
  /\ Recorded

\* The execution has kept the list locked to its end: topic_updated notes the
\* previous execution as the time of each topic.  (Without one it panics: see
\* module Broker.)
RecordAfterRun ==
  /\ launching # NoTask
  /\ runs[launching].at = "done"
  /\ runs[launching].inputs # NewView => lastRun[launching] # Never
  /\ lastUpdate' = [lastUpdate EXCEPT ![launching] =
       Overwritten(@, [topic \in DOMAIN runs[launching].inputs |-> lastRun[launching]])]
  /\ Recorded

UpdateTime(delta) ==
  /\ pc = "launch" /\ todo = {}
  /\ time' = time + delta
  /\ pc' = "await"
  /\ UNCHANGED <<ticks, lastRun, lastUpdate, todo, launching, runs, sent, tickFrame>>

\* All executions are done.
TickReturns ==
  /\ pc = "await"
  /\ \A t \in Tasks : runs[t].at \in {"none", "done"}
  /\ runs' = [t \in Tasks |-> NotRunning]
  /\ pc' = "idle"
  /\ UNCHANGED <<ticks, time, lastRun, lastUpdate, todo, launching, sent, tickFrame>>

Tick ==
  \/ StartTick \/ \E t \in Tasks : Launch(t)
  \/ RecordFirst \/ RecordAfterRun \/ \E delta \in Deltas : UpdateTime(delta)
  \/ TickReturns

-----------------------------------------------------------------------------
(* The spawned executions *)

runFrame == <<brokerVars, nodeVars, sent>>

Datapoint(of, topic) == [topic |-> topic, time |-> of[topic].time, value |-> of[topic].value]

\* The lock, and send_inputs.
RunFeeds(t) ==
  /\ runs[t].at = "spawned" /\ ~Locked
  /\ inputs' = inputs \o
       (IF X \in DOMAIN runs[t].inputs THEN <<Datapoint(runs[t].inputs, X)>> ELSE <<>>)
  /\ runs' = [runs EXCEPT ![t].at = "fed"]
  /\ UNCHANGED <<runFrame, buckets, requests, outputs, responses, late>>

\* MUTATION of Request: the execution it is about is already the last one.
RequestWithNow(t) == [task |-> t, now |-> runs[t].now, last |-> runs[t].now]

\* BrokerTime of the request: time_last_monotonic is the task's previous execution.
Request(t) == [task |-> t, now |-> runs[t].now, last |-> runs[t].last]

\* send_execute
RunAsks(t) ==
  /\ runs[t].at = "fed"
  /\ requests' = Append(requests, Request(t))
  /\ runs' = [runs EXCEPT ![t].at = "asked"]
  /\ UNCHANGED <<runFrame, buckets, inputs, outputs, responses, late>>

BucketOf(bs) == IF X \in DOMAIN bs THEN bs[X] ELSE [rows |-> NoRows, maxRows |-> NoLimit]

\* The bucket along the datapoints of a call: at i, after the first i of them.
BucketAlong(bucket, ds) ==
  LET after[i \in 0..Len(ds)] == IF i = 0 THEN bucket ELSE Added(after[i - 1], ds[i])
  IN  after

\* add_datapoints of what recv_outputs returned.
Stored(bs, ds) ==
  IF ds = <<>> THEN bs
  ELSE Overwritten(bs, [topic \in {X} |-> BucketAlong(BucketOf(bs), ds)[Len(ds)]])

LaunchedAt(r) == IF runs[r].at = "none" THEN lastRun[r] ELSE runs[r].now

\* recv_outputs until there are no more, of whatever task.
RunDrains(t) ==
  /\ runs[t].at = "asked"
  /\ buckets' = Stored(buckets, outputs)
  /\ late' = [r \in Readers |-> late[r] \union
       {outputs[i].value : i \in {i \in DOMAIN outputs : outputs[i].time < LaunchedAt(r)}}]
  /\ outputs' = <<>>
  /\ runs' = [runs EXCEPT ![t].at = "drained"]
  /\ UNCHANGED <<runFrame, inputs, requests, responses>>

\* recv_response
RunEnds(t) ==
  /\ runs[t].at = "drained"
  /\ IF responses[t] > 0
     THEN /\ responses' = [responses EXCEPT ![t] = @ - 1]
          /\ runs' = [runs EXCEPT ![t].at = "done"]
     ELSE /\ runs' = [runs EXCEPT ![t].at = IF t \in NonBlocking THEN "done" ELSE "asked"]
          /\ UNCHANGED responses
  /\ UNCHANGED <<runFrame, buckets, inputs, requests, outputs, late>>

Run(t) == RunFeeds(t) \/ RunAsks(t) \/ RunDrains(t) \/ RunEnds(t)

-----------------------------------------------------------------------------
(* BrokerNode::tick *)

nodeFrame == <<brokerVars, runs, buckets, sent, late>>

\* A view with these datapoints inserted, one after the other.
Filled(of, ds) ==
  Overwritten(of,
    [topic \in {ds[i].topic : i \in DOMAIN ds} |->
       LET about == {i \in DOMAIN ds : ds[i].topic = topic}
           last == ds[CHOOSE i \in about : \A j \in about : j <= i]
       IN  [time |-> last.time, value |-> last.value]])

\* recv_inputs, into the view.
NodeInputs ==
  /\ nodePc = "inputs"
  /\ view' = Filled(view, inputs)
  /\ inputs' = <<>>
  /\ nodePc' = "requests"
  /\ UNCHANGED <<nodeFrame, batch, writes, requests, outputs, responses>>

\* recv_execute: what has come in since then is not in the view.
NodeRequests ==
  /\ nodePc = "requests"
  /\ batch' = requests
  /\ requests' = <<>>
  /\ nodePc' = IF requests = <<>> THEN "inputs" ELSE "execute"
  /\ UNCHANGED <<nodeFrame, view, writes, inputs, outputs, responses>>

\* get_inputs
Given(request) ==
  IF Mode[request.task] = "latest" THEN AddQueryFromView(NewView, view, X)
  ELSE AddQueryAfterFromView(NewView, view, X, IF request.last = Never THEN 0 ELSE request.last)

\* MUTATION of Stamp: the writer counts the current period as over.
StampAhead(request) == request.now + 1

\* The view of a writer's outputs is made with the time of its request.
Stamp(request) == request.now

\* One request: a writer's outputs, and the response.
NodeExecutes ==
  LET request == Head(batch)
  IN  /\ nodePc = "execute"
      /\ IF request.task \in Writers
         THEN /\ writes' = writes + 1
              /\ outputs' = Append(outputs, [topic |-> X, time |-> Stamp(request), value |-> writes'])
         ELSE UNCHANGED <<writes, outputs>>
      /\ responses' = [responses EXCEPT ![request.task] = @ + 1]
      /\ batch' = Tail(batch)
      /\ nodePc' = IF batch' = <<>> THEN "inputs" ELSE "execute"
      /\ UNCHANGED <<nodeFrame, view, inputs, requests>>

Node == NodeInputs \/ NodeRequests \/ NodeExecutes

Next == Tick \/ (\E t \in Tasks : Run(t)) \/ Node

Spec == Init /\ [][Next]_vars

-----------------------------------------------------------------------------
(* Properties *)

Dated(of) == \A topic \in DOMAIN of : topic = X /\ of[topic].time \in 0..time

\* No datapoint, wherever it is, is newer than the broker's time, and no task has
\* a last execution or a topic update in its future.
TypeOK ==
  /\ ticks \in 0..MaxTicks
  /\ \A t \in Tasks :
       /\ lastRun[t] \in {Never} \union 0..time
       /\ Dated(runs[t].inputs)
       /\ \A topic \in DOMAIN lastUpdate[t] : lastUpdate[t][topic] \in 0..lastRun[t]
       /\ responses[t] \in 0..MaxTicks
  /\ \A i \in DOMAIN inputs : inputs[i].time \in 0..time
  /\ \A i \in DOMAIN outputs : outputs[i].time \in 0..time
  /\ Dated(view)
  /\ launching # NoTask => launching \in todo

\* A NewValues subscription skips no value the store holds as its newest, unless it
\* was stored after the task had been launched at a later time: asking for rows from
\* the last execution on, the equal time included, is enough for every value that
\* comes in time.
MissedOnlyIfLate ==
  [][\A r \in Readers : Launch(r) /\ X \in DOMAIN buckets =>
       Latest(buckets[X].rows) \in sent'[r] \union late[r]]_vars

\* A blocking execution is given the very values that were sent with its request, or they
\* came between the node's drain of inputs and its drain of requests and are still in the
\* adapter's queue; a NewValues subscription is given at least those from its previous
\* execution on.
GivenWhatWasSent ==
  [][\A r \in Readers \ NonBlocking :
       NodeExecutes /\ Head(batch).task = r /\ X \in DOMAIN runs[r].inputs =>
         \/ Datapoint(runs[r].inputs, X) \in {inputs[i] : i \in DOMAIN inputs}
         \/ Mode[r] = "new" /\ runs[r].inputs[X].time < runs[r].last
         \/ /\ X \in DOMAIN Given(Head(batch))
            /\ Given(Head(batch))[X] = runs[r].inputs[X]]_vars

=============================================================================
