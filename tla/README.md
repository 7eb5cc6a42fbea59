# Verification of AutonomyAge: broker, adapters, store

TLA+ models of the Rust crates under `src/libs`, TLC runs that check them on
small instances, and TLAPS proofs of the core invariants for every value of the
constants.

## 1. Inventory

Four crates carry the logic. `src/docs` plans further ones (robots, transports)
that have no code yet; `src/.github/scripts` is repository automation.

| Part | State | Operations | What makes it correct |
|---|---|---|---|
| Linear commander `vs-broker/src/commander/linear.rs` | vector of tasks, index of the next | `add_task`, `get_next_tasks`, `remove_task` | index in range; every task gets its turn |
| Broker `vs-broker/src/broker` | `task_states`, `task_configs`, adapters, datastore, time | `tick`, which spawns one execution per due task | maps and commander agree; the tick ends; failures stay contained; responses and outputs go where they belong |
| Channel adapter `adapters/channel` | two mpsc channels and five queues per end | send and receive per kind of message | nothing lost, nothing taken twice |
| Node `vs-broker/src/node` | its tasks, a view of received inputs | `add_task`, `tick` | every drained request is executed and answered, unless a task fails |
| TCP adapters `adapters/tcp` | list of connections, five queues, one read buffer per connection | same trait as the channel adapter, over sockets | one client's failure stays its own; message boundaries survive |
| Tasks `vs-broker/src/task` | trigger, flags, subscriptions, status, last times | `set_status`, `topic_updated` | new values are delivered once |
| Datastore `vs-data-store/src/database` | buckets, query cache, retention, listeners | `add_*`, `get_*`, `add_listener`, `apply_view` | cache never stale, listeners agree with buckets |
| Bucket `vs-data-store/src/buckets` | rows by time, retention | `add_datapoint` and range reads | only changes are stored, within the policy |
| Data view `database/view.rs` | topic -> datapoint | queries, `add_latest` | one datapoint per topic, the latest that matches |
| Topics `vs-data-store/src/topics` | sections | prefixes, suffixes, `is_child_of`, `matches` | removal undoes addition |
| Serde `vs-data-store/src/primitives/serde` | stack of keys | struct to topics and back | reading back what was written |
| Time `vs-wtf` | seconds, nanoseconds | arithmetic, order | order and equality agree |
| Directories `vs-dir` | none | find or create the application's directory | documented order of candidates |

How they interact. The application calls `Broker::tick` in a loop and
`BrokerNode::tick` in others. A tick takes each adapter's lock with `try_lock`
to read announced tasks, asks the commander for the next one, and spawns every
queued task whose trigger is due on the tokio runtime. A spawned execution
holds the adapter's lock for its whole life: it sends inputs and the request,
then polls for outputs (which it writes to the datastore) and for its response,
up to 500 ms. The tick awaits the executions in order and stops at the first
error. The node drains all requests, executes them one by one and sends outputs,
then the response.

Hard behaviours: tick and executions share two locks; a tick that returns early
leaves executions running; time-outs race late responses; queues are shared by
the tasks of an adapter; two maps and a vector are indexed with each other's
keys; the store caches queries, drops rows and calls back listeners. Each is
listed under `hazards` in `PROJECT.json`, at its line.

## 2. Modules

| Module | Models | Used by |
|---|---|---|
| `LinearCommander` | the commander: `tasks`, `current`, one action per method | INSTANCE in `Broker`, EXTENDS in `CommanderRounds` |
| `CommanderRounds` | the commander under any sequence of calls, with a history variable that counts the turns a task waited | `MCRounds`, `CommanderProofs` |
| `Broker` | `Broker::tick`, the spawned executions, channel adapters and nodes | `MCBroker`, `BrokerProofs` |
| `RemoteCalls` | abstract: the calls a broker makes for its blocking tasks | INSTANCE in `Broker` |
| `Buckets` | operators: a bucket's rows, one insertion, its reads | `Datastore`, `DataView`, `BucketProofs` |
| `TopicKeys` | operators: topic keys, prefixes, `matches` | `Datastore`, `DataView`, `Flatten` |
| `Datastore` | the store with its buckets, cache and listeners | `MCDatastore`, `DatastoreProofs`, INSTANCE in `StructStore` |
| `DataView` | operators: a view and the queries that fill it | `DataFlow`, `StructView` |
| `DataFlow` | the payload's way from a writer through broker, store and node to a reader | `MCFlow`, `DataFlowProofs` |
| `Flatten` | operators: the serializer and the deserializer of structs, as functions of a type and a value | `StructView` |
| `StructView` | operators: structs in a view | `StructStore` |
| `StructRegister` | abstract: a register of structs with snapshots | INSTANCE in `StructStore` |
| `StructStore` | structs written to a store, taken into a view, applied to another store | `MCStructs` |
| `FifoLink` | abstract: a FIFO link that may break | INSTANCE in `TcpConnection` |
| `TcpConnection` | one direction of a TCP connection: two tasks, two channels, the socket, the read buffer | `TcpConnectionProofs`, its own run |
| `TcpServer` | the server adapter with its listener and many clients with their nodes | `MCServer`, `TcpServerProofs` |
| `CollectionLemmas` | lemmas: a sequence without one of its elements, how often it holds one, the ends of a finite set, what a recursive function preserves | the proof modules |
| `BrokerProofs`, `DataFlowProofs`, `CommanderProofs`, `BucketProofs`, `DatastoreProofs`, `TcpServerProofs`, `TcpConnectionProofs` | theorems | |
| `MCBroker`, `MCRounds`, `MCDatastore`, `MCFlow`, `MCStructs`, `MCServer` | values of the constants for TLC | the `.cfg` files |

### Broker

Three kinds of actors interleave.

*The broker's thread* (`pc`): `idle` -> `read` (one step per adapter, in any
order, as a HashMap iterates) -> `launch` (one step per queued task, in any
order) -> `record` (between the spawn and the end of the iteration, where tick
takes the lock of the inputs list) -> `launch` ... -> `await` -> `idle`. The two
`panicked` values are the `unwrap()`s the thread can die of; `Halted` is its
stuttering afterwards, and the other actors go on.

*Executions* (`runs`): `spawned` -> `sent` -> `drained` <-> `waiting` -> `done`.
A step is what happens between two awaits or between two polls of shared state.
From `sent` to its end a run holds its adapter's lock (`Holds`); one that is
still `spawned` waits for it. A run whose handle was dropped frees its slot when
it ends, since nobody reads its result.

*Nodes*: announce a task, drain the requests, execute the head, respond; they
may fail in the middle of a batch (`NodeFails`) and go away (`NodeStops`).

Both ends of a channel adapter drain the mpsc channel before they look at any
queue, and a kind of message has a queue of its own, so channel and queue are
one variable per kind: `newTasks`, `requests`, `outputs`, `responses`.
Responses carry only the task id, so a count per task is all that can be told
apart. `age` is the time since the last execution (`Never` for `None`): the
difference `check_trigger` computes. `stored` and `outputs` hold whose outputs
are where, which is what `HasInputs` (the race on `topic_updated`) and
`CompletedOutputsKept` need; values and time stamps are left out.

`RemoteCalls` is what all this promises for blocking tasks: a task has one call
at a time; a call is answered at most once and only when asked, returns only when
answered, may be lost by the other side, and is given up for good.
`CallStage` maps the broker's state to it (who calls, what is on its way), and the
first failure (`Dropped # {}`) breaks it: afterwards detached runs and late
responses may do anything, as the run `response` shows.

The commander's `Retain` removes one occurrence: task ids are random `u32`s and
`Announce` gives each once. Ids that collide are not modelled.

Not in `Broker`: an execution that panics (the `Err` arm at
`broker/mod.rs:295`; only user code, the listeners, can panic there), real time
(a time-out may come at any moment after the request), the payload of inputs
(`DataFlow`), the TCP adapters (`TcpServer`).

### Datastore, Buckets, TopicKeys

The store is one mutex, so each operation is one step. A topic is the sequence
of its sections, and stands for its bucket, which is never removed. A bucket is
its rows (a function from times to values) and the policy it was created with.
`told` and `toldRaw` are what a listener knows from `on_datapoint` and from
`on_raw_datapoint`: the last value it was told of each topic, or `Untold` when it
was told nothing, or when something was stored without telling it.
`add_datapoints_silent` is silent to the first and not to the second kind. Policies are
values of `max_rows`; `max_age` is read nowhere in the code.

### DataFlow

`Broker` asks who runs and who waits; `DataFlow` asks what they are given. It
keeps, of the same code, what selects rows: `lastRun` and `lastUpdate`, the
query of each subscription (`latest`, or `new` from the last execution on), the
time a request carries, the adapter's queues for inputs, requests and outputs, the
node's view and the filter it applies to it again. A tick launches an arbitrary
subset of the tasks, in an arbitrary order, which contains every choice commander and triggers
can make; executions do not fail. `late` collects, for every reader, what was stored
after the reader had been launched at a later time: the rows its next query
cannot find. `sent` collects what its launches selected.

### Structs: Flatten, StructView, StructStore, StructRegister

A type is a record (`kind` and its parts), a value a tuple, a set with an
optional element, a function. `Write` walks it like the serializer: it carries the one
mutable prefix, its pushes and pops, and the map it fills. `Read` looks leaves up
by key like the deserializer. Whatever can go wrong with keys goes wrong here
too: map keys with slashes, the empty key, integers above `i64`, maps whose keys
are not strings, variants with data.

`StructStore` writes values of a type into a `Datastore` (directly, or through a
task's view of outputs), takes the struct into a view with the cached query, and
applies that view to a second store. `current`, `taken` and `copy` are what
`get_struct`, `get_latest` and `get_struct` of the second store return; they are
observations, computed from the rest at the end of each step, and it is they that are mapped to
`StructRegister`. The register says what users of the store rely on: the last
struct written is read back whole, and a view is one moment of it. It keeps the
structs it took in `log`, which `Reached` maps to those whose leaves have reached the
store, so a step that writes a struct is `Put` of that very struct: a store that
ignored it, or kept another one, would not implement the register. Since no
topic is ever removed, a value with fewer leaves lies over the one before it
(`Overlay`). `Supported` names the types for which this holds; the others are written,
and not claimed to be read.

### TCP: TcpConnection, FifoLink, TcpServer

`TcpConnection` is one direction of a connection, in units of which the socket
holds few: a write takes what fits and forgets the rest, a read takes any part, the
parser takes whole messages off the front and waits while the channel is
full, a buffer above its limit is cleared, an error ends the read (`ReadFails`). It
implements `FifoLink`: no message is repeated or overtaken, and none is lost before the
connection breaks. A broken connection still works. A message above 20 KB that is
cleared, or a short write, takes some messages away while both tasks and both processes go on, and a
message behind them that starts a read is parsed. So `TcpServer` has one sequence each
way per client (`up`, `down`), of bounded length, which keeps its order and from which
`LoseUp` and `LoseDown` take any messages at any time; `lost` has what they took.

`TcpServer` has the listener's task (`Bind`, `Accept`, `PushConnection`,
`ListenerDies`: its two `unwrap()`s or an error of `accept`), the adapter's operations as the broker
calls them, and clients with their nodes. `process_incoming_messages` is `Enter`
and one `DrainNext` per connection, because clients go on sending while the server drains;
the listener's `try_lock`/`lock` on the list of connections is `pushing`. The
broker around it is a loop that reads new tasks and executes one task at a time, which the
lock of an adapter enforces. A client may end at any time; its connection stays
in the list until the server's next write fails.

## 3. Runs

| Run | Instance | Shows |
|---|---|---|
| `serial` | 3 tasks (one non-blocking), 2 adapters, all `Always`, one poll | `TypeOK`, `RegistryAgrees`, no `try_lock` panic, responses are own |
| `mixed` | 2 tasks, `Always` and `Rate(2)`, 2 adapters | `LookupsSafe`, `QuietBetweenTicks`, `ResponseIsOwnBeforeFailure`, `ImplementsCalls` |
| `live` | as `mixed`, one adapter that both tasks share, one poll, with fairness | `TickEnds`, `TaskServed`; `NoLockPanicBeforeFailure`, `CompletedOutputsKept` |
| `rounds` | 4 tasks | `RoundsTypeOK`, `NobodyOvertakes` |
| `store` | a topic and the one below it, 3 times, 2 values, batches of 2, policies 2 and none | `WithinRetention`, `CacheIsFresh`, `OnlyChanges`, `ListenersUpToDate`, `LatestNeverOlder` |
| `structs` | 5 types, 2 or more values each, 3 writes at 3 times, policies 2 and none | `LeavesApart`, `HistoryWhole`, `ChangesFound`, `ImplementsRegister` |
| `flow` | a non-blocking writer, a reader of each mode, 3 ticks | `MissedOnlyIfLate`, `GivenWhatWasSent` |
| `tcp_link` | 4 messages of 1, 3 or 4 units, a socket of 4, a buffer limit of 2 | `CutHasCause`, `ImplementsLink`, `Arrives` |
| `tcp_server` | a client with a task and links of 2 messages, one with none and links of 1; two executions, two lost messages | `KnownReachable`, `InputsBeforeRequest`, `AnswersAfterOutputs`, `AnnouncedIsHeard` |
| `try_lock`, `topic_updated`, `response` | as `mixed` | the disagreements of section 4 |

The run `serial` shows more than `mixed` does because tasks that are always due
never wait in `Queued`: each tick launches exactly one. As soon as a task with
`Rate` stays queued, a tick launches several, and the failure of one detaches
the others.

Bounds of the broker. `MaxRuns = 3`: at most two executions are spawned by a
tick of the two-task instances, and a detached one may be left over. TLC finds
`Launch` never blocked for want of a free slot in any of these instances.
`MaxPolls = 2` gives a poll that finds nothing, another that does, and a
time-out at either. `MaxInFlight = 2` lets a stale response meet a new request,
which is all `response` needs; it also bounds what non-blocking tasks pile up.
`MaxAge` only has to reach the largest span. `Deltas = {1}` with spans 0 and 2
gives ticks that find a task not due, and due.

Bounds of the store. Three times and a policy of two rows reach the drop and the
insertion after it; the parent topic is written in order and the child in any
order, so that rows before, at and after the latest are met. Batches of two
datapoints meet each other in one bucket. The two values are symmetric.

Bounds of structs. `Complex` is the type of the round-trip test; with `Simple`, `Mixed`
(tuple, newtype, enum, option), `Awkward` (a sequence of structs, variants
with data, text keys with slashes or none, a `u64`, a unit) and `Counts` (a map with integer
keys, an error) every method of the serializer is met. `MaxI64 = 4` stands for
the largest `i64`, the `u64` goes to 5. Three writes give a value over
another over a third. The run ends when writes are used up and nothing changes, so
deadlock is not checked.

Bounds of the flow. A writer that does not block the tick, three ticks and three
tasks give a value that is stamped in one tick, stored during the next, and a
reader launched in between. Calls of tick are bounded (`MaxTicks`), so the run
ends; deadlock is not checked. `Broker` is checked for deadlock in its place.

Bounds of TCP. In `tcp_link` messages of 1 and 3 units fit the limit and the
read that goes with it (`MaxBuffer + 1`), one of 4 does not; a socket of 4 units
takes a message in part; a read of 2 ends inside messages and spans two. Both
processes may end, so the run may stop. In `tcp_server` one client has the task; the
other is sent the inputs, and decides by its place in the list whether the broadcast
reaches the first. Its links hold one message (`Capacity` is a function of the client, since what the
sockets hold differs), so that the second broadcast meets a full link when it has not read the
first; the links of the other hold two, all that an execution puts there each way. Two
executions (`MaxRuns`) let the leftovers of one meet the next, and two lost messages (`MaxLosses`)
can be inputs and outputs of one, or those of both. A second task, or a third execution, is
beyond the time of a run; for any number of them there are the safety theorems of section 5.

Fairness. `Broker!FairSpec`: `WF_vars(Tick)`, the application calls tick in a
loop and a thread that can go on does. `SF_vars(RunSend \/ RunSendFails)`: an
execution waits for its adapter's lock, a tokio `Mutex`, which is FIFO, so a
lock that is free again and again is granted. `WF` of the other steps of a
run: the runtime polls every future. Nothing is assumed of nodes, of
announcements, or of when a time-out comes. `TcpConnection`: the runtime polls
both tasks and the adapter is polled (`WF` of each); senders need not send.
`TcpServer`: `WF_vars(Server)`, the broker's thread goes on;
`SF_vars(Listens)`, since the mutex of the connections is the same FIFO kind;
`SF_vars(RunTimeout)`, since 500 ms pass whatever the since 500 ms pass whatever the polls find. Nothing is
assumed of clients, of losses, or of the listener's death.
## 4. What disagrees with the repository's own words

Three runs end in a violation:

1. `try_lock`: a failed execution ends the tick and leaves others of the same
   tick running; the next tick's `try_lock().unwrap()` panics, against
   `REVIEW.md:43` ("return an error rather than panicking").
2. `topic_updated`: when a spawned execution wins the lock of its inputs list on
   the first run of its task, tick unwraps a `last_execution_time` that is set
   four lines later.
3. `response`: the branch commented "Verify response is correct" accepts any
   response with the task's id, also one to an earlier request.

Met while modelling, and visible in the models without a run of their own:

- `buckets/mod.rs:60`: `max_rows / 2` is 0 for `max_rows = 1`, so such a bucket
  grows (`WithinRetention` is checked with 2, `RetentionKept` proved from 2 on).
- `database/mod.rs:247`: `add_datapoints_silent` still calls `on_raw_datapoint`.
- `database/mod.rs:397`: `get_struct_after` takes the first row after a time from
  each bucket: leaves of different writes are mixed, and leaves that did not change
  since are missing. What remains true is `ChangesFound`: no change goes unnoticed and
  no leaf is from before.
- `adapters/tcp/tcp_server.rs:204`: `send_inputs` is commented "Send to all
  connections" and returns at the first that fails (`Reached`).
- `broker/mod.rs:399`: a `NewValues` subscription misses a value stored after a
  launch at a later time (`late` in `MissedOnlyIfLate`).
- Sequences of structs are read back empty, and enums whose variants carry data
  are not read back.
- The example tasks that fill `DataView::new` stamp their outputs with time zero,
  which no `NewValues` subscriber that has run later sees.

## 5. Proofs

`BrokerProofs` proves, for all constants that satisfy the assumptions of
`Broker` (finitely many tasks, each with an adapter; spans within `MaxAge`):

- `TypeCorrect`: `Spec => []TypeOK`
- `RegistryCorrect`: `Spec => []RegistryAgrees`
- `LookupsCorrect`: `Spec => []LookupsSafe`
- `QuietCorrect`: `Spec => []QuietBetweenTicks`
- `NoLockPanicCorrect`: `Spec => []NoLockPanicBeforeFailure`

The argument. None of these is inductive alone. What tick is about to look up
must be registered (`LookupsSafe`), but a new failure removes a task, so the
invariant has to say when handles can exist at all: only while tick launches,
records or awaits (`TickInv`), each to a different run, and each run that is
awaited is alive (`JoinedInv`). What was announced and not yet read is not
registered, and listed once (`PendingInv`), which makes reading it append new
tasks to the vector. Until something was dropped, every run that is alive is
joined; when a tick returns normally there is no handle left, so there is no run
and no lock (`QuietBetweenTicks`, `NoLockPanicBeforeFailure`). The commander
part rests on `GapClosed`: closing the gap of a removed task neither loses nor
repeats another.

The rest of the module is about what becomes of the executions.

`OutputsCorrect`: `Spec => []CompletedOutputsKept`. Once
sent, outputs stay with the broker: only `RunDrain` takes them out of a queue,
and stores all it takes (`KeptStays`). The invariant (`SentInv`) follows them
upstream from `Completed`: a blocking run that ended well took a response
(`DoneKept`), a response was sent by an answering node (`ResponsesKept`), and an
answering node has sent the outputs of its request (`AnsweringKept`) on the
adapter of the task (`RoutedInv`). It does not need the response to be the one
to the run's own request, so the late responses of section 4 lose nothing.

`SerialNeverPanics`: `Always => (Spec => []NeverPanicsAtTryLock)`, where `Always`
says that every span is zero, the trigger `Always` of the code. Then nobody waits
in `queued` from one tick to the next: a tick launches at most one run
(`SerialInv`), so when one fails there is no other handle to drop and every
adapter is unlocked. The run `try_lock` shows that this is false with `Rate`.

`ResponsesCorrect`: `Spec => ResponseIsOwnBeforeFailure`,
an action property. `recv_response` compares the task id only, so the proof
counts (`AloneInv`, all of it as long as nothing was dropped): a task has one run
at most (`OneRun`); what the launch loop is still to visit has none
(`NotQueued`), since a new turn starts when no run is alive; and what is on its
way for a task is one request or response at most, sent by a run that has
not taken it (`OneInFlight`). Nodes add nothing to that number (`NodeCounts`). The
lemmas on `Places` (of `CollectionLemmas`) count the places of a task in a queue when
it grows and when its head goes. A time-out leaves a request on its way; the run that timed out
stands for it until the failure ends the tick, and that is where the property
ends, as the run `response` shows. `SerialResponsesCorrect`:
`Always => (Spec => ResponseIsOwn)`, with no such end: a task whose run fails is
dropped in the same tick, and no other run is left to mix with.

`CallsCorrect`: `Spec => ImplementsCalls`, the refinement of `RemoteCalls`, from the
same invariant. The one run of a task decides whether it is calling or has given up
(`CallOfRun`); the one message on its way, whether its call is asked, answered or lost.
A run's step moves the call of its own task (`RunCalls`, `OtherCalls`, `RunNetwork`),
a node's step answers one call or loses those of a whole batch (`NodeMoves`, `NodeCalls`),
and tick's steps move none (`TickCalls`) but the one that ends with a failure, which is
`Break` (`FailureDrops`).

`DataFlowProofs` proves, for any writers and readers, modes, time steps and number of
ticks:

- `FlowTypeCorrect`: `Spec => []TypeOK`
- `MissedCorrect`: `Spec => MissedOnlyIfLate`
- `GivenCorrect`: `Spec => GivenWhatWasSent`

The invariant (`IInv`) has eight parts. `Types`; `InTime` (nothing that is
stored, queued, in the node's view or in an execution's inputs is newer than the broker's
time, and no task's record lies in its future); `Control` (who is being launched,
and that an execution carries the time recorded for its task); `OneHolder` (the
adapter's lock); `Counts` (responses are bounded by the ticks). `NotMissed` is
the argument for `MissedOnlyIfLate`: if the newest row of the topic is from
before a reader's last launch, a launch has selected its value or it came late. It is
kept by every insertion (`AddedKnown`), hence along every batch
that is drained (`AlongStays`, over `BucketAlong`, by `IntervalInduction`), and by a
launch, because the query reaches from the last launch on. For `GivenWhatWasSent`,
`FedStays` says that the value sent is the last in the queue of inputs, or the queue is
empty and the view holds it, as long as its execution has the lock, since nobody else
feeds the adapter then;
`Alone` says that the request the node works on is the one of the execution that is
waiting.

`CommanderProofs` proves `RoundsTypeCorrect` (`RoundsSpec => []RoundsTypeOK`) and
`RoundRobin` (`RoundsSpec => []NobodyOvertakes`). The
invariant (`RoundsInv`) adds, for every task, the turns it has waited to the
places it is ahead of the index, cyclically, and says that the sum is less than
the length of the vector: a turn makes the first one more and the second one
less, and an addition makes a distance longer by at most the place it adds.

`BucketProofs` is about one call of `add_datapoint`, as the operator `Added`.
`RetentionKept`: a bucket within a policy of two rows or more is within it
afterwards, whatever is inserted. The oldest row has nothing before it, so it goes whenever
rows are dropped, and one row goes in at most. `LatestKept`: the latest row is
never dropped, since it has all others before it, and the latest time never goes
back. `ChangesKept`: when the datapoint is behind all rows, no two neighbouring rows
hold the same value afterwards; rows go from the old end only, and the
one the datapoint is compared with is still there. They rest on `Ends`, that finite sets of times have
a first and a last element, proved by taking a smallest set that has none.

`DatastoreProofs` lifts this to the store:

- `CacheCorrect`: `Spec => []CacheIsFresh`, which is
  inductive: what a query returns depends only on the set of topics with a bucket,
  and an operation that changes that set clears the cache.
- `RetentionCorrect`: `RoomForTwo => (Spec => []WithinRetention)`. `RoomForTwo` says
  that no policy is of 0 or 1 rows: half of one is none, and the code does not keep
  such policies (section 4).
- `LatestCorrect`: `Spec => LatestNeverOlder`
- `ChangesCorrect`: `Spec => []OnlyChanges`
- `ListenersCorrect`: `Spec => []ListenersUpToDate`
- `StoreTypeCorrect`: `Spec => []TypeOK`

A call takes a batch of any length. `BucketAlong` is a bucket after the first i
datapoints of it, and `IntervalInduction` (induction over the places
of one batch, from smallest counterexamples, with no operator as a parameter) says
that what one insertion preserves, the call preserves. `RecursionAlong` gives what the recursive
functions are at each place. For `OnlyChanges` the datapoints of an ordered topic
must be behind all its rows at their place in the batch (`Timely`). For
`ListenersUpToDate` the invariant (`TellingOK`) says that what a listener knows of an
ordered topic is the latest value of its bucket. Half-way through a call that holds for the
topics still to be told of nothing only (`KnowingAlready`); the last datapoint told of a topic is the
last one its bucket stored, and what the bucket left out equals its latest value.

`TcpServerProofs` proves

- `KnownCorrect`: `Spec => []KnownReachable`
- `AnswersCorrect`: `Spec => []AnswersAfterOutputs`
- `InputsCorrect`: `Spec => []InputsBeforeRequest`
- `AdapterTypeCorrect`: `Spec => []TypeOK`

For the first the invariant
says where a client can be (`PlacedInv`: waiting to be accepted, being added, or
in the list, and only one of these) and that an announcement on a link is its
owner's, and one with the server came off a connection in the list (`AnnouncedInv`). For the second
it says that every response on a link is behind the outputs of its run, unless those
have left it (`Left`: they are with the server, or were lost) (`UpInv`), and that a node about to respond has sent
them (`WrittenInv`). A client that ends cuts its link at any place, which
leaves an opening of it, and an opening is in order when the whole is. A loss leaves
a link in order too (`LostInOrder`): what is behind the message that went finds it
in `lost`. The conclusions say just that: a response came after its outputs, a
request after its inputs, unless that very message was lost. The third is the same for
requests and inputs on the way down (`DownInv`), and needs to know that the
request the server is about to send is for the run whose inputs it has broadcast
(`Ahead`, which a loss keeps: `LosesAhead`), until it has sent it (`SameRequest`). What is on a link is a
matter of who may send there, so the types need their own invariants
(`ServerInv`, `LinksInv`).

`TcpConnectionProofs` proves, for any number of messages of any sizes and any
limits of channels, socket, reads and buffer:

- `ConnectionTypeCorrect`: `Spec => []TypeOK`
- `CutCorrect`: `Spec => []CutHasCause`
- `ConnectionImplementsLink`: `Spec => ImplementsLink`, the refinement of `FifoLink`

The argument looks at the read buffer followed by the socket as one stream of
units (`Stream`). Units are in the order of their messages, the messages still
in the channel are behind all of them (`StreamInv`), and as long as nothing was cut
a unit is followed by the next one of its message (`WholeInv`). Then a message that
is parsed was at the front with all its units (`FrontIsWhole`), and a buffer
above its limit that holds no whole message starts with one that is larger
(`CutHasCause`). For the refinement, `Whole` lists the messages of which all units
are in the stream: a write adds the message it writes whole and none
when it is cut (`WholeOfPart`), a message parsed off the front is the first
(`WholeOfRest`), and when the front is dropped what stays whole is a
subsequence of what was (`WholeOfLater`). `ConnectionStep` maps each action to a step
of the link: sending and receiving to `Send` and `Receive` of `FifoLink`, a cut write, an overflow, a failed read and the end
of either side to `Lose`, everything else to a stutter.

The proofs assume the named assumptions of the modules (`TasksAssumption`,
`TimeAssumption`, `BoundsAssumption`, `FlowAssumption`, `StoreAssumption`,
`ServerAssumption`, `ConnectionAssumption`), and `Always` and `RoomForTwo` where said.

`TypeInv`, `StreamInv` and `WholeInv` of the connection hold with TLC too, on the
instance of section 3, and so does the invariant of `DataFlowProofs` on that of
`flow` with two ticks, and with three when every task is awaited.

Model-checked only:

- liveness (`TickEnds`, `TaskServed`, `Arrives`, `AnnouncedIsHeard`): fairness and
  ENABLED are out of the prover's reach;
- all of `StructStore` (`TypeOK`, `LeavesApart`, `HistoryWhole`, `ChangesFound` and
  its refinement of the register): serializer and deserializer recurse over a type,
  `RECURSIVE` operators in `Flatten`, which the prover does not take, and what they
  compute for every type is an induction over data;
- `ResponseIsOwn` and `NeverPanicsAtTryLock` are false without `Always`.

## 6. What is left

Open: failing executions in `DataFlow`.

Abstractions of what is modelled:

- A `HashMap` is iterated in any order where the order matters to the state
  (tick's adapters, the launch loop), and in one fixed order where it only decides
  in which order leaves of one struct are stored (`Listed`).
- The broker around `TcpServer` executes one task at a time and takes
  any task next; the adapter's lock makes it so for one adapter.
- A connection's id is the client at its other end: ids are random `u32`s and are
  taken as distinct, as are task ids.
- A message that was written or kept only in part never parses: what its bytes,
  read together with the next message's, could decode to is not modelled.
- Which messages `TcpServer` loses does not depend on their size: any may go, while in
  the code a message of ordinary size goes only with a large or a cut one. A run's
  inputs are one message and its outputs are one, where the code may send several.
- A connection's writer task ends in `TcpServer` only after the client's process did: a
  network error between two live processes is not modelled, beyond messages lost.
- `stored` of `Broker` says whose outputs were ever stored and never shrinks, so
  `CompletedOutputsKept` says nothing of a task's executions after one that was stored.
- `WithinRetention` leaves out `max_rows = 1`, which the code does not keep, and
  `LeavesApart` leaves out map keys that are no words, whose leaves do collide or stray.
- `deserialize_any` and reading variants that carry data are not modelled, and a
  struct is read with the type it was written with.
- Executions, listeners and tasks do not panic.

Not modelled:

- the mock adapter and commander (test doubles), binaries and benchmarks
  (wiring), `primitives/database` (not part of the crate);
- trait operations that neither the broker nor a node calls on that end, and
  operations nobody calls (`remove_suffix`, `update_datapoint`);
- reads that return lists of datapoints or keys: they filter rows and change
  nothing;
- `vs-wtf`: floating-point arithmetic on time codes, out of reach of TLC; times
  are integers, so neither its rounding nor its order on unnormalised values is
  seen;
- `vs-dir`: a sequential search of directories, file I/O that no other crate
  uses;
- `max_age` of a retention policy, which no code reads.
