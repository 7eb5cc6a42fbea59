----------------------------- MODULE TcpServer -----------------------------
(***************************************************************************)
(* The TCP adapters of vs-broker as the broker and its nodes use them: one *)
(* TcpBrokerServer with its listener, many TcpBrokerClients, and between   *)
(* them one link each way that keeps the order of messages and may lose    *)
(* any of them while both ends go on, which is FifoLink, and what          *)
(* TcpConnection shows of a connection.  The broker reads new tasks and    *)
(* then executes one task at a time; a node ticks.  A message is           *)
(* [kind, task, run], where the runs of a task are numbered so that        *)
(* inputs, request, outputs and response of the same one can be told from  *)
(* others.                                                                 *)
(***************************************************************************)
EXTENDS Integers, Sequences, FiniteSets, SequencesExt

CONSTANTS
  Clients, Tasks,
  Owner,      \* the client whose node announces the task
  Capacity,   \* per client: messages a link takes before try_send fails, in the
              \* channels and the sockets between them
  MaxRuns,    \* bound on the executions of a task
  MaxLosses,  \* bound on the messages the links lose
  NoClient, NoTask

ASSUME ServerAssumption ==
  /\ Owner \in [Tasks -> Clients]
  /\ Capacity \in [Clients -> Nat \ {0}]
  /\ MaxRuns \in Nat
  /\ MaxLosses \in Nat
  /\ NoClient \notin Clients
  /\ NoTask \notin Tasks

VARIABLES
  listener,     \* its task: "binding", "accepting" or "dead"
  backlog,      \* connected, not accepted yet
  pushing,      \* the client whose connection it adds under the lock, or NoClient
  connections,  \* TcpBrokerServer::connections, by the client at the other end
  phase,        \* what the broker does with the adapter
  running,      \* the task it executes
  next,         \* the connection process_incoming_messages drains next
  queue,        \* new_tasks, response_queue and outputs of the server, as sets:
                \* the latter two of pairs <<task, run>>
  known,        \* per task: the connection_id of its configuration
  runs,         \* per task: executions started
  stored,       \* history: the outputs recv_outputs returned
  answered,     \* history: the responses recv_response found
  alive,        \* per client: its process runs
  closed,       \* per client: the writer of the server's connection has ended
  up, down,     \* per client: the two links
  lost,         \* history: pairs of a client and a message one of its links has lost
  clientQueue,  \* per client: inputs (as a set of pairs) and execute_queue
  view,         \* per client: the inputs its node has
  batch,        \* per client: the requests its node works on
  written,      \* per client: the outputs of the first one are sent
  announced

serverVars == <<phase, running, next, queue, known, runs, stored, answered>>
listenVars == <<listener, backlog, pushing, connections>>
nodeVars == <<clientQueue, view, batch, written, announced>>
linkVars == <<alive, closed, up, down, lost>>
vars == <<serverVars, listenVars, nodeVars, linkVars>>

Message(kind, t, n) == [kind |-> kind, task |-> t, run |-> n]
Runs(kind, messages) ==
  {<<m.task, m.run>> : m \in {m \in ToSet(messages) : m.kind = kind}}

NotDraining == 0
Drained == -1

Init ==
  /\ listener = "binding"
  /\ backlog = {} /\ pushing = NoClient /\ connections = <<>>
  /\ phase = "read" /\ running = NoTask /\ next = NotDraining
  /\ queue = [new |-> {}, response |-> {}, outputs |-> {}]
  /\ known = [t \in Tasks |-> NoClient]
  /\ runs = [t \in Tasks |-> 0]
  /\ stored = {}
  /\ answered = {}
  /\ alive = [c \in Clients |-> TRUE]
  /\ closed = [c \in Clients |-> FALSE]
  /\ up = [c \in Clients |-> <<>>]
  /\ down = [c \in Clients |-> <<>>]
  /\ lost = {}
  /\ clientQueue = [c \in Clients |-> [inputs |-> {}, execute |-> <<>>]]
  /\ view = [c \in Clients |-> {}]
  /\ batch = [c \in Clients |-> <<>>]
  /\ written = [c \in Clients |-> FALSE]
  /\ announced = {}

-----------------------------------------------------------------------------
(* The listener's task *)

Bind ==
  /\ listener = "binding"
  /\ listener' = "accepting"
  /\ UNCHANGED <<backlog, pushing, connections, serverVars, nodeVars, linkVars>>

\* bind().unwrap() panics, so does peer_addr().unwrap() for a peer that is gone, and an
\* error of accept ends the loop.  new has returned Ok: the server goes on without a listener.
ListenerDies ==
  /\ listener # "dead" /\ pushing = NoClient
  /\ listener' = "dead"
  /\ UNCHANGED <<backlog, pushing, connections, serverVars, nodeVars, linkVars>>

\* MUTATION of Accept: the listener does not wait for the lock.
AcceptAnyTime(c) ==
  /\ listener = "accepting" /\ pushing = NoClient
  /\ c \in backlog
  /\ backlog' = backlog \ {c}
  /\ pushing' = c
  /\ UNCHANGED <<listener, connections, serverVars, nodeVars, linkVars>>

\* The connection is made, and the listener has the lock of the connections.
Accept(c) ==
  /\ listener = "accepting" /\ pushing = NoClient
  /\ next \in {NotDraining, Drained}
  /\ c \in backlog
  /\ backlog' = backlog \ {c}
  /\ pushing' = c
  /\ UNCHANGED <<listener, connections, serverVars, nodeVars, linkVars>>

PushConnection ==
  /\ pushing # NoClient
  /\ connections' = Append(connections, pushing)
  /\ pushing' = NoClient
  /\ UNCHANGED <<listener, backlog, serverVars, nodeVars, linkVars>>

Listens == Bind \/ PushConnection \/ \E c \in Clients : Accept(c)

Listener == Listens \/ ListenerDies

-----------------------------------------------------------------------------
(* The server adapter *)

serverFrame == <<listenVars, nodeVars, alive, closed, lost>>

\* Every receiving call starts with process_incoming_messages, which returns at
\* once if the listener holds the lock.
Enter ==
  /\ phase \in {"read", "outputs", "response"}
  /\ next = NotDraining
  /\ next' = IF pushing # NoClient \/ connections = <<>> THEN Drained ELSE 1
  /\ UNCHANGED <<phase, running, queue, known, runs, stored, answered, up, down, serverFrame>>

\* MUTATION of AfterConnection: a connection without messages ends the loop.
UntilSilent(i) ==
  IF i = Len(connections) \/ up[connections[i]] = <<>> THEN Drained ELSE i + 1

AfterConnection(i) == IF i = Len(connections) THEN Drained ELSE i + 1

\* MUTATION of Stamped: the connection_id is read once, before the loop.
StampedWithFirst(c) ==
  {[task |-> m.task, connection |-> connections[1]] :
     m \in {m \in ToSet(up[c]) : m.kind = "new"}}

Stamped(c) ==
  {[task |-> m.task, connection |-> c] : m \in {m \in ToSet(up[c]) : m.kind = "new"}}

\* MUTATION of Filed: only what the current call asks for is taken off the link.
FiledForCall(c) ==
  CASE phase = "read" -> [queue EXCEPT !.new = @ \union Stamped(c)]
    [] phase = "outputs" -> [queue EXCEPT !.outputs = @ \union Runs("outputs", up[c])]
    [] phase = "response" -> [queue EXCEPT !.response = @ \union Runs("response", up[c])]

Filed(c) ==
  [new |-> queue.new \union Stamped(c),
   response |-> queue.response \union Runs("response", up[c]),
   outputs |-> queue.outputs \union Runs("outputs", up[c])]

DrainNext ==
  /\ next \in DOMAIN connections
  /\ LET c == connections[next]
     IN  /\ queue' = Filed(c)
         /\ up' = [up EXCEPT ![c] = <<>>]
  /\ next' = AfterConnection(next)
  /\ UNCHANGED <<phase, running, known, runs, stored, answered, down, serverFrame>>

Returns(call) == phase = call /\ next = Drained /\ next' = NotDraining

\* get_new_tasks, and the broker registers what it returns.
GetNewTasks ==
  /\ Returns("read")
  /\ known' = [t \in Tasks |->
       IF \E d \in queue.new : d.task = t
       THEN (CHOOSE d \in queue.new : d.task = t).connection
       ELSE known[t]]
  /\ queue' = [queue EXCEPT !.new = {}]
  /\ phase' = "launch"
  /\ UNCHANGED <<running, runs, stored, answered, up, down, serverFrame>>

NothingToRun ==
  /\ phase = "launch"
  /\ \A t \in Tasks : known[t] = NoClient \/ runs[t] = MaxRuns
  /\ phase' = "read"
  /\ UNCHANGED <<running, next, queue, known, runs, stored, answered, up, down, serverFrame>>

StartRun(t) ==
  /\ phase = "launch"
  /\ known[t] # NoClient /\ runs[t] < MaxRuns
  /\ running' = t
  /\ runs' = [runs EXCEPT ![t] = @ + 1]
  /\ phase' = "inputs"
  /\ UNCHANGED <<next, queue, known, stored, answered, up, down, serverFrame>>

\* The execution failed: the broker forgets the task.
Forget ==
  /\ known' = [known EXCEPT ![running] = NoClient]
  /\ running' = NoTask
  /\ phase' = "read"

CanTake(c) == ~closed[c] /\ Len(down[c]) < Capacity[c]

\* The connections before the first one that fails.
Reached == {i \in DOMAIN connections : \A j \in 1..i : CanTake(connections[j])}

\* MUTATION of AllReached: a connection that fails does not matter.
Regardless == TRUE

AllReached == Reached = DOMAIN connections

\* send_inputs goes to every connection up to the first that fails.  (It blocks
\* while the listener has the lock.)
SendInputs ==
  /\ phase = "inputs"
  /\ pushing = NoClient
  /\ down' = [c \in Clients |->
       IF \E i \in Reached : connections[i] = c
       THEN Append(down[c], Message("inputs", running, runs[running]))
       ELSE down[c]]
  /\ IF AllReached THEN phase' = "execute" /\ UNCHANGED <<known, running>>
                   ELSE Forget
  /\ UNCHANGED <<next, queue, runs, stored, answered, up, serverFrame>>

\* send_execute to the connection with the id of the task's configuration.
SendExecute ==
  LET c == known[running]
  IN  /\ phase = "execute"
      /\ pushing = NoClient
      /\ IF c \in ToSet(connections) /\ CanTake(c)
         THEN /\ down' = [down EXCEPT ![c] = Append(@, Message("execute", running, runs[running]))]
              /\ phase' = "outputs"
              /\ UNCHANGED <<known, running>>
         ELSE Forget /\ UNCHANGED down
      /\ UNCHANGED <<next, queue, runs, stored, answered, up, serverFrame>>

\* recv_outputs until it returns nothing.
RecvOutputs ==
  /\ Returns("outputs")
  /\ stored' = stored \union queue.outputs
  /\ queue' = [queue EXCEPT !.outputs = {}]
  /\ phase' = IF queue.outputs = {} THEN "response" ELSE "outputs"
  /\ UNCHANGED <<running, known, runs, answered, up, down, serverFrame>>

Found == {n \in 1..MaxRuns : <<running, n>> \in queue.response}

\* The first response with the id of the task, whichever of its runs it answers.
RecvResponse ==
  /\ Returns("response")
  /\ \/ /\ Found = {}
        /\ phase' = "outputs"
        /\ UNCHANGED <<queue, answered, running>>
     \/ \E n \in Found :
          /\ \A k \in Found : n <= k
          /\ queue' = [queue EXCEPT !.response = @ \ {<<running, n>>}]
          /\ answered' = answered \union {<<running, n>>}
          /\ running' = NoTask
          /\ phase' = "read"
  /\ UNCHANGED <<known, runs, stored, up, down, serverFrame>>

\* 500 ms after the request.
RunTimeout ==
  /\ phase = "outputs" /\ next = NotDraining
  /\ Forget
  /\ UNCHANGED <<next, queue, runs, stored, answered, up, down, serverFrame>>

Server ==
  \/ Enter \/ DrainNext \/ GetNewTasks \/ NothingToRun \/ \E t \in Tasks : StartRun(t)
  \/ SendInputs \/ SendExecute \/ RecvOutputs \/ RecvResponse \/ RunTimeout

-----------------------------------------------------------------------------
(* The clients and their nodes *)

nodeFrame == <<serverVars, listener, pushing, connections, closed, lost>>

Connected(c) == alive[c] /\ (c \in backlog \/ c = pushing \/ c \in ToSet(connections))

Connect(c) ==
  /\ listener = "accepting"
  /\ alive[c] /\ ~Connected(c)
  /\ backlog' = backlog \union {c}
  /\ UNCHANGED <<nodeFrame, nodeVars, alive, up, down>>

\* try_send of the client; while the link is full it fails.
ClientSends(c, m) ==
  /\ Connected(c)
  /\ Len(up[c]) < Capacity[c]
  /\ up' = [up EXCEPT ![c] = Append(@, m)]

\* add_task of the node, send_new_task.
Announce(t) ==
  /\ t \notin announced
  /\ ClientSends(Owner[t], Message("new", t, 0))
  /\ announced' = announced \union {t}
  /\ UNCHANGED <<nodeFrame, backlog, clientQueue, view, batch, written, alive, down>>

\* The requests among the messages of a link, in their order.
Requests(link) ==
  LET upTo[i \in 0..Len(link)] ==
        IF i = 0 THEN <<>>
        ELSE IF link[i].kind = "execute" THEN Append(upTo[i - 1], link[i])
        ELSE upTo[i - 1]
  IN  upTo[Len(link)]

Received(c) ==
  [inputs |-> clientQueue[c].inputs \union Runs("inputs", down[c]),
   execute |-> clientQueue[c].execute \o Requests(down[c])]

\* The node's tick: recv_inputs.
RecvInputs(c) ==
  /\ alive[c] /\ batch[c] = <<>>
  /\ Received(c).inputs # {}
  /\ view' = [view EXCEPT ![c] = @ \union Received(c).inputs]
  /\ clientQueue' = [clientQueue EXCEPT ![c] = [inputs |-> {}, execute |-> Received(c).execute]]
  /\ down' = [down EXCEPT ![c] = <<>>]
  /\ UNCHANGED <<nodeFrame, backlog, batch, written, announced, alive, up>>

\* recv_execute, whenever recv_inputs has looked last.
RecvExecute(c) ==
  /\ alive[c] /\ batch[c] = <<>>
  /\ Received(c).execute # <<>>
  /\ batch' = [batch EXCEPT ![c] = Received(c).execute]
  /\ clientQueue' = [clientQueue EXCEPT ![c] = [inputs |-> Received(c).inputs, execute |-> <<>>]]
  /\ down' = [down EXCEPT ![c] = <<>>]
  /\ UNCHANGED <<nodeFrame, backlog, view, written, announced, alive, up>>

SendOutputs(c) ==
  /\ batch[c] # <<>> /\ ~written[c]
  /\ ClientSends(c, Message("outputs", Head(batch[c]).task, Head(batch[c]).run))
  /\ written' = [written EXCEPT ![c] = TRUE]
  /\ UNCHANGED <<nodeFrame, backlog, clientQueue, view, batch, announced, alive, down>>

SendResponse(c) ==
  /\ batch[c] # <<>> /\ written[c]
  /\ ClientSends(c, Message("response", Head(batch[c]).task, Head(batch[c]).run))
  /\ batch' = [batch EXCEPT ![c] = Tail(@)]
  /\ written' = [written EXCEPT ![c] = FALSE]
  /\ UNCHANGED <<nodeFrame, backlog, clientQueue, view, announced, alive, down>>

\* on_execute fails, or send_outputs or send_response does on a full link: the node's
\* tick ends and the requests it has drained are lost.
NodeFails(c) ==
  /\ alive[c] /\ batch[c] # <<>>
  /\ ~written[c] \/ Len(up[c]) = Capacity[c]
  /\ batch' = [batch EXCEPT ![c] = <<>>]
  /\ written' = [written EXCEPT ![c] = FALSE]
  /\ UNCHANGED <<nodeFrame, backlog, clientQueue, view, announced, alive, up, down>>

\* The client's process ends; what it had not written to the socket is lost.
ClientEnds(c) ==
  /\ alive[c]
  /\ alive' = [alive EXCEPT ![c] = FALSE]
  /\ \E n \in 0..Len(up[c]) : up' = [up EXCEPT ![c] = SubSeq(@, 1, n)]
  /\ down' = [down EXCEPT ![c] = <<>>]
  /\ clientQueue' = [clientQueue EXCEPT ![c] = [inputs |-> {}, execute |-> <<>>]]
  /\ batch' = [batch EXCEPT ![c] = <<>>]
  /\ written' = [written EXCEPT ![c] = FALSE]
  /\ UNCHANGED <<nodeFrame, backlog, view, announced>>

\* Only a write tells the server that a client is gone; its connection stays in
\* the list.
WriterEnds(c) ==
  /\ ~alive[c] /\ down[c] # <<>>
  /\ closed' = [closed EXCEPT ![c] = TRUE]
  /\ down' = [down EXCEPT ![c] = <<>>]
  /\ UNCHANGED <<serverVars, listenVars, nodeVars, alive, up, lost>>

Client(c) ==
  \/ Connect(c) \/ RecvInputs(c) \/ RecvExecute(c) \/ SendOutputs(c) \/ SendResponse(c)
  \/ NodeFails(c) \/ ClientEnds(c) \/ WriterEnds(c)

-----------------------------------------------------------------------------
(* The links.  A message above 20 KB is cleared from the buffer of the read    *)
(* task before it is complete, a short write drops the rest of one, and so may *)
(* those that are parsed together with its pieces; tasks and processes go on   *)
(* and a message behind them that starts a read is parsed.  Steps of loss, one *)
(* after the other, take any messages of a link.                               *)

LoseUp(c) ==
  /\ Cardinality(lost) < MaxLosses
  /\ \E i \in DOMAIN up[c] :
       /\ up' = [up EXCEPT ![c] = RemoveAt(@, i)]
       /\ lost' = lost \union {<<c, up[c][i]>>}
  /\ UNCHANGED <<serverVars, listenVars, nodeVars, alive, closed, down>>

LoseDown(c) ==
  /\ Cardinality(lost) < MaxLosses
  /\ \E i \in DOMAIN down[c] :
       /\ down' = [down EXCEPT ![c] = RemoveAt(@, i)]
       /\ lost' = lost \union {<<c, down[c][i]>>}
  /\ UNCHANGED <<serverVars, listenVars, nodeVars, alive, closed, up>>

Loses == \E c \in Clients : LoseUp(c) \/ LoseDown(c)

Next ==
  \/ Listener
  \/ Server
  \/ \E t \in Tasks : Announce(t)
  \/ \E c \in Clients : Client(c)
  \/ Loses

\* The broker's thread goes on.  The mutex of the connections serves who waits
\* for it in order, so the listener gets it though the server takes it again and
\* again; and 500 ms pass.  Nothing is assumed of the clients or of losses.
Fairness == WF_vars(Server) /\ SF_vars(Listens) /\ SF_vars(RunTimeout)

Spec == Init /\ [][Next]_vars /\ Fairness

-----------------------------------------------------------------------------
(* Properties *)

Kinds == {"new", "inputs", "execute", "outputs", "response"}
Messages == [kind : Kinds, task : Tasks, run : 0..MaxRuns]
OnLink(kinds) == {m \in Messages : m.kind \in kinds}

ServerTypeOK ==
  /\ phase \in {"read", "launch", "inputs", "execute", "outputs", "response"}
  /\ running \in Tasks \union {NoTask}
  /\ running = NoTask <=> phase \in {"read", "launch"}
  /\ next \in {NotDraining, Drained} \union DOMAIN connections
  /\ queue \in [new : SUBSET [task : Tasks, connection : Clients],
                response : SUBSET (Tasks \X (1..MaxRuns)),
                outputs : SUBSET (Tasks \X (1..MaxRuns))]
  /\ known \in [Tasks -> Clients \union {NoClient}]
  /\ runs \in [Tasks -> 0..MaxRuns]

\* Each link and each queue holds only the messages it is for, and the listener
\* adds no connection while the server goes through the list.
TypeOK ==
  /\ ServerTypeOK
  /\ connections \in Seq(Clients)
  /\ pushing # NoClient => next \in {NotDraining, Drained}
  /\ \A c \in Clients :
       /\ up[c] \in Seq(OnLink({"new", "outputs", "response"})) /\ Len(up[c]) <= Capacity[c]
       /\ down[c] \in Seq(OnLink({"inputs", "execute"})) /\ Len(down[c]) <= Capacity[c]
       /\ batch[c] \in Seq(OnLink({"execute"}))
       /\ written[c] => batch[c] # <<>>

\* A task the broker knows is known by the connection of the client that
\* announced it, so that requests for it go to a node that has it; the
\* connection is in the list, and it is there once.
KnownReachable ==
  /\ \A i, j \in DOMAIN connections : connections[i] = connections[j] => i = j
  /\ \A t \in Tasks : known[t] # NoClient =>
       known[t] = Owner[t] /\ known[t] \in ToSet(connections)

\* The runs whose message of a kind was lost on a client's links.
LostRuns(kind, c) ==
  {<<l[2].task, l[2].run>> : l \in {l \in lost : l[1] = c /\ l[2].kind = kind}}

\* A request is never ahead of the inputs that were sent for it, though they are
\* broadcast and a connection that fails ends the broadcast: wherever the request is on
\* its way to a live client, they are before it in the same link, in the client's queue
\* or in the node's view, unless the client's connection has lost these very inputs.
InputsBeforeRequest ==
  \A c \in {c \in Clients : alive[c]} :
    LET Has(m) == <<m.task, m.run>> \in view[c] \union clientQueue[c].inputs
                                          \union LostRuns("inputs", c)
    IN  /\ \A m \in ToSet(batch[c]) \union ToSet(clientQueue[c].execute) : Has(m)
        /\ \A i \in DOMAIN down[c] : down[c][i].kind = "execute" =>
             \/ Has(down[c][i])
             \/ \E j \in 1..i : down[c][j] = Message("inputs", down[c][i].task, down[c][i].run)

\* When a response has been taken, the outputs its node sent before it are in
\* the store or in the server's queue, in whatever order the connections are
\* drained and calls follow each other, unless these very outputs were lost on a
\* connection, which the response then followed all the same.
AnswersAfterOutputs ==
  queue.response \union answered \subseteq
    stored \union queue.outputs \union UNION {LostRuns("outputs", c) : c \in Clients}

\* A task that is announced becomes known to the broker (which may have run it and
\* forgotten it since), whatever the other clients do and whatever else their
\* connections lose, unless its own client ends, its connection has lost the
\* announcement, or the listener died before it had added that connection.
AnnouncedIsHeard ==
  \A t \in Tasks :
    t \in announced ~>
      \/ known[t] # NoClient \/ runs[t] > 0
      \/ ~alive[Owner[t]]
      \/ <<Owner[t], Message("new", t, 0)>> \in lost
      \/ listener = "dead" /\ Owner[t] \notin ToSet(connections)

=============================================================================
