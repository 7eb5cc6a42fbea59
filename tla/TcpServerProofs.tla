-------------------------- MODULE TcpServerProofs --------------------------
(***************************************************************************)
(* Theorems about the TCP server adapter for any number of clients and     *)
(* tasks, any capacity of the links and any number of runs.                *)
(*                                                                         *)
(* KnownReachable needs to know where a client can be on its way into the  *)
(* list (PlacedInv) and that an announcement travels on its owner's link   *)
(* (AnnouncedInv).  AnswersAfterOutputs needs the order of the messages on *)
(* each link (UpInv) and what the node has sent already (WrittenInv); what *)
(* a link has lost counts as taken off it.                                 *)
(* TypeOK needs what a link and a queue hold (LinksInv) and that a task    *)
(* that runs is known (ServerInv); InputsBeforeRequest needs, on top, that *)
(* the inputs are ahead of the request on the link, in the client's queue, *)
(* and while the server has sent the one and not the other (DownInv).      *)
(***************************************************************************)
EXTENDS TcpServer, CollectionLemmas

Listed == ToSet(connections)

Outputs == stored \union queue.outputs

\* Outputs that are no longer on the client's link: with the server, or lost.
Left(c) == Outputs \union LostRuns("outputs", c)

IsSeq(s) == s \in Seq(ToSet(s))

\* A client is waiting, being added or in the list, and in the list once.
PlacedInv ==
  /\ connections \in Seq(Clients)
  /\ \A i, j \in DOMAIN connections : connections[i] = connections[j] => i = j
  /\ pushing # NoClient => pushing \in Clients /\ pushing \notin Listed
  /\ backlog \subseteq Clients
  /\ \A c \in backlog : c # pushing /\ c \notin Listed

\* An announcement is on the link of the client that owns the task, or was taken
\* off it, and then the connection is in the list.
AnnouncedInv ==
  /\ \A c \in Clients : \A i \in DOMAIN up[c] :
       up[c][i].kind = "new" => up[c][i].task \in Tasks /\ Owner[up[c][i].task] = c
  /\ \A d \in queue.new : d.connection = Owner[d.task] /\ d.connection \in Listed
  /\ \A t \in Tasks : known[t] # NoClient => known[t] = Owner[t] /\ known[t] \in Listed

\* The message of the first kind for m's run is before place n of the link, or was
\* taken off it.
SentBefore(first, link, taken, n, m) ==
  \/ <<m.task, m.run>> \in taken
  \/ \E j \in DOMAIN link : j < n /\ link[j] = Message(first, m.task, m.run)

\* Every message of the second kind is behind the first one of its run.
InOrder(first, second, link, taken) ==
  /\ IsSeq(link)
  /\ \A i \in DOMAIN link :
       link[i].kind = second => SentBefore(first, link, taken, i, link[i])

UpInv == \A c \in Clients : InOrder("outputs", "response", up[c], Left(c))

\* The outputs of the first request are on the link or off it.
FirstSent(link, outputs, requests) ==
  requests # <<>> /\ SentBefore("outputs", link, outputs, Len(link) + 1, Head(requests))

WrittenInv == \A c \in Clients : written[c] => FirstSent(up[c], Left(c), batch[c])

FunctionsInv ==
  /\ DOMAIN up = Clients
  /\ DOMAIN down = Clients
  /\ DOMAIN clientQueue = Clients
  /\ DOMAIN view = Clients
  /\ DOMAIN alive = Clients
  /\ DOMAIN written = Clients
  /\ DOMAIN batch = Clients
  /\ DOMAIN known = Tasks
  /\ queue = [new |-> queue.new, response |-> queue.response, outputs |-> queue.outputs]

IInv ==
  FunctionsInv /\ PlacedInv /\ AnnouncedInv /\ UpInv /\ WrittenInv /\ AnswersAfterOutputs

-----------------------------------------------------------------------------
LEMMA OwnSeq ==
  ASSUME NEW S, NEW r \in Seq(S)
  PROVE  IsSeq(r)
<1>1. \A i \in 1..Len(r) : r[i] \in ToSet(r)
  BY DEF ToSet
<1> QED BY <1>1 DEF IsSeq

\* r is s with m behind it.
Longer(r, s, m) ==
  /\ IsSeq(r)
  /\ DOMAIN s = 1..Len(s) /\ Len(s) \in Nat
  /\ DOMAIN r = DOMAIN s \union {Len(s) + 1}
  /\ Len(r) = Len(s) + 1
  /\ \A i \in DOMAIN s : r[i] = s[i]
  /\ r[Len(s) + 1] = m

LEMMA AppendSeq ==
  ASSUME NEW s, IsSeq(s), NEW m
  PROVE  Longer(Append(s, m), s, m)
<1> DEFINE S == ToSet(s) \union {m}
           r == Append(s, m)
<1>1. s \in Seq(S)
  BY DEF IsSeq, ToSet
<1>2. /\ r \in Seq(S) /\ Len(r) = Len(s) + 1 /\ Len(s) \in Nat
      /\ DOMAIN s = 1..Len(s) /\ DOMAIN r = 1..(Len(s) + 1)
      /\ \A i \in DOMAIN s : r[i] = s[i]
      /\ r[Len(s) + 1] = m
  BY <1>1
<1>3. IsSeq(r)
  BY <1>2, OwnSeq
<1> QED BY <1>2, <1>3 DEF Longer

\* s begins with r.
Opening(r, s) ==
  /\ IsSeq(r)
  /\ DOMAIN r \subseteq DOMAIN s
  /\ \A i \in DOMAIN r : r[i] = s[i]
  /\ \A i \in DOMAIN r : \A j \in DOMAIN s : j < i => j \in DOMAIN r

LEMMA PrefixSeq ==
  ASSUME NEW s, IsSeq(s), NEW n \in 0..Len(s)
  PROVE  Opening(SubSeq(s, 1, n), s)
<1> DEFINE r == SubSeq(s, 1, n)
<1>1. /\ s \in Seq(ToSet(s)) /\ Len(s) \in Nat /\ DOMAIN s = 1..Len(s)
  BY DEF IsSeq
<1>2. r = [i \in 1..n |-> s[i]]
  BY <1>1
<1>3. /\ r \in Seq(ToSet(s)) /\ Len(r) = n /\ DOMAIN r = 1..n
      /\ \A i \in 1..n : r[i] = s[i]
  BY <1>1, <1>2
<1>4. IsSeq(r)
  BY <1>3, OwnSeq
<1> HIDE DEF r
<1>5. n \in Nat /\ n <= Len(s)
  BY <1>1
<1>6. DOMAIN r \subseteq DOMAIN s /\ \A i \in DOMAIN r : r[i] = s[i]
  BY <1>1, <1>3, <1>5
<1>7. \A i \in DOMAIN r : \A j \in DOMAIN s : j < i => j \in DOMAIN r
  BY <1>1, <1>3, <1>5
<1>8. Opening(r, s)
  BY <1>4, <1>6, <1>7 DEF Opening
<1> QED BY <1>8 DEF r

\* r is s without its element at place i.
Shorter(r, s, i) ==
  /\ IsSeq(r)
  /\ DOMAIN s = 1..Len(s) /\ Len(s) \in Nat /\ i \in DOMAIN s
  /\ DOMAIN r = 1..(Len(s) - 1) /\ Len(r) = Len(s) - 1
  /\ \A j \in DOMAIN r : r[j] = IF j < i THEN s[j] ELSE s[j + 1]

LEMMA RemoveTyped ==
  ASSUME NEW S, NEW s \in Seq(S), NEW i \in DOMAIN s
  PROVE  RemoveAt(s, i) \in Seq(S) /\ Shorter(RemoveAt(s, i), s, i)
<1> DEFINE before == SubSeq(s, 1, i - 1)
           behind == SubSeq(s, i + 1, Len(s))
           n == Len(s)
<1>1. n \in Nat /\ DOMAIN s = 1..n /\ i \in 1..n
  OBVIOUS
<1>2. before \in Seq(S) /\ Len(before) = i - 1 /\ \A j \in 1..(i - 1) : before[j] = s[j]
  BY <1>1
<1>3. behind \in Seq(S) /\ Len(behind) = n - i /\ \A j \in 1..(n - i) : behind[j] = s[i + j]
  BY <1>1
<1>4. RemoveAt(s, i) = before \o behind
  BY DEF RemoveAt
<1> HIDE DEF before, behind, n
<1> DEFINE r == before \o behind
<1>5. /\ r \in Seq(S) /\ Len(r) = Len(before) + Len(behind)
      /\ DOMAIN r = 1..(Len(before) + Len(behind))
      /\ \A j \in 1..(Len(before) + Len(behind)) :
           r[j] = IF j <= Len(before) THEN before[j] ELSE behind[j - Len(before)]
  <2>1. before \in Seq(S) /\ behind \in Seq(S)
    BY <1>2, <1>3
  <2> QED BY <2>1
<1> HIDE DEF r
<1>6. Len(before) + Len(behind) = n - 1
  BY <1>1, <1>2, <1>3
<1>7. ASSUME NEW j \in 1..(n - 1) PROVE r[j] = IF j < i THEN s[j] ELSE s[j + 1]
  <2>1. CASE j < i
    BY <1>1, <1>2, <1>5, <1>6, <2>1
  <2>2. CASE ~(j < i)
    <3>1. j - (i - 1) \in 1..(n - i) /\ i + (j - (i - 1)) = j + 1 /\ ~(j <= i - 1)
      BY <1>1, <2>2
    <3>2. r[j] = behind[j - (i - 1)]
      BY <1>2, <1>5, <1>6, <3>1
    <3> QED BY <1>3, <2>2, <3>1, <3>2
  <2> QED BY <2>1, <2>2
<1>8. IsSeq(r)
  BY <1>5, OwnSeq
<1>9. r \in Seq(S) /\ Shorter(r, s, i)
  BY <1>1, <1>5, <1>6, <1>7, <1>8 DEF Shorter, n
<1> QED BY <1>4, <1>9 DEF r

\* Only Append changes the list of connections.
LEMMA ListedGrows ==
  ASSUME PlacedInv, [Next]_vars
  PROVE  Listed \subseteq Listed'
<1>1. CASE PushConnection
  <2>1. connections \in Seq(Clients) /\ pushing \in Clients /\ connections' = Append(connections, pushing)
    BY <1>1 DEF PushConnection, PlacedInv
  <2> QED BY <2>1 DEF Listed, ToSet
<1>2. CASE connections' = connections
  BY <1>2 DEF Listed, ToSet
<1>3. Server => connections' = connections
  BY DEF Server, Enter, DrainNext, GetNewTasks, NothingToRun, StartRun, SendInputs, SendExecute,
         RecvOutputs, RecvResponse, RunTimeout, serverFrame, listenVars
<1>4. ASSUME NEW c \in Clients, Client(c) PROVE connections' = connections
  BY <1>4 DEF Client, Connect, RecvInputs, RecvExecute, SendOutputs, SendResponse, NodeFails,
         ClientEnds, WriterEnds, nodeFrame, listenVars
<1>5. ASSUME NEW t \in Tasks, Announce(t) PROVE connections' = connections
  BY <1>5 DEF Announce, nodeFrame
<1>6. Loses => connections' = connections
  BY DEF Loses, LoseUp, LoseDown, listenVars
<1> QED
  BY <1>1, <1>2, <1>3, <1>4, <1>5, <1>6
  DEF Next, Listener, Listens, Bind, ListenerDies, Accept, vars, listenVars

LEMMA PlacedStep ==
  ASSUME PlacedInv, [Next]_vars
  PROVE  PlacedInv'
<1>1. CASE UNCHANGED <<backlog, pushing, connections>>
  BY <1>1 DEF PlacedInv, Listed, ToSet
<1>2. CASE PushConnection
  <2>1. /\ connections \in Seq(Clients) /\ pushing \in Clients
        /\ connections' = Append(connections, pushing)
        /\ \A i \in DOMAIN connections : connections[i] # pushing
    BY <1>2 DEF PushConnection, PlacedInv, Listed, ToSet
  <2>2. /\ connections' \in Seq(Clients)
        /\ \A i, j \in DOMAIN connections' : connections'[i] = connections'[j] => i = j
        /\ Listed' = Listed \union {pushing}
    BY <2>1, <1>2 DEF PlacedInv, Listed, ToSet
  <2>3. \A c \in backlog : c # pushing /\ c \notin Listed
    BY DEF PlacedInv
  <2>4. backlog' = backlog /\ pushing' = NoClient /\ NoClient \notin Clients
    BY <1>2, ServerAssumption DEF PushConnection
  <2> QED BY <2>2, <2>3, <2>4 DEF PlacedInv
<1>3. ASSUME NEW c \in Clients, Accept(c) PROVE PlacedInv'
  BY <1>3 DEF Accept, PlacedInv, Listed, ToSet
<1>4. ASSUME NEW c \in Clients, Connect(c) PROVE PlacedInv'
  BY <1>4 DEF Connect, Connected, PlacedInv, Listed, ToSet, nodeFrame
<1>5. Server => UNCHANGED <<backlog, pushing, connections>>
  BY DEF Server, Enter, DrainNext, GetNewTasks, NothingToRun, StartRun, SendInputs, SendExecute,
         RecvOutputs, RecvResponse, RunTimeout, serverFrame, listenVars
<1>6. ASSUME NEW c \in Clients, Client(c), ~Connect(c)
      PROVE  UNCHANGED <<backlog, pushing, connections>>
  BY <1>6 DEF Client, RecvInputs, RecvExecute, SendOutputs, SendResponse, NodeFails,
         ClientEnds, WriterEnds, nodeFrame, listenVars
<1>7. ASSUME NEW t \in Tasks, Announce(t) PROVE UNCHANGED <<backlog, pushing, connections>>
  BY <1>7 DEF Announce, nodeFrame
<1>8. Loses => UNCHANGED <<backlog, pushing, connections>>
  BY DEF Loses, LoseUp, LoseDown, listenVars
<1> QED
  BY <1>1, <1>2, <1>3, <1>4, <1>5, <1>6, <1>7, <1>8
  DEF Next, Listener, Listens, Bind, ListenerDies, vars, listenVars

-----------------------------------------------------------------------------
\* A message is added to one link only.
LEMMA SendsOne ==
  ASSUME FunctionsInv, UpInv, NEW c \in Clients, NEW m, ClientSends(c, m)
  PROVE  /\ \A d \in Clients : d # c => up'[d] = up[d]
         /\ Longer(up'[c], up[c], m)
<1> DEFINE longer == Append(up[c], m)
<1>1. up' = [up EXCEPT ![c] = longer] /\ DOMAIN up = Clients
  BY DEF ClientSends, FunctionsInv
<1>2. Longer(longer, up[c], m)
  BY AppendSeq DEF UpInv, InOrder
<1> HIDE DEF longer
<1> QED BY <1>1, <1>2

\* What a client had not sent is cut off its link when it ends.
LEMMA EndsOne ==
  ASSUME FunctionsInv, UpInv, NEW c \in Clients, ClientEnds(c)
  PROVE  /\ \A d \in Clients : d # c => up'[d] = up[d]
         /\ Opening(up'[c], up[c])
<1>1. PICK n \in 0..Len(up[c]) : up' = [up EXCEPT ![c] = SubSeq(@, 1, n)]
  BY DEF ClientEnds
<1> DEFINE shorter == SubSeq(up[c], 1, n)
<1>2. up' = [up EXCEPT ![c] = shorter] /\ DOMAIN up = Clients
  BY <1>1 DEF FunctionsInv
<1>3. Opening(shorter, up[c])
  BY PrefixSeq DEF UpInv, InOrder
<1> HIDE DEF shorter
<1> QED BY <1>2, <1>3

\* r is s without a message, and if that was of the kind, its run is in P.
LostFrom(r, s, kind, P) ==
  \E i \in DOMAIN s :
    /\ Shorter(r, s, i)
    /\ s[i].kind = kind => <<s[i].task, s[i].run>> \in P

LEMMA LostElements ==
  ASSUME NEW r, NEW s, NEW kind, NEW P, LostFrom(r, s, kind, P)
  PROVE  \A j \in DOMAIN r : \E k \in DOMAIN s : r[j] = s[k]
<1>1. PICK i \in DOMAIN s : Shorter(r, s, i)
  BY DEF LostFrom
<1>2. ASSUME NEW j \in DOMAIN r PROVE \E k \in DOMAIN s : r[j] = s[k]
  <2>1. DOMAIN s = 1..Len(s) /\ Len(s) \in Nat /\ j \in 1..(Len(s) - 1)
    BY <1>1 DEF Shorter
  <2>2. j \in DOMAIN s /\ j + 1 \in DOMAIN s
    BY <2>1
  <2> QED BY <1>1, <2>2 DEF Shorter
<1> QED BY <1>2

\* What a link loses is one message, and the history has it.
LEMMA LosesOne ==
  ASSUME NEW c \in Clients, NEW kind, NEW S, NEW link, DOMAIN link = Clients, link[c] \in Seq(S),
         NEW i \in DOMAIN link[c], NEW after, after = [link EXCEPT ![c] = RemoveAt(@, i)],
         lost' = lost \union {<<c, link[c][i]>>}
  PROVE  /\ \A d \in Clients : d # c => after[d] = link[d]
         /\ after[c] \in Seq(S)
         /\ LostFrom(after[c], link[c], kind, LostRuns(kind, c)')
<1> DEFINE shorter == RemoveAt(link[c], i)
           m == link[c][i]
<1>1. shorter \in Seq(S) /\ Shorter(shorter, link[c], i)
  BY RemoveTyped
<1>2. after = [link EXCEPT ![c] = shorter]
  OBVIOUS
<1>3. m.kind = kind => <<m.task, m.run>> \in LostRuns(kind, c)'
  <2>1. \E l \in lost' : l[1] = c /\ l[2] = m
    <3>1. <<c, m>> \in lost' /\ <<c, m>>[1] = c /\ <<c, m>>[2] = m
      OBVIOUS
    <3> QED BY <3>1
  <2> HIDE DEF m
  <2> QED BY <2>1 DEF LostRuns
<1> HIDE DEF shorter
<1>4. after[c] = shorter /\ \A d \in Clients : d # c => after[d] = link[d]
  BY <1>2
<1> QED BY <1>1, <1>3, <1>4 DEF LostFrom

\* A link to the server that loses a message.
LEMMA LosesUp ==
  ASSUME FunctionsInv, UpInv, NEW c \in Clients, LoseUp(c), NEW kind
  PROVE  /\ \A d \in Clients : d # c => up'[d] = up[d]
         /\ LostFrom(up'[c], up[c], kind, LostRuns(kind, c)')
<1>1. PICK i \in DOMAIN up[c] : /\ up' = [up EXCEPT ![c] = RemoveAt(@, i)]
                               /\ lost' = lost \union {<<c, up[c][i]>>}
  BY DEF LoseUp
<1>2. up[c] \in Seq(ToSet(up[c])) /\ DOMAIN up = Clients
  BY DEF FunctionsInv, UpInv, InOrder, IsSeq
<1> QED BY <1>1, <1>2, LosesOne

\* The history only grows.
LEMMA LostGrows ==
  ASSUME [Next]_vars
  PROVE  \A kind, c : LostRuns(kind, c) \subseteq LostRuns(kind, c)'
<1>1. lost \subseteq lost'
  <2>1. CASE Loses
    BY <2>1 DEF Loses, LoseUp, LoseDown
  <2>2. CASE Server
    BY <2>2
    DEF Server, Enter, DrainNext, GetNewTasks, NothingToRun, StartRun, SendInputs, SendExecute,
        RecvOutputs, RecvResponse, RunTimeout, serverFrame
  <2>3. ASSUME NEW c \in Clients, Client(c) PROVE lost' = lost
    BY <2>3
    DEF Client, Connect, RecvInputs, RecvExecute, SendOutputs, SendResponse, NodeFails, ClientEnds,
        WriterEnds, nodeFrame
  <2>4. ASSUME NEW t \in Tasks, Announce(t) PROVE lost' = lost
    BY <2>4 DEF Announce, nodeFrame
  <2>5. CASE Listener \/ UNCHANGED vars
    BY <2>5
    DEF Listener, Listens, Bind, ListenerDies, Accept, PushConnection, vars, linkVars
  <2> QED BY <2>1, <2>2, <2>3, <2>4, <2>5 DEF Next
<1> QED BY <1>1 DEF LostRuns

\* The functions keep their domains and the server its three queues.
LEMMA FunctionsStep ==
  ASSUME FunctionsInv, [Next]_vars
  PROVE  FunctionsInv'
<1>1. CASE Server
  BY <1>1
  DEF FunctionsInv, Server, Enter, DrainNext, Filed, GetNewTasks, NothingToRun, StartRun, SendInputs,
      SendExecute, Forget, RecvOutputs, RecvResponse, RunTimeout, serverFrame, nodeVars
<1>2. ASSUME NEW c \in Clients, Client(c) PROVE FunctionsInv'
  BY <1>2
  DEF FunctionsInv, Client, Connect, RecvInputs, RecvExecute, SendOutputs, SendResponse, ClientSends,
      NodeFails, ClientEnds, WriterEnds, nodeFrame, serverVars, nodeVars
<1>3. ASSUME NEW t \in Tasks, Announce(t) PROVE FunctionsInv'
  BY <1>3 DEF FunctionsInv, Announce, ClientSends, nodeFrame, serverVars
<1>4. CASE Listener \/ UNCHANGED vars
  BY <1>4
  DEF FunctionsInv, Listener, Listens, Bind, ListenerDies, Accept, PushConnection, vars, linkVars,
      serverVars, nodeVars
<1>5. CASE Loses
  BY <1>5 DEF FunctionsInv, Loses, LoseUp, LoseDown, serverVars, nodeVars
<1> QED BY <1>1, <1>2, <1>3, <1>4, <1>5 DEF Next

-----------------------------------------------------------------------------
LEMMA AnnouncedStep ==
  ASSUME FunctionsInv, PlacedInv, AnnouncedInv, UpInv, [Next]_vars
  PROVE  AnnouncedInv'
<1>1. Listed \subseteq Listed'
  BY ListedGrows
<1> USE <1>1
<1>2. CASE UNCHANGED <<up, queue, known>>
  BY <1>2 DEF AnnouncedInv
<1>3. CASE DrainNext
  <2> DEFINE c == connections[next]
  <2>1. c \in Clients /\ c \in Listed
    BY <1>3 DEF DrainNext, PlacedInv, Listed, ToSet
  <2>2. /\ known' = known
        /\ up' = [up EXCEPT ![c] = <<>>]
        /\ queue'.new = queue.new \union Stamped(c)
    BY <1>3 DEF DrainNext, Filed
  <2>3. \A d \in Stamped(c) : d.connection = Owner[d.task] /\ d.connection \in Listed
    BY <2>1 DEF Stamped, AnnouncedInv, ToSet
  <2>4. \A d \in Clients : \A i \in DOMAIN up'[d] : d # c /\ up'[d] = up[d]
    BY <2>1, <2>2 DEF FunctionsInv
  <2> QED BY <2>2, <2>3, <2>4 DEF AnnouncedInv
<1>4. CASE GetNewTasks
  <2>1. up' = up /\ queue'.new = {}
    BY <1>4 DEF GetNewTasks, FunctionsInv
  <2>2. ASSUME NEW t \in Tasks
        PROVE  \/ known'[t] = known[t]
               \/ known'[t] = Owner[t] /\ known'[t] \in Listed
    <3>1. CASE \E d \in queue.new : d.task = t
      <4> DEFINE d == CHOOSE d \in queue.new : d.task = t
      <4>1. d \in queue.new /\ d.task = t
        BY <3>1
      <4>2. known'[t] = d.connection
        BY <1>4, <3>1 DEF GetNewTasks
      <4> QED BY <4>1, <4>2 DEF AnnouncedInv
    <3>2. CASE ~\E d \in queue.new : d.task = t
      BY <1>4, <3>2 DEF GetNewTasks
    <3> QED BY <3>1, <3>2
  <2> QED BY <2>1, <2>2 DEF AnnouncedInv
<1>5. ASSUME Forget, UNCHANGED <<up, queue>> PROVE AnnouncedInv'
  <2>1. \A t \in Tasks : known'[t] = known[t] \/ known'[t] = NoClient
    BY <1>5 DEF Forget, FunctionsInv
  <2> QED BY <1>5, <2>1 DEF AnnouncedInv
<1>6. CASE UNCHANGED <<up, known>> /\ queue'.new = queue.new
  BY <1>6 DEF AnnouncedInv
<1>7. CASE Server
  <2>1. CASE Enter \/ NothingToRun \/ \E t \in Tasks : StartRun(t)
    BY <1>2, <2>1 DEF Enter, NothingToRun, StartRun
  <2>2. CASE SendInputs
    BY <1>2, <1>5, <2>2 DEF SendInputs
  <2>3. CASE SendExecute
    BY <1>2, <1>5, <2>3 DEF SendExecute
  <2>4. CASE RunTimeout
    BY <1>5, <2>4 DEF RunTimeout
  <2>5. CASE RecvOutputs
    BY <1>6, <2>5 DEF RecvOutputs, FunctionsInv
  <2>6. CASE RecvResponse
    BY <1>6, <2>6 DEF RecvResponse, FunctionsInv
  <2> QED BY <1>3, <1>4, <1>7, <2>1, <2>2, <2>3, <2>4, <2>5, <2>6 DEF Server
<1>8. ASSUME NEW c \in Clients, NEW m, ClientSends(c, m), UNCHANGED <<queue, known>>,
             m.kind = "new" => m.task \in Tasks /\ Owner[m.task] = c
      PROVE  AnnouncedInv'
  <2>1. \A d \in Clients : \A i \in DOMAIN up'[d] :
          up'[d][i].kind = "new" => up'[d][i].task \in Tasks /\ Owner[up'[d][i].task] = d
    <3>1. \A d \in Clients : d # c => up'[d] = up[d]
      BY <1>8, SendsOne
    <3>2. Longer(up'[c], up[c], m)
      BY <1>8, SendsOne
    <3>3. \A i \in DOMAIN up'[c] : up'[c][i] = m \/ (i \in DOMAIN up[c] /\ up'[c][i] = up[c][i])
      BY <3>2 DEF Longer
    <3> QED BY <1>8, <3>1, <3>3 DEF AnnouncedInv
  <2> QED BY <1>8, <2>1 DEF AnnouncedInv
<1>9. ASSUME NEW t \in Tasks, Announce(t) PROVE AnnouncedInv'
  <2>1. Owner[t] \in Clients
    BY ServerAssumption
  <2> QED BY <1>8, <1>9, <2>1 DEF Announce, Message, nodeFrame, serverVars
<1>10. ASSUME NEW c \in Clients, Client(c) PROVE AnnouncedInv'
  <2>1. CASE Connect(c) \/ RecvInputs(c) \/ RecvExecute(c) \/ NodeFails(c) \/ WriterEnds(c)
    BY <1>2, <2>1 DEF Connect, RecvInputs, RecvExecute, NodeFails, WriterEnds, nodeFrame, serverVars
  <2>2. CASE SendOutputs(c)
    BY <1>8, <2>2 DEF SendOutputs, Message, nodeFrame, serverVars
  <2>3. CASE SendResponse(c)
    BY <1>8, <2>3 DEF SendResponse, Message, nodeFrame, serverVars
  <2>4. CASE ClientEnds(c)
    <3>1. \A d \in Clients : \A i \in DOMAIN up'[d] : i \in DOMAIN up[d] /\ up'[d][i] = up[d][i]
      BY <2>4, EndsOne DEF Opening
    <3>2. UNCHANGED <<queue, known>>
      BY <2>4 DEF ClientEnds, nodeFrame, serverVars
    <3> QED BY <3>1, <3>2 DEF AnnouncedInv
  <2> QED BY <1>10, <2>1, <2>2, <2>3, <2>4 DEF Client
<1>11. CASE Listener \/ UNCHANGED vars
  BY <1>2, <1>11
  DEF Listener, Listens, Bind, ListenerDies, Accept, PushConnection, vars, linkVars, serverVars
<1>12. ASSUME NEW c \in Clients, LoseUp(c) PROVE AnnouncedInv'
  <2>1. \A d \in Clients : d # c => up'[d] = up[d]
    BY <1>12, LosesUp
  <2>2. LostFrom(up'[c], up[c], "new", LostRuns("new", c)')
    BY <1>12, LosesUp
  <2>3. \A j \in DOMAIN up'[c] : \E k \in DOMAIN up[c] : up'[c][j] = up[c][k]
    BY <2>2, LostElements
  <2>4. UNCHANGED <<queue, known>>
    BY <1>12 DEF LoseUp, serverVars
  <2> QED BY <2>1, <2>3, <2>4 DEF AnnouncedInv
<1>13. ASSUME NEW c \in Clients, LoseDown(c) PROVE AnnouncedInv'
  BY <1>2, <1>13 DEF LoseDown, serverVars
<1> QED BY <1>7, <1>9, <1>10, <1>11, <1>12, <1>13 DEF Next, Loses

-----------------------------------------------------------------------------
\* Nothing that was taken off a link is dropped before it is stored.
LEMMA OutputsGrow ==
  ASSUME FunctionsInv, [Next]_vars
  PROVE  Outputs \subseteq Outputs'
<1>1. CASE UNCHANGED <<stored, queue>>
  BY <1>1 DEF Outputs
<1>2. CASE DrainNext
  BY <1>2 DEF DrainNext, Filed, Outputs
<1>3. CASE GetNewTasks
  BY <1>3 DEF GetNewTasks, Outputs, FunctionsInv
<1>4. CASE RecvOutputs
  BY <1>4 DEF RecvOutputs, Outputs, FunctionsInv
<1>5. CASE RecvResponse
  BY <1>5 DEF RecvResponse, Outputs, FunctionsInv
<1>6. CASE Server
  BY <1>1, <1>2, <1>3, <1>4, <1>5, <1>6
  DEF Server, Enter, NothingToRun, StartRun, SendInputs, SendExecute, RunTimeout
<1>7. ASSUME NEW c \in Clients, Client(c) PROVE Outputs \subseteq Outputs'
  BY <1>1, <1>7
  DEF Client, Connect, RecvInputs, RecvExecute, SendOutputs, SendResponse, NodeFails,
      ClientEnds, WriterEnds, nodeFrame, serverVars
<1>8. ASSUME NEW t \in Tasks, Announce(t) PROVE Outputs \subseteq Outputs'
  BY <1>1, <1>8 DEF Announce, nodeFrame, serverVars
<1>9. CASE Listener \/ UNCHANGED vars
  BY <1>1, <1>9 DEF Listener, Listens, Bind, ListenerDies, Accept, PushConnection, vars, serverVars
<1>10. CASE Loses
  BY <1>1, <1>10 DEF Loses, LoseUp, LoseDown, serverVars
<1> QED BY <1>6, <1>7, <1>8, <1>9, <1>10 DEF Next

LEMMA LeftGrows ==
  ASSUME FunctionsInv, [Next]_vars
  PROVE  \A c \in Clients : Left(c) \subseteq Left(c)'
BY OutputsGrow, LostGrows DEF Left

\* What was sent before a place stays so while the messages before it stay.
LEMMA SentStays ==
  ASSUME NEW first, NEW s, NEW O, NEW r, NEW P, NEW n, NEW m, SentBefore(first, s, O, n, m), O \subseteq P,
         \A j \in DOMAIN s : j < n => j \in DOMAIN r /\ r[j] = s[j]
  PROVE  SentBefore(first, r, P, n, m)
BY DEF SentBefore

LEMMA OrderStays ==
  ASSUME NEW first, NEW second, NEW s, NEW O, InOrder(first, second, s, O), NEW P, O \subseteq P
  PROVE  InOrder(first, second, s, P)
BY SentStays DEF InOrder

LEMMA EmptyInOrder ==
  ASSUME NEW first, NEW second, NEW O
  PROVE  InOrder(first, second, <<>>, O)
BY DEF InOrder, IsSeq

\* A message may follow unless it is one of the second kind whose first is still to be sent.
LEMMA AppendInOrder ==
  ASSUME NEW first, NEW second, NEW s, NEW O, InOrder(first, second, s, O), NEW r, NEW m, Longer(r, s, m),
         m.kind = second => SentBefore(first, s, O, Len(s) + 1, m)
  PROVE  InOrder(first, second, r, O)
<1> DEFINE last == Len(s) + 1
<1>1. \A j \in DOMAIN s : j \in DOMAIN r /\ r[j] = s[j]
  BY DEF Longer
<1>2. ASSUME NEW i \in DOMAIN r, r[i].kind = second
      PROVE  SentBefore(first, r, O, i, r[i])
  <2>1. CASE i \in DOMAIN s
    <3>1. SentBefore(first, s, O, i, s[i]) /\ r[i] = s[i]
      BY <1>1, <1>2, <2>1 DEF InOrder
    <3> QED BY <1>1, <3>1, SentStays
  <2>2. CASE i = last
    <3>1. r[i] = m /\ SentBefore(first, s, O, i, m)
      BY <1>2, <2>2 DEF Longer
    <3> QED BY <1>1, <3>1, SentStays
  <2>3. i \in DOMAIN s \/ i = last
    BY DEF Longer
  <2> QED BY <2>1, <2>2, <2>3
<1> QED BY <1>2 DEF InOrder, Longer

LEMMA OpeningInOrder ==
  ASSUME NEW first, NEW second, NEW s, NEW O, InOrder(first, second, s, O), NEW r, Opening(r, s)
  PROVE  InOrder(first, second, r, O)
<1>1. ASSUME NEW i \in DOMAIN r, r[i].kind = second
      PROVE  SentBefore(first, r, O, i, r[i])
  BY <1>1 DEF InOrder, SentBefore, Opening
<1> QED BY <1>1 DEF InOrder, Opening

\* What was sent before a place was sent before it still, or is what was lost.
LEMMA SentOrLost ==
  ASSUME NEW first, NEW s, NEW O, NEW n \in Int, NEW m, SentBefore(first, s, O, n, m),
         NEW P, O \subseteq P, NEW r, NEW i, Shorter(r, s, i),
         s[i].kind = first => <<s[i].task, s[i].run>> \in P
  PROVE  SentBefore(first, r, P, IF n > i THEN n - 1 ELSE n, m)
<1>1. CASE <<m.task, m.run>> \in O
  BY <1>1 DEF SentBefore
<1>2. ASSUME NEW j \in DOMAIN s, j < n, s[j] = Message(first, m.task, m.run)
      PROVE  SentBefore(first, r, P, IF n > i THEN n - 1 ELSE n, m)
  <2>1. DOMAIN s = 1..Len(s) /\ Len(s) \in Nat /\ i \in DOMAIN s /\ DOMAIN r = 1..(Len(s) - 1)
    BY DEF Shorter
  <2>2. CASE j = i
    BY <1>2, <2>2 DEF SentBefore, Message
  <2>3. CASE j < i
    <3>1. j \in DOMAIN r /\ j < (IF n > i THEN n - 1 ELSE n)
      BY <1>2, <2>1, <2>3
    <3>2. r[j] = s[j]
      BY <2>3, <3>1 DEF Shorter
    <3> QED BY <1>2, <3>1, <3>2 DEF SentBefore
  <2>4. CASE j > i
    <3>1. /\ j - 1 \in DOMAIN r /\ j - 1 < (IF n > i THEN n - 1 ELSE n)
          /\ ~(j - 1 < i) /\ (j - 1) + 1 = j
      BY <1>2, <2>1, <2>4
    <3>2. r[j - 1] = s[j]
      BY <3>1 DEF Shorter
    <3> QED BY <1>2, <3>1, <3>2 DEF SentBefore
  <2> QED BY <2>1, <2>2, <2>3, <2>4
<1> QED BY <1>1, <1>2 DEF SentBefore

\* A link that loses a message stays in order, when what was lost is accounted for.
LEMMA LostInOrder ==
  ASSUME NEW first, NEW second, NEW s, NEW O, InOrder(first, second, s, O),
         NEW P, O \subseteq P, NEW r, LostFrom(r, s, first, P)
  PROVE  InOrder(first, second, r, P)
<1>1. PICK i \in DOMAIN s : Shorter(r, s, i) /\ (s[i].kind = first => <<s[i].task, s[i].run>> \in P)
  BY DEF LostFrom
<1>2. DOMAIN s = 1..Len(s) /\ Len(s) \in Nat /\ i \in 1..Len(s) /\ DOMAIN r = 1..(Len(s) - 1)
  BY <1>1 DEF Shorter
<1>3. ASSUME NEW j \in DOMAIN r, r[j].kind = second
      PROVE  SentBefore(first, r, P, j, r[j])
  <2>1. CASE j < i
    <3>1. r[j] = s[j] /\ j \in DOMAIN s /\ j \in Int /\ ~(j > i)
      BY <1>1, <1>2, <2>1 DEF Shorter
    <3>2. SentBefore(first, s, O, j, s[j])
      BY <1>3, <3>1 DEF InOrder
    <3> QED BY <1>1, <3>1, <3>2, SentOrLost
  <2>2. CASE ~(j < i)
    <3>1. r[j] = s[j + 1] /\ j + 1 \in DOMAIN s /\ j + 1 \in Int /\ j + 1 > i /\ (j + 1) - 1 = j
      BY <1>1, <1>2, <2>2 DEF Shorter
    <3>2. SentBefore(first, s, O, j + 1, s[j + 1])
      BY <1>3, <3>1 DEF InOrder
    <3>3. SentBefore(first, r, P, (j + 1) - 1, s[j + 1])
      BY <1>1, <3>1, <3>2, SentOrLost
    <3> QED BY <3>1, <3>3
  <2> QED BY <2>1, <2>2
<1> QED BY <1>1, <1>3 DEF InOrder, Shorter

\* The same for what was sent at all.
LEMMA SentAllOrLost ==
  ASSUME NEW first, NEW s, NEW O, NEW m, SentBefore(first, s, O, Len(s) + 1, m),
         NEW P, O \subseteq P, NEW r, LostFrom(r, s, first, P)
  PROVE  SentBefore(first, r, P, Len(r) + 1, m)
<1>1. PICK i \in DOMAIN s : Shorter(r, s, i) /\ (s[i].kind = first => <<s[i].task, s[i].run>> \in P)
  BY DEF LostFrom
<1>2. Len(s) + 1 \in Int /\ Len(s) + 1 > i /\ (Len(s) + 1) - 1 = Len(r) + 1
  BY <1>1 DEF Shorter
<1>3. SentBefore(first, r, P, (Len(s) + 1) - 1, m)
  BY <1>1, <1>2, SentOrLost
<1> QED BY <1>2, <1>3

\* The server has the outputs that were on the links it drains.
LEMMA SentDrained ==
  ASSUME DrainNext, NEW c, c = connections[next], NEW n, NEW m, SentBefore("outputs", up[c], Left(c), n, m)
  PROVE  <<m.task, m.run>> \in Left(c)'
<1>1. /\ stored' = stored /\ queue'.outputs = queue.outputs \union Runs("outputs", up[c])
      /\ LostRuns("outputs", c)' = LostRuns("outputs", c)
  BY DEF DrainNext, Filed, serverFrame, LostRuns
<1>2. CASE <<m.task, m.run>> \in Left(c)
  BY <1>1, <1>2 DEF Left, Outputs
<1>3. ASSUME NEW j \in DOMAIN up[c], up[c][j] = Message("outputs", m.task, m.run)
      PROVE  <<m.task, m.run>> \in Left(c)'
  <2>1. up[c][j].kind = "outputs" /\ up[c][j].task = m.task /\ up[c][j].run = m.run
    BY <1>3 DEF Message
  <2>2. <<m.task, m.run>> \in Runs("outputs", up[c])
    BY <2>1 DEF Runs, ToSet
  <2> QED BY <1>1, <2>2 DEF Left, Outputs
<1> QED BY <1>2, <1>3 DEF SentBefore

-----------------------------------------------------------------------------
LEMMA UpStep ==
  ASSUME FunctionsInv, PlacedInv, UpInv, WrittenInv, [Next]_vars
  PROVE  UpInv'
<1>1. \A c \in Clients : InOrder("outputs", "response", up[c], Left(c)')
  BY LeftGrows, OrderStays DEF UpInv
<1>2. CASE up' = up
  BY <1>1, <1>2 DEF UpInv
<1>3. CASE DrainNext
  <2>1. \A d \in Clients : up'[d] = up[d] \/ up'[d] = <<>>
    BY <1>3 DEF DrainNext, FunctionsInv
  <2> QED BY <1>1, <2>1, EmptyInOrder DEF UpInv
<1>4. ASSUME NEW c \in Clients, NEW m, ClientSends(c, m),
             m.kind = "response" => SentBefore("outputs", up[c], Left(c), Len(up[c]) + 1, m)
      PROVE  UpInv'
  <2>1. \A d \in Clients : d # c => up'[d] = up[d]
    BY <1>4, SendsOne
  <2>2. Longer(up'[c], up[c], m)
    BY <1>4, SendsOne
  <2>3. m.kind = "response" => SentBefore("outputs", up[c], Left(c)', Len(up[c]) + 1, m)
    BY <1>4, LeftGrows, SentStays
  <2>4. InOrder("outputs", "response", up'[c], Left(c)')
    BY <1>1, <2>2, <2>3, AppendInOrder
  <2> QED BY <1>1, <2>1, <2>4 DEF UpInv
<1>5. ASSUME NEW t \in Tasks, Announce(t) PROVE UpInv'
  BY <1>4, <1>5, ServerAssumption DEF Announce, Message
<1>6. ASSUME NEW c \in Clients, SendOutputs(c) PROVE UpInv'
  BY <1>4, <1>6 DEF SendOutputs, Message
<1>7. ASSUME NEW c \in Clients, SendResponse(c) PROVE UpInv'
  <2> DEFINE m == Message("response", Head(batch[c]).task, Head(batch[c]).run)
  <2>1. SentBefore("outputs", up[c], Left(c), Len(up[c]) + 1, Head(batch[c]))
    BY <1>7 DEF SendResponse, WrittenInv, FirstSent
  <2>2. SentBefore("outputs", up[c], Left(c), Len(up[c]) + 1, m)
    BY <2>1 DEF SentBefore, Message
  <2> QED BY <1>4, <1>7, <2>2 DEF SendResponse
<1>8. ASSUME NEW c \in Clients, ClientEnds(c) PROVE UpInv'
  <2>1. \A d \in Clients : d # c => up'[d] = up[d]
    BY <1>8, EndsOne
  <2>2. InOrder("outputs", "response", up'[c], Left(c)')
    BY <1>1, <1>8, EndsOne, OpeningInOrder
  <2> QED BY <1>1, <2>1, <2>2 DEF UpInv
<1>9. ASSUME NEW c \in Clients, Client(c) PROVE UpInv'
  BY <1>2, <1>6, <1>7, <1>8, <1>9
  DEF Client, Connect, RecvInputs, RecvExecute, NodeFails, WriterEnds
<1>10. CASE Server
  BY <1>2, <1>3, <1>10
  DEF Server, Enter, GetNewTasks, NothingToRun, StartRun, SendInputs, SendExecute, RecvOutputs,
      RecvResponse, RunTimeout
<1>11. CASE Listener \/ UNCHANGED vars
  BY <1>2, <1>11
  DEF Listener, Listens, Bind, ListenerDies, Accept, PushConnection, vars, linkVars
<1>12. ASSUME NEW c \in Clients, LoseUp(c) PROVE UpInv'
  <2>1. \A d \in Clients : d # c => up'[d] = up[d]
    BY <1>12, LosesUp
  <2>2. LostFrom(up'[c], up[c], "outputs", LostRuns("outputs", c)')
    BY <1>12, LosesUp
  <2>3. LostFrom(up'[c], up[c], "outputs", Left(c)')
    BY <2>2 DEF LostFrom, Left
  <2>4. InOrder("outputs", "response", up'[c], Left(c)')
    BY <2>3, LeftGrows, LostInOrder DEF UpInv
  <2> QED BY <1>1, <2>1, <2>4 DEF UpInv
<1>13. ASSUME NEW c \in Clients, LoseDown(c) PROVE UpInv'
  BY <1>2, <1>13 DEF LoseDown
<1> QED BY <1>5, <1>9, <1>10, <1>11, <1>12, <1>13 DEF Next, Loses

\* A longer link and more outputs with the server change nothing about what was sent.
LEMMA FirstSentStays ==
  ASSUME NEW s, IsSeq(s), NEW O, NEW b, FirstSent(s, O, b), NEW P, O \subseteq P,
         NEW r, r = s \/ \E m : Longer(r, s, m)
  PROVE  FirstSent(r, P, b)
<1>1. CASE r = s
  BY <1>1, SentStays DEF FirstSent
<1>2. ASSUME NEW m, Longer(r, s, m) PROVE FirstSent(r, P, b)
  <2>1. SentBefore("outputs", r, P, Len(s) + 1, Head(b))
    BY <1>2, SentStays DEF FirstSent, Longer
  <2> QED BY <1>2, <2>1 DEF FirstSent, SentBefore, Longer
<1> QED BY <1>1, <1>2

LEMMA WrittenStep ==
  ASSUME FunctionsInv, PlacedInv, UpInv, WrittenInv, [Next]_vars
  PROVE  WrittenInv'
<1>1. \A c \in Clients : written[c] => FirstSent(up[c], Left(c), batch[c])
  BY DEF WrittenInv
<1>2. \A c \in Clients : IsSeq(up[c])
  BY DEF UpInv, InOrder
<1>3. \A c \in Clients : Left(c) \subseteq Left(c)'
  BY LeftGrows
<1>4. ASSUME NEW c \in Clients, written'[c] => written[c], batch'[c] = batch[c],
             up'[c] = up[c] \/ \E m : Longer(up'[c], up[c], m)
      PROVE  written'[c] => FirstSent(up'[c], Left(c)', batch'[c])
  BY <1>1, <1>2, <1>3, <1>4, FirstSentStays
<1>5. CASE UNCHANGED <<up, batch, written>>
  BY <1>4, <1>5 DEF WrittenInv
<1>6. CASE DrainNext
  <2>1. UNCHANGED <<batch, written>>
    BY <1>6 DEF DrainNext, serverFrame, nodeVars
  <2>2. PICK c \in Clients : c = connections[next] /\ up' = [up EXCEPT ![c] = <<>>]
    <3>1. connections[next] \in Clients
      BY <1>6 DEF DrainNext, PlacedInv
    <3> QED BY <1>6, <3>1 DEF DrainNext
  <2>3. \A d \in Clients : d # c => up'[d] = up[d]
    BY <2>2 DEF FunctionsInv
  <2>4. ASSUME written[c] PROVE FirstSent(up'[c], Left(c)', batch[c])
    <3>1. /\ batch[c] # <<>>
          /\ SentBefore("outputs", up[c], Left(c), Len(up[c]) + 1, Head(batch[c]))
      BY <1>1, <2>2, <2>4 DEF FirstSent
    <3>2. <<Head(batch[c]).task, Head(batch[c]).run>> \in Left(c)'
      BY <1>6, <2>2, <3>1, SentDrained
    <3> QED BY <3>1, <3>2 DEF FirstSent, SentBefore
  <2> QED BY <1>4, <2>1, <2>3, <2>4 DEF WrittenInv
<1>7. CASE Server
  BY <1>5, <1>6, <1>7
  DEF Server, Enter, GetNewTasks, NothingToRun, StartRun, SendInputs, SendExecute, RecvOutputs,
      RecvResponse, RunTimeout, serverFrame, nodeVars
<1>8. ASSUME NEW t \in Tasks, Announce(t) PROVE WrittenInv'
  <2>1. Owner[t] \in Clients
    BY ServerAssumption
  <2>2. UNCHANGED <<batch, written>> /\ ClientSends(Owner[t], Message("new", t, 0))
    BY <1>8 DEF Announce
  <2>3. \A d \in Clients : up'[d] = up[d] \/ \E m : Longer(up'[d], up[d], m)
    BY <2>1, <2>2, SendsOne
  <2> QED BY <1>4, <2>2, <2>3 DEF WrittenInv
<1>9. ASSUME NEW c \in Clients, SendOutputs(c) PROVE WrittenInv'
  <2> DEFINE m == Message("outputs", Head(batch[c]).task, Head(batch[c]).run)
  <2>1. /\ ClientSends(c, m) /\ batch' = batch /\ batch[c] # <<>>
        /\ \A d \in Clients : d # c => written'[d] = written[d]
    BY <1>9 DEF SendOutputs, FunctionsInv
  <2>2. /\ \A d \in Clients : d # c => up'[d] = up[d]
        /\ Longer(up'[c], up[c], m)
    BY <2>1, SendsOne
  <2>3. FirstSent(up'[c], Left(c)', batch'[c])
    BY <2>1, <2>2 DEF FirstSent, SentBefore, Longer
  <2> QED BY <1>4, <2>1, <2>2, <2>3 DEF WrittenInv
<1>10. ASSUME NEW c \in Clients, ~written'[c],
              \A d \in Clients : d # c => /\ written'[d] = written[d]
                                          /\ batch'[d] = batch[d]
                                          /\ up'[d] = up[d]
       PROVE  WrittenInv'
  BY <1>4, <1>10 DEF WrittenInv
<1>11. ASSUME NEW c \in Clients, SendResponse(c) PROVE WrittenInv'
  <2>1. \A d \in Clients : d # c => up'[d] = up[d]
    BY <1>11 DEF SendResponse, ClientSends, FunctionsInv
  <2> QED BY <1>10, <1>11, <2>1 DEF SendResponse, FunctionsInv
<1>12. ASSUME NEW c \in Clients, NodeFails(c) PROVE WrittenInv'
  BY <1>10, <1>12 DEF NodeFails, FunctionsInv
<1>13. ASSUME NEW c \in Clients, ClientEnds(c) PROVE WrittenInv'
  <2>1. \A d \in Clients : d # c => up'[d] = up[d]
    BY <1>13, EndsOne
  <2> QED BY <1>10, <1>13, <2>1 DEF ClientEnds, FunctionsInv
<1>14. ASSUME NEW c \in Clients, RecvExecute(c) PROVE WrittenInv'
  <2>1. ~written[c]
    BY <1>1, <1>14 DEF RecvExecute, FirstSent
  <2> QED BY <1>10, <1>14, <2>1 DEF RecvExecute, FunctionsInv
<1>15. ASSUME NEW c \in Clients, Client(c) PROVE WrittenInv'
  BY <1>5, <1>9, <1>11, <1>12, <1>13, <1>14, <1>15
  DEF Client, Connect, RecvInputs, WriterEnds, nodeVars
<1>16. CASE Listener \/ UNCHANGED vars
  BY <1>5, <1>16
  DEF Listener, Listens, Bind, ListenerDies, Accept, PushConnection, vars, linkVars, nodeVars
<1>17. ASSUME NEW c \in Clients, LoseUp(c) PROVE WrittenInv'
  <2>1. \A d \in Clients : d # c => up'[d] = up[d]
    BY <1>17, LosesUp
  <2>2. UNCHANGED <<batch, written>>
    BY <1>17 DEF LoseUp, nodeVars
  <2>3. ASSUME written[c] PROVE FirstSent(up'[c], Left(c)', batch[c])
    <3>1. LostFrom(up'[c], up[c], "outputs", LostRuns("outputs", c)')
      BY <1>17, LosesUp
    <3>2. LostFrom(up'[c], up[c], "outputs", Left(c)')
      BY <3>1 DEF LostFrom, Left
    <3>3. /\ batch[c] # <<>>
          /\ SentBefore("outputs", up[c], Left(c), Len(up[c]) + 1, Head(batch[c]))
      BY <1>1, <2>3 DEF FirstSent
    <3>4. SentBefore("outputs", up'[c], Left(c)', Len(up'[c]) + 1, Head(batch[c]))
      BY <1>3, <3>2, <3>3, SentAllOrLost
    <3> QED BY <3>3, <3>4 DEF FirstSent
  <2> QED BY <1>4, <2>1, <2>2, <2>3 DEF WrittenInv
<1>18. ASSUME NEW c \in Clients, LoseDown(c) PROVE WrittenInv'
  BY <1>5, <1>18 DEF LoseDown, nodeVars
<1> QED BY <1>7, <1>8, <1>15, <1>16, <1>17, <1>18 DEF Next, Loses

\* A response is taken off its link with the outputs before it, or after them.
LEMMA AnswersStep ==
  ASSUME FunctionsInv, PlacedInv, UpInv, AnswersAfterOutputs, [Next]_vars
  PROVE  AnswersAfterOutputs'
<1> DEFINE Lost == UNION {LostRuns("outputs", c) : c \in Clients}
<1> USE DEF AnswersAfterOutputs
<1>1. Outputs \union Lost \subseteq Outputs' \union Lost'
  <2>1. \A c \in Clients : LostRuns("outputs", c) \subseteq LostRuns("outputs", c)'
    BY LostGrows
  <2> QED BY <2>1, OutputsGrow
<1> HIDE DEF Lost
<1>2. CASE queue'.response \union answered' \subseteq queue.response \union answered
  BY <1>1, <1>2 DEF Outputs, Lost
<1>3. CASE DrainNext
  <2>1. PICK c \in Clients : c = connections[next]
    BY <1>3 DEF DrainNext, PlacedInv
  <2>2. answered' = answered /\ queue'.response = queue.response \union Runs("response", up[c])
    BY <1>3, <2>1 DEF DrainNext, Filed
  <2>3. ASSUME NEW p \in Runs("response", up[c]) PROVE p \in Left(c)'
    <3>1. PICK i \in DOMAIN up[c] : up[c][i].kind = "response" /\ p = <<up[c][i].task, up[c][i].run>>
      BY DEF Runs, ToSet
    <3>2. SentBefore("outputs", up[c], Left(c), i, up[c][i])
      BY <2>1, <3>1 DEF UpInv, InOrder
    <3> QED BY <1>3, <2>1, <3>1, <3>2, SentDrained
  <2>4. Left(c)' \subseteq Outputs' \union Lost'
    BY <2>1 DEF Left, Lost
  <2>5. queue'.response \union answered' \subseteq Outputs' \union Lost'
    BY <1>1, <2>2, <2>3, <2>4 DEF Outputs, Lost
  <2> QED BY <2>5 DEF Outputs, Lost
<1>4. CASE Server
  <2>1. CASE GetNewTasks
    BY <1>2, <2>1 DEF GetNewTasks, FunctionsInv
  <2>2. CASE RecvOutputs
    BY <1>2, <2>2 DEF RecvOutputs, FunctionsInv
  <2>3. CASE RecvResponse
    <3>1. CASE UNCHANGED <<queue, answered>>
      BY <1>2, <3>1
    <3>2. ASSUME NEW p \in queue.response, answered' = answered \union {p},
                 queue'.response \subseteq queue.response
          PROVE  AnswersAfterOutputs'
      BY <1>2, <3>2
    <3>3. ASSUME NEW n \in Found, queue' = [queue EXCEPT !.response = @ \ {<<running, n>>}]
          PROVE  <<running, n>> \in queue.response /\ queue'.response \subseteq queue.response
      BY <3>3 DEF Found, FunctionsInv
    <3> QED BY <2>3, <3>1, <3>2, <3>3 DEF RecvResponse
  <2> QED
    BY <1>2, <1>3, <1>4, <2>1, <2>2, <2>3
    DEF Server, Enter, NothingToRun, StartRun, SendInputs, SendExecute, RunTimeout
<1>5. ASSUME NEW t \in Tasks, Announce(t) PROVE UNCHANGED <<queue, answered>>
  BY <1>5 DEF Announce, nodeFrame, serverVars
<1>6. ASSUME NEW c \in Clients, Client(c) PROVE UNCHANGED <<queue, answered>>
  BY <1>6
  DEF Client, Connect, RecvInputs, RecvExecute, SendOutputs, SendResponse, NodeFails, ClientEnds,
      WriterEnds, nodeFrame, serverVars
<1>7. CASE Listener \/ UNCHANGED vars
  BY <1>2, <1>7 DEF Listener, Listens, Bind, ListenerDies, Accept, PushConnection, vars, serverVars
<1>8. CASE Loses
  BY <1>2, <1>8 DEF Loses, LoseUp, LoseDown, serverVars
<1> QED BY <1>2, <1>4, <1>5, <1>6, <1>7, <1>8 DEF Next

-----------------------------------------------------------------------------
LEMMA InitInv == Init => IInv
<1> SUFFICES ASSUME Init PROVE IInv
  OBVIOUS
<1> USE DEF Init
<1>1. FunctionsInv
  BY DEF FunctionsInv
<1>2. PlacedInv
  BY DEF PlacedInv, Listed, ToSet
<1>3. AnnouncedInv
  BY DEF AnnouncedInv
<1>4. UpInv
  BY EmptyInOrder DEF UpInv
<1>5. WrittenInv
  BY DEF WrittenInv
<1>6. AnswersAfterOutputs
  BY DEF AnswersAfterOutputs
<1> QED BY <1>1, <1>2, <1>3, <1>4, <1>5, <1>6 DEF IInv

LEMMA StepInv == IInv /\ [Next]_vars => IInv'
BY FunctionsStep, PlacedStep, AnnouncedStep, UpStep, WrittenStep, AnswersStep DEF IInv

LEMMA AlwaysInv == Spec => []IInv
BY InitInv, StepInv, PTL DEF Spec

(* A task the broker knows is known by the connection of the client that announced *)
(* it, which is in the list, and there once: requests go to a node that has the    *)
(* task, whatever order clients connect, announce and end in.                      *)
THEOREM KnownCorrect == Spec => []KnownReachable
<1>1. IInv => KnownReachable
  BY DEF IInv, PlacedInv, AnnouncedInv, KnownReachable, Listed
<1> QED BY <1>1, AlwaysInv, PTL

(* Outputs are with the server before the response to the same execution, however *)
(* connections are drained: a task that has answered has its outputs stored, or   *)
(* in the queue that the next call empties, unless these very outputs are what a  *)
(* connection lost.                                                               *)
THEOREM AnswersCorrect == Spec => []AnswersAfterOutputs
<1>1. IInv => AnswersAfterOutputs
  BY DEF IInv
<1> QED BY <1>1, AlwaysInv, PTL

-----------------------------------------------------------------------------
(* Types *)

UpMessages ==
  {m \in OnLink({"new", "outputs", "response"}) : m.kind # "new" => m.run \in 1..MaxRuns}

DownMessages == {m \in OnLink({"inputs", "execute"}) : m.run \in 1..MaxRuns}

RunRequests == {m \in DownMessages : m.kind = "execute"}

\* A task that runs is known and has a number for its run.
ServerInv ==
  /\ ServerTypeOK
  /\ pushing # NoClient => next \in {NotDraining, Drained}
  /\ running # NoTask => known[running] # NoClient /\ runs[running] \in 1..MaxRuns

LinksInv ==
  \A c \in Clients :
    /\ up[c] \in Seq(UpMessages) /\ Len(up[c]) <= Capacity[c]
    /\ down[c] \in Seq(DownMessages) /\ Len(down[c]) <= Capacity[c]
    /\ batch[c] \in Seq(RunRequests)
    /\ clientQueue[c].execute \in Seq(RunRequests)

\* The requests on a link are its messages of that kind.
LEMMA RequestsIs ==
  ASSUME NEW S, NEW link \in Seq(S)
  PROVE  Requests(link) \in Seq({m \in ToSet(link) : m.kind = "execute"})
<1> DEFINE n == Len(link)
           R == Seq({m \in ToSet(link) : m.kind = "execute"})
           step == [i \in 1..n |-> [r \in R |->
                      IF link[i].kind = "execute" THEN Append(r, link[i]) ELSE r]]
           Body(f) == [i \in 0..n |->
                         IF i = 0 THEN <<>>
                         ELSE IF link[i].kind = "execute" THEN Append(f[i - 1], link[i])
                         ELSE f[i - 1]]
<1>1. n \in Nat /\ \A i \in 1..n : link[i] \in ToSet(link)
  BY DEF ToSet
<1>2. <<>> \in R
  OBVIOUS
<1>3. ASSUME NEW i \in 1..n, NEW r \in R, link[i].kind = "execute"
      PROVE  Append(r, link[i]) \in R
  BY <1>1, <1>3
<1> HIDE DEF n, R
<1>4. step \in [1..n -> [R -> R]]
  <2>1. ASSUME NEW i \in 1..n
        PROVE  [r \in R |-> IF link[i].kind = "execute" THEN Append(r, link[i]) ELSE r] \in [R -> R]
    BY <1>3
  <2> QED BY <2>1
<1>5. \A i \in 1..n, r \in R :
        step[i][r] = IF link[i].kind = "execute" THEN Append(r, link[i]) ELSE r
  OBVIOUS
<1> HIDE DEF step
<1>6. PICK f \in [0..n -> R] : f[0] = <<>> /\ \A i \in 1..n : f[i] = step[i][f[i - 1]]
  <2>1. \E f : Iterates(f, n, R, <<>>, step)
    BY <1>1, <1>2, <1>4, RecursionAlong
  <2> QED BY <2>1 DEF Iterates
<1>7. f = Body(f)
  <2>1. f = [i \in 0..n |-> f[i]]
    OBVIOUS
  <2>2. ASSUME NEW i \in 0..n PROVE f[i] = Body(f)[i]
    <3>1. CASE i = 0
      BY <1>6, <3>1
    <3>2. CASE i # 0
      <4>1. i \in 1..n /\ i - 1 \in 0..n
        BY <1>1, <3>2
      <4>2. f[i - 1] \in R
        BY <4>1
      <4> QED BY <1>5, <1>6, <3>2, <4>1, <4>2
    <3> QED BY <3>1, <3>2
  <2> QED BY <2>1, <2>2, Zenon
<1> DEFINE g == CHOOSE g : g = Body(g)
<1>8. g = Body(g)
  BY <1>7
<1>9. Requests(link) = g[n]
  BY DEF Requests, n
<1> HIDE DEF g
<1>10. g[0] = <<>> /\ \A i \in 1..n : g[i] = IF link[i].kind = "execute"
                                              THEN Append(g[i - 1], link[i]) ELSE g[i - 1]
  <2>1. \A i \in 0..n : g[i] = Body(g)[i]
    BY <1>8, Zenon
  <2>2. 0 \in 0..n /\ \A i \in 1..n : i \in 0..n /\ i # 0
    BY <1>1
  <2> QED BY <2>1, <2>2
<1> DEFINE P == {i \in 0..n : g[i] \in R}
<1>11. 0 \in P
  BY <1>1, <1>2, <1>10
<1>12. ASSUME NEW i \in 0..(n - 1), i \in P PROVE i + 1 \in P
  <2>1. i + 1 \in 1..n /\ i + 1 \in 0..n /\ (i + 1) - 1 = i
    BY <1>1
  <2>2. g[i + 1] = IF link[i + 1].kind = "execute" THEN Append(g[i], link[i + 1]) ELSE g[i]
    BY <1>10, <2>1
  <2>3. g[i + 1] \in R
    BY <1>3, <1>12, <2>1, <2>2
  <2> QED BY <2>1, <2>3
<1> HIDE DEF P
<1>13. 0..n \subseteq P
  BY <1>1, <1>11, <1>12, IntervalInduction
<1>14. g[n] \in R
  BY <1>1, <1>13 DEF P
<1> QED BY <1>9, <1>14 DEF R

\* What was received are requests for runs, in the queue or on the link before.
LEMMA ReceivedIs ==
  ASSUME LinksInv, NEW c \in Clients
  PROVE  /\ Received(c).execute \in Seq(RunRequests)
         /\ \A m \in ToSet(Received(c).execute) :
              m \in ToSet(clientQueue[c].execute)
              \/ \E i \in DOMAIN down[c] : down[c][i] = m /\ m.kind = "execute"
<1> DEFINE old == clientQueue[c].execute
           T == {m \in ToSet(down[c]) : m.kind = "execute"}
           new == Requests(down[c])
<1>1. old \in Seq(RunRequests) /\ down[c] \in Seq(DownMessages)
  BY DEF LinksInv
<1>2. new \in Seq(T)
  BY <1>1, RequestsIs
<1>3. T \subseteq RunRequests
  BY <1>1 DEF ToSet, RunRequests
<1>4. \A m \in T : m.kind = "execute" /\ \E i \in DOMAIN down[c] : down[c][i] = m
  BY DEF ToSet
<1>5. Received(c).execute = old \o new
  BY DEF Received
<1> HIDE DEF old, new, T
<1>6. new \in Seq(RunRequests)
  BY <1>2, <1>3
<1>7. /\ old \o new \in Seq(RunRequests)
      /\ \A i \in DOMAIN (old \o new) :
           (i \in DOMAIN old /\ (old \o new)[i] = old[i]) \/ (old \o new)[i] \in T
  BY <1>1, <1>2, <1>6
<1>8. ASSUME NEW m \in ToSet(old \o new) PROVE m \in ToSet(old) \/ m \in T
  BY <1>7 DEF ToSet
<1> QED BY <1>4, <1>5, <1>7, <1>8 DEF old

\* What the messages of a link are about.
LEMMA UpTyped ==
  ASSUME LinksInv, NEW c \in Clients
  PROVE  /\ \A t \in {m.task : m \in {m \in ToSet(up[c]) : m.kind = "new"}} : t \in Tasks
         /\ Runs("outputs", up[c]) \subseteq Tasks \X (1..MaxRuns)
         /\ Runs("response", up[c]) \subseteq Tasks \X (1..MaxRuns)
         /\ Stamped(c) \subseteq [task : Tasks, connection : Clients]
<1>1. ToSet(up[c]) \subseteq UpMessages
  BY DEF LinksInv, ToSet
<1>2. \A m \in UpMessages : m.task \in Tasks /\ (m.kind # "new" => m.run \in 1..MaxRuns)
  BY DEF UpMessages, OnLink, Messages
<1>3. \A m \in ToSet(up[c]) : m.task \in Tasks /\ (m.kind # "new" => m.run \in 1..MaxRuns)
  BY <1>1, <1>2
<1> QED BY <1>3 DEF Runs, Stamped

LEMMA ServerStep ==
  ASSUME FunctionsInv, PlacedInv, LinksInv, ServerInv, [Next]_vars
  PROVE  ServerInv'
<1> DEFINE Phases == {"read", "launch", "inputs", "execute", "outputs", "response"}
           Queues == [new : SUBSET [task : Tasks, connection : Clients],
                      response : SUBSET (Tasks \X (1..MaxRuns)),
                      outputs : SUBSET (Tasks \X (1..MaxRuns))]
           Nexts == {NotDraining, Drained} \union DOMAIN connections
           Running == running # NoTask => known[running] # NoClient /\ runs[running] \in 1..MaxRuns
<1>1. /\ phase \in Phases /\ running \in Tasks \union {NoTask}
      /\ running = NoTask <=> phase \in {"read", "launch"}
      /\ next \in Nexts /\ (pushing # NoClient => next \in {NotDraining, Drained})
      /\ queue \in Queues
      /\ known \in [Tasks -> Clients \union {NoClient}]
      /\ runs \in [Tasks -> 0..MaxRuns]
      /\ Running
  BY DEF ServerInv, ServerTypeOK
<1>2. /\ queue.new \subseteq [task : Tasks, connection : Clients]
      /\ queue.response \subseteq Tasks \X (1..MaxRuns)
      /\ queue.outputs \subseteq Tasks \X (1..MaxRuns)
      /\ queue = [new |-> queue.new, response |-> queue.response, outputs |-> queue.outputs]
  BY <1>1
<1>3. connections \in Seq(Clients) /\ MaxRuns \in Nat /\ NoTask \notin Tasks /\ NoClient \notin Clients
  BY ServerAssumption DEF PlacedInv
<1>4. ASSUME UNCHANGED <<phase, running, known, runs, queue>>,
             next' \in Nexts' /\ (pushing' # NoClient => next' \in {NotDraining, Drained})
      PROVE  ServerInv'
  BY <1>1, <1>4 DEF ServerInv, ServerTypeOK
<1>5. ASSUME UNCHANGED <<serverVars, pushing, connections>> PROVE ServerInv'
  BY <1>1, <1>5 DEF ServerInv, ServerTypeOK, serverVars
<1>6. ASSUME Forget, UNCHANGED <<next, queue, runs, pushing, connections>> PROVE ServerInv'
  BY <1>1, <1>3, <1>6 DEF Forget, ServerInv, ServerTypeOK
<1>7. CASE Enter
  <2>1. connections # <<>> => 1 \in DOMAIN connections
    BY <1>3
  <2>2. /\ UNCHANGED <<phase, running, known, runs, queue, pushing, connections>>
        /\ next' = IF pushing # NoClient \/ connections = <<>> THEN Drained ELSE 1
    BY <1>7 DEF Enter, serverFrame, listenVars
  <2> QED BY <1>4, <2>1, <2>2
<1>8. CASE DrainNext
  <2> DEFINE c == connections[next]
  <2>1. next \in 1..Len(connections) /\ c \in Clients
    BY <1>3, <1>8 DEF DrainNext
  <2>2. next' \in {NotDraining, Drained} \union DOMAIN connections
    BY <1>3, <1>8, <2>1 DEF DrainNext, AfterConnection
  <2>3. pushing = NoClient
    BY <1>1, <2>1 DEF NotDraining, Drained
  <2>4. /\ UNCHANGED <<phase, running, known, runs, pushing, connections>>
        /\ queue' = Filed(c)
    BY <1>8 DEF DrainNext, serverFrame, listenVars
  <2>5. Filed(c) \in Queues
    BY <1>2, <2>1, UpTyped DEF Filed
  <2> QED BY <1>1, <2>2, <2>3, <2>4, <2>5 DEF ServerInv, ServerTypeOK
<1>9. CASE GetNewTasks
  <2>1. /\ UNCHANGED <<running, runs, pushing, connections>>
        /\ phase = "read" /\ phase' = "launch" /\ next' = NotDraining
        /\ queue' = [queue EXCEPT !.new = {}]
    BY <1>9 DEF GetNewTasks, Returns, serverFrame, listenVars
  <2>2. known' \in [Tasks -> Clients \union {NoClient}]
    <3>1. ASSUME NEW t \in Tasks, \E d \in queue.new : d.task = t
          PROVE  (CHOOSE d \in queue.new : d.task = t).connection \in Clients
      BY <1>2, <3>1
    <3> QED BY <1>1, <1>9, <3>1 DEF GetNewTasks
  <2>3. queue' \in Queues
    BY <1>2, <2>1
  <2>4. running = NoTask
    BY <1>1, <2>1
  <2> QED BY <1>1, <2>1, <2>2, <2>3, <2>4 DEF ServerInv, ServerTypeOK
<1>10. CASE NothingToRun
  BY <1>1, <1>10 DEF NothingToRun, ServerInv, ServerTypeOK, serverFrame, listenVars
<1>11. ASSUME NEW t \in Tasks, StartRun(t) PROVE ServerInv'
  <2>1. runs[t] \in 0..MaxRuns /\ runs[t] < MaxRuns /\ known[t] # NoClient
    BY <1>1, <1>11 DEF StartRun
  <2>2. runs[t] + 1 \in 1..MaxRuns /\ runs[t] + 1 \in 0..MaxRuns
    BY <1>3, <2>1
  <2>3. /\ UNCHANGED <<next, queue, known, pushing, connections>>
        /\ running' = t /\ phase' = "inputs"
        /\ runs' = [runs EXCEPT ![t] = runs[t] + 1]
    BY <1>11 DEF StartRun, serverFrame, listenVars
  <2>4. runs' \in [Tasks -> 0..MaxRuns] /\ runs'[t] \in 1..MaxRuns
    BY <1>1, <2>2, <2>3
  <2> QED BY <1>1, <1>3, <2>1, <2>3, <2>4 DEF ServerInv, ServerTypeOK
<1>12. CASE SendInputs
  <2>1. UNCHANGED <<next, queue, runs, pushing, connections>> /\ phase = "inputs"
    BY <1>12 DEF SendInputs, serverFrame, listenVars
  <2>2. (phase' = "execute" /\ UNCHANGED <<known, running>>) \/ Forget
    BY <1>12 DEF SendInputs
  <2> QED BY <1>1, <1>6, <2>1, <2>2 DEF ServerInv, ServerTypeOK
<1>13. CASE SendExecute
  <2>1. UNCHANGED <<next, queue, runs, pushing, connections>> /\ phase = "execute"
    BY <1>13 DEF SendExecute, serverFrame, listenVars
  <2>2. (phase' = "outputs" /\ UNCHANGED <<known, running>>) \/ Forget
    BY <1>13 DEF SendExecute
  <2> QED BY <1>1, <1>6, <2>1, <2>2 DEF ServerInv, ServerTypeOK
<1>14. CASE RecvOutputs
  <2>1. /\ UNCHANGED <<running, known, runs, pushing, connections>>
        /\ phase = "outputs" /\ phase' \in {"outputs", "response"} /\ next' = NotDraining
        /\ queue' = [queue EXCEPT !.outputs = {}]
    BY <1>14 DEF RecvOutputs, Returns, serverFrame, listenVars
  <2>2. queue' \in Queues
    BY <1>2, <2>1
  <2> QED BY <1>1, <2>1, <2>2 DEF ServerInv, ServerTypeOK
<1>15. CASE RecvResponse
  <2>1. /\ UNCHANGED <<known, runs, pushing, connections>>
        /\ phase = "response" /\ next' = NotDraining
    BY <1>15 DEF RecvResponse, Returns, serverFrame, listenVars
  <2>2. \/ phase' = "outputs" /\ UNCHANGED <<queue, running>>
        \/ /\ running' = NoTask /\ phase' = "read"
           /\ \E n : queue' = [queue EXCEPT !.response = @ \ {<<running, n>>}]
    BY <1>15 DEF RecvResponse
  <2>3. queue' \in Queues
    <3>1. ASSUME NEW n, queue' = [queue EXCEPT !.response = @ \ {<<running, n>>}]
          PROVE  queue' \in Queues
      BY <1>2, <3>1
    <3> QED BY <1>1, <2>2, <3>1
  <2> QED BY <1>1, <2>1, <2>2, <2>3 DEF ServerInv, ServerTypeOK
<1>16. CASE RunTimeout
  BY <1>6, <1>16 DEF RunTimeout, serverFrame, listenVars
<1>17. CASE Server
  BY <1>7, <1>8, <1>9, <1>10, <1>11, <1>12, <1>13, <1>14, <1>15, <1>16, <1>17 DEF Server
<1>18. ASSUME NEW c \in Clients, Accept(c) PROVE ServerInv'
  BY <1>1, <1>4, <1>18 DEF Accept, serverVars
<1>19. CASE PushConnection
  <2>1. /\ next \in {NotDraining, Drained} /\ pushing' = NoClient
        /\ UNCHANGED <<phase, running, known, runs, queue, next>>
    BY <1>1, <1>19 DEF PushConnection, serverVars
  <2> QED BY <1>4, <2>1
<1>20. ASSUME NEW c \in Clients, Client(c) PROVE ServerInv'
  BY <1>5, <1>20
  DEF Client, Connect, RecvInputs, RecvExecute, SendOutputs, SendResponse, NodeFails, ClientEnds,
      WriterEnds, nodeFrame, listenVars
<1>21. ASSUME NEW t \in Tasks, Announce(t) PROVE ServerInv'
  BY <1>5, <1>21 DEF Announce, nodeFrame
<1>22. CASE Loses
  BY <1>5, <1>22 DEF Loses, LoseUp, LoseDown, listenVars
<1> QED
  BY <1>5, <1>17, <1>18, <1>19, <1>20, <1>21, <1>22
  DEF Next, Listener, Listens, Bind, ListenerDies, vars, listenVars

\* A link that takes a message stays within its capacity and of its kind.
LEMMA AppendTyped ==
  ASSUME NEW S, NEW s \in Seq(S), NEW m \in S, NEW room \in Nat, Len(s) < room
  PROVE  Append(s, m) \in Seq(S) /\ Len(Append(s, m)) <= room
<1>1. Len(s) \in Nat
  OBVIOUS
<1>2. Append(s, m) \in Seq(S) /\ Len(Append(s, m)) = Len(s) + 1
  OBVIOUS
<1> QED BY <1>1, <1>2

\* What the server sends is about the run it executes.
LEMMA SentTyped ==
  ASSUME ServerInv, running # NoTask
  PROVE  /\ Message("inputs", running, runs[running]) \in DownMessages
         /\ Message("execute", running, runs[running]) \in DownMessages
<1>1. running \in Tasks /\ runs[running] \in 1..MaxRuns /\ runs[running] \in 0..MaxRuns
  BY DEF ServerInv, ServerTypeOK
<1> QED BY <1>1 DEF DownMessages, OnLink, Messages, Message, Kinds

\* What a node sends is about the request it works on.
LEMMA AnswerTyped ==
  ASSUME LinksInv, NEW c \in Clients, batch[c] # <<>>
  PROVE  /\ Head(batch[c]) \in RunRequests
         /\ Tail(batch[c]) \in Seq(RunRequests)
         /\ Message("outputs", Head(batch[c]).task, Head(batch[c]).run) \in UpMessages
         /\ Message("response", Head(batch[c]).task, Head(batch[c]).run) \in UpMessages
<1>1. batch[c] \in Seq(RunRequests)
  BY DEF LinksInv
<1>2. Head(batch[c]) \in RunRequests /\ Tail(batch[c]) \in Seq(RunRequests)
  BY <1>1
<1>3. \A m \in RunRequests : m.task \in Tasks /\ m.run \in 1..MaxRuns /\ m.run \in 0..MaxRuns
  BY DEF RunRequests, DownMessages, OnLink, Messages
<1> QED BY <1>2, <1>3 DEF UpMessages, OnLink, Messages, Message, Kinds

\* What a step does to the link to a client.
LEMMA DownSteps ==
  ASSUME FunctionsInv, PlacedInv, ServerInv, [Next]_vars, NEW c \in Clients
  PROVE  \/ down'[c] = down[c]
         \/ down'[c] = <<>>
         \/ \E i \in DOMAIN down[c] : down'[c] = RemoveAt(down[c], i)
         \/ \E m \in DownMessages : Len(down[c]) < Capacity[c] /\ down'[c] = Append(down[c], m)
<1>1. CASE SendInputs
  <2>1. running # NoTask
    BY <1>1 DEF SendInputs, ServerInv, ServerTypeOK
  <2>2. CASE \E i \in Reached : connections[i] = c
    <3>1. CanTake(c)
      <4>1. PICK i \in DOMAIN connections :
              connections[i] = c /\ \A j \in 1..i : CanTake(connections[j])
        BY <2>2 DEF Reached
      <4>2. i \in 1..i
        <5>1. connections \in Seq(Clients)
          BY DEF PlacedInv
        <5> QED BY <4>1, <5>1
      <4> QED BY <4>1, <4>2
    <3>2. down'[c] = Append(down[c], Message("inputs", running, runs[running]))
      BY <1>1, <2>2 DEF SendInputs
    <3> QED BY <2>1, <3>1, <3>2, SentTyped DEF CanTake
  <2>3. CASE ~\E i \in Reached : connections[i] = c
    BY <1>1, <2>3 DEF SendInputs
  <2> QED BY <2>2, <2>3
<1>2. CASE SendExecute
  <2>1. running # NoTask
    BY <1>2 DEF SendExecute, ServerInv, ServerTypeOK
  <2> DEFINE m == Message("execute", running, runs[running])
  <2>2. m \in DownMessages
    BY <2>1, SentTyped
  <2>3. \/ down' = down
        \/ CanTake(known[running]) /\ down' = [down EXCEPT ![known[running]] = Append(@, m)]
    BY <1>2 DEF SendExecute
  <2> HIDE DEF m
  <2> QED BY <2>2, <2>3 DEF FunctionsInv, CanTake
<1>3. CASE Server
  BY <1>1, <1>2, <1>3
  DEF Server, Enter, DrainNext, GetNewTasks, NothingToRun, StartRun, RecvOutputs, RecvResponse,
      RunTimeout
<1>4. ASSUME NEW d \in Clients, Client(d) PROVE down'[c] = down[c] \/ down'[c] = <<>>
  BY <1>4
  DEF Client, Connect, RecvInputs, RecvExecute, SendOutputs, SendResponse, NodeFails, ClientEnds,
      WriterEnds, FunctionsInv
<1>5. CASE Listener \/ UNCHANGED vars \/ \E t \in Tasks : Announce(t)
  BY <1>5
  DEF Listener, Listens, Bind, ListenerDies, Accept, PushConnection, vars, linkVars, Announce
<1>6. ASSUME NEW d \in Clients, LoseUp(d) \/ LoseDown(d)
      PROVE  down'[c] = down[c] \/ \E i \in DOMAIN down[c] : down'[c] = RemoveAt(down[c], i)
  BY <1>6 DEF LoseUp, LoseDown, FunctionsInv
<1> QED BY <1>3, <1>4, <1>5, <1>6 DEF Next, Loses

\* A link that loses a message holds no new ones.
LEMMA RemoveFits ==
  ASSUME NEW S, NEW s \in Seq(S), NEW room \in Nat, Len(s) <= room, NEW i \in DOMAIN s
  PROVE  RemoveAt(s, i) \in Seq(S) /\ Len(RemoveAt(s, i)) <= room
<1>1. RemoveAt(s, i) \in Seq(S) /\ Len(RemoveAt(s, i)) = Len(s) - 1 /\ Len(s) \in Nat
  BY RemoveTyped DEF Shorter
<1> QED BY <1>1

LEMMA UpTypedStep ==
  ASSUME FunctionsInv, PlacedInv, UpInv, ServerInv, LinksInv, [Next]_vars, NEW c \in Clients
  PROVE  up'[c] \in Seq(UpMessages) /\ Len(up'[c]) <= Capacity[c]
<1>1. up[c] \in Seq(UpMessages) /\ Len(up[c]) <= Capacity[c]
  BY DEF LinksInv
<1>2. Len(<<>>) <= Capacity[c] /\ <<>> \in Seq(UpMessages) /\ Capacity[c] \in Nat
  BY ServerAssumption
<1>3. CASE up'[c] = up[c] \/ up'[c] = <<>>
  BY <1>1, <1>2, <1>3, Zenon
<1>4. ASSUME NEW d \in Clients, NEW m \in UpMessages, ClientSends(d, m)
      PROVE  up'[c] \in Seq(UpMessages) /\ Len(up'[c]) <= Capacity[c]
  <2>1. CASE c = d
    <3>1. up'[c] = Append(up[c], m) /\ Len(up[c]) < Capacity[c]
      BY <1>4, <2>1 DEF ClientSends, FunctionsInv
    <3> QED BY <1>1, <1>2, <3>1, AppendTyped
  <2>2. CASE c # d
    BY <1>1, <1>4, <2>2 DEF ClientSends, FunctionsInv
  <2> QED BY <2>1, <2>2
<1>5. CASE Server
  BY <1>3, <1>5
  DEF Server, Enter, DrainNext, GetNewTasks, NothingToRun, StartRun, SendInputs, SendExecute,
      RecvOutputs, RecvResponse, RunTimeout, FunctionsInv
<1>6. ASSUME NEW t \in Tasks, Announce(t)
      PROVE  up'[c] \in Seq(UpMessages) /\ Len(up'[c]) <= Capacity[c]
  <2>1. Message("new", t, 0) \in UpMessages
    BY ServerAssumption DEF UpMessages, OnLink, Messages, Message, Kinds
  <2>2. Owner[t] \in Clients
    BY ServerAssumption
  <2> QED BY <1>4, <1>6, <2>1, <2>2 DEF Announce
<1>7. ASSUME NEW d \in Clients, SendOutputs(d) \/ SendResponse(d)
      PROVE  up'[c] \in Seq(UpMessages) /\ Len(up'[c]) <= Capacity[c]
  BY <1>4, <1>7, AnswerTyped DEF SendOutputs, SendResponse
<1>8. ASSUME NEW d \in Clients, ClientEnds(d)
      PROVE  up'[c] \in Seq(UpMessages) /\ Len(up'[c]) <= Capacity[c]
  <2>1. CASE c = d
    <3>1. PICK n \in 0..Len(up[c]) : up' = [up EXCEPT ![c] = SubSeq(@, 1, n)]
      BY <1>8, <2>1 DEF ClientEnds
    <3>2. up'[c] = SubSeq(up[c], 1, n)
      BY <3>1 DEF FunctionsInv
    <3>3. SubSeq(up[c], 1, n) \in Seq(UpMessages) /\ Len(SubSeq(up[c], 1, n)) = n
      BY <1>1
    <3>4. n <= Len(up[c]) /\ n \in Int /\ Len(up[c]) \in Int /\ Capacity[c] \in Int
      BY <1>1, ServerAssumption
    <3> QED BY <1>1, <3>2, <3>3, <3>4
  <2>2. CASE c # d
    BY <1>1, <1>8, <2>2, EndsOne
  <2> QED BY <2>1, <2>2
<1>9. ASSUME NEW d \in Clients, Client(d)
      PROVE  up'[c] \in Seq(UpMessages) /\ Len(up'[c]) <= Capacity[c]
  <2>1. CASE Connect(d) \/ RecvInputs(d) \/ RecvExecute(d) \/ NodeFails(d) \/ WriterEnds(d)
    BY <1>3, <2>1 DEF Connect, RecvInputs, RecvExecute, NodeFails, WriterEnds
  <2> QED BY <1>7, <1>8, <1>9, <2>1 DEF Client
<1>10. CASE Listener \/ UNCHANGED vars
  BY <1>3, <1>10 DEF Listener, Listens, Bind, ListenerDies, Accept, PushConnection, vars, linkVars
<1>11. ASSUME NEW d \in Clients, LoseUp(d) \/ LoseDown(d)
       PROVE  up'[c] \in Seq(UpMessages) /\ Len(up'[c]) <= Capacity[c]
  <2>1. up'[c] = up[c] \/ \E i \in DOMAIN up[c] : up'[c] = RemoveAt(up[c], i)
    BY <1>11 DEF LoseUp, LoseDown, FunctionsInv
  <2> QED BY <1>1, <1>2, <2>1, RemoveFits
<1> QED BY <1>5, <1>6, <1>9, <1>10, <1>11 DEF Next, Loses

LEMMA LinksStep ==
  ASSUME FunctionsInv, PlacedInv, UpInv, ServerInv, LinksInv, [Next]_vars
  PROVE  LinksInv'
<1> SUFFICES ASSUME NEW c \in Clients
             PROVE  /\ up'[c] \in Seq(UpMessages) /\ Len(up'[c]) <= Capacity[c]
                    /\ down'[c] \in Seq(DownMessages) /\ Len(down'[c]) <= Capacity[c]
                    /\ batch'[c] \in Seq(RunRequests)
                    /\ clientQueue'[c].execute \in Seq(RunRequests)
  BY DEF LinksInv, UpMessages, DownMessages, RunRequests, OnLink, Messages, Kinds
<1>1. /\ down[c] \in Seq(DownMessages) /\ Len(down[c]) <= Capacity[c]
      /\ batch[c] \in Seq(RunRequests)
      /\ clientQueue[c].execute \in Seq(RunRequests)
      /\ Capacity[c] \in Nat
  BY ServerAssumption DEF LinksInv
<1>2. up'[c] \in Seq(UpMessages) /\ Len(up'[c]) <= Capacity[c]
  BY UpTypedStep
<1>3. down'[c] \in Seq(DownMessages) /\ Len(down'[c]) <= Capacity[c]
  <2>1. CASE down'[c] = down[c]
    BY <1>1, <2>1
  <2>2. CASE down'[c] = <<>>
    BY <2>2, ServerAssumption
  <2>3. ASSUME NEW m \in DownMessages, Len(down[c]) < Capacity[c], down'[c] = Append(down[c], m)
        PROVE  down'[c] \in Seq(DownMessages) /\ Len(down'[c]) <= Capacity[c]
    BY <1>1, <2>3, AppendTyped
  <2>4. ASSUME NEW i \in DOMAIN down[c], down'[c] = RemoveAt(down[c], i)
        PROVE  down'[c] \in Seq(DownMessages) /\ Len(down'[c]) <= Capacity[c]
    BY <1>1, <2>4, RemoveFits
  <2> QED BY <2>1, <2>2, <2>3, <2>4, DownSteps
<1>4. batch'[c] \in Seq(RunRequests) /\ clientQueue'[c].execute \in Seq(RunRequests)
  <2>1. CASE UNCHANGED <<batch, clientQueue>>
    BY <1>1, <2>1
  <2>2. ASSUME NEW d \in Clients, RecvInputs(d)
        PROVE  batch'[c] \in Seq(RunRequests) /\ clientQueue'[c].execute \in Seq(RunRequests)
    <3>1. /\ batch' = batch
          /\ clientQueue' =
               [clientQueue EXCEPT ![d] = [inputs |-> {}, execute |-> Received(d).execute]]
      BY <2>2 DEF RecvInputs
    <3> QED BY <1>1, <3>1, ReceivedIs DEF FunctionsInv
  <2>3. ASSUME NEW d \in Clients, RecvExecute(d)
        PROVE  batch'[c] \in Seq(RunRequests) /\ clientQueue'[c].execute \in Seq(RunRequests)
    <3>1. /\ batch' = [batch EXCEPT ![d] = Received(d).execute]
          /\ clientQueue' =
               [clientQueue EXCEPT ![d] = [inputs |-> Received(d).inputs, execute |-> <<>>]]
      BY <2>3 DEF RecvExecute
    <3> QED BY <1>1, <3>1, ReceivedIs DEF FunctionsInv
  <2>4. ASSUME NEW d \in Clients, SendResponse(d)
        PROVE  batch'[c] \in Seq(RunRequests) /\ clientQueue'[c].execute \in Seq(RunRequests)
    <3>1. clientQueue' = clientQueue /\ batch' = [batch EXCEPT ![d] = Tail(@)] /\ batch[d] # <<>>
      BY <2>4 DEF SendResponse
    <3> QED BY <1>1, <3>1, AnswerTyped DEF FunctionsInv
  <2>5. ASSUME NEW d \in Clients, NodeFails(d) \/ ClientEnds(d)
        PROVE  batch'[c] \in Seq(RunRequests) /\ clientQueue'[c].execute \in Seq(RunRequests)
    <3>1. /\ batch' = [batch EXCEPT ![d] = <<>>]
          /\ \/ clientQueue' = clientQueue
             \/ clientQueue' = [clientQueue EXCEPT ![d] = [inputs |-> {}, execute |-> <<>>]]
      BY <2>5 DEF NodeFails, ClientEnds
    <3>2. <<>> \in Seq(RunRequests)
      OBVIOUS
    <3>3. batch'[c] = batch[c] \/ batch'[c] = <<>>
      BY <3>1 DEF FunctionsInv
    <3>4. \/ clientQueue'[c].execute = clientQueue[c].execute
          \/ clientQueue'[c].execute = <<>>
      BY <3>1 DEF FunctionsInv
    <3> QED BY <1>1, <3>2, <3>3, <3>4, Zenon
  <2>6. ASSUME NEW d \in Clients, Client(d)
        PROVE  batch'[c] \in Seq(RunRequests) /\ clientQueue'[c].execute \in Seq(RunRequests)
    <3>1. CASE Connect(d) \/ SendOutputs(d) \/ WriterEnds(d)
      BY <2>1, <3>1 DEF Connect, SendOutputs, WriterEnds, nodeVars
    <3> QED BY <2>2, <2>3, <2>4, <2>5, <2>6, <3>1 DEF Client
  <2>7. CASE Server
    BY <2>1, <2>7
    DEF Server, Enter, DrainNext, GetNewTasks, NothingToRun, StartRun, SendInputs, SendExecute,
        RecvOutputs, RecvResponse, RunTimeout, serverFrame, nodeVars
  <2>8. CASE Listener \/ UNCHANGED vars \/ \E t \in Tasks : Announce(t)
    BY <2>1, <2>8
    DEF Listener, Listens, Bind, ListenerDies, Accept, PushConnection, vars, nodeVars, Announce
  <2>9. CASE Loses
    BY <2>1, <2>9 DEF Loses, LoseUp, LoseDown, nodeVars
  <2> QED BY <2>6, <2>7, <2>8, <2>9 DEF Next
<1> QED BY <1>2, <1>3, <1>4

-----------------------------------------------------------------------------
(* Inputs are ahead of the request they were sent for *)

\* The inputs that are at the client's end, or were lost on the way.
Inputs(c) == view[c] \union clientQueue[c].inputs \union LostRuns("inputs", c)

\* Every request on its way to the client is behind its inputs, and those of the run
\* the server is about to request are on their way or there.
Ahead(c) ==
  /\ InOrder("inputs", "execute", down[c], Inputs(c))
  /\ \A m \in ToSet(batch[c]) \union ToSet(clientQueue[c].execute) :
       <<m.task, m.run>> \in Inputs(c)
  /\ phase = "execute" /\ known[running] = c =>
       SentBefore("inputs", down[c], Inputs(c), Len(down[c]) + 1,
                  Message("execute", running, runs[running]))

DownInv == \A c \in Clients : alive[c] => Ahead(c)

\* The server requests no other run than the one it was about to request.
SameRequest(c) ==
  phase' = "execute" /\ known'[running'] = c =>
    phase = "execute" /\ known[running] = c /\ UNCHANGED <<running, runs>>

LEMMA AheadKept ==
  ASSUME NEW c \in Clients, Ahead(c),
         down'[c] = down[c], clientQueue'[c].execute = clientQueue[c].execute,
         ToSet(batch'[c]) \subseteq ToSet(batch[c]),
         Inputs(c) \subseteq Inputs(c)', SameRequest(c)
  PROVE  Ahead(c)'
<1>1. InOrder("inputs", "execute", down'[c], Inputs(c)')
  BY OrderStays DEF Ahead
<1>2. \A m \in ToSet(batch'[c]) \union ToSet(clientQueue'[c].execute) : <<m.task, m.run>> \in Inputs(c)'
  BY DEF Ahead
<1>3. ASSUME phase' = "execute", known'[running'] = c
      PROVE  SentBefore("inputs", down'[c], Inputs(c)', Len(down'[c]) + 1,
                        Message("execute", running', runs'[running']))
  <2> DEFINE m == Message("execute", running, runs[running])
  <2>1. SentBefore("inputs", down[c], Inputs(c), Len(down[c]) + 1, m)
    BY <1>3 DEF Ahead, SameRequest
  <2>2. SentBefore("inputs", down'[c], Inputs(c)', Len(down'[c]) + 1, m)
    <3> HIDE DEF m
    <3> QED BY <2>1, SentStays
  <2> QED BY <1>3, <2>2 DEF SameRequest
<1> QED BY <1>1, <1>2, <1>3 DEF Ahead

LEMMA AheadSame ==
  ASSUME NEW c \in Clients, Ahead(c), SameRequest(c),
         down'[c] = down[c], clientQueue'[c] = clientQueue[c], batch'[c] = batch[c],
         view'[c] = view[c], lost \subseteq lost'
  PROVE  Ahead(c)'
BY AheadKept DEF Inputs, LostRuns

\* What was sent before arrives with the link.
LEMMA SentReceived ==
  ASSUME NEW c, NEW n, NEW m, SentBefore("inputs", down[c], Inputs(c), n, m)
  PROVE  <<m.task, m.run>> \in Inputs(c) \union Runs("inputs", down[c])
<1>1. ASSUME NEW j \in DOMAIN down[c], down[c][j] = Message("inputs", m.task, m.run)
      PROVE  <<m.task, m.run>> \in Runs("inputs", down[c])
  <2>1. down[c][j].kind = "inputs" /\ down[c][j].task = m.task /\ down[c][j].run = m.run
    BY <1>1 DEF Message
  <2> QED BY <2>1 DEF Runs, ToSet
<1> QED BY <1>1 DEF SentBefore

\* A client that empties its link has the inputs of all requests it got.
LEMMA AheadReceived ==
  ASSUME LinksInv, NEW c \in Clients, Ahead(c), SameRequest(c),
         down'[c] = <<>>, Inputs(c)' = Inputs(c) \union Runs("inputs", down[c]),
         ToSet(batch'[c]) \union ToSet(clientQueue'[c].execute)
           \subseteq ToSet(batch[c]) \union ToSet(Received(c).execute)
  PROVE  Ahead(c)'
<1>1. InOrder("inputs", "execute", down'[c], Inputs(c)')
  BY EmptyInOrder
<1>2. ASSUME NEW m \in ToSet(batch'[c]) \union ToSet(clientQueue'[c].execute)
      PROVE  <<m.task, m.run>> \in Inputs(c)'
  <2>1. CASE m \in ToSet(batch[c]) \union ToSet(clientQueue[c].execute)
    BY <2>1 DEF Ahead
  <2>2. ASSUME NEW i \in DOMAIN down[c], down[c][i] = m, m.kind = "execute"
        PROVE  <<m.task, m.run>> \in Inputs(c)'
    <3>1. SentBefore("inputs", down[c], Inputs(c), i, m)
      BY <2>2 DEF Ahead, InOrder
    <3> QED BY <3>1, SentReceived
  <2> QED BY <1>2, <2>1, <2>2, ReceivedIs
<1>3. ASSUME phase' = "execute", known'[running'] = c
      PROVE  SentBefore("inputs", down'[c], Inputs(c)', Len(down'[c]) + 1,
                        Message("execute", running', runs'[running']))
  <2> DEFINE m == Message("execute", running, runs[running])
  <2>1. SentBefore("inputs", down[c], Inputs(c), Len(down[c]) + 1, m)
    BY <1>3 DEF Ahead, SameRequest
  <2>2. SentBefore("inputs", down'[c], Inputs(c)', Len(down'[c]) + 1, m)
    <3> HIDE DEF m
    <3>1. <<m.task, m.run>> \in Inputs(c)'
      BY <2>1, SentReceived
    <3> QED BY <3>1 DEF SentBefore
  <2> QED BY <1>3, <2>2 DEF SameRequest
<1> QED BY <1>1, <1>2, <1>3 DEF Ahead

\* The broadcast of inputs reaches the client of the task, or there is no request.
LEMMA InputsSent ==
  ASSUME FunctionsInv, PlacedInv, AnnouncedInv, ServerInv, SendInputs, NEW c \in Clients, Ahead(c)
  PROVE  Ahead(c)'
<1> DEFINE m == Message("inputs", running, runs[running])
<1>1. UNCHANGED <<view, clientQueue, batch, runs, lost>> /\ Inputs(c)' = Inputs(c)
  BY DEF SendInputs, serverFrame, nodeVars, Inputs, LostRuns
<1>2. phase' = "execute" => UNCHANGED <<known, running>> /\ AllReached
  BY DEF SendInputs, Forget
<1>3. CASE \E i \in Reached : connections[i] = c
  <2>1. down'[c] = Append(down[c], m)
    BY <1>3 DEF SendInputs
  <2>2. Longer(down'[c], down[c], m)
    <3> HIDE DEF m
    <3> QED BY <2>1, AppendSeq DEF Ahead, InOrder
  <2>3. InOrder("inputs", "execute", down'[c], Inputs(c)')
    <3>1. m.kind # "execute"
      BY DEF Message
    <3> HIDE DEF m
    <3> QED BY <1>1, <2>2, <3>1, AppendInOrder DEF Ahead
  <2>4. SentBefore("inputs", down'[c], Inputs(c)', Len(down'[c]) + 1,
                   Message("execute", running, runs[running]))
    BY <2>2 DEF SentBefore, Longer, Message
  <2> QED BY <1>1, <1>2, <2>3, <2>4 DEF Ahead
<1>4. CASE ~\E i \in Reached : connections[i] = c
  <2>1. down'[c] = down[c]
    BY <1>4 DEF SendInputs
  <2>2. ASSUME phase' = "execute", known'[running'] = c PROVE FALSE
    <3>1. running \in Tasks /\ known[running] = c
      BY <1>2, <2>2 DEF SendInputs, ServerInv, ServerTypeOK
    <3>2. c \in Listed
      BY <3>1, ServerAssumption DEF AnnouncedInv
    <3>3. Reached = DOMAIN connections
      BY <1>2, <2>2 DEF AllReached
    <3> QED BY <1>4, <3>2, <3>3 DEF Listed, ToSet
  <2> QED BY <1>1, <2>1, <2>2, AheadSame DEF SameRequest
<1> QED BY <1>3, <1>4

\* The request follows the inputs.
LEMMA RequestSent ==
  ASSUME FunctionsInv, ServerInv, SendExecute, NEW c \in Clients, Ahead(c)
  PROVE  Ahead(c)'
<1> DEFINE m == Message("execute", running, runs[running])
<1>1. /\ UNCHANGED <<view, clientQueue, batch, lost>> /\ Inputs(c)' = Inputs(c)
      /\ phase = "execute" /\ phase' # "execute"
  BY DEF SendExecute, Forget, serverFrame, nodeVars, Inputs, LostRuns
<1>2. CASE down'[c] = down[c]
  BY <1>1, <1>2, AheadSame DEF SameRequest
<1>3. CASE known[running] = c /\ down'[c] = Append(down[c], m)
  <2>1. SentBefore("inputs", down[c], Inputs(c), Len(down[c]) + 1, m)
    BY <1>1, <1>3 DEF Ahead
  <2>2. Longer(down'[c], down[c], m)
    <3> HIDE DEF m
    <3> QED BY <1>3, AppendSeq DEF Ahead, InOrder
  <2>3. InOrder("inputs", "execute", down'[c], Inputs(c)')
    <3> HIDE DEF m
    <3> QED BY <1>1, <2>1, <2>2, AppendInOrder DEF Ahead
  <2> QED BY <1>1, <2>3 DEF Ahead
<1>4. \/ down' = down
      \/ down' = [down EXCEPT ![known[running]] = Append(@, m)]
  BY DEF SendExecute
<1>5. \/ down'[c] = down[c]
      \/ known[running] = c /\ down'[c] = Append(down[c], m)
  <2> HIDE DEF m
  <2> QED BY <1>4 DEF FunctionsInv
<1> QED BY <1>2, <1>3, <1>5

\* What is left of a sequence has no new elements.
LEMMA ElementsOfTail ==
  ASSUME NEW S, NEW s \in Seq(S), s # <<>>
  PROVE  ToSet(Tail(s)) \subseteq ToSet(s) /\ ToSet(<<>>) \subseteq ToSet(s)
<1> DEFINE r == Tail(s)
<1>1. DOMAIN r = 1..(Len(s) - 1) /\ DOMAIN s = 1..Len(s) /\ Len(s) \in Nat
      /\ \A i \in 1..(Len(s) - 1) : r[i] = s[i + 1]
  OBVIOUS
<1>2. ToSet(<<>>) = {}
  BY DEF ToSet
<1> HIDE DEF r
<1>3. ToSet(r) \subseteq ToSet(s)
  BY <1>1 DEF ToSet
<1> QED BY <1>2, <1>3 DEF r

LEMMA ClientAhead ==
  ASSUME FunctionsInv, LinksInv, NEW d \in Clients, Client(d),
         NEW c \in Clients, alive'[c], alive[c], Ahead(c)
  PROVE  Ahead(c)'
<1>1. UNCHANGED <<phase, running, known, runs, lost>> /\ SameRequest(c)
  BY
  DEF Client, Connect, RecvInputs, RecvExecute, SendOutputs, SendResponse, NodeFails, ClientEnds,
      WriterEnds, nodeFrame, serverVars, SameRequest
<1>2. CASE c # d
  <2>1. /\ down'[c] = down[c] /\ clientQueue'[c] = clientQueue[c] /\ batch'[c] = batch[c]
        /\ view'[c] = view[c]
    BY <1>2
    DEF Client, Connect, RecvInputs, RecvExecute, SendOutputs, SendResponse, NodeFails, ClientEnds,
        WriterEnds, nodeVars, FunctionsInv
  <2> QED BY <1>1, <2>1, AheadSame
<1>3. CASE c = d /\ RecvInputs(c)
  <2>1. /\ view'[c] = view[c] \union Received(c).inputs
        /\ clientQueue'[c] = [inputs |-> {}, execute |-> Received(c).execute]
        /\ down'[c] = <<>> /\ batch'[c] = batch[c]
    BY <1>3 DEF RecvInputs, FunctionsInv
  <2>2. Inputs(c)' = Inputs(c) \union Runs("inputs", down[c])
    BY <1>1, <2>1 DEF Inputs, LostRuns, Received
  <2> QED BY <1>1, <2>1, <2>2, AheadReceived
<1>4. CASE c = d /\ RecvExecute(c)
  <2>1. /\ view'[c] = view[c]
        /\ clientQueue'[c] = [inputs |-> Received(c).inputs, execute |-> <<>>]
        /\ down'[c] = <<>> /\ batch'[c] = Received(c).execute
    BY <1>4 DEF RecvExecute, FunctionsInv
  <2>2. Inputs(c)' = Inputs(c) \union Runs("inputs", down[c])
    BY <1>1, <2>1 DEF Inputs, LostRuns, Received
  <2>3. ToSet(<<>>) = {}
    BY DEF ToSet
  <2>4. ToSet(batch'[c]) \union ToSet(clientQueue'[c].execute)
          \subseteq ToSet(batch[c]) \union ToSet(Received(c).execute)
    BY <2>1, <2>3
  <2> QED BY <1>1, <2>1, <2>2, <2>4, AheadReceived
<1>5. CASE c = d /\ (SendResponse(c) \/ NodeFails(c))
  <2>1. /\ down'[c] = down[c] /\ clientQueue'[c] = clientQueue[c] /\ view'[c] = view[c]
        /\ batch[c] # <<>>
        /\ batch'[c] = Tail(batch[c]) \/ batch'[c] = <<>>
    BY <1>5 DEF SendResponse, NodeFails, FunctionsInv
  <2>2. batch[c] \in Seq(RunRequests)
    BY DEF LinksInv
  <2>3. ToSet(batch'[c]) \subseteq ToSet(batch[c])
    BY <2>1, <2>2, ElementsOfTail
  <2>4. Inputs(c)' = Inputs(c)
    BY <1>1, <2>1 DEF Inputs, LostRuns
  <2> QED BY <1>1, <2>1, <2>3, <2>4, AheadKept
<1>6. CASE Connect(d) \/ SendOutputs(d) \/ WriterEnds(d)
  <2>1. /\ down'[c] = down[c] /\ clientQueue'[c] = clientQueue[c] /\ batch'[c] = batch[c]
        /\ view'[c] = view[c]
    BY <1>6 DEF Connect, SendOutputs, WriterEnds, nodeVars, FunctionsInv
  <2> QED BY <1>1, <2>1, AheadSame
<1>7. ~ClientEnds(c)
  BY DEF ClientEnds, FunctionsInv
<1> QED BY <1>2, <1>3, <1>4, <1>5, <1>6, <1>7 DEF Client

\* A link that loses a message keeps the others in order, and the inputs that it lost
\* are accounted for.
LEMMA LosesAhead ==
  ASSUME FunctionsInv, LinksInv, Loses, NEW c \in Clients, Ahead(c)
  PROVE  Ahead(c)'
<1>1. /\ UNCHANGED <<phase, running, known, runs, clientQueue, batch, view>>
      /\ lost \subseteq lost'
  BY DEF Loses, LoseUp, LoseDown, serverVars, nodeVars
<1>2. SameRequest(c) /\ Inputs(c) \subseteq Inputs(c)'
  BY <1>1 DEF SameRequest, Inputs, LostRuns
<1>3. CASE down'[c] = down[c]
  BY <1>1, <1>2, <1>3, AheadKept
<1>4. ASSUME NEW i \in DOMAIN down[c], down' = [down EXCEPT ![c] = RemoveAt(@, i)],
             lost' = lost \union {<<c, down[c][i]>>}
      PROVE  Ahead(c)'
  <2>1. down[c] \in Seq(DownMessages) /\ DOMAIN down = Clients
    BY DEF LinksInv, FunctionsInv
  <2>2. LostFrom(down'[c], down[c], "inputs", LostRuns("inputs", c)')
    BY <1>4, <2>1, LosesOne
  <2>3. LostFrom(down'[c], down[c], "inputs", Inputs(c)')
    BY <2>2 DEF LostFrom, Inputs
  <2>4. InOrder("inputs", "execute", down'[c], Inputs(c)')
    BY <1>2, <2>3, LostInOrder DEF Ahead
  <2>5. ASSUME phase' = "execute", known'[running'] = c
        PROVE  SentBefore("inputs", down'[c], Inputs(c)', Len(down'[c]) + 1,
                          Message("execute", running', runs'[running']))
    <3> DEFINE m == Message("execute", running, runs[running])
    <3>1. SentBefore("inputs", down[c], Inputs(c), Len(down[c]) + 1, m)
      BY <1>1, <2>5 DEF Ahead
    <3>2. SentBefore("inputs", down'[c], Inputs(c)', Len(down'[c]) + 1, m)
      <4> HIDE DEF m
      <4> QED BY <1>2, <2>3, <3>1, SentAllOrLost
    <3> QED BY <1>1, <3>2
  <2> QED BY <1>1, <1>2, <2>4, <2>5 DEF Ahead
<1>5. ASSUME NEW d \in Clients, LoseUp(d) \/ LoseDown(d) PROVE Ahead(c)'
  <2>1. CASE LoseUp(d)
    BY <1>3, <2>1 DEF LoseUp
  <2>2. CASE LoseDown(d)
    <3>1. PICK i \in DOMAIN down[d] : /\ down' = [down EXCEPT ![d] = RemoveAt(@, i)]
                                     /\ lost' = lost \union {<<d, down[d][i]>>}
      BY <2>2 DEF LoseDown
    <3>2. CASE d # c
      BY <1>3, <3>1, <3>2 DEF FunctionsInv
    <3> QED BY <1>4, <3>1, <3>2
  <2> QED BY <1>5, <2>1, <2>2
<1> QED BY <1>5 DEF Loses

LEMMA DownStep ==
  ASSUME FunctionsInv, PlacedInv, AnnouncedInv, ServerInv, LinksInv, DownInv, [Next]_vars
  PROVE  DownInv'
<1> SUFFICES ASSUME NEW c \in Clients, alive'[c] PROVE Ahead(c)'
  BY DEF DownInv
<1>1. alive[c]
  BY
  DEF FunctionsInv, Next, Server, Enter, DrainNext, GetNewTasks, NothingToRun, StartRun, SendInputs,
      SendExecute, RecvOutputs, RecvResponse, RunTimeout, serverFrame, Listener, Listens, Bind,
      ListenerDies, Accept, PushConnection, Announce, Client, Connect, RecvInputs, RecvExecute,
      SendOutputs, SendResponse, NodeFails, ClientEnds, WriterEnds, Loses, LoseUp, LoseDown, vars,
      linkVars
<1>2. Ahead(c)
  BY <1>1 DEF DownInv
<1>3. CASE Server
  <2>1. ASSUME ~SendInputs, ~SendExecute
        PROVE  UNCHANGED <<view, clientQueue, batch, down, lost>> /\ SameRequest(c)
    BY <1>3, <2>1
    DEF Server, Enter, DrainNext, GetNewTasks, NothingToRun, StartRun, RecvOutputs, RecvResponse,
        RunTimeout, Forget, Returns, serverFrame, nodeVars, SameRequest
  <2>2. CASE ~SendInputs /\ ~SendExecute
    BY <1>2, <2>1, <2>2, AheadSame
  <2> QED BY <1>2, <2>2, InputsSent, RequestSent
<1>4. CASE Listener \/ UNCHANGED vars \/ \E t \in Tasks : Announce(t)
  <2>1. UNCHANGED <<view, clientQueue, batch, down, lost>> /\ SameRequest(c)
    BY <1>4
    DEF Listener, Listens, Bind, ListenerDies, Accept, PushConnection, Announce, nodeFrame, vars, linkVars,
        nodeVars, serverVars, SameRequest
  <2> QED BY <1>2, <2>1, AheadSame
<1>5. ASSUME NEW d \in Clients, Client(d) PROVE Ahead(c)'
  BY <1>1, <1>2, <1>5, ClientAhead
<1>6. CASE Loses
  BY <1>2, <1>6, LosesAhead
<1> QED BY <1>3, <1>4, <1>5, <1>6 DEF Next

\* Everything that is known of the adapters between two steps.
AdapterInv == IInv /\ ServerInv /\ LinksInv /\ DownInv

LEMMA AlwaysAdapterInv == Spec => []AdapterInv
<1>1. Init => ServerInv
  BY ServerAssumption DEF Init, ServerInv, ServerTypeOK, NotDraining
<1>2. Init => LinksInv
  <2> SUFFICES ASSUME Init, NEW c \in Clients
               PROVE  /\ up[c] \in Seq(UpMessages) /\ Len(up[c]) <= Capacity[c]
                      /\ down[c] \in Seq(DownMessages) /\ Len(down[c]) <= Capacity[c]
                      /\ batch[c] \in Seq(RunRequests)
                      /\ clientQueue[c].execute \in Seq(RunRequests)
    BY DEF LinksInv
  <2>1. up[c] = <<>> /\ down[c] = <<>> /\ batch[c] = <<>> /\ clientQueue[c].execute = <<>>
    BY DEF Init
  <2>2. <<>> \in Seq(UpMessages) /\ <<>> \in Seq(DownMessages) /\ <<>> \in Seq(RunRequests)
    OBVIOUS
  <2>3. Len(<<>>) <= Capacity[c]
    BY ServerAssumption
  <2> QED BY <2>1, <2>2, <2>3, Zenon
<1>3. Init => DownInv
  <2> SUFFICES ASSUME Init, NEW c \in Clients PROVE Ahead(c)
    BY DEF DownInv
  <2>1. down[c] = <<>> /\ batch[c] = <<>> /\ clientQueue[c].execute = <<>> /\ phase = "read"
    BY DEF Init
  <2>2. ToSet(<<>>) = {}
    BY DEF ToSet
  <2>3. InOrder("inputs", "execute", down[c], Inputs(c))
    BY <2>1, EmptyInOrder
  <2> QED BY <2>1, <2>2, <2>3 DEF Ahead
<1>4. AdapterInv /\ [Next]_vars => AdapterInv'
  BY StepInv, ServerStep, LinksStep, DownStep DEF AdapterInv, IInv
<1> QED BY <1>1, <1>2, <1>3, <1>4, InitInv, PTL DEF Spec, AdapterInv

(* Each link and each queue of the adapters holds only the messages it is for, no    *)
(* link more than it takes, and the listener adds no connection while the server     *)
(* goes through the list, for any number of clients and runs and any capacity.       *)
THEOREM AdapterTypeCorrect == Spec => []TypeOK
<1>1. AdapterInv => TypeOK
  <2> SUFFICES ASSUME AdapterInv PROVE TypeOK
    OBVIOUS
  <2>1. /\ UpMessages \subseteq OnLink({"new", "outputs", "response"})
        /\ DownMessages \subseteq OnLink({"inputs", "execute"})
        /\ RunRequests \subseteq OnLink({"execute"})
    BY DEF UpMessages, DownMessages, RunRequests, OnLink
  <2>2. \A c \in Clients :
          /\ up[c] \in Seq(OnLink({"new", "outputs", "response"})) /\ Len(up[c]) <= Capacity[c]
          /\ down[c] \in Seq(OnLink({"inputs", "execute"})) /\ Len(down[c]) <= Capacity[c]
          /\ batch[c] \in Seq(OnLink({"execute"}))
    BY <2>1 DEF AdapterInv, LinksInv
  <2>3. \A c \in Clients : written[c] => batch[c] # <<>>
    BY DEF AdapterInv, IInv, WrittenInv, FirstSent
  <2> QED BY <2>2, <2>3 DEF AdapterInv, IInv, ServerInv, PlacedInv, TypeOK
<1> QED BY <1>1, AlwaysAdapterInv, PTL

(* A request is never ahead of the inputs that were sent for it, wherever the two    *)
(* are between the server and a node that lives, though inputs are broadcast, the    *)
(* list of connections grows between the two calls, a broken connection ends the     *)
(* broadcast half-way, and links lose any messages: only inputs that were lost       *)
(* themselves may be missing.                                                        *)
THEOREM InputsCorrect == Spec => []InputsBeforeRequest
<1>1. AdapterInv => InputsBeforeRequest
  <2> SUFFICES ASSUME AdapterInv, NEW c \in Clients, alive[c]
               PROVE  /\ \A m \in ToSet(batch[c]) \union ToSet(clientQueue[c].execute) :
                           <<m.task, m.run>> \in Inputs(c)
                      /\ \A i \in DOMAIN down[c] : down[c][i].kind = "execute" =>
                           \/ <<down[c][i].task, down[c][i].run>> \in Inputs(c)
                           \/ \E j \in 1..i :
                                down[c][j] = Message("inputs", down[c][i].task, down[c][i].run)
    BY DEF InputsBeforeRequest, Inputs
  <2>1. Ahead(c) /\ down[c] \in Seq(DownMessages)
    BY DEF AdapterInv, DownInv, LinksInv
  <2>2. \A i \in DOMAIN down[c] : down[c][i].kind = "execute" =>
          SentBefore("inputs", down[c], Inputs(c), i, down[c][i])
    BY <2>1 DEF Ahead, InOrder
  <2>3. \A i, j \in DOMAIN down[c] : j < i => j \in 1..i
    BY <2>1
  <2> QED BY <2>1, <2>2, <2>3 DEF Ahead, SentBefore
<1> QED BY <1>1, AlwaysAdapterInv, PTL

=============================================================================
