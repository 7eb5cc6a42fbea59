--------------------------- MODULE TcpConnection ---------------------------
(***************************************************************************)
(* One direction of a TcpBrokerConnection of vs-broker: a bounded channel  *)
(* to a task that writes each message to the socket with a single write,   *)
(* the socket's buffer, and a task that reads it in pieces, parses whole   *)
(* messages from the front of its own buffer and puts them into a bounded  *)
(* channel.                                                                *)
(*                                                                         *)
(* Messages are numbered in the order they are handed over; message m is   *)
(* size[m] units on the wire, the pairs <<m, 1>> .. <<m, size[m]>>.        *)
(***************************************************************************)
EXTENDS Integers, Sequences, FiniteSets, SequencesExt

CONSTANTS
  MaxMessages,   \* bound on the messages handed over
  Sizes,         \* the sizes of messages
  Capacity,      \* of either mpsc channel
  WireCap,       \* units the socket holds
  ReadMax,       \* units of temp_buffer
  MaxBuffer      \* units above which the reader clears its buffer

ASSUME ConnectionAssumption ==
  /\ MaxMessages \in Nat
  /\ Sizes \subseteq Nat \ {0}
  /\ {Capacity, WireCap, ReadMax, MaxBuffer} \subseteq Nat \ {0}

VARIABLES
  size,       \* of every message
  sent,       \* the messages handed over are 1..sent
  outbox,     \* send_tx, send_rx
  wire,
  buffer,     \* of the read task
  parsing,    \* the read task has read and looks for messages
  inbox,      \* recv_tx, recv_rx
  received,   \* history: what try_recv returned
  writing, reading,   \* the two tasks run
  cut,        \* history: units were dropped
  short       \* history: a write took only a part of a message

vars == <<size, sent, outbox, wire, buffer, parsing, inbox, received, writing, reading,
          cut, short>>

Messages == 1..MaxMessages

Units(m) == [part \in 1..size[m] |-> <<m, part>>]

\* The unit at place n is the last one of a message, and all of it is there.
EndsMessage(sizes, units, n) ==
  LET m == units[n][1]
  IN  /\ sizes[m] <= n
      /\ \A part \in 1..sizes[m] : units[n - sizes[m] + part] = <<m, part>>

\* The messages all of whose units are there, in their order.
Whole(sizes, units) ==
  LET upTo[n \in 0..Len(units)] ==
        IF n = 0 THEN <<>>
        ELSE IF EndsMessage(sizes, units, n) THEN Append(upTo[n - 1], units[n][1])
        ELSE upTo[n - 1]
  IN  upTo[Len(units)]

\* rmp_serde::from_slice finds a message at the front of the buffer.
Complete == buffer # <<>> /\ IsPrefix(Units(buffer[1][1]), buffer)

Init ==
  /\ size \in [Messages -> Sizes]
  /\ sent = 0
  /\ outbox = <<>> /\ wire = <<>> /\ buffer = <<>> /\ inbox = <<>> /\ received = <<>>
  /\ parsing = FALSE
  /\ writing = TRUE /\ reading = TRUE
  /\ cut = FALSE /\ short = FALSE

\* try_send; on a full or closed channel it fails and nothing is handed over.
Send ==
  /\ sent < MaxMessages
  /\ writing
  /\ Len(outbox) < Capacity
  /\ sent' = sent + 1
  /\ outbox' = Append(outbox, sent')
  /\ UNCHANGED <<size, wire, buffer, parsing, inbox, received, writing, reading, cut, short>>

Least(a, b) == IF a < b THEN a ELSE b

\* One write call: it takes what the socket has room for, and the rest of the
\* message is not written any more.  (The message the task waits to write still
\* counts as one of the channel's.)
Write ==
  LET m == Head(outbox)
      n == Least(size[m], WireCap - Len(wire))
  IN  /\ writing
      /\ outbox # <<>>
      /\ n > 0
      /\ outbox' = Tail(outbox)
      /\ wire' = wire \o SubSeq(Units(m), 1, n)
      /\ short' = (short \/ n < size[m])
      /\ cut' = (cut \/ n < size[m])
      /\ UNCHANGED <<size, sent, buffer, parsing, inbox, received, writing, reading>>

\* The other end is gone: the write fails, the task ends and with it the channel.
WriteFails ==
  /\ writing
  /\ outbox # <<>>
  /\ ~reading
  /\ writing' = FALSE
  /\ outbox' = <<>>
  /\ UNCHANGED <<size, sent, wire, buffer, parsing, inbox, received, reading, cut, short>>

Read ==
  /\ reading
  /\ ~parsing
  /\ \E n \in 1..Least(ReadMax, Len(wire)) :
       /\ buffer' = buffer \o SubSeq(wire, 1, n)
       /\ wire' = SubSeq(wire, n + 1, Len(wire))
  /\ parsing' = TRUE
  /\ UNCHANGED <<size, sent, outbox, inbox, received, writing, reading, cut, short>>

\* MUTATION of Deliver: the message stays in the buffer.
DeliverAndKeep ==
  /\ reading /\ parsing /\ Complete
  /\ Len(inbox) < Capacity
  /\ inbox' = Append(inbox, buffer[1][1])
  /\ UNCHANGED <<size, sent, outbox, wire, buffer, parsing, received, writing, reading,
                 cut, short>>

\* The front of the buffer is a message: it is sent to the channel, which the
\* read task waits for while it is full.
Deliver ==
  LET m == buffer[1][1]
  IN  /\ reading /\ parsing /\ Complete
      /\ Len(inbox) < Capacity
      /\ inbox' = Append(inbox, m)
      /\ buffer' = SubSeq(buffer, size[m] + 1, Len(buffer))
      /\ UNCHANGED <<size, sent, outbox, wire, parsing, received, writing, reading, cut, short>>

\* MUTATION of TooLarge: the limit is checked against what fits.
LargeEnough(units) == Len(units) >= MaxBuffer

\* MUTATION of TooLarge: there is no limit.
NeverTooLarge(units) == FALSE

TooLarge(units) == Len(units) > MaxBuffer

\* MUTATION of StopParsing: only an empty buffer ends the loop.
StopWhenEmpty ==
  /\ reading /\ parsing /\ buffer = <<>>
  /\ parsing' = FALSE
  /\ UNCHANGED <<size, sent, outbox, wire, buffer, inbox, received, writing, reading, cut, short>>

\* There is none: a large buffer is cleared before the next read.
StopParsing ==
  /\ reading /\ parsing /\ ~Complete
  /\ buffer' = IF TooLarge(buffer) THEN <<>> ELSE buffer
  /\ cut' = (cut \/ TooLarge(buffer))
  /\ parsing' = FALSE
  /\ UNCHANGED <<size, sent, outbox, wire, inbox, received, writing, reading, short>>

\* try_recv by the adapter.
Receive ==
  /\ inbox # <<>>
  /\ received' = Append(received, Head(inbox))
  /\ inbox' = Tail(inbox)
  /\ UNCHANGED <<size, sent, outbox, wire, buffer, parsing, writing, reading, cut, short>>

\* The sender's process ends.
SenderEnds ==
  /\ writing' = FALSE
  /\ outbox' = <<>>
  /\ UNCHANGED <<size, sent, wire, buffer, parsing, inbox, received, reading, cut, short>>

\* Ok(0): nobody writes any more and all is read.
ReadEnd ==
  /\ reading /\ ~parsing
  /\ ~writing /\ wire = <<>>
  /\ reading' = FALSE
  /\ UNCHANGED <<size, sent, outbox, wire, buffer, parsing, inbox, received, writing, cut, short>>

\* An error of read ends the task, and what it has not parsed is never read.
ReadFails ==
  /\ reading /\ ~parsing
  /\ reading' = FALSE
  /\ UNCHANGED <<size, sent, outbox, wire, buffer, parsing, inbox, received, writing, cut, short>>

\* The receiver's process ends.
ReceiverEnds ==
  /\ reading' = FALSE
  /\ wire' = <<>> /\ buffer' = <<>> /\ inbox' = <<>>
  /\ parsing' = FALSE
  /\ UNCHANGED <<size, sent, outbox, received, writing, cut, short>>

Transfer == Write \/ WriteFails \/ Read \/ Deliver \/ StopParsing \/ ReadEnd

Next == Send \/ Transfer \/ Receive \/ ReadFails \/ SenderEnds \/ ReceiverEnds

\* The runtime runs both tasks and the adapter is polled; nothing obliges a
\* sender to send, a process to end or a read to fail.
Fairness ==
  /\ WF_vars(Write \/ WriteFails)
  /\ WF_vars(Read \/ Deliver \/ StopParsing \/ ReadEnd)
  /\ WF_vars(Receive)

Spec == Init /\ [][Next]_vars /\ Fairness

-----------------------------------------------------------------------------
(* Properties *)

\* No channel and no socket holds more than it can, and the read task's buffer
\* stays below its limit and one read.
TypeOK ==
  /\ sent \in 0..MaxMessages
  /\ outbox \in Seq(Messages) /\ Len(outbox) <= Capacity
  /\ inbox \in Seq(Messages) /\ Len(inbox) <= Capacity
  /\ Len(wire) <= WireCap
  /\ Len(buffer) <= MaxBuffer + ReadMax

Broken == cut \/ ~writing \/ ~reading

\* The connection is a FIFO link: until it breaks, no message is lost, repeated or
\* overtaken, however it is cut into reads; after that messages are only lost.
Link == INSTANCE FifoLink WITH
  pending <- inbox \o Whole(size, buffer \o wire) \o outbox,
  broken <- Broken

ImplementsLink == Link!LinkSpec

\* A message boundary is lost only by a write that was cut short or by a message
\* that does not fit the limit: the limit itself never cuts a stream of messages
\* that fit.
CutHasCause ==
  cut => short \/ \E m \in 1..sent : size[m] > MaxBuffer + 1

\* A message that was handed over arrives, or the link is broken.
Arrives == \A m \in Messages : m <= sent ~> Broken \/ \E i \in DOMAIN received : received[i] = m

=============================================================================
