----------------------------- MODULE FifoLink -----------------------------
(***************************************************************************)
(* What one direction of a connection promises: the messages its sender    *)
(* hands over are received once each and in their order, until the link    *)
(* breaks.  A broken link may lose messages, but does not reorder or       *)
(* repeat them.                                                            *)
(***************************************************************************)
EXTENDS Integers, Sequences

CONSTANT Messages

VARIABLES
  pending,    \* handed over and not received yet
  received,
  broken

lvars == <<pending, received, broken>>

\* Some of the messages of s are left out: place i of t was place from[i] of s.
Thinned(s, t) ==
  \E from \in [DOMAIN t -> DOMAIN s] :
    /\ \A i, j \in DOMAIN t : i < j => from[i] < from[j]
    /\ \A i \in DOMAIN t : t[i] = s[from[i]]

LinkInit == pending = <<>> /\ received = <<>> /\ broken = FALSE

Send(m) == pending' = Append(pending, m) /\ UNCHANGED <<received, broken>>

Receive ==
  /\ pending # <<>>
  /\ received' = Append(received, Head(pending))
  /\ pending' = Tail(pending)
  /\ UNCHANGED broken

Lose == broken' = TRUE /\ Thinned(pending, pending') /\ UNCHANGED received

LinkNext == (\E m \in Messages : Send(m)) \/ Receive \/ Lose

LinkSpec == LinkInit /\ [][LinkNext]_lvars

=============================================================================
