---------------------------- MODULE RemoteCalls ----------------------------
(***************************************************************************)
(* What the broker and a node promise each other about the executions of   *)
(* blocking tasks: a task has one call at a time, a call is answered once  *)
(* at most and returns only when it was answered, and a call that was      *)
(* given up is not made again, until a failure has ended the tick that     *)
(* made it.  From then on nothing is promised.                             *)
(***************************************************************************)

CONSTANT Callers    \* the blocking tasks

VARIABLES
  stage,    \* of each caller's call
  broken

cvars == <<stage, broken>>

CallStages == {"idle", "asked", "answered", "lost", "given up"}

CallsInit == stage = [t \in Callers |-> "idle"] /\ broken = FALSE

To(t, next) == stage' = [stage EXCEPT ![t] = next] /\ UNCHANGED broken

Ask(t) == stage[t] = "idle" /\ To(t, "asked")
Answer(t) == stage[t] = "asked" /\ To(t, "answered")
Return(t) == stage[t] = "answered" /\ To(t, "idle")
GiveUp(t) == stage[t] \in {"asked", "answered", "lost"} /\ To(t, "given up")

\* The other side loses calls it was asked, several at once.
Lose(T) ==
  /\ \A t \in T : stage[t] = "asked"
  /\ stage' = [t \in Callers |-> IF t \in T THEN "lost" ELSE stage[t]]
  /\ UNCHANGED broken

Break == broken' = TRUE /\ stage' \in [Callers -> CallStages]

CallsNext ==
  \/ \E t \in Callers : Ask(t) \/ Answer(t) \/ Return(t) \/ GiveUp(t)
  \/ \E T \in SUBSET Callers : Lose(T)
  \/ Break

CallsSpec == CallsInit /\ [][CallsNext]_cvars

=============================================================================
