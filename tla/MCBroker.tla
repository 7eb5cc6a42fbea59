------------------------------ MODULE MCBroker ------------------------------
(* Instances of Broker for TLC: two adapters, up to three tasks. *)
EXTENDS Broker

CONSTANTS Left, Right, t1, t2, t3

Two == {t1, t2}
Three == {t1, t2, t3}

OneAdapter == {Left}
TwoAdapters == {Left, Right}

OnA == [t \in Tasks |-> Left]
Split == [t \in Tasks |-> IF t = t2 THEN Right ELSE Left]

Nobody == {}
OnlyT2 == {t2}
OnlyT3 == {t3}

AllAlways == [t \in Tasks |-> 0]
AllRate == [t \in Tasks |-> 2]
\* t1 runs at every turn, the others at every second unit of time
Mixed == [t \in Tasks |-> IF t = t1 THEN 0 ELSE 2]

\* every task reads what t1 writes
ReadT1 == [t \in Tasks |-> {t1}]
ReadNothing == [t \in Tasks |-> {}]

=============================================================================
