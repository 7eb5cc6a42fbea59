------------------------------ MODULE MCServer ------------------------------
(* An instance of TcpServer for TLC: a client with the only task, and a        *)
(* bystander that is sent the inputs as well and whose links fill sooner.      *)
EXTENDS TcpServer

CONSTANTS left, right, t1

TwoClients == {left, right}
OneTask == {t1}
OnLeft == [t \in Tasks |-> left]
Rooms == [c \in Clients |-> IF c = left THEN 2 ELSE 1]

=============================================================================
