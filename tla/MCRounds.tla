------------------------------ MODULE MCRounds ------------------------------
(* Instance of CommanderRounds for TLC: four tasks. *)
EXTENDS CommanderRounds

CONSTANTS t1, t2, t3, t4

Four == {t1, t2, t3, t4}

=============================================================================
