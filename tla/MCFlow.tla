------------------------------- MODULE MCFlow -------------------------------
(* Instances of DataFlow for TLC: a writer and a reader of each mode. *)
EXTENDS DataFlow

CONSTANTS w, n, l

OneWriter == {w}
TwoReaders == {n, l}
OneOfEach == [r \in {n, l} |-> IF r = n THEN "new" ELSE "latest"]

=============================================================================
