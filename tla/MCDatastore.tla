---------------------------- MODULE MCDatastore ----------------------------
(* Instances of Datastore for TLC: a topic, the one below it and the root. *)
EXTENDS Datastore, TLC

CONSTANTS v, w

ValueSymmetry == Permutations({v, w})

Parent == <<"x">>
Child == <<"x", "y">>

ParentAndChild == {Parent, Child}
OnlyRoot == {<<>>}
OnlyParent == {Parent}

TwoRows == {2, NoLimit}

=============================================================================
