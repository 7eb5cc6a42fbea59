----------------------------- MODULE TopicKeys -----------------------------
(***************************************************************************)
(* Topic keys of vs-data-store.  A key is the sequence of its sections;    *)
(* two sections are the same when they were made from the same text.  A    *)
(* text is the sequence of the pieces between its slashes, some of which   *)
(* may be empty.                                                           *)
(***************************************************************************)
EXTENDS Integers, Sequences, SequencesExt

FromStr(text) == SelectSeq(text, LAMBDA piece : piece # "")

\* Joined with slashes: the empty key is one empty piece.
DisplayName(key) == IF key = <<>> THEN <<"">> ELSE key

AddPrefix(key, prefix) == prefix \o key

AddSuffix(key, suffix) == key \o suffix

IsChildOf(key, parent) == IsPrefix(parent, key)

\* A child, a parent or the same.
Matches(key, other) == IsChildOf(key, other) \/ IsChildOf(other, key)

\* Only asked of a child: unwrapped by every caller.
RemovePrefix(key, prefix) == SubSeq(key, Len(prefix) + 1, Len(key))

=============================================================================
