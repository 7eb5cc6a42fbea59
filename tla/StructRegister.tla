--------------------------- MODULE StructRegister ---------------------------
(***************************************************************************)
(* What a store of structs promises its users: a register that takes every *)
(* struct that is written, in the order they are written, and holds the    *)
(* last one; a snapshot that is taken of it as a whole, and a copy made    *)
(* from the snapshot.  Where the layout of a struct varies (options,       *)
(* sequences, maps) nothing is ever removed: the new value lies over the   *)
(* old one.                                                                *)
(***************************************************************************)
EXTENDS Integers, Sequences

CONSTANT StructValues(_)   \* the values of a shape

VARIABLES
  shape,     \* the type of the struct
  log,       \* the structs written so far
  current,   \* the set of its value, empty at first, as the next two
  taken,
  copy

rvars == <<shape, log, current, taken, copy>>

RECURSIVE Overlay(_, _, _)

\* new written over old.
Overlay(of, old, new) ==
  CASE of.kind = "option" -> IF new = <<>> THEN old ELSE new
    [] of.kind = "newtype" -> Overlay(of.of, old, new)
    [] of.kind = "seq" ->
         [i \in DOMAIN old \union DOMAIN new |-> IF i \in DOMAIN new THEN new[i] ELSE old[i]]
    [] of.kind = "map" ->
         [k \in DOMAIN old \union DOMAIN new |->
            IF k \notin DOMAIN new THEN old[k]
            ELSE IF k \notin DOMAIN old THEN new[k] ELSE Overlay(of.of, old[k], new[k])]
    [] of.kind = "tuple" -> [i \in DOMAIN new |-> Overlay(of.of[i], old[i], new[i])]
    [] of.kind = "struct" -> [i \in DOMAIN new |-> Overlay(of.fields[i].of, old[i], new[i])]
    [] OTHER -> new

\* A write is on record, and the register holds the value that was written.
Put(v) ==
  /\ log' = Append(log, v)
  /\ \/ current = {} /\ current' = {v}
     \/ \E old \in current : current' = {Overlay(shape, old, v)}
  /\ UNCHANGED <<shape, taken, copy>>

Take == taken' = current /\ UNCHANGED <<shape, log, current, copy>>

Drop == taken' = {} /\ UNCHANGED <<shape, log, current, copy>>

CopyTaken ==
  /\ taken # {}
  /\ copy' = taken
  /\ UNCHANGED <<shape, log, current, taken>>

RegisterInit == log = <<>> /\ current = {} /\ taken = {} /\ copy = {}

RegisterNext ==
  \/ \E v \in StructValues(shape) : Put(v)
  \/ Take \/ Drop \/ CopyTaken

RegisterSpec == RegisterInit /\ [][RegisterNext]_rvars

=============================================================================
