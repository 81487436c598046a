------------------------------- MODULE Attrs --------------------------------
(***************************************************************************)
(* Attributes on their way into the trace file (sqlite/write.go) and back: *)
(* a group is flattened into dot-joined keys, a value becomes a cell of    *)
(* the attrs table next to its slog.Kind, by which a reader renders it.    *)
(* A key is the sequence of its dot-separated parts, so joining keys is    *)
(* concatenation, and "db.query" is the same key however it came about.    *)
(* Values are taken as LogValuers resolve them.                            *)
(***************************************************************************)
EXTENDS Int64, Sequences, SequencesExt

CONSTANT Attributes   \* slog attributes, and the members of those that are groups

Kinds == {"string", "int64", "uint64", "float64", "bool", "duration", "time", "any", "group"}

\* A string, a float or a bool is any model of itself; an "any" value is the text
\* that formats it; a time is its distance from the epoch in ns.  Groups nest
\* finitely: any set of attributes has one without a member in the set, or the
\* code's recursion would not end.
ASSUME AttributesAssumption ==
  /\ \A a \in Attributes :
       /\ a.kind \in Kinds
       /\ a.key \in Seq(STRING)
       /\ a.kind = "group" => a.members \in Seq(Attributes)
       /\ a.kind \in {"int64", "duration"} => a.val \in Ints
       /\ a.kind = "uint64" => a.val \in 0..2^Width - 1
       /\ a.kind = "time" => a.val \in Int
  /\ \A S \in SUBSET Attributes : S # {} =>
       \E a \in S : a.kind = "group" => \A i \in DOMAIN a.members : a.members[i] \notin S

-----------------------------------------------------------------------------
\* What a single attribute flattens to: members follow each other in order, a leaf
\* without a key is dropped, a group without one adds nothing to its members' keys.
Flat[a \in Attributes] ==
  IF a.kind = "group"
    THEN FlattenSeq([i \in DOMAIN a.members |->
           [j \in DOMAIN Flat[a.members[i]] |->
             [Flat[a.members[i]][j] EXCEPT !.key = a.key \o @]]])
    ELSE IF a.key = <<>> THEN <<>>
    ELSE <<[key |-> a.key, value |-> [kind |-> a.kind, val |-> a.val]]>>

flattenAttrs(attrs) == FlattenSeq([i \in DOMAIN attrs |-> Flat[attrs[i]]])

\* The bits of an unsigned value, and UnixNano, which keeps 64 bits of the distance; the
\* database has no NaN and stores NULL in its place.
attrCell(v) ==
  IF v.kind \in {"uint64", "time"} THEN [kind |-> v.kind, val |-> Wrap(v.val)]
  ELSE IF v.kind = "float64" /\ v.val = "NaN" THEN [kind |-> v.kind, val |-> "NULL"]
  ELSE v

\* A reader sees the bits of a uint64 as unsigned because the kind says so.
ReadBack(cell) ==
  IF cell.kind = "uint64" THEN [cell EXCEPT !.val = @ % 2^Width] ELSE cell

\* The values a cell can hold: all but the times UnixNano has no number for, and NaN.
Storable(v) ==
  /\ v.kind = "time" => v.val \in Ints
  /\ v.kind = "float64" => v.val # "NaN"
=============================================================================
