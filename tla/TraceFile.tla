----------------------------- MODULE TraceFile ------------------------------
(***************************************************************************)
(* What the SQLite sink promises a reader of its file: the events of a     *)
(* flush window appear together, applied in order, or not at all.  No      *)
(* interning, no coalescing, no transaction: a span is the name, the end   *)
(* and the status its committed events gave it.                            *)
(***************************************************************************)
EXTENDS Sequences, SequencesExt, FiniteSetsExt

CONSTANTS SpanIds, Names, Keys, Given, Statuses, none   \* Given: attributes, flattened

Event == [kind : {"start", "attrs", "end"}, span : SpanIds, name : Names,
          attrs : Given, status : Statuses]

VARIABLES
  spans,   \* span -> its row as a reader sees it, none if absent
  attrs,   \* <<span, key>> -> the value a reader finds, none if absent
  window   \* the events accepted since the last flush

vars == <<spans, attrs, window>>

Init ==
  /\ spans = [s \in SpanIds |-> none]
  /\ attrs = [c \in SpanIds \X Keys |-> none]
  /\ window = <<>>

SpanAfter(s, row, e) ==
  IF e.span # s \/ e.kind = "attrs" THEN row
  ELSE [name |-> e.name, ended |-> e.kind = "end", status |-> e.status]

\* The last value given for the key wins.
ValueAfter(c, value, e) ==
  LET hits == {i \in DOMAIN e.attrs : c = <<e.span, e.attrs[i].key>>}
  IN  IF hits = {} THEN value ELSE e.attrs[Max(hits)].value

Accept == \E e \in Event : window' = Append(window, e) /\ UNCHANGED <<spans, attrs>>

CommitWindow ==
  /\ spans' = [s \in SpanIds |-> FoldLeft(LAMBDA row, e : SpanAfter(s, row, e), spans[s], window)]
  /\ attrs' = [c \in SpanIds \X Keys |-> FoldLeft(LAMBDA v, e : ValueAfter(c, v, e), attrs[c], window)]
  /\ window' = <<>>

\* A failed flush or a crash.
LoseWindow == window' = <<>> /\ UNCHANGED <<spans, attrs>>

Next == Accept \/ CommitWindow \/ LoseWindow
Spec == Init /\ [][Next]_vars
=============================================================================
