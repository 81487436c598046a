---------------------------- MODULE MCSqliteSink ----------------------------
(***************************************************************************)
(* SqliteSink on small instances, and its refinement of TraceFile: a       *)
(* reader resolves each committed span's name through the names table.     *)
(***************************************************************************)
EXTENDS SqliteSink, TLC

Resolved(s) ==
  IF file.spans[s] = none THEN none
  ELSE [name |-> file.names[file.spans[s].nameId],
        ended |-> file.spans[s].ended, status |-> file.spans[s].status]

Reader == INSTANCE TraceFile WITH
  spans <- [s \in SpanIds |-> Resolved(s)],
  attrs <- [c \in SpanIds \X Keys |-> IF file.attrs[c] = none THEN none ELSE ReadBack(file.attrs[c])],
  window <- SubSeq(heard, settled + 1, Len(heard))

\* A reader of the file sees whole flush windows, applied event by event in order,
\* with last-wins attributes and end events completing rows an earlier flush
\* committed or never had (write.go:35-41, 88-92, 127-140).
ImplementsTraceFile == Reader!Spec

\* When the tracer has closed the sink and Stats.WriteErrors is zero, the file tells
\* all that was delivered, however the flushes cut it up: every span's last word and
\* the last value of every key (write.go:88-92, stats.go:35-39).
QuietMeansComplete ==
  pc = "closed" /\ writeErrors = 0 =>
    /\ \A s \in SpanIds :
         Resolved(s) = FoldLeft(LAMBDA row, e : Reader!SpanAfter(s, row, e), none, heard)
    /\ \A c \in SpanIds \X Keys :
         LET given == FoldLeft(LAMBDA value, e : Reader!ValueAfter(c, value, e), none, heard)
         IN  IF file.attrs[c] = none THEN given = none ELSE ReadBack(file.attrs[c]) = given

Leaf(key, kind, val) == [key |-> key, kind |-> kind, val |-> val, members |-> <<>>]
Group(key, members) == [key |-> key, kind |-> "group", val |-> 0, members |-> members]

\* A uint64 above MaxInt64; a group whose member has that key too, inside another
\* without a key; a member that has none.
High == Leaf(<<"k1", "k2">>, "uint64", 2^Width - 3)
Nested == Group(<<>>, <<Group(<<"k1">>, <<Leaf(<<"k2">>, "time", -7), Leaf(<<>>, "any", 1)>>)>>)
Single == Leaf(<<"k1">>, "duration", 5)

MCAttrLists == {<<High>>, <<Nested, Single>>}
MCAttributes == {High, Single, Nested, Nested.members[1]}
                  \cup {Nested.members[1].members[i] : i \in 1..2}

\* Spans and names are interchangeable; sound for safety.
Symmetry == Permutations(SpanIds) \cup Permutations(Names)
=============================================================================
