----------------------------- MODULE SqliteSink -----------------------------
(***************************************************************************)
(* The SQLite sink (sqlite/write.go): WriteBatch folds events into pending *)
(* rows, Flush writes them in one transaction statement by statement, and  *)
(* a failed flush drops them.  Span names are interned in a names table,   *)
(* with a cache of the committed ids and one of the ids inserted by the    *)
(* open transaction.  The writer goroutine is the only caller; what it can *)
(* interleave with is the failure of any statement and the process dying.  *)
(*                                                                         *)
(* A row keeps the columns that can go wrong: its name, whether it has an  *)
(* end, and its status.  The rest of a row (trace, parent and start) is    *)
(* the same in every event of a span and is left out.                      *)
(***************************************************************************)
EXTENDS Attrs

CONSTANTS
  SpanIds,   \* the spans whose events reach the sink
  Names,     \* span names
  AttrLists, \* what a Start or SetAttrs call may carry
  Statuses,  \* SpanStatus values
  MaxAttrs,  \* bound: non-empty lists delivered
  none       \* NULL, and a row that is not there

ASSUME SinkAssumption ==
  /\ MaxAttrs \in Nat
  /\ "ok" \in Statuses
  /\ AttrLists \subseteq Seq(Attributes)
  /\ \A list \in AttrLists : \A i \in DOMAIN flattenAttrs(list) :
       Storable(flattenAttrs(list)[i].value)

VARIABLES
  nameOf,             \* the name each span was started with
  phase,              \* span -> how far its events got: "new", "open" or "ended"
  attrsSeen,          \* attribute lists delivered so far
  pendingSpans,       \* sequence of pending rows
  pendingByID,        \* span -> place of its open pending row, 0 if there is none
  pendingAttrs,       \* sequence of pending attribute rows
  nameIDs,            \* name -> committed id, 0 if unknown
  internedThisFlush,  \* name -> id inserted by the open transaction, 0 if unknown
  pc,                 \* "idle", "spans", "attrs", "closed" or "crashed"
  at,                 \* the pending row the flush writes next
  tx,                 \* the database as the open transaction sees it
  file,               \* the database as committed
  writeErrors,        \* Stats.WriteErrors of the tracer that writes to the sink
  heard,              \* history: the events delivered
  settled             \* history: how many of them earlier flushes have committed or lost

feedVars == <<nameOf, phase, attrsSeen>>
pendingVars == <<pendingSpans, pendingByID, pendingAttrs, writeErrors, heard, settled>>
nameVars == <<nameIDs, internedThisFlush>>
vars == <<feedVars, pendingVars, nameVars, pc, at, tx, file>>

Row == [span : SpanIds, name : Names, ended : BOOLEAN, status : Statuses]

\* What the lists come to, and the keys and cells of the table.
Given == {flattenAttrs(list) : list \in AttrLists \cup {<<>>}}
Leaves == UNION {{flat[i] : i \in DOMAIN flat} : flat \in Given}
Keys == {leaf.key : leaf \in Leaves}
Cells == {attrCell(leaf.value) : leaf \in Leaves}

AttrRow == [span : SpanIds, key : Keys, value : Cells]
FileRow == [nameId : Nat, ended : BOOLEAN, status : Statuses]

ASSUME NoneAssumption == none \notin FileRow \cup Cells

\* A table of the schema as a function; the id of a name is its place in names.
EmptyFile == [names |-> <<>>,
              spans |-> [s \in SpanIds |-> none],
              attrs |-> [c \in SpanIds \X Keys |-> none]]

NoIDs == [n \in Names |-> 0]
NoRows == [s \in SpanIds |-> 0]

Init ==
  /\ nameOf \in [SpanIds -> Names]
  /\ phase = [s \in SpanIds |-> "new"]
  /\ attrsSeen = 0
  /\ pendingSpans = <<>>
  /\ pendingByID = NoRows
  /\ pendingAttrs = <<>>
  /\ nameIDs = NoIDs
  /\ internedThisFlush = NoIDs
  /\ pc = "idle"
  /\ at = 1
  /\ tx = EmptyFile
  /\ file = EmptyFile
  /\ writeErrors = 0
  /\ heard = <<>>
  /\ settled = 0

-----------------------------------------------------------------------------
(* Seeded faults, used by mutation checks only                             *)

CacheAtOnce(n, id) == [nameIDs EXCEPT ![n] = id]   \* survives a rollback
KeepInterned == internedThisFlush                  \* clearPending forgets the map
LookupCommitted(n) == nameIDs[n]                   \* the open transaction's names are missed
InsertOrIgnore(spans, row, id) ==
  IF spans[row.span] = none
    THEN [spans EXCEPT ![row.span] = [nameId |-> id, ended |-> row.ended, status |-> row.status]]
    ELSE spans
KeepByID == pendingByID                            \* clearPending forgets the open rows
Swallowed == 0                                     \* a rollback's error is not returned

-----------------------------------------------------------------------------
(* WriteBatch, one event at a time: nothing can come between two events of *)
(* a batch that could not come between two batches.                        *)

NewRow(s, ended, status) == [span |-> s, name |-> nameOf[s], ended |-> ended, status |-> status]

Accept(kind, s, attrs, st) ==
  /\ heard' = Append(heard, [kind |-> kind, span |-> s, name |-> nameOf[s],
                             attrs |-> flattenAttrs(attrs), status |-> st])
  /\ UNCHANGED <<writeErrors, settled>>

newAttrRow(s, leaf) == [span |-> s, key |-> leaf.key, value |-> attrCell(leaf.value)]

Carry(s, attrs) ==
  /\ attrs # <<>> => attrsSeen < MaxAttrs
  /\ attrsSeen' = IF attrs = <<>> THEN attrsSeen ELSE attrsSeen + 1
  /\ pendingAttrs' = pendingAttrs \o [i \in DOMAIN flattenAttrs(attrs) |->
                                        newAttrRow(s, flattenAttrs(attrs)[i])]

WriteStart(s, attrs) ==
  /\ pc = "idle"
  /\ phase[s] = "new"
  /\ Carry(s, attrs)
  /\ phase' = [phase EXCEPT ![s] = "open"]
  /\ pendingSpans' = Append(pendingSpans, NewRow(s, FALSE, "ok"))
  /\ pendingByID' = [pendingByID EXCEPT ![s] = Len(pendingSpans) + 1]
  /\ Accept("start", s, attrs, "ok")
  /\ UNCHANGED <<nameOf, nameVars, pc, at, tx, file>>

\* The start event may have been dropped before the sink.
WriteAttrs(s, attrs) ==
  /\ pc = "idle"
  /\ phase[s] # "ended"
  /\ Carry(s, attrs)
  /\ phase' = [phase EXCEPT ![s] = "open"]
  /\ Accept("attrs", s, attrs, "ok")
  /\ UNCHANGED <<nameOf, pendingSpans, pendingByID, nameVars, pc, at, tx, file>>

Completed(i, st) == [pendingSpans EXCEPT ![i].ended = TRUE, ![i].status = st]

WriteEnd(s, st) ==
  /\ pc = "idle"
  /\ phase[s] # "ended"
  /\ phase' = [phase EXCEPT ![s] = "ended"]
  /\ pendingSpans' = IF pendingByID[s] # 0 THEN Completed(pendingByID[s], st)
                                           ELSE Append(pendingSpans, NewRow(s, TRUE, st))
  /\ Accept("end", s, <<>>, st)
  /\ UNCHANGED <<nameOf, attrsSeen, pendingByID, pendingAttrs, nameVars, pc, at, tx, file>>

-----------------------------------------------------------------------------
(* Flush                                                                   *)

ClearedInterned == NoIDs
ClearedByID == NoRows

ClearPending ==
  /\ pendingSpans' = <<>>
  /\ pendingByID' = ClearedByID
  /\ pendingAttrs' = <<>>
  /\ internedThisFlush' = ClearedInterned
  /\ settled' = Len(heard)
  /\ UNCHANGED heard

FlushBegin ==
  /\ pc = "idle"
  /\ pendingSpans # <<>> \/ pendingAttrs # <<>>
  /\ pc' = "spans"
  /\ at' = 1
  /\ tx' = file
  /\ UNCHANGED <<feedVars, pendingVars, nameVars, file>>

\* internName: the committed ids first, then those of this transaction.
Lookup(n) == IF nameIDs[n] # 0 THEN nameIDs[n] ELSE internedThisFlush[n]

\* The id a fresh name gets: one past the last row the transaction sees.
FreshId == Len(tx.names) + 1

Unique(n) == \A i \in 1..Len(tx.names) : tx.names[i] # n

\* Where a fresh id is remembered before the commit: not in the committed cache.
CommittedIDs(n, id) == nameIDs

Upsert(spans, row, id) ==
  IF spans[row.span] = none
    THEN [spans EXCEPT ![row.span] = [nameId |-> id, ended |-> row.ended, status |-> row.status]]
    ELSE [spans EXCEPT ![row.span].ended = row.ended, ![row.span].status = row.status]

NextRow == pendingSpans[at]
MoreRows == pc = "spans" /\ at <= Len(pendingSpans)

FlushKnownName ==
  /\ MoreRows
  /\ Lookup(NextRow.name) # 0
  /\ tx' = [tx EXCEPT !.spans = Upsert(tx.spans, NextRow, Lookup(NextRow.name))]
  /\ at' = at + 1
  /\ UNCHANGED <<feedVars, pendingVars, nameVars, pc, file>>

FlushFreshName ==
  /\ MoreRows
  /\ Lookup(NextRow.name) = 0
  /\ Unique(NextRow.name)
  /\ internedThisFlush' = [internedThisFlush EXCEPT ![NextRow.name] = FreshId]
  /\ nameIDs' = CommittedIDs(NextRow.name, FreshId)
  /\ tx' = [tx EXCEPT !.names = Append(@, NextRow.name),
                      !.spans = Upsert(tx.spans, NextRow, FreshId)]
  /\ at' = at + 1
  /\ UNCHANGED <<feedVars, pendingVars, pc, file>>

FlushSpansDone ==
  /\ pc = "spans"
  /\ at > Len(pendingSpans)
  /\ pc' = "attrs"
  /\ at' = 1
  /\ UNCHANGED <<feedVars, pendingVars, nameVars, tx, file>>

FlushAttr ==
  /\ pc = "attrs"
  /\ at <= Len(pendingAttrs)
  /\ tx' = [tx EXCEPT !.attrs[<<pendingAttrs[at].span, pendingAttrs[at].key>>]
                        = pendingAttrs[at].value]
  /\ at' = at + 1
  /\ UNCHANGED <<feedVars, pendingVars, nameVars, pc, file>>

Promoted == [n \in Names |-> IF internedThisFlush[n] # 0 THEN internedThisFlush[n] ELSE nameIDs[n]]

Commit ==
  /\ pc = "attrs"
  /\ at > Len(pendingAttrs)
  /\ file' = tx
  /\ nameIDs' = Promoted
  /\ ClearPending
  /\ pc' = "idle"
  /\ UNCHANGED <<feedVars, writeErrors, at, tx>>

FailureCount == 1

\* Begin, a prepared statement or the commit fails: rolled back, dropped, reported to
\* the writer, which counts it.
FlushFails ==
  /\ pc \in {"spans", "attrs"}
  /\ writeErrors' = writeErrors + FailureCount
  /\ ClearPending
  /\ tx' = file
  /\ pc' = "idle"
  /\ UNCHANGED <<feedVars, nameIDs, at, file>>

\* The tracer closes the sink after a last flush.
Close ==
  /\ pc = "idle"
  /\ pendingSpans = <<>> /\ pendingAttrs = <<>>
  /\ pc' = "closed"
  /\ UNCHANGED <<feedVars, pendingVars, nameVars, at, tx, file>>

\* The process dies: what was not committed is gone.
Crash ==
  /\ pc \notin {"closed", "crashed"}
  /\ ClearPending
  /\ nameIDs' = NoIDs
  /\ tx' = file
  /\ pc' = "crashed"
  /\ UNCHANGED <<feedVars, writeErrors, at, file>>

Next ==
  \/ \E s \in SpanIds, attrs \in AttrLists \cup {<<>>} : WriteStart(s, attrs)
  \/ \E s \in SpanIds, attrs \in AttrLists : WriteAttrs(s, attrs)
  \/ \E s \in SpanIds, st \in Statuses : WriteEnd(s, st)
  \/ FlushBegin \/ FlushKnownName \/ FlushFreshName \/ FlushSpansDone \/ FlushAttr
  \/ Commit \/ FlushFails \/ Close \/ Crash

Spec == Init /\ [][Next]_vars

-----------------------------------------------------------------------------
(* Properties                                                              *)

\* Every variable holds a value of its Go type.
TypeOK ==
  /\ nameOf \in [SpanIds -> Names]
  /\ phase \in [SpanIds -> {"new", "open", "ended"}]
  /\ attrsSeen \in 0..MaxAttrs
  /\ pendingSpans \in Seq(Row)
  /\ pendingByID \in [SpanIds -> 0..Len(pendingSpans)]
  /\ pendingAttrs \in Seq(AttrRow)
  /\ nameIDs \in [Names -> Nat]
  /\ internedThisFlush \in [Names -> Nat]
  /\ pc \in {"idle", "spans", "attrs", "closed", "crashed"}
  /\ at \in Nat \ {0}
  /\ writeErrors \in Nat
  /\ settled \in 0..Len(heard)
  /\ \A db \in {tx, file} :
       /\ db.names \in Seq(Names)
       /\ db.spans \in [SpanIds -> FileRow \cup {none}]
       /\ \A c \in SpanIds \X Keys : db.attrs[c] = none \/ db.attrs[c] \in Cells

\* Whatever flushes failed before, every committed span joins to the name it was
\* started with: no row points at a rolled-back or reused names id
\* (write.go:201-205).
Joined(db, s) ==
  db.spans[s] # none =>
    /\ db.spans[s].nameId \in 1..Len(db.names)
    /\ db.names[db.spans[s].nameId] = nameOf[s]
NamesJoin == \A s \in SpanIds : Joined(file, s)

\* The committed cache only ever names rows that are on disk (write.go:110-116).
NameCacheSound ==
  \A n \in Names : nameIDs[n] # 0 => nameIDs[n] \in 1..Len(file.names) /\ file.names[nameIDs[n]] = n

\* A flush never fails by its own doing: a name it is about to insert is not in the
\* table already, so the UNIQUE constraint is never hit.
NoSelfConflict == MoreRows /\ Lookup(NextRow.name) = 0 => Unique(NextRow.name)
=============================================================================
