-------------------------- MODULE SqliteSinkProofs ---------------------------
(***************************************************************************)
(* What holds of the trace file for every number of spans, names, statuses *)
(* and attributes of any nesting, however flushes fail and the process     *)
(* dies.  First the names table and its two caches; then the pending rows, *)
(* which at any moment tell what the events of the open window come to; so *)
(* the sink implements TraceFile.                                          *)
(***************************************************************************)
EXTENDS MCSqliteSink, FoldTheorems

-----------------------------------------------------------------------------
(* The names: the inductive invariant                                      *)

InFlush == pc \in {"spans", "attrs"}

\* The parts of a database the names depend on.
Database(db) ==
  /\ db = [names |-> db.names, spans |-> db.spans, attrs |-> db.attrs]
  /\ db.names \in Seq(Names)
  /\ db.spans \in [SpanIds -> FileRow \cup {none}]

NameTypes ==
  /\ nameOf \in [SpanIds -> Names]
  /\ pendingSpans \in Seq(Row)
  /\ pendingByID \in [SpanIds -> 0..Len(pendingSpans)]
  /\ nameIDs \in [Names -> Nat]
  /\ internedThisFlush \in [Names -> Nat]
  /\ at \in Nat \ {0}
  /\ Database(tx) /\ Database(file)

\* A pending row carries the name its span was started with.
RowsNamed == \A i \in 1..Len(pendingSpans) : pendingSpans[i].name = nameOf[pendingSpans[i].span]

\* The committed cache and the committed table tell each other's ids, until a crash
\* takes the cache.
CommittedInv ==
  /\ NameCacheSound
  /\ pc # "crashed" => \A i \in 1..Len(file.names) : nameIDs[file.names[i]] = i

\* The open transaction sees the committed names first, and the map of the flush and
\* the names it added tell each other's ids.
InternedInv ==
  LET old == Len(file.names)
      new == Len(tx.names)
  IN  /\ old <= new
      /\ \A i \in 1..old : tx.names[i] = file.names[i]
      /\ \A n \in Names : internedThisFlush[n] # 0 =>
           /\ nameIDs[n] = 0
           /\ internedThisFlush[n] \in old + 1..new /\ tx.names[internedThisFlush[n]] = n
      /\ \A i \in old + 1..new : internedThisFlush[tx.names[i]] = i

NamesInv ==
  /\ NameTypes
  /\ RowsNamed
  /\ CommittedInv
  /\ NamesJoin
  /\ InFlush => InternedInv /\ \A s \in SpanIds : Joined(tx, s)
  /\ ~InFlush => internedThisFlush = NoIDs

-----------------------------------------------------------------------------
(* Lemmas about the operators                                              *)

\* Inserting or updating a row: types stay, and if the row is to join to its name then
\* every span of the table still joins.
LEMMA Upserted ==
  ASSUME NEW spans \in [SpanIds -> FileRow \cup {none}], NEW row \in Row, NEW id \in Nat,
         NEW names, NEW new \in [SpanIds -> FileRow \cup {none}],
         new = Upsert(spans, row, id),
         id \in 1..Len(names) /\ names[id] = nameOf[row.span],
         \A s \in SpanIds : Joined([names |-> names, spans |-> spans], s)
  PROVE  \A s \in SpanIds : Joined([names |-> names, spans |-> new], s)
<1>. SUFFICES ASSUME NEW s \in SpanIds, new[s] # none
     PROVE  new[s].nameId \in 1..Len(names) /\ names[new[s].nameId] = nameOf[s]
  BY DEF Joined
<1>1. row.span \in SpanIds /\ row.ended \in BOOLEAN /\ row.status \in Statuses
  BY DEF Row
<1>2. CASE s # row.span
  <2>1. new[s] = spans[s]
    BY <1>1, <1>2 DEF Upsert
  <2>. QED
    BY <2>1 DEF Joined
<1>3. CASE s = row.span /\ spans[s] = none
  <2>1. new[s].nameId = id
    BY <1>1, <1>3 DEF Upsert
  <2>. QED
    BY <1>3, <2>1
<1>4. CASE s = row.span /\ spans[s] # none
  <2>1. spans[s] \in FileRow
    BY <1>4
  <2>2. new[s].nameId = spans[s].nameId
    BY <1>1, <1>4, <2>1 DEF Upsert, FileRow
  <2>. QED
    BY <1>4, <2>2 DEF Joined
<1>. QED
  BY <1>2, <1>3, <1>4

\* The rows of the table stay rows.
LEMMA UpsertType ==
  ASSUME NEW spans \in [SpanIds -> FileRow \cup {none}], NEW row \in Row, NEW id \in Nat
  PROVE  Upsert(spans, row, id) \in [SpanIds -> FileRow \cup {none}]
<1>1. row.span \in SpanIds /\ row.ended \in BOOLEAN /\ row.status \in Statuses
  BY DEF Row
<1>2. [nameId |-> id, ended |-> row.ended, status |-> row.status] \in FileRow
  BY <1>1 DEF FileRow
<1>3. CASE spans[row.span] = none
  BY <1>1, <1>2, <1>3 DEF Upsert
<1>4. CASE spans[row.span] # none
  <2>1. spans[row.span] \in FileRow
    BY <1>1, <1>4
  <2>2. [spans[row.span] EXCEPT !.ended = row.ended, !.status = row.status] \in FileRow
    BY <1>1, <2>1 DEF FileRow
  <2>. QED
    BY <1>1, <1>4, <2>1, <2>2 DEF Upsert, FileRow
<1>. QED
  BY <1>3, <1>4

\* Whether a span joins depends on two tables only.
LEMMA JoinedTables ==
  ASSUME NEW db, NEW s
  PROVE  Joined(db, s) <=> Joined([names |-> db.names, spans |-> db.spans], s)
BY DEF Joined

-----------------------------------------------------------------------------
(* The names: the steps                                                    *)

\* The invariant holds of a sink that New just returned.
LEMMA NamesInit == Init => NamesInv
<1>. SUFFICES ASSUME Init PROVE NamesInv
  OBVIOUS
<1>1. <<>> \in Seq(Row) /\ <<>> \in Seq(Names) /\ Len(<<>>) = 0
  BY EmptySeq
<1>2. Database(EmptyFile)
  BY <1>1 DEF Database, EmptyFile
<1>3. NameTypes
  BY <1>1, <1>2 DEF Init, NameTypes, NoRows, NoIDs
<1>4. RowsNamed /\ CommittedInv /\ NamesJoin
  BY <1>1 DEF Init, RowsNamed, CommittedInv, NameCacheSound, NamesJoin, Joined, EmptyFile, NoIDs
<1>. QED
  BY <1>3, <1>4 DEF Init, NamesInv, InFlush

\* Events only add pending rows, or end one.
LEMMA WriteStep ==
  ASSUME NamesInv,
         \/ \E s \in SpanIds, attrs \in AttrLists \cup {<<>>} : WriteStart(s, attrs)
         \/ \E s \in SpanIds, attrs \in AttrLists : WriteAttrs(s, attrs)
         \/ \E s \in SpanIds, st \in Statuses : WriteEnd(s, st)
  PROVE  NamesInv'
<1>. USE DEF NamesInv, NameTypes
<1>1. Len(pendingSpans) \in Nat
  BY LenProperties
<1>2. ASSUME pc = "idle", UNCHANGED <<nameOf, nameVars, pc, at, tx, file>>,
             pendingSpans' \in Seq(Row), pendingByID' \in [SpanIds -> 0..Len(pendingSpans')],
             RowsNamed'
      PROVE  NamesInv'
  BY <1>2 DEF nameVars, Database, CommittedInv, NameCacheSound, NamesJoin, Joined, InFlush
<1>3. ASSUME NEW s \in SpanIds, NEW e \in BOOLEAN, NEW st \in Statuses
      PROVE  NewRow(s, e, st) \in Row /\ NewRow(s, e, st).name = nameOf[NewRow(s, e, st).span]
  BY <1>3 DEF NewRow, Row
<1>4. ASSUME NEW row \in Row, row.name = nameOf[row.span], UNCHANGED nameOf,
             pendingSpans' = Append(pendingSpans, row)
      PROVE  /\ pendingSpans' \in Seq(Row) /\ Len(pendingSpans') = Len(pendingSpans) + 1
             /\ RowsNamed'
  BY <1>1, <1>4, AppendProperties DEF RowsNamed
<1>5. ASSUME NEW s \in SpanIds, NEW attrs, WriteStart(s, attrs) PROVE NamesInv'
  <2>1. NewRow(s, FALSE, "ok") \in Row /\ NewRow(s, FALSE, "ok").name = nameOf[NewRow(s, FALSE, "ok").span]
    BY <1>3, SinkAssumption
  <2>2. /\ pendingSpans' \in Seq(Row) /\ Len(pendingSpans') = Len(pendingSpans) + 1
        /\ RowsNamed'
    BY <1>4, <1>5, <2>1 DEF WriteStart
  <2>3. pendingByID' \in [SpanIds -> 0..Len(pendingSpans')]
    BY <1>1, <1>5, <2>2 DEF WriteStart
  <2>. QED
    BY <1>2, <1>5, <2>2, <2>3 DEF WriteStart
<1>6. ASSUME NEW s \in SpanIds, NEW attrs, WriteAttrs(s, attrs) PROVE NamesInv'
  <2>1. RowsNamed'
    BY <1>6 DEF WriteAttrs, RowsNamed
  <2>. QED
    BY <1>2, <1>6, <2>1 DEF WriteAttrs
<1>7. ASSUME NEW s \in SpanIds, NEW st \in Statuses, WriteEnd(s, st) PROVE NamesInv'
  <2>1. CASE pendingByID[s] = 0
    <3>1. NewRow(s, TRUE, st) \in Row /\ NewRow(s, TRUE, st).name = nameOf[NewRow(s, TRUE, st).span]
      BY <1>3
    <3>2. /\ pendingSpans' \in Seq(Row) /\ Len(pendingSpans') = Len(pendingSpans) + 1
          /\ RowsNamed'
      BY <1>4, <1>7, <2>1, <3>1 DEF WriteEnd
    <3>3. pendingByID' \in [SpanIds -> 0..Len(pendingSpans')]
      BY <1>1, <1>7, <3>2 DEF WriteEnd
    <3>. QED
      BY <1>2, <1>7, <3>2, <3>3 DEF WriteEnd
  <2>2. CASE pendingByID[s] # 0
    <3>. DEFINE i == pendingByID[s]
                row == [pendingSpans[i] EXCEPT !.ended = TRUE, !.status = st]
    <3>1. i \in 1..Len(pendingSpans) /\ pendingSpans[i] \in Row
      BY <1>1, <2>2, ElementOfSeq
    <3>2. row \in Row /\ row.name = pendingSpans[i].name /\ row.span = pendingSpans[i].span
      BY <3>1 DEF Row
    <3>3. pendingSpans' = [pendingSpans EXCEPT ![i] = row]
      BY <1>7, <2>2, <3>1 DEF WriteEnd, Completed
    <3>. HIDE DEF row
    <3>4. /\ pendingSpans' \in Seq(Row) /\ Len(pendingSpans') = Len(pendingSpans)
          /\ \A k \in 1..Len(pendingSpans) :
               pendingSpans'[k] = IF k = i THEN row ELSE pendingSpans[k]
      BY <3>1, <3>2, <3>3, ExceptSeq
    <3>5. nameOf' = nameOf
      BY <1>7 DEF WriteEnd
    <3>6. \A k \in 1..Len(pendingSpans) : /\ pendingSpans'[k].name = pendingSpans[k].name
                                         /\ pendingSpans'[k].span = pendingSpans[k].span
      BY <3>2, <3>4
    <3>7. RowsNamed'
      BY <3>4, <3>5, <3>6 DEF RowsNamed
    <3>. QED
      BY <1>2, <1>7, <3>4, <3>7 DEF WriteEnd
  <2>. QED
    BY <2>1, <2>2
<1>. QED
  BY <1>5, <1>6, <1>7

\* internName's two lookups together find what the open transaction's table holds: an
\* id they find names its row, and a name they do not find has none.
LEMMA LookupSound ==
  ASSUME NamesInv, InFlush, NEW n \in Names
  PROVE  /\ Lookup(n) # 0 => Lookup(n) \in 1..Len(tx.names) /\ tx.names[Lookup(n)] = n
         /\ Lookup(n) = 0 => \A i \in 1..Len(tx.names) : tx.names[i] # n
         /\ Lookup(n) \in Nat
<1>. DEFINE old == Len(file.names)
            new == Len(tx.names)
<1>1. /\ old \in Nat /\ new \in Nat /\ old <= new
      /\ \A i \in 1..old : tx.names[i] = file.names[i]
      /\ nameIDs[n] \in Nat /\ internedThisFlush[n] \in Nat
  BY LenProperties DEF NamesInv, NameTypes, Database, InternedInv
<1>2. nameIDs[n] # 0 => nameIDs[n] \in 1..old /\ file.names[nameIDs[n]] = n
  BY DEF NamesInv, CommittedInv, NameCacheSound
<1>3. internedThisFlush[n] # 0 =>
        internedThisFlush[n] \in old + 1..new /\ tx.names[internedThisFlush[n]] = n
  BY DEF NamesInv, InternedInv
<1>4. Lookup(n) # 0 => Lookup(n) \in 1..new /\ tx.names[Lookup(n)] = n
  BY <1>1, <1>2, <1>3 DEF Lookup
<1>5. ASSUME Lookup(n) = 0, NEW i \in 1..new PROVE tx.names[i] # n
  <2>1. nameIDs[n] = 0 /\ internedThisFlush[n] = 0
    BY <1>5 DEF Lookup
  <2>2. CASE i \in 1..old
    BY <1>1, <2>1, <2>2 DEF NamesInv, CommittedInv, InFlush
  <2>3. CASE i \in old + 1..new
    BY <2>1, <2>3 DEF NamesInv, InternedInv
  <2>. QED
    BY <1>1, <2>2, <2>3
<1>. QED
  BY <1>1, <1>4, <1>5 DEF Lookup

\* The row a flush writes next is one of the pending rows, with its span's name.
LEMMA NextRowNamed ==
  ASSUME NamesInv, MoreRows
  PROVE  /\ at \in Nat \ {0}
         /\ NextRow \in Row /\ NextRow.name \in Names /\ NextRow.name = nameOf[NextRow.span]
<1>1. at \in Nat \ {0} /\ at <= Len(pendingSpans) /\ pendingSpans \in Seq(Row)
  BY DEF NamesInv, NameTypes, MoreRows
<1>2. at \in 1..Len(pendingSpans)
  BY <1>1, LenProperties
<1>3. pendingSpans[at] \in Row
  BY <1>1, <1>2, ElementOfSeq
<1>. QED
  BY <1>1, <1>2, <1>3 DEF NextRow, Row, NamesInv, RowsNamed

\* A flush opens its transaction on the committed file, with nothing interned.
LEMMA BeginStep == ASSUME NamesInv, FlushBegin PROVE NamesInv'
<1>1. UNCHANGED <<nameOf, pendingSpans, pendingByID, nameIDs, internedThisFlush, file>>
  BY DEF FlushBegin, feedVars, pendingVars, nameVars
<1>2. pc = "idle" /\ pc' = "spans" /\ at' = 1 /\ tx' = file
  BY DEF FlushBegin
<1>3. NameTypes' /\ RowsNamed' /\ CommittedInv' /\ NamesJoin'
  BY <1>1, <1>2
     DEF NamesInv, NameTypes, Database, RowsNamed, CommittedInv, NameCacheSound, NamesJoin, Joined
<1>4. InternedInv'
  <2>1. internedThisFlush = NoIDs
    BY <1>2 DEF NamesInv, InFlush
  <2>2. Len(file.names) \in Nat
    BY LenProperties DEF NamesInv, NameTypes, Database
  <2>. QED
    BY <1>1, <1>2, <2>1, <2>2 DEF InternedInv, NoIDs
<1>5. \A s \in SpanIds : Joined(tx, s)'
  BY <1>1, <1>2 DEF NamesInv, NamesJoin, Joined
<1>. QED
  BY <1>2, <1>3, <1>4, <1>5 DEF NamesInv, InFlush

\* A row whose name has an id already.
LEMMA KnownStep == ASSUME NamesInv, FlushKnownName PROVE NamesInv'
<1>. DEFINE row == pendingSpans[at]
            id == Lookup(row.name)
            new == Upsert(tx.spans, row, id)
<1>1. /\ UNCHANGED <<nameOf, pendingSpans, pendingByID, nameIDs, internedThisFlush, pc, file>>
      /\ at' = at + 1 /\ InFlush
      /\ at \in Nat \ {0}
      /\ row \in Row /\ row.name \in Names /\ row.name = nameOf[row.span]
  BY NextRowNamed DEF FlushKnownName, NextRow, InFlush, MoreRows, feedVars, pendingVars, nameVars
<1>2. id \in Nat /\ id \in 1..Len(tx.names) /\ tx.names[id] = nameOf[row.span]
  BY <1>1, LookupSound DEF FlushKnownName, NextRow
<1>3. /\ tx = [names |-> tx.names, spans |-> tx.spans, attrs |-> tx.attrs]
      /\ tx.names \in Seq(Names)
      /\ tx.spans \in [SpanIds -> FileRow \cup {none}]
  BY DEF NamesInv, NameTypes, Database
<1>4. tx' = [names |-> tx.names, spans |-> new, attrs |-> tx.attrs]
  BY <1>3 DEF FlushKnownName, NextRow
<1>. HIDE DEF id, row
<1>5. new \in [SpanIds -> FileRow \cup {none}]
  BY <1>1, <1>2, <1>3, UpsertType
<1>6. \A s \in SpanIds : Joined([names |-> tx.names, spans |-> tx.spans], s)
  BY <1>1, JoinedTables DEF NamesInv
<1>7. \A s \in SpanIds : Joined([names |-> tx.names, spans |-> new], s)
  <2>. HIDE DEF new
  <2>. QED
    BY <1>1, <1>2, <1>3, <1>5, <1>6, Upserted DEF new
<1>. HIDE DEF new
<1>8. tx'.names = tx.names /\ tx'.spans = new /\ tx'.attrs = tx.attrs
  BY <1>4
<1>9. \A s \in SpanIds : Joined(tx, s)'
  BY <1>1, <1>7, <1>8 DEF Joined
<1>10. Database(tx)'
  BY <1>3, <1>4, <1>5, <1>8 DEF Database
<1>11. NameTypes' /\ RowsNamed' /\ CommittedInv' /\ NamesJoin'
  BY <1>1, <1>10
     DEF NamesInv, NameTypes, Database, RowsNamed, CommittedInv, NameCacheSound, NamesJoin, Joined
<1>12. InternedInv'
  BY <1>1, <1>8 DEF NamesInv, InternedInv
<1>. QED
  BY <1>1, <1>9, <1>11, <1>12 DEF NamesInv, InFlush

\* A row whose name is new: its id is the next place in the table, and only the map of
\* this flush learns it.
LEMMA FreshStep == ASSUME NamesInv, FlushFreshName PROVE NamesInv'
<1>. DEFINE row == NextRow
            n == row.name
            id == FreshId
            names == Append(tx.names, n)
            new == Upsert(tx.spans, row, id)
            old == Len(file.names)
<1>1. /\ UNCHANGED <<nameOf, pendingSpans, pendingByID, nameIDs, pc, file>>
      /\ at' = at + 1 /\ InFlush
      /\ internedThisFlush' = [internedThisFlush EXCEPT ![n] = id]
      /\ Lookup(n) = 0
      /\ at \in Nat \ {0}
      /\ row \in Row /\ n \in Names /\ n = nameOf[row.span]
  BY NextRowNamed
     DEF FlushFreshName, CommittedIDs, InFlush, MoreRows, feedVars, pendingVars, nameVars
<1>2. /\ tx = [names |-> tx.names, spans |-> tx.spans, attrs |-> tx.attrs]
      /\ tx.names \in Seq(Names)
      /\ tx.spans \in [SpanIds -> FileRow \cup {none}]
      /\ internedThisFlush \in [Names -> Nat]
      /\ old \in Nat
  BY LenProperties DEF NamesInv, NameTypes, Database
<1>3. tx' = [names |-> names, spans |-> new, attrs |-> tx.attrs]
  BY <1>2 DEF FlushFreshName
<1>4. /\ id = Len(tx.names) + 1 /\ id \in Nat
      /\ names \in Seq(Names) /\ Len(names) = id
      /\ \A i \in 1..Len(tx.names) : names[i] = tx.names[i]
      /\ names[id] = n
  BY <1>1, <1>2, AppendProperties, LenProperties DEF FreshId
<1>. HIDE DEF row, n, id, names
<1>5. new \in [SpanIds -> FileRow \cup {none}]
  BY <1>1, <1>2, <1>4, UpsertType DEF n
<1>6. \A s \in SpanIds : Joined([names |-> names, spans |-> tx.spans], s)
  <2>1. \A s \in SpanIds : Joined(tx, s)
    BY <1>1 DEF NamesInv
  <2>2. \A i \in 1..Len(tx.names) : i \in 1..Len(names)
    BY <1>2, <1>4, LenProperties
  <2>. QED
    BY <1>4, <2>1, <2>2 DEF Joined
<1>7. \A s \in SpanIds : Joined([names |-> names, spans |-> new], s)
  <2>1. id \in 1..Len(names) /\ names[id] = nameOf[row.span]
    BY <1>1, <1>2, <1>4, LenProperties
  <2>2. row \in Row /\ id \in Nat /\ tx.spans \in [SpanIds -> FileRow \cup {none}]
    BY <1>1, <1>2, <1>4
  <2>3. new = Upsert(tx.spans, row, id)
    OBVIOUS
  <2>. HIDE DEF new
  <2>. QED
    BY <1>5, <1>6, <2>1, <2>2, <2>3, Upserted
<1>. HIDE DEF new
<1>8. tx'.names = names /\ tx'.spans = new /\ tx'.attrs = tx.attrs
  BY <1>3
<1>9. \A s \in SpanIds : Joined(tx, s)'
  BY <1>1, <1>7, <1>8 DEF Joined
<1>10. Database(tx)'
  BY <1>3, <1>4, <1>5, <1>8 DEF Database
<1>11. internedThisFlush' \in [Names -> Nat]
  BY <1>1, <1>2, <1>4
<1>12. NameTypes' /\ RowsNamed' /\ CommittedInv' /\ NamesJoin'
  <2>1. at' \in Nat \ {0}
    BY <1>1
  <2>2. NameTypes'
    BY <1>1, <1>10, <1>11, <2>1 DEF NamesInv, NameTypes, Database
  <2>3. RowsNamed'
    BY <1>1 DEF NamesInv, RowsNamed
  <2>4. CommittedInv' /\ NamesJoin'
    BY <1>1 DEF NamesInv, CommittedInv, NameCacheSound, NamesJoin, Joined
  <2>. QED
    BY <2>2, <2>3, <2>4
<1>13. InternedInv'
  <2>1. InternedInv /\ old <= Len(tx.names) /\ Len(tx.names) \in Nat
    BY <1>1, <1>2, LenProperties DEF NamesInv, InternedInv
  <2>2. \A i \in 1..Len(tx.names) : tx.names[i] # n
    BY <1>1, LookupSound DEF NamesInv
  <2>3. ASSUME NEW m \in Names, internedThisFlush'[m] # 0
        PROVE  /\ nameIDs[m] = 0
               /\ internedThisFlush'[m] \in old + 1..id
               /\ names[internedThisFlush'[m]] = m
    <3>1. CASE m = n
      BY <1>1, <1>2, <1>4, <2>1, <3>1 DEF Lookup
    <3>2. CASE m # n
      <4>1. internedThisFlush'[m] = internedThisFlush[m]
        BY <1>1, <1>2, <3>2
      <4>2. nameIDs[m] = 0 /\ internedThisFlush[m] \in old + 1..Len(tx.names)
            /\ tx.names[internedThisFlush[m]] = m
        BY <2>1, <2>3, <4>1 DEF InternedInv
      <4>. QED
        BY <1>2, <1>4, <2>1, <4>1, <4>2
    <3>. QED
      BY <3>1, <3>2
  <2>4. ASSUME NEW i \in old + 1..id PROVE internedThisFlush'[names[i]] = i
    <3>1. CASE i = id
      BY <1>1, <1>2, <1>4, <3>1
    <3>2. CASE i # id
      <4>1. i \in old + 1..Len(tx.names) /\ i \in 1..Len(tx.names)
        BY <1>2, <1>4, <2>1, <3>2
      <4>2. names[i] = tx.names[i] /\ names[i] # n /\ names[i] \in Names
        BY <1>2, <1>4, <2>2, <4>1, ElementOfSeq
      <4>. QED
        BY <1>1, <1>2, <2>1, <4>1, <4>2 DEF InternedInv
    <3>. QED
      BY <3>1, <3>2
  <2>5. old <= id /\ \A i \in 1..old : names[i] = file.names[i]
    BY <1>2, <1>4, <2>1 DEF InternedInv
  <2>. QED
    BY <1>1, <1>4, <1>8, <2>3, <2>4, <2>5 DEF InternedInv
<1>. QED
  BY <1>1, <1>9, <1>12, <1>13 DEF NamesInv, InFlush

\* Turning to the attribute rows, and writing one, leaves names and spans alone.
LEMMA AttrStep == ASSUME NamesInv, FlushSpansDone \/ FlushAttr PROVE NamesInv'
<1>1. /\ UNCHANGED <<nameOf, pendingSpans, pendingByID, nameIDs, internedThisFlush, file>>
      /\ InFlush /\ InFlush' /\ pc # "crashed" /\ pc' # "crashed"
  BY DEF FlushSpansDone, FlushAttr, InFlush, feedVars, pendingVars, nameVars
<1>2. at' \in Nat \ {0}
  BY DEF FlushSpansDone, FlushAttr, NamesInv, NameTypes
<1>3. tx = [names |-> tx.names, spans |-> tx.spans, attrs |-> tx.attrs]
  BY DEF NamesInv, NameTypes, Database
<1>4. Database(tx)' /\ tx'.names = tx.names /\ tx'.spans = tx.spans
  <2>1. CASE FlushSpansDone
    BY <2>1 DEF FlushSpansDone, NamesInv, NameTypes, Database
  <2>2. CASE FlushAttr
    <3>1. \E x : tx' = [names |-> tx.names, spans |-> tx.spans, attrs |-> x]
      BY <1>3, <2>2 DEF FlushAttr
    <3>. QED
      BY <3>1 DEF NamesInv, NameTypes, Database
  <2>. QED
    BY <2>1, <2>2
<1>5. NameTypes' /\ RowsNamed' /\ CommittedInv' /\ NamesJoin'
  BY <1>1, <1>2, <1>4
     DEF NamesInv, NameTypes, Database, RowsNamed, CommittedInv, NameCacheSound, NamesJoin, Joined
<1>6. InternedInv' /\ \A s \in SpanIds : Joined(tx, s)'
  BY <1>1, <1>4 DEF NamesInv, InternedInv, Joined
<1>. QED
  BY <1>1, <1>5, <1>6 DEF NamesInv

\* The transaction's file becomes the committed one, and its ids enter the cache.
LEMMA CommitStep == ASSUME NamesInv, Commit PROVE NamesInv'
<1>1. /\ UNCHANGED <<nameOf, at, tx>>
      /\ file' = tx /\ nameIDs' = Promoted
      /\ pendingSpans' = <<>> /\ pendingByID' = NoRows /\ internedThisFlush' = NoIDs
      /\ InFlush /\ pc # "crashed" /\ pc' = "idle"
  BY DEF Commit, ClearPending, ClearedByID, ClearedInterned, InFlush, feedVars
<1>2. /\ Len(file.names) \in Nat /\ Len(tx.names) \in Nat
      /\ nameIDs \in [Names -> Nat] /\ internedThisFlush \in [Names -> Nat]
  BY LenProperties DEF NamesInv, NameTypes, Database
<1>3. NameTypes'
  <2>1. nameIDs' \in [Names -> Nat]
    BY <1>1, <1>2 DEF Promoted
  <2>2. internedThisFlush' \in [Names -> Nat]
    BY <1>1 DEF NoIDs
  <2>3. pendingSpans' \in Seq(Row) /\ pendingByID' \in [SpanIds -> 0..Len(pendingSpans')]
    BY <1>1, EmptySeq DEF NoRows
  <2>. QED
    BY <1>1, <2>1, <2>2, <2>3 DEF NamesInv, NameTypes, Database
<1>4. RowsNamed'
  BY <1>1, EmptySeq DEF RowsNamed
<1>5. InternedInv /\ \A s \in SpanIds : Joined(tx, s)
  BY <1>1 DEF NamesInv
<1>6. NamesJoin'
  BY <1>1, <1>5 DEF NamesJoin, Joined
<1>7. NameCacheSound'
  <2>. SUFFICES ASSUME NEW n \in Names, Promoted[n] # 0
       PROVE  Promoted[n] \in 1..Len(tx.names) /\ tx.names[Promoted[n]] = n
    BY <1>1 DEF NameCacheSound
  <2>1. CASE internedThisFlush[n] # 0
    BY <1>2, <1>5, <2>1 DEF Promoted, InternedInv
  <2>2. CASE internedThisFlush[n] = 0
    <3>1. Promoted[n] = nameIDs[n]
      BY <2>2 DEF Promoted
    <3>2. nameIDs[n] \in 1..Len(file.names) /\ file.names[nameIDs[n]] = n
      BY <3>1 DEF NamesInv, CommittedInv, NameCacheSound
    <3>. QED
      BY <1>2, <1>5, <3>1, <3>2 DEF InternedInv
  <2>. QED
    BY <2>1, <2>2
<1>8. ASSUME NEW i \in 1..Len(tx.names) PROVE Promoted[tx.names[i]] = i
  <2>1. tx.names[i] \in Names
    BY ElementOfSeq DEF NamesInv, NameTypes, Database
  <2>2. CASE i \in 1..Len(file.names)
    <3>1. tx.names[i] = file.names[i] /\ nameIDs[tx.names[i]] = i
      BY <1>1, <1>5, <2>2 DEF InternedInv, NamesInv, CommittedInv
    <3>2. internedThisFlush[tx.names[i]] = 0
      BY <1>2, <1>5, <2>1, <2>2, <3>1 DEF InternedInv
    <3>. QED
      BY <2>1, <3>1, <3>2 DEF Promoted
  <2>3. CASE i \in Len(file.names) + 1..Len(tx.names)
    BY <1>2, <1>5, <2>1, <2>3 DEF InternedInv, Promoted
  <2>. QED
    BY <1>2, <1>5, <2>2, <2>3 DEF InternedInv
<1>9. CommittedInv'
  BY <1>1, <1>7, <1>8 DEF CommittedInv
<1>. QED
  BY <1>1, <1>3, <1>4, <1>6, <1>9 DEF NamesInv, InFlush

\* A failed flush and a crash drop what was pending and leave the file alone; a crash
\* takes the cache too.
LEMMA LossStep == ASSUME NamesInv, FlushFails \/ Crash PROVE NamesInv'
<1>1. /\ UNCHANGED <<nameOf, at, file>>
      /\ tx' = file
      /\ pendingSpans' = <<>> /\ pendingByID' = NoRows /\ internedThisFlush' = NoIDs
      /\ pc' \in {"idle", "crashed"}
      /\ \/ nameIDs' = nameIDs /\ pc # "crashed"
         \/ nameIDs' = NoIDs /\ pc' = "crashed"
  <2>1. CASE FlushFails
    BY <2>1 DEF FlushFails, ClearPending, ClearedByID, ClearedInterned, feedVars
  <2>2. CASE Crash
    BY <2>2 DEF Crash, ClearPending, ClearedByID, ClearedInterned, feedVars
  <2>. QED
    BY <2>1, <2>2
<1>2. pendingSpans' \in Seq(Row) /\ pendingByID' \in [SpanIds -> 0..Len(pendingSpans')]
  BY <1>1, EmptySeq DEF NoRows
<1>3. nameIDs' \in [Names -> Nat] /\ internedThisFlush' \in [Names -> Nat]
  BY <1>1 DEF NoIDs, NamesInv, NameTypes
<1>4. NameTypes'
  BY <1>1, <1>2, <1>3 DEF NamesInv, NameTypes, Database
<1>5. RowsNamed' /\ NamesJoin'
  BY <1>1, EmptySeq DEF NamesInv, RowsNamed, NamesJoin, Joined
<1>6. CommittedInv'
  BY <1>1 DEF NamesInv, CommittedInv, NameCacheSound, NoIDs
<1>. QED
  BY <1>1, <1>4, <1>5, <1>6 DEF NamesInv, InFlush

\* Closing, and doing nothing.
LEMMA StillStep == ASSUME NamesInv, Close \/ UNCHANGED vars PROVE NamesInv'
<1>1. /\ UNCHANGED <<nameOf, pendingSpans, pendingByID, nameIDs, internedThisFlush, at, tx, file>>
      /\ pc' = pc \/ (pc = "idle" /\ pc' = "closed")
  <2>1. CASE Close
    BY <2>1 DEF Close, feedVars, pendingVars, nameVars
  <2>2. CASE UNCHANGED vars
    BY <2>2 DEF vars, feedVars, pendingVars, nameVars
  <2>. QED
    BY <2>1, <2>2
<1>2. NameTypes' /\ RowsNamed' /\ CommittedInv' /\ NamesJoin'
  BY <1>1
     DEF NamesInv, NameTypes, Database, RowsNamed, CommittedInv, NameCacheSound, NamesJoin, Joined
<1>3. InFlush' => InFlush /\ InternedInv' /\ \A s \in SpanIds : Joined(tx, s)'
  BY <1>1 DEF NamesInv, InFlush, InternedInv, Joined
<1>. QED
  BY <1>1, <1>2, <1>3 DEF NamesInv, InFlush

-----------------------------------------------------------------------------
(* The names: the theorems                                                 *)

\* Every reachable state satisfies the invariant of the names.
LEMMA NamesHolds == Spec => []NamesInv
<1>1. NamesInv /\ [Next]_vars => NamesInv'
  BY WriteStep, BeginStep, KnownStep, FreshStep, AttrStep, CommitStep, LossStep, StillStep DEF Next
<1>. QED
  BY <1>1, NamesInit, PTL DEF Spec

\* Whatever flushes failed and whenever the process died, a committed span joins to the
\* name it was started with (write.go:181-207).
THEOREM NamesCorrect == Spec => []NamesJoin
<1>1. NamesInv => NamesJoin
  BY DEF NamesInv
<1>. QED
  BY <1>1, NamesHolds, PTL

\* The cache that outlives a flush never holds an id that a rollback took back
\* (write.go:110-116, write.go:201-205).
THEOREM CacheCorrect == Spec => []NameCacheSound
<1>1. NamesInv => NameCacheSound
  BY DEF NamesInv, CommittedInv
<1>. QED
  BY <1>1, NamesHolds, PTL

\* A name missing from both maps is missing from the table, so the insert of a fresh
\* name cannot violate its UNIQUE constraint (write.go:184-199).
THEOREM ConflictCorrect == Spec => []NoSelfConflict
<1>1. NamesInv => NoSelfConflict
  BY LookupSound, NextRowNamed DEF NoSelfConflict, MoreRows, InFlush, Unique
<1>. QED
  BY <1>1, NamesHolds, PTL

-----------------------------------------------------------------------------
(* What a reader is promised, along a sequence of events                   *)

SpanFold(s, row0, w) == FoldLeft(LAMBDA row, e : Reader!SpanAfter(s, row, e), row0, w)
ValueFold(c, v0, w) == FoldLeft(LAMBDA v, e : Reader!ValueAfter(c, v, e), v0, w)

\* The row of s after each event of w.
SpanRun(r, s, row0, w) ==
  /\ r[0] = row0
  /\ \A k \in 1..Len(w) : r[k] = Reader!SpanAfter(s, r[k - 1], w[k])

ValueRun(r, c, v0, w) ==
  /\ r[0] = v0
  /\ \A k \in 1..Len(w) : r[k] = Reader!ValueAfter(c, r[k - 1], w[k])

\* The fold is the last row of a run.
LEMMA SpanFoldRun ==
  ASSUME NEW E, NEW w \in Seq(E), NEW s, NEW row0
  PROVE  \E r : SpanRun(r, s, row0, w) /\ SpanFold(s, row0, w) = r[Len(w)]
<1>. DEFINE n == Len(w)
            V == {row0} \cup {[name |-> w[i].name, ended |-> w[i].kind = "end",
                               status |-> w[i].status] : i \in 1..n}
            step == [kv \in (1..n) \X V |-> Reader!SpanAfter(s, kv[2], w[kv[1]])]
            IsFold(iter) == iter = [U \in SUBSET (1..n) |->
                              IF U = {} THEN row0
                              ELSE Reader!SpanAfter(s, iter[U \ {Max(U)}], w[Max(U)])]
            fold == CHOOSE iter : IsFold(iter)
<1>1. n \in Nat /\ DOMAIN w = 1..n
  BY LenProperties
<1>2. PICK some \in LeftFolds(n, V, row0, step) : TRUE
  <2>1. \A k \in 1..n, v \in V : Reader!SpanAfter(s, v, w[k]) \in V
    BY DEF Reader!SpanAfter
  <2>2. step \in [(1..n) \X V -> V] /\ row0 \in V
    <3>. HIDE DEF V
    <3>1. row0 \in V
      BY DEF V
    <3>. QED
      BY <2>1, <3>1
  <2>. HIDE DEF step, V, n
  <2>. QED
    BY <1>1, <2>2, LeftFoldExists
<1>3. \A U \in SUBSET (1..n) : U # {} => Max(U) \in 1..n /\ U \ {Max(U)} \in SUBSET (1..n)
  <2>. HIDE DEF V, n
  <2>1. ASSUME NEW U \in SUBSET (1..n), U # {} PROVE Max(U) \in U
    <3>1. IsFiniteSet(1..n) /\ (1..n) \in SUBSET Nat
      BY <1>1, FS_Interval
    <3>2. IsFiniteSet(U) /\ U \in SUBSET Nat
      BY <3>1, FS_Subset
    <3>. QED
      BY <2>1, <3>2, MaxOf
  <2>. QED
    BY <2>1
<1>4. IsFold(some)
  <2>. HIDE DEF V, n
  <2>1. /\ some \in [SUBSET (1..n) -> V]
        /\ \A U \in SUBSET (1..n) :
             some[U] = IF U = {} THEN row0 ELSE step[<<Max(U), some[U \ {Max(U)}]>>]
    BY <1>2 DEF LeftFolds
  <2>2. \A U \in SUBSET (1..n) :
             some[U] = IF U = {} THEN row0
                       ELSE Reader!SpanAfter(s, some[U \ {Max(U)}], w[Max(U)])
    BY <1>3, <2>1
  <2>. QED
    BY <2>1, <2>2
<1>5. IsFold(fold)
  <2>. HIDE DEF IsFold
  <2>. QED
    BY <1>4
<1>6. SpanFold(s, row0, w) = fold[1..n]
  BY <1>1 DEF SpanFold, FoldLeft, MapThenFoldSet
<1>. HIDE DEF fold, V, step
<1>. DEFINE r == [k \in 0..n |-> fold[1..k]]
<1>7. fold[{}] = row0 /\ \A U \in SUBSET (1..n) : U # {} =>
        fold[U] = Reader!SpanAfter(s, fold[U \ {Max(U)}], w[Max(U)])
  <2>. HIDE DEF n
  <2>1. \A U \in SUBSET (1..n) : fold[U] = IF U = {} THEN row0
          ELSE Reader!SpanAfter(s, fold[U \ {Max(U)}], w[Max(U)])
    BY <1>5
  <2>. QED
    BY <2>1
<1>8. r[0] = row0
  <2>. HIDE DEF n
  <2>1. 1..0 = {}
    OBVIOUS
  <2>2. r[0] = fold[1..0]
    BY <1>1
  <2>. QED
    BY <1>7, <2>1, <2>2
<1>9. ASSUME NEW k \in 1..n PROVE r[k] = Reader!SpanAfter(s, r[k - 1], w[k])
  <2>. HIDE DEF n
  <2>4. n \in Nat
    BY <1>1
  <2>5. k \in Nat \ {0} /\ k - 1 \in 0..n /\ k \in 0..n /\ k \in 1..k
    BY <2>4
  <2>6. (1..k) \in SUBSET (1..n)
    BY <2>4
  <2>1. k \in Nat \ {0} /\ (1..k) \in SUBSET (1..n) /\ (1..k) # {} /\ k - 1 \in 0..n /\ k \in 0..n
    BY <2>5, <2>6
  <2>2. Max(1..k) = k /\ (1..k) \ {k} = 1..(k - 1)
    BY <2>1, MaxOfPrefix
  <2>3. fold[1..k] = Reader!SpanAfter(s, fold[1..(k - 1)], w[k])
    BY <1>7, <2>1, <2>2
  <2>. QED
    BY <2>1, <2>3
<1>10. SpanRun(r, s, row0, w)
  <2>. HIDE DEF r
  <2>. QED
    BY <1>8, <1>9 DEF SpanRun
<1>11. r[n] = fold[1..n]
  BY <1>1
<1>. QED
  BY <1>6, <1>10, <1>11

\* One event more.
LEMMA SpanFoldAppend ==
  ASSUME NEW E, NEW w \in Seq(E), NEW e \in E, NEW s, NEW row0
  PROVE  SpanFold(s, row0, Append(w, e)) = Reader!SpanAfter(s, SpanFold(s, row0, w), e)
<1>. DEFINE n == Len(w)
            z == Append(w, e)
<1>1. n \in Nat /\ z \in Seq(E) /\ Len(z) = n + 1 /\ z[n + 1] = e /\ \A k \in 1..n : z[k] = w[k]
  BY AppendProperties, LenProperties
<1>. HIDE DEF n, z
<1>2. PICK r : SpanRun(r, s, row0, w) /\ SpanFold(s, row0, w) = r[n]
  BY SpanFoldRun DEF n
<1>3. PICK q : SpanRun(q, s, row0, z) /\ SpanFold(s, row0, z) = q[n + 1]
  BY <1>1, SpanFoldRun
<1>4. r[0] = q[0] /\ \A k \in 1..n : r[k - 1] = q[k - 1] => r[k] = q[k]
  <2>1. \A k \in 1..n : k \in 1..Len(w) /\ k \in 1..Len(z) /\ z[k] = w[k]
    BY <1>1 DEF n
  <2>. QED
    BY <1>2, <1>3, <2>1 DEF SpanRun
<1>5. \A k \in 0..n : r[k] = q[k]
  <2>1. n \in Nat
    BY <1>1
  <2>2. r[0] = q[0]
    BY <1>4
  <2>3. \A k \in 1..n : r[k - 1] = q[k - 1] => r[k] = q[k]
    BY <1>4
  <2>. QED
    BY <2>1, <2>2, <2>3, RunsAgree, ZenonT(60)
<1>6. q[n] = r[n]
  BY <1>1, <1>5
<1>7. q[n + 1] = Reader!SpanAfter(s, q[n], e)
  <2>1. n + 1 \in 1..Len(z) /\ (n + 1) - 1 = n
    BY <1>1
  <2>. QED
    BY <1>1, <1>3, <2>1 DEF SpanRun
<1>. QED
  BY <1>2, <1>3, <1>6, <1>7 DEF n, z

\* Without an event nothing changes.
LEMMA SpanFoldEmpty ==
  ASSUME NEW s, NEW row0
  PROVE  SpanFold(s, row0, <<>>) = row0
<1>1. PICK r : SpanRun(r, s, row0, <<>>) /\ SpanFold(s, row0, <<>>) = r[Len(<<>>)]
  BY SpanFoldRun, EmptySeq
<1>. QED
  BY <1>1, EmptySeq DEF SpanRun

\* The same of the value of a key.
LEMMA ValueFoldRun ==
  ASSUME NEW E, NEW w \in Seq(E), NEW c, NEW v0
  PROVE  \E r : ValueRun(r, c, v0, w) /\ ValueFold(c, v0, w) = r[Len(w)]
<1>. DEFINE n == Len(w)
            Hits(i) == {j \in DOMAIN w[i].attrs : c = <<w[i].span, w[i].attrs[j].key>>}
            V == {v0} \cup {w[i].attrs[Max(Hits(i))].value : i \in 1..n}
            step == [kv \in (1..n) \X V |-> Reader!ValueAfter(c, kv[2], w[kv[1]])]
            IsFold(iter) == iter = [U \in SUBSET (1..n) |->
                              IF U = {} THEN v0
                              ELSE Reader!ValueAfter(c, iter[U \ {Max(U)}], w[Max(U)])]
            fold == CHOOSE iter : IsFold(iter)
<1>1. n \in Nat /\ DOMAIN w = 1..n
  BY LenProperties
<1>2. PICK some \in LeftFolds(n, V, v0, step) : TRUE
  <2>1. \A k \in 1..n, v \in V : Reader!ValueAfter(c, v, w[k]) \in V
    BY DEF Reader!ValueAfter, Reader!Max, Max
  <2>2. step \in [(1..n) \X V -> V] /\ v0 \in V
    <3>. HIDE DEF V
    <3>1. v0 \in V
      BY DEF V
    <3>. QED
      BY <2>1, <3>1
  <2>. HIDE DEF step, V, n
  <2>. QED
    BY <1>1, <2>2, LeftFoldExists
<1>3. \A U \in SUBSET (1..n) : U # {} => Max(U) \in 1..n /\ U \ {Max(U)} \in SUBSET (1..n)
  <2>. HIDE DEF V, n
  <2>1. ASSUME NEW U \in SUBSET (1..n), U # {} PROVE Max(U) \in U
    <3>1. IsFiniteSet(1..n) /\ (1..n) \in SUBSET Nat
      BY <1>1, FS_Interval
    <3>2. IsFiniteSet(U) /\ U \in SUBSET Nat
      BY <3>1, FS_Subset
    <3>. QED
      BY <2>1, <3>2, MaxOf
  <2>. QED
    BY <2>1
<1>4. IsFold(some)
  <2>. HIDE DEF V, n
  <2>1. /\ some \in [SUBSET (1..n) -> V]
        /\ \A U \in SUBSET (1..n) :
             some[U] = IF U = {} THEN v0 ELSE step[<<Max(U), some[U \ {Max(U)}]>>]
    BY <1>2 DEF LeftFolds
  <2>2. \A U \in SUBSET (1..n) :
             some[U] = IF U = {} THEN v0
                       ELSE Reader!ValueAfter(c, some[U \ {Max(U)}], w[Max(U)])
    BY <1>3, <2>1
  <2>. QED
    BY <2>1, <2>2
<1>5. IsFold(fold)
  <2>. HIDE DEF IsFold
  <2>. QED
    BY <1>4
<1>6. ValueFold(c, v0, w) = fold[1..n]
  BY <1>1 DEF ValueFold, FoldLeft, MapThenFoldSet
<1>. HIDE DEF fold, V, step
<1>. DEFINE r == [k \in 0..n |-> fold[1..k]]
<1>7. fold[{}] = v0 /\ \A U \in SUBSET (1..n) : U # {} =>
        fold[U] = Reader!ValueAfter(c, fold[U \ {Max(U)}], w[Max(U)])
  <2>. HIDE DEF n
  <2>1. \A U \in SUBSET (1..n) : fold[U] = IF U = {} THEN v0
          ELSE Reader!ValueAfter(c, fold[U \ {Max(U)}], w[Max(U)])
    BY <1>5
  <2>. QED
    BY <2>1
<1>8. r[0] = v0
  <2>. HIDE DEF n
  <2>1. 1..0 = {}
    OBVIOUS
  <2>2. r[0] = fold[1..0]
    BY <1>1
  <2>. QED
    BY <1>7, <2>1, <2>2
<1>9. ASSUME NEW k \in 1..n PROVE r[k] = Reader!ValueAfter(c, r[k - 1], w[k])
  <2>. HIDE DEF n
  <2>4. n \in Nat
    BY <1>1
  <2>5. k \in Nat \ {0} /\ k - 1 \in 0..n /\ k \in 0..n /\ k \in 1..k
    BY <2>4
  <2>6. (1..k) \in SUBSET (1..n)
    BY <2>4
  <2>1. k \in Nat \ {0} /\ (1..k) \in SUBSET (1..n) /\ (1..k) # {} /\ k - 1 \in 0..n /\ k \in 0..n
    BY <2>5, <2>6
  <2>2. Max(1..k) = k /\ (1..k) \ {k} = 1..(k - 1)
    BY <2>1, MaxOfPrefix
  <2>3. fold[1..k] = Reader!ValueAfter(c, fold[1..(k - 1)], w[k])
    BY <1>7, <2>1, <2>2
  <2>. QED
    BY <2>1, <2>3
<1>10. ValueRun(r, c, v0, w)
  <2>. HIDE DEF r
  <2>. QED
    BY <1>8, <1>9 DEF ValueRun
<1>11. r[n] = fold[1..n]
  BY <1>1
<1>. QED
  BY <1>6, <1>10, <1>11

\* One event more.
LEMMA ValueFoldAppend ==
  ASSUME NEW E, NEW w \in Seq(E), NEW e \in E, NEW c, NEW v0
  PROVE  ValueFold(c, v0, Append(w, e)) = Reader!ValueAfter(c, ValueFold(c, v0, w), e)
<1>. DEFINE n == Len(w)
            z == Append(w, e)
<1>1. n \in Nat /\ z \in Seq(E) /\ Len(z) = n + 1 /\ z[n + 1] = e /\ \A k \in 1..n : z[k] = w[k]
  BY AppendProperties, LenProperties
<1>. HIDE DEF n, z
<1>2. PICK r : ValueRun(r, c, v0, w) /\ ValueFold(c, v0, w) = r[n]
  BY ValueFoldRun DEF n
<1>3. PICK q : ValueRun(q, c, v0, z) /\ ValueFold(c, v0, z) = q[n + 1]
  BY <1>1, ValueFoldRun
<1>4. r[0] = q[0] /\ \A k \in 1..n : r[k - 1] = q[k - 1] => r[k] = q[k]
  <2>1. \A k \in 1..n : k \in 1..Len(w) /\ k \in 1..Len(z) /\ z[k] = w[k]
    BY <1>1 DEF n
  <2>. QED
    BY <1>2, <1>3, <2>1 DEF ValueRun
<1>5. \A k \in 0..n : r[k] = q[k]
  <2>1. n \in Nat
    BY <1>1
  <2>2. r[0] = q[0]
    BY <1>4
  <2>3. \A k \in 1..n : r[k - 1] = q[k - 1] => r[k] = q[k]
    BY <1>4
  <2>. QED
    BY <2>1, <2>2, <2>3, RunsAgree, ZenonT(60)
<1>6. q[n] = r[n]
  BY <1>1, <1>5
<1>7. q[n + 1] = Reader!ValueAfter(c, q[n], e)
  <2>1. n + 1 \in 1..Len(z) /\ (n + 1) - 1 = n
    BY <1>1
  <2>. QED
    BY <1>1, <1>3, <2>1 DEF ValueRun
<1>. QED
  BY <1>2, <1>3, <1>6, <1>7 DEF n, z

\* Without an event nothing changes.
LEMMA ValueFoldEmpty ==
  ASSUME NEW c, NEW v0
  PROVE  ValueFold(c, v0, <<>>) = v0
<1>1. PICK r : ValueRun(r, c, v0, <<>>) /\ ValueFold(c, v0, <<>>) = r[Len(<<>>)]
  BY ValueFoldRun, EmptySeq
<1>. QED
  BY <1>1, EmptySeq DEF ValueRun

-----------------------------------------------------------------------------
(* What an attribute list comes to                                         *)

FlatLeaf == [key : Seq(STRING),
             value : {[kind |-> a.kind, val |-> a.val] : a \in {b \in Attributes : b.kind # "group"}}]

\* What Flat says of a, given what f says of its members.
FlatFrom(f, a) ==
  IF a.kind = "group"
    THEN FlattenSeq([i \in DOMAIN a.members |->
           [j \in DOMAIN f[a.members[i]] |->
             [f[a.members[i]][j] EXCEPT !.key = a.key \o @]]])
    ELSE IF a.key = <<>> THEN <<>>
    ELSE <<[key |-> a.key, value |-> [kind |-> a.kind, val |-> a.val]]>>

HasMembers(a, S) == a.kind = "group" => \A i \in DOMAIN a.members : a.members[i] \in S

\* f flattens the attributes of S, which come with their members.
Unfolds(f, S) ==
  /\ S \subseteq Attributes
  /\ \A a \in S : HasMembers(a, S) /\ f[a] = FlatFrom(f, a)

Flattens(f, S) == Unfolds(f, S) /\ f \in [S -> Seq(FlatLeaf)]

\* The members decide what a group comes to.
LEMMA FlatFromAgree ==
  ASSUME NEW f, NEW g, NEW S, NEW a, HasMembers(a, S), \A b \in S : f[b] = g[b]
  PROVE  FlatFrom(f, a) = FlatFrom(g, a)
<1>1. CASE a.kind = "group"
  <2>1. \A i \in DOMAIN a.members : f[a.members[i]] = g[a.members[i]]
    BY <1>1 DEF HasMembers
  <2>. DEFINE Members(h) == [i \in DOMAIN a.members |->
                 [j \in DOMAIN h[a.members[i]] |-> [h[a.members[i]][j] EXCEPT !.key = a.key \o @]]]
  <2>2. Members(f) = Members(g)
    BY <2>1
  <2>3. FlatFrom(f, a) = FlattenSeq(Members(f)) /\ FlatFrom(g, a) = FlattenSeq(Members(g))
    BY <1>1 DEF FlatFrom
  <2>. HIDE DEF Members
  <2>. QED
    BY <2>2, <2>3
<1>2. CASE a.kind # "group"
  BY <1>2 DEF FlatFrom
<1>. QED
  BY <1>1, <1>2

\* An attribute comes to a sequence of keyed values.
LEMMA FlatFromType ==
  ASSUME NEW S, NEW f \in [S -> Seq(FlatLeaf)], NEW a \in Attributes, HasMembers(a, S)
  PROVE  FlatFrom(f, a) \in Seq(FlatLeaf)
<1>1. CASE a.kind = "group"
  <2>. DEFINE n == Len(a.members)
              part(i) == f[a.members[i]]
              keyed(i) == [j \in DOMAIN part(i) |-> [part(i)[j] EXCEPT !.key = a.key \o @]]
              parts == [i \in DOMAIN a.members |-> keyed(i)]
  <2>1. n \in Nat /\ DOMAIN a.members = 1..n /\ a.key \in Seq(STRING)
    BY <1>1, AttributesAssumption, LenProperties
  <2>2. ASSUME NEW i \in 1..n PROVE keyed(i) \in Seq(FlatLeaf)
    <3>1. part(i) \in Seq(FlatLeaf)
      BY <1>1, <2>1 DEF HasMembers
    <3>. HIDE DEF part
    <3>2. Len(part(i)) \in Nat /\ DOMAIN part(i) = 1..Len(part(i))
      BY <3>1, LenProperties
    <3>3. ASSUME NEW j \in 1..Len(part(i))
          PROVE  [part(i)[j] EXCEPT !.key = a.key \o @] \in FlatLeaf
      <4>1. part(i)[j] \in FlatLeaf
        BY <3>1, ElementOfSeq
      <4>2. part(i)[j].key \in Seq(STRING)
        BY <4>1 DEF FlatLeaf
      <4>3. a.key \o part(i)[j].key \in Seq(STRING)
        BY <2>1, <4>2, ConcatProperties
      <4>. QED
        BY <4>1, <4>3 DEF FlatLeaf
    <3>4. keyed(i) \in [1..Len(part(i)) -> FlatLeaf]
      BY <3>2, <3>3
    <3>. HIDE DEF keyed
    <3>. QED
      BY <3>2, <3>4, SeqDef
  <2>3. FlatFrom(f, a) = FlattenSeq(parts)
    BY <1>1 DEF FlatFrom
  <2>. HIDE DEF keyed, n
  <2>4. parts \in [1..n -> Seq(FlatLeaf)]
    BY <2>1, <2>2
  <2>. HIDE DEF parts
  <2>5. parts \in Seq(Seq(FlatLeaf))
    BY <2>1, <2>4, SeqDef
  <2>. QED
    BY <2>3, <2>5, FlattenType
<1>2. CASE a.kind # "group"
  <2>1. CASE a.key = <<>>
    BY <1>2, <2>1, EmptySeq DEF FlatFrom
  <2>2. CASE a.key # <<>>
    <3>1. [key |-> a.key, value |-> [kind |-> a.kind, val |-> a.val]] \in FlatLeaf
      BY <1>2, AttributesAssumption DEF FlatLeaf
    <3>2. FlatFrom(f, a) = <<[key |-> a.key, value |-> [kind |-> a.kind, val |-> a.val]]>>
      BY <1>2, <2>2 DEF FlatFrom
    <3>. QED
      BY <3>1, <3>2
  <2>. QED
    BY <2>1, <2>2
<1>. QED
  BY <1>1, <1>2

\* Two ways to flatten the same attribute agree: one without such members would not.
LEMMA UnfoldsAgree ==
  ASSUME NEW f, NEW S, Unfolds(f, S), NEW g, NEW R, Unfolds(g, R)
  PROVE  \A a \in S \cap R : f[a] = g[a]
<1>. DEFINE B == {a \in S \cap R : f[a] # g[a]}
<1>. SUFFICES ASSUME B # {} PROVE FALSE
  OBVIOUS
<1>1. B \in SUBSET Attributes
  BY DEF Unfolds
<1>2. PICK a \in B : a.kind = "group" => \A i \in DOMAIN a.members : a.members[i] \notin B
  <2>. HIDE DEF B
  <2>. QED
    BY <1>1, AttributesAssumption
<1>. DEFINE Both == {b \in S \cap R : f[b] = g[b]}
<1>3. HasMembers(a, Both)
  <2>1. HasMembers(a, S) /\ HasMembers(a, R)
    BY DEF Unfolds
  <2>. QED
    BY <1>2, <2>1 DEF HasMembers
<1>4. \A b \in Both : f[b] = g[b]
  OBVIOUS
<1>5. FlatFrom(f, a) = FlatFrom(g, a)
  <2>. HIDE DEF Both
  <2>. QED
    BY <1>3, <1>4, FlatFromAgree
<1>. QED
  BY <1>5 DEF Unfolds

\* Groups nest finitely, so the recursion has a value everywhere.
LEMMA FlatExists == \E f : Flattens(f, Attributes)
<1>. DEFINE Good == {a \in Attributes : \E f, S : Flattens(f, S) /\ a \in S}
            big == [a \in Good |-> CHOOSE v : \E f, S : Flattens(f, S) /\ a \in S /\ v = f[a]]
<1>1. ASSUME NEW f, NEW S, Flattens(f, S), NEW a \in S PROVE a \in Good /\ big[a] = f[a]
  <2>1. a \in Good
    BY <1>1 DEF Flattens, Unfolds
  <2>2. big[a] = CHOOSE v : \E h, R : Flattens(h, R) /\ a \in R /\ v = h[a]
    BY <2>1
  <2>. HIDE DEF big, Good
  <2>3. PICK h, R : Flattens(h, R) /\ a \in R /\ big[a] = h[a]
    BY <1>1, <2>2
  <2>. QED
    BY <1>1, <2>1, <2>3, UnfoldsAgree DEF Flattens
<1>. HIDE DEF big
<1>2. Flattens(big, Good)
  <2>1. ASSUME NEW a \in Good
        PROVE  HasMembers(a, Good) /\ big[a] \in Seq(FlatLeaf) /\ big[a] = FlatFrom(big, a)
    <3>1. PICK f, S : Flattens(f, S) /\ a \in S
      OBVIOUS
    <3>2. \A b \in S : b \in Good /\ big[b] = f[b]
      BY <1>1, <3>1
    <3>. HIDE DEF Good
    <3>3. HasMembers(a, S) /\ f[a] = FlatFrom(f, a) /\ f[a] \in Seq(FlatLeaf)
      BY <3>1 DEF Flattens, Unfolds
    <3>4. FlatFrom(f, a) = FlatFrom(big, a)
      BY <3>2, <3>3, FlatFromAgree
    <3>. QED
      BY <3>1, <3>2, <3>3, <3>4 DEF HasMembers
  <2>2. DOMAIN big = Good /\ big = [a \in Good |-> big[a]]
    BY DEF big
  <2>3. Good \subseteq Attributes
    OBVIOUS
  <2>. HIDE DEF Good
  <2>. QED
    BY <2>1, <2>2, <2>3 DEF Flattens, Unfolds
<1>3. Good = Attributes
  <2>. SUFFICES ASSUME Attributes \ Good # {} PROVE FALSE
    OBVIOUS
  <2>1. PICK a \in Attributes \ Good : HasMembers(a, Good)
    <3>. HIDE DEF Good
    <3>1. (Attributes \ Good) \in SUBSET Attributes
      OBVIOUS
    <3>2. PICK a \in Attributes \ Good :
            a.kind = "group" => \A i \in DOMAIN a.members : a.members[i] \notin (Attributes \ Good)
      BY <3>1, AttributesAssumption
    <3>3. a.kind = "group" => \A i \in DOMAIN a.members : a.members[i] \in Attributes
      <4>. SUFFICES ASSUME a.kind = "group", NEW i \in DOMAIN a.members
           PROVE  a.members[i] \in Attributes
        OBVIOUS
      <4>1. a.members \in Seq(Attributes)
        BY AttributesAssumption
      <4>2. i \in 1..Len(a.members)
        BY <4>1, LenProperties
      <4>. QED
        BY <4>1, <4>2, ElementOfSeq
    <3>. QED
      BY <3>2, <3>3 DEF HasMembers
  <2>. DEFINE more == [b \in Good \cup {a} |-> IF b = a THEN FlatFrom(big, a) ELSE big[b]]
  <2>2. \A b \in Good : more[b] = big[b]
    BY <2>1
  <2>3. more[a] = FlatFrom(big, a)
    OBVIOUS
  <2>4. FlatFrom(big, a) \in Seq(FlatLeaf)
    <3>. HIDE DEF Good
    <3>. QED
      BY <1>2, <2>1, FlatFromType DEF Flattens, Unfolds
  <2>5. more \in [Good \cup {a} -> Seq(FlatLeaf)]
    <3>. HIDE DEF Good
    <3>. QED
      BY <1>2, <2>4 DEF Flattens, Unfolds
  <2>. HIDE DEF more
  <2>6. ASSUME NEW b \in Good \cup {a}
        PROVE  HasMembers(b, Good) /\ more[b] = FlatFrom(more, b)
    <3>. HIDE DEF Good
    <3>1. HasMembers(b, Good)
      BY <1>2, <2>1 DEF Flattens, Unfolds
    <3>2. FlatFrom(more, b) = FlatFrom(big, b)
      BY <2>2, <3>1, FlatFromAgree
    <3>3. CASE b = a
      BY <2>3, <3>1, <3>2, <3>3
    <3>4. CASE b \in Good
      BY <1>2, <2>2, <3>1, <3>2, <3>4 DEF Flattens, Unfolds
    <3>. QED
      BY <3>3, <3>4
  <2>7. Flattens(more, Good \cup {a})
    <3>1. Good \subseteq Attributes
      OBVIOUS
    <3>. HIDE DEF Good
    <3>. QED
      BY <2>1, <2>5, <2>6, <3>1 DEF Flattens, Unfolds, HasMembers
  <2>. QED
    BY <2>1, <2>7
<1>. QED
  BY <1>2, <1>3

\* What Flat returns.
LEMMA FlatType == Flat \in [Attributes -> Seq(FlatLeaf)]
<1>. DEFINE IsFlat(f) == f = [a \in Attributes |-> FlatFrom(f, a)]
<1>1. PICK f : Flattens(f, Attributes)
  BY FlatExists
<1>2. IsFlat(f)
  BY <1>1 DEF Flattens, Unfolds
<1>. DEFINE flat == CHOOSE g : IsFlat(g)
<1>3. IsFlat(flat)
  <2>. HIDE DEF IsFlat
  <2>. QED
    BY <1>2
<1>4. Flat = flat
  BY DEF Flat, FlatFrom
<1>. HIDE DEF flat
<1>5. Unfolds(Flat, Attributes)
  BY <1>1, <1>3, <1>4 DEF Flattens, Unfolds
<1>6. \A a \in Attributes : Flat[a] = f[a]
  BY <1>1, <1>5, UnfoldsAgree DEF Flattens
<1>7. Flat = [a \in Attributes |-> f[a]]
  BY <1>3, <1>4, <1>6
<1>. QED
  BY <1>1, <1>7 DEF Flattens

\* An attribute list comes to a sequence of keyed values.
LEMMA FlattenAttrsType ==
  ASSUME NEW attrs \in AttrLists \cup {<<>>}
  PROVE  flattenAttrs(attrs) \in Seq(FlatLeaf)
<1>1. attrs \in Seq(Attributes)
  BY SinkAssumption, EmptySeq
<1>2. Len(attrs) \in Nat /\ DOMAIN attrs = 1..Len(attrs) /\ \A i \in 1..Len(attrs) : attrs[i] \in Attributes
  BY <1>1, LenProperties, ElementOfSeq
<1>. DEFINE flats == [i \in DOMAIN attrs |-> Flat[attrs[i]]]
<1>3. flats \in [1..Len(attrs) -> Seq(FlatLeaf)]
  BY <1>2, FlatType
<1>4. flats \in Seq(Seq(FlatLeaf))
  <2>. HIDE DEF flats
  <2>. QED
    BY <1>2, <1>3, SeqDef
<1>. HIDE DEF flats
<1>5. FlattenSeq(flats) \in Seq(FlatLeaf)
  BY <1>4, FlattenType
<1>. QED
  BY <1>5 DEF flattenAttrs, flats

\* The two powers of the width.
LEMMA PowersHalf == 2^(Width - 1) \in Nat \ {0} /\ 2^Width = 2 * 2^(Width - 1)
<1>1. Width - 1 \in 0..Width - 1 /\ (Width - 1) + 1 = Width
  BY WidthAssumption
<1>. QED
  BY <1>1, PowerFact

\* Reduced to the width and back: an unsigned value, and a signed one.
LEMMA WrapUnsigned ==
  ASSUME NEW x \in 0..2^Width - 1
  PROVE  Wrap(x) % 2^Width = x
<1>. DEFINE m == 2^Width
            h == 2^(Width - 1)
<1>1. h \in Nat \ {0} /\ m = 2 * h /\ x \in 0..m - 1
  BY PowersHalf
<1>2. Wrap(x) = ((x + h) % m) - h
  BY DEF Wrap
<1>. HIDE DEF m, h
<1>3. \A y \in 0..m - 1 : y % m = y /\ (y - m) % m = y /\ (y + m) % m = y
  BY <1>1
<1>4. CASE x + h < m
  <2>1. (x + h) % m = x + h
    BY <1>1, <1>3, <1>4
  <2>. QED
    BY <1>1, <1>2, <1>3, <2>1 DEF m
<1>5. CASE x + h >= m
  <2>1. x + h - m \in 0..m - 1
    BY <1>1, <1>5
  <2>2. (x + h - m + m) % m = x + h - m
    BY <1>3, <2>1
  <2>3. (x + h) % m = x + h - m
    BY <1>1, <2>2
  <2>4. Wrap(x) = x - m
    BY <1>1, <1>2, <2>3
  <2>. QED
    BY <1>1, <1>3, <2>4 DEF m
<1>. QED
  BY <1>1, <1>4, <1>5

\* Signed values of the width are left as they are.
LEMMA WrapSigned ==
  ASSUME NEW x \in Ints
  PROVE  Wrap(x) = x
<1>. DEFINE m == 2^Width
            h == 2^(Width - 1)
<1>1. h \in Nat \ {0} /\ m = 2 * h
  BY PowersHalf
<1>2. Wrap(x) = ((x + h) % m) - h /\ Ints = -(h - 1) - 1..h - 1
  BY DEF Wrap, Ints, MaxInt
<1>. HIDE DEF m, h
<1>3. \A y \in 0..m - 1 : y % m = y
  BY <1>1
<1>4. x \in Int /\ x + h \in 0..m - 1
  BY <1>1, <1>2
<1>. QED
  BY <1>1, <1>2, <1>3, <1>4

\* What a reader renders from the cell of a storable value is the value.
LEMMA CellReadBack ==
  ASSUME NEW attrs \in AttrLists \cup {<<>>}, NEW i \in DOMAIN flattenAttrs(attrs)
  PROVE  ReadBack(attrCell(flattenAttrs(attrs)[i].value)) = flattenAttrs(attrs)[i].value
<1>. DEFINE flat == flattenAttrs(attrs)
            v == flat[i].value
<1>1. flat \in Seq(FlatLeaf) /\ i \in 1..Len(flat)
  BY FlattenAttrsType, LenProperties
<1>2. Storable(v)
  <2>1. CASE attrs \in AttrLists
    BY <2>1, SinkAssumption
  <2>2. CASE attrs = <<>>
    <3>1. flattenAttrs(<<>>) = <<>>
      BY EmptySeq DEF flattenAttrs, FlattenSeq
    <3>2. DOMAIN <<>> = {}
      BY EmptySeq
    <3>. QED
      BY <2>2, <3>1, <3>2
  <2>. QED
    BY <2>1, <2>2
<1>. HIDE DEF flat
<1>3. flat[i] \in FlatLeaf
  BY <1>1, ElementOfSeq
<1>4. PICK a \in Attributes : v = [kind |-> a.kind, val |-> a.val]
  BY <1>3 DEF FlatLeaf
<1>. HIDE DEF v
<1>5. v.kind = "uint64" => v.val \in 0..2^Width - 1
  BY <1>4, AttributesAssumption
<1>6. CASE v.kind = "uint64"
  <2>1. attrCell(v) = [kind |-> "uint64", val |-> Wrap(v.val)]
    BY <1>6 DEF attrCell
  <2>2. ReadBack(attrCell(v)) = [kind |-> "uint64", val |-> Wrap(v.val) % 2^Width]
    BY <2>1 DEF ReadBack
  <2>. QED
    BY <1>4, <1>5, <1>6, <2>2, WrapUnsigned DEF v, flat
<1>7. CASE v.kind = "time"
  <2>1. Wrap(v.val) = v.val
    BY <1>2, <1>7, WrapSigned DEF Storable
  <2>. QED
    BY <1>4, <1>7, <2>1 DEF attrCell, ReadBack, v, flat
<1>8. CASE v.kind \notin {"uint64", "time"}
  BY <1>2, <1>8 DEF Storable, attrCell, ReadBack, v, flat
<1>. QED
  BY <1>6, <1>7, <1>8

-----------------------------------------------------------------------------
(* The inductive invariant of what the file tells                          *)

\* The value a reader of db finds under a key of a span.
Shown(db, c) == IF db.attrs[c] = none THEN none ELSE ReadBack(db.attrs[c])

\* The row and the value a reader will find once the pending rows are in the file.
RowTold(pend, s, row0, row) ==
  /\ (\A i \in 1..Len(pend) : pend[i].span # s) => row = row0
  /\ \A i \in 1..Len(pend) : pend[i].span = s =>
       row = [name |-> pend[i].name, ended |-> pend[i].ended, status |-> pend[i].status]

Hits(pend, c) == {i \in 1..Len(pend) : c = <<pend[i].span, pend[i].key>>}

ValueTold(pend, c, v0, v) ==
  /\ Hits(pend, c) = {} => v = v0
  /\ \A i \in Hits(pend, c) : (\A j \in Hits(pend, c) : j <= i) => v = ReadBack(pend[i].value)

Window == SubSeq(heard, settled + 1, Len(heard))

LogTypes ==
  /\ phase \in [SpanIds -> {"new", "open", "ended"}]
  /\ attrsSeen \in 0..MaxAttrs
  /\ pendingAttrs \in Seq(AttrRow)
  /\ pc \in {"idle", "spans", "attrs", "closed", "crashed"}
  /\ writeErrors \in Nat
  /\ heard \in Seq(Reader!Event)
  /\ settled \in 0..Len(heard)
  /\ tx.attrs \in [SpanIds \X Keys -> Cells \cup {none}]
  /\ file.attrs \in [SpanIds \X Keys -> Cells \cup {none}]

\* A span has one pending row; pendingByID finds it as long as an event may still come.
RowsOnce ==
  \A i, j \in 1..Len(pendingSpans) : pendingSpans[i].span = pendingSpans[j].span => i = j
RowsFound ==
  /\ \A i \in 1..Len(pendingSpans) :
       \/ phase[pendingSpans[i].span] = "ended"
       \/ phase[pendingSpans[i].span] = "open" /\ pendingByID[pendingSpans[i].span] = i
  /\ \A s \in SpanIds : pendingByID[s] # 0 => pendingSpans[pendingByID[s]].span = s

\* The pending rows bring the file up to the window; and, when no flush failed, to all
\* that was heard.
WindowTold ==
  /\ \A s \in SpanIds :
       RowTold(pendingSpans, s, Resolved(s), SpanFold(s, Resolved(s), Window))
  /\ \A c \in SpanIds \X Keys :
       ValueTold(pendingAttrs, c, Shown(file, c), ValueFold(c, Shown(file, c), Window))

AllTold ==
  writeErrors = 0 /\ pc # "crashed" =>
    /\ \A s \in SpanIds : RowTold(pendingSpans, s, Resolved(s), SpanFold(s, none, heard))
    /\ \A c \in SpanIds \X Keys :
         ValueTold(pendingAttrs, c, Shown(file, c), ValueFold(c, none, heard))

\* The open transaction has the rows written so far on top of the file.
SpanWritten(i) == pc = "attrs" \/ i < at
SpansWritten ==
  \A s \in SpanIds :
    /\ (\A i \in 1..Len(pendingSpans) : SpanWritten(i) => pendingSpans[i].span # s)
         => tx.spans[s] = file.spans[s]
    /\ \A i \in 1..Len(pendingSpans) : SpanWritten(i) /\ pendingSpans[i].span = s =>
         /\ tx.spans[s] # none
         /\ tx.spans[s].ended = pendingSpans[i].ended
         /\ tx.spans[s].status = pendingSpans[i].status

HitsBefore(c) == {i \in Hits(pendingAttrs, c) : i < at}
AttrsWritten ==
  /\ pc = "spans" => tx.attrs = file.attrs
  /\ pc = "attrs" => \A c \in SpanIds \X Keys :
       /\ HitsBefore(c) = {} => tx.attrs[c] = file.attrs[c]
       /\ \A i \in HitsBefore(c) :
            (\A j \in HitsBefore(c) : j <= i) => tx.attrs[c] = pendingAttrs[i].value

LogInv ==
  /\ LogTypes
  /\ RowsOnce /\ RowsFound
  /\ WindowTold /\ AllTold
  /\ InFlush => SpansWritten /\ AttrsWritten
  /\ pc = "closed" => pendingSpans = <<>> /\ pendingAttrs = <<>>

-----------------------------------------------------------------------------
(* The pending rows                                                        *)

\* A row for a span that has none pending.
LEMMA RowAppended ==
  ASSUME NEW pend \in Seq(Row), NEW new \in Row, NEW s, NEW row0, NEW row,
         RowTold(pend, s, row0, row)
  PROVE  /\ s # new.span => RowTold(Append(pend, new), s, row0, row)
         /\ s = new.span /\ (\A i \in 1..Len(pend) : pend[i].span # s) =>
              RowTold(Append(pend, new), s, row0,
                      [name |-> new.name, ended |-> new.ended, status |-> new.status])
<1>. DEFINE n == Len(pend)
            more == Append(pend, new)
<1>1. n \in Nat /\ Len(more) = n + 1 /\ more[n + 1] = new /\ \A i \in 1..n : more[i] = pend[i]
  BY AppendProperties, LenProperties
<1>2. n + 1 \in 1..Len(more) /\ \A i \in 1..Len(more) : i # n + 1 => i \in 1..n
  BY <1>1
<1>3. \A i \in 1..n : i \in 1..Len(more)
  BY <1>1
<1>. HIDE DEF n, more
<1>4. ASSUME s # new.span PROVE RowTold(more, s, row0, row)
  <2>1. (\A i \in 1..Len(more) : more[i].span # s) => row = row0
    BY <1>1, <1>3 DEF RowTold, n
  <2>2. ASSUME NEW i \in 1..Len(more), more[i].span = s
        PROVE  row = [name |-> more[i].name, ended |-> more[i].ended, status |-> more[i].status]
    <3>1. i \in 1..n /\ more[i] = pend[i]
      BY <1>1, <1>2, <1>4, <2>2
    <3>. QED
      BY <2>2, <3>1 DEF RowTold, n
  <2>. QED
    BY <2>1, <2>2 DEF RowTold
<1>5. ASSUME s = new.span, \A i \in 1..n : pend[i].span # s
      PROVE  RowTold(more, s, row0, [name |-> new.name, ended |-> new.ended, status |-> new.status])
  <2>1. more[n + 1].span = s
    BY <1>1, <1>5
  <2>2. \A i \in 1..Len(more) : more[i].span = s => i = n + 1
    BY <1>1, <1>2, <1>5
  <2>. QED
    BY <1>1, <1>2, <2>1, <2>2 DEF RowTold
<1>. QED
  BY <1>4, <1>5 DEF more, n

\* A pending row completed in its place.
LEMMA RowCompleted ==
  ASSUME NEW pend \in Seq(Row), NEW p \in 1..Len(pend), NEW new \in Row, new.span = pend[p].span,
         \A i, j \in 1..Len(pend) : pend[i].span = pend[j].span => i = j,
         NEW s, NEW row0, NEW row, RowTold(pend, s, row0, row)
  PROVE  /\ s # new.span => RowTold([pend EXCEPT ![p] = new], s, row0, row)
         /\ s = new.span =>
              RowTold([pend EXCEPT ![p] = new], s, row0,
                      [name |-> new.name, ended |-> new.ended, status |-> new.status])
<1>. DEFINE n == Len(pend)
            more == [pend EXCEPT ![p] = new]
<1>1. n \in Nat /\ Len(more) = n /\ more[p] = new /\ \A i \in 1..n : i # p => more[i] = pend[i]
  BY ExceptSeq, LenProperties
<1>. HIDE DEF more
<1>2. \A i \in 1..n : more[i].span = pend[i].span
  BY <1>1
<1>3. ASSUME s # new.span PROVE RowTold(more, s, row0, row)
  <2>1. (\A i \in 1..n : more[i].span # s) => row = row0
    BY <1>2 DEF RowTold
  <2>2. ASSUME NEW i \in 1..n, more[i].span = s
        PROVE  row = [name |-> more[i].name, ended |-> more[i].ended, status |-> more[i].status]
    <3>1. more[i] = pend[i]
      BY <1>1, <1>3, <2>2
    <3>. QED
      BY <2>2, <3>1 DEF RowTold
  <2>. QED
    BY <1>1, <2>1, <2>2 DEF RowTold
<1>4. ASSUME s = new.span
      PROVE  RowTold(more, s, row0, [name |-> new.name, ended |-> new.ended, status |-> new.status])
  <2>1. more[p].span = s /\ p \in 1..Len(more)
    BY <1>1, <1>4
  <2>2. ASSUME NEW i \in 1..Len(more), more[i].span = s PROVE i = p
    BY <1>1, <1>2, <1>4, <2>2
  <2>. QED
    BY <1>1, <2>1, <2>2 DEF RowTold
<1>. QED
  BY <1>3, <1>4 DEF more

\* The rows of an attribute list are rows of the table.
LEMMA AttrRowsType ==
  ASSUME NEW attrs \in AttrLists \cup {<<>>}, NEW s \in SpanIds
  PROVE  /\ flattenAttrs(attrs) \in Given
         /\ [i \in DOMAIN flattenAttrs(attrs) |-> newAttrRow(s, flattenAttrs(attrs)[i])] \in Seq(AttrRow)
<1>. DEFINE flat == flattenAttrs(attrs)
            rows == [i \in DOMAIN flat |-> newAttrRow(s, flat[i])]
<1>1. flat \in Given
  BY DEF Given
<1>2. flat \in Seq(FlatLeaf)
  BY FlattenAttrsType
<1>. HIDE DEF flat
<1>3. Len(flat) \in Nat /\ DOMAIN flat = 1..Len(flat)
  BY <1>2, LenProperties
<1>4. ASSUME NEW i \in DOMAIN flat PROVE newAttrRow(s, flat[i]) \in AttrRow
  <2>1. flat[i] \in Leaves
    BY <1>1 DEF Leaves
  <2>2. flat[i].key \in Keys /\ attrCell(flat[i].value) \in Cells
    BY <2>1 DEF Keys, Cells
  <2>. QED
    BY <2>2 DEF newAttrRow, AttrRow
<1>5. rows \in [1..Len(flat) -> AttrRow]
  BY <1>3, <1>4
<1>. HIDE DEF rows
<1>6. rows \in Seq(AttrRow)
  BY <1>3, <1>5, SeqDef
<1>. QED
  BY <1>1, <1>6 DEF rows, flat

\* The rows of an attribute list, after those that are pending: the last one with a key
\* tells what the event says.
LEMMA ValuesAppended ==
  ASSUME NEW pend \in Seq(AttrRow), NEW attrs \in AttrLists \cup {<<>>}, NEW s \in SpanIds,
         NEW rows, rows = [i \in DOMAIN flattenAttrs(attrs) |-> newAttrRow(s, flattenAttrs(attrs)[i])],
         NEW e, e.span = s, e.attrs = flattenAttrs(attrs),
         NEW c, NEW v0, NEW v, ValueTold(pend, c, v0, v)
  PROVE  ValueTold(pend \o rows, c, v0, Reader!ValueAfter(c, v, e))
<1>. DEFINE n == Len(pend)
            flat == flattenAttrs(attrs)
            m == Len(flat)
            more == pend \o rows
            hits == {i \in DOMAIN e.attrs : c = <<e.span, e.attrs[i].key>>}
<1>1. n \in Nat /\ m \in Nat /\ DOMAIN flat = 1..m
  BY FlattenAttrsType, LenProperties
<1>2. rows \in Seq(AttrRow) /\ Len(rows) = m
  <2>1. rows \in Seq(AttrRow) /\ DOMAIN rows = 1..m
    BY <1>1, AttrRowsType
  <2>. HIDE DEF m
  <2>. QED
    BY <1>1, <2>1, LenProperties
<1>3. /\ Len(more) = n + m
      /\ \A i \in 1..n : more[i] = pend[i]
      /\ \A j \in 1..m : more[n + j] = rows[j]
  <2>1. /\ Len(more) = n + m
        /\ \A i \in 1..n + m : more[i] = IF i <= n THEN pend[i] ELSE rows[i - n]
    <3>. HIDE DEF m
    <3>. QED
      BY <1>2, ConcatProperties
  <2>. HIDE DEF more, n, m
  <2>2. \A i \in 1..n : i \in 1..n + m /\ i <= n
    BY <1>1
  <2>3. \A j \in 1..m : n + j \in 1..n + m /\ ~(n + j <= n) /\ (n + j) - n = j
    BY <1>1
  <2>. QED
    BY <2>1, <2>2, <2>3
<1>4. \A j \in 1..m : /\ rows[j].span = s /\ rows[j].key = flat[j].key
                      /\ ReadBack(rows[j].value) = flat[j].value
  BY <1>1, CellReadBack DEF newAttrRow
<1>5. hits = {j \in 1..m : c = <<s, flat[j].key>>}
  BY <1>1
<1>6. Reader!ValueAfter(c, v, e) = IF hits = {} THEN v ELSE flat[Max(hits)].value
  BY DEF Reader!ValueAfter, Reader!Max, Max
<1>. HIDE DEF n, m, flat, more, hits
<1>7. \A i \in 1..n : i \in Hits(more, c) <=> i \in Hits(pend, c)
  <2>1. \A i \in 1..n : i \in 1..Len(more)
    BY <1>1, <1>3
  <2>. QED
    BY <1>3, <2>1 DEF Hits, n
<1>8. \A j \in 1..m : n + j \in Hits(more, c) <=> j \in hits
  <2>1. \A j \in 1..m : n + j \in 1..Len(more)
    BY <1>1, <1>3
  <2>. QED
    BY <1>3, <1>4, <1>5, <2>1 DEF Hits
<1>9. \A i \in Hits(more, c) : i \in 1..n \/ \E j \in hits : i = n + j
  <2>. SUFFICES ASSUME NEW i \in Hits(more, c), i \notin 1..n PROVE \E j \in hits : i = n + j
    OBVIOUS
  <2>1. i \in 1..n + m
    BY <1>3 DEF Hits
  <2>2. i - n \in 1..m /\ i = n + (i - n)
    BY <1>1, <2>1
  <2>3. i - n \in hits
    BY <1>8, <2>2
  <2>. QED
    BY <2>2, <2>3
<1>10. CASE hits = {}
  <2>1. \A i \in Hits(more, c) : i \in 1..n
    BY <1>9, <1>10
  <2>2. \A i \in Hits(pend, c) : i \in 1..n
    BY DEF Hits, n
  <2>3. Hits(more, c) = Hits(pend, c)
    BY <1>7, <2>1, <2>2
  <2>4. Reader!ValueAfter(c, v, e) = v
    BY <1>6, <1>10
  <2>5. \A i \in Hits(pend, c) : more[i].value = pend[i].value
    BY <1>3, <2>2
  <2>. QED
    BY <2>3, <2>4, <2>5 DEF ValueTold, more
<1>11. CASE hits # {}
  <2>. DEFINE h == Max(hits)
  <2>1. h \in hits /\ \A j \in hits : j <= h
    <3>1. hits \in SUBSET (1..m) /\ IsFiniteSet(1..m) /\ (1..m) \in SUBSET Nat
      BY <1>1, <1>5, FS_Interval
    <3>2. IsFiniteSet(hits) /\ hits \in SUBSET Nat
      BY <3>1, FS_Subset
    <3>. QED
      BY <1>11, <3>2, MaxOf
  <2>2. Reader!ValueAfter(c, v, e) = flat[h].value
    BY <1>6, <1>11
  <2>. HIDE DEF h
  <2>3. h \in 1..m /\ n + h \in Hits(more, c)
    BY <1>5, <1>8, <2>1
  <2>4. ASSUME NEW i \in Hits(more, c), \A j \in Hits(more, c) : j <= i PROVE i = n + h
    <3>1. n + h <= i
      BY <2>3, <2>4
    <3>2. i \notin 1..n
      BY <1>1, <2>3, <3>1
    <3>3. PICK j \in hits : i = n + j
      BY <1>9, <3>2
    <3>4. j <= h /\ j \in 1..m
      BY <1>5, <2>1, <3>3
    <3>. QED
      BY <1>1, <2>3, <3>1, <3>3, <3>4
  <2>5. ReadBack(more[n + h].value) = flat[h].value
    BY <1>3, <1>4, <2>3
  <2>. QED
    BY <2>2, <2>3, <2>4, <2>5 DEF ValueTold, more
<1>. QED
  BY <1>10, <1>11

\* An event that brings no attributes leaves every value as it is.
LEMMA ValuesKept ==
  ASSUME NEW e, e.attrs = <<>>, NEW c, NEW v
  PROVE  Reader!ValueAfter(c, v, e) = v
BY EmptySeq DEF Reader!ValueAfter

\* One event more in a window.
LEMMA WindowAppend ==
  ASSUME NEW E, NEW h \in Seq(E), NEW k \in 0..Len(h), NEW e \in E
  PROVE  /\ SubSeq(h, k + 1, Len(h)) \in Seq(E)
         /\ SubSeq(Append(h, e), k + 1, Len(Append(h, e))) = Append(SubSeq(h, k + 1, Len(h)), e)
<1>. DEFINE n == Len(h)
            z == Append(h, e)
            old == SubSeq(h, k + 1, n)
            w == SubSeq(z, k + 1, n)
<1>1. n \in Nat /\ z \in Seq(E) /\ Len(z) = n + 1 /\ z[n + 1] = e /\ \A i \in 1..n : z[i] = h[i]
  BY AppendProperties, LenProperties
<1>2. k \in Nat /\ k <= n /\ k + 1 \in Int /\ n \in Int
  BY <1>1
<1>. HIDE DEF n, z
<1>3. \A i \in k + 1..n : h[i] \in E /\ z[i] \in E /\ z[i] = h[i]
  BY <1>1, <1>2, ElementOfSeq DEF n
<1>4. /\ old \in Seq(E) /\ Len(old) = IF k + 1 <= n THEN n - (k + 1) + 1 ELSE 0
      /\ \A i \in 1..n - (k + 1) + 1 : old[i] = h[(k + 1) + i - 1]
  BY <1>2, <1>3, SubSeqProperties
<1>5. /\ w \in Seq(E) /\ Len(w) = IF k + 1 <= n THEN n - (k + 1) + 1 ELSE 0
      /\ \A i \in 1..n - (k + 1) + 1 : w[i] = z[(k + 1) + i - 1]
  BY <1>2, <1>3, SubSeqProperties
<1>. HIDE DEF old, w
<1>6. ASSUME NEW i \in 1..Len(old) PROVE old[i] = w[i]
  <2>1. i \in 1..n - (k + 1) + 1 /\ (k + 1) + i - 1 \in k + 1..n
    BY <1>2, <1>4
  <2>. QED
    BY <1>3, <1>4, <1>5, <2>1
<1>7. old = w
  BY <1>4, <1>5, <1>6, SeqEqual
<1>8. SubSeq(z, k + 1, n + 1) = SubSeq(z, k + 1, (n + 1) - 1) \o <<z[n + 1]>>
  <2>1. k + 1 \in 1..Len(z) /\ n + 1 \in k + 1..Len(z)
    BY <1>1, <1>2
  <2>. HIDE DEF n, z
  <2>. QED
    BY <1>1, <2>1, SubSeqRecursiveSecond
<1>9. (n + 1) - 1 = n
  BY <1>2
<1>10. SubSeq(z, k + 1, n + 1) = w \o <<e>>
  BY <1>1, <1>8, <1>9 DEF w
<1>11. Append(old, e) = old \o <<e>>
  BY <1>4, AppendIsConcat
<1>. QED
  BY <1>1, <1>4, <1>7, <1>10, <1>11 DEF n, z, old

\* An event that the pending rows take in is told by them.
LEMMA Delivered ==
  ASSUME LogInv, pc = "idle", NEW e \in Reader!Event,
         heard' = Append(heard, e), UNCHANGED <<pc, tx, file, writeErrors, settled>>,
         \A s \in SpanIds : \A row : RowTold(pendingSpans, s, Resolved(s), row) =>
           RowTold(pendingSpans', s, Resolved(s), Reader!SpanAfter(s, row, e)),
         \A c \in SpanIds \X Keys : \A v : ValueTold(pendingAttrs, c, Shown(file, c), v) =>
           ValueTold(pendingAttrs', c, Shown(file, c), Reader!ValueAfter(c, v, e))
  PROVE  /\ WindowTold' /\ AllTold' /\ Window' = Append(Window, e)
         /\ heard' \in Seq(Reader!Event) /\ settled' \in 0..Len(heard')
<1>1. heard \in Seq(Reader!Event) /\ settled \in 0..Len(heard)
  BY DEF LogInv, LogTypes
<1>2. Window \in Seq(Reader!Event) /\ Window' = Append(Window, e)
  <2>1. /\ SubSeq(heard, settled + 1, Len(heard)) \in Seq(Reader!Event)
        /\ SubSeq(Append(heard, e), settled + 1, Len(Append(heard, e)))
             = Append(SubSeq(heard, settled + 1, Len(heard)), e)
    BY <1>1, WindowAppend
  <2>. QED
    BY <2>1 DEF Window
<1>3. heard' \in Seq(Reader!Event) /\ settled' \in 0..Len(heard')
  <2>1. Len(heard) \in Nat /\ heard' \in Seq(Reader!Event) /\ Len(heard') = Len(heard) + 1
    BY <1>1, LenProperties, AppendProperties
  <2>. QED
    BY <1>1, <2>1
<1>4. \A s : Resolved(s)' = Resolved(s)
  BY DEF Resolved
<1>5. \A c : Shown(file, c)' = Shown(file, c)
  BY DEF Shown
<1>6. WindowTold'
  <2>1. ASSUME NEW s \in SpanIds
        PROVE  RowTold(pendingSpans', s, Resolved(s)', SpanFold(s, Resolved(s)', Window'))
    <3>1. RowTold(pendingSpans, s, Resolved(s), SpanFold(s, Resolved(s), Window))
      BY DEF LogInv, WindowTold
    <3>. DEFINE x == Resolved(s)
    <3>2. SpanFold(s, x, Append(Window, e)) = Reader!SpanAfter(s, SpanFold(s, x, Window), e)
      <4>. HIDE DEF x
      <4>. QED
        BY <1>2, SpanFoldAppend
    <3>3. RowTold(pendingSpans', s, x, SpanFold(s, x, Append(Window, e)))
      BY <3>1, <3>2
    <3>. QED
      BY <1>2, <1>4, <3>3
  <2>2. ASSUME NEW c \in SpanIds \X Keys
        PROVE  ValueTold(pendingAttrs', c, Shown(file, c)', ValueFold(c, Shown(file, c)', Window'))
    <3>1. ValueTold(pendingAttrs, c, Shown(file, c), ValueFold(c, Shown(file, c), Window))
      BY DEF LogInv, WindowTold
    <3>. DEFINE x == Shown(file, c)
    <3>2. ValueFold(c, x, Append(Window, e)) = Reader!ValueAfter(c, ValueFold(c, x, Window), e)
      <4>. HIDE DEF x
      <4>. QED
        BY <1>2, ValueFoldAppend
    <3>3. ValueTold(pendingAttrs', c, x, ValueFold(c, x, Append(Window, e)))
      BY <3>1, <3>2
    <3>. QED
      BY <1>2, <1>5, <3>3
  <2>. QED
    BY <2>1, <2>2 DEF WindowTold
<1>7. AllTold'
  <2>. SUFFICES ASSUME writeErrors = 0 /\ pc # "crashed" PROVE AllTold'
    BY DEF AllTold
  <2>1. ASSUME NEW s \in SpanIds
        PROVE  RowTold(pendingSpans', s, Resolved(s)', SpanFold(s, none, heard'))
    <3>1. RowTold(pendingSpans, s, Resolved(s), SpanFold(s, none, heard))
      BY DEF LogInv, AllTold
    <3>2. SpanFold(s, none, Append(heard, e)) = Reader!SpanAfter(s, SpanFold(s, none, heard), e)
      BY <1>1, SpanFoldAppend
    <3>3. RowTold(pendingSpans', s, Resolved(s), SpanFold(s, none, Append(heard, e)))
      BY <3>1, <3>2
    <3>. QED
      BY <1>4, <3>3
  <2>2. ASSUME NEW c \in SpanIds \X Keys
        PROVE  ValueTold(pendingAttrs', c, Shown(file, c)', ValueFold(c, none, heard'))
    <3>1. ValueTold(pendingAttrs, c, Shown(file, c), ValueFold(c, none, heard))
      BY DEF LogInv, AllTold
    <3>2. ValueFold(c, none, Append(heard, e)) = Reader!ValueAfter(c, ValueFold(c, none, heard), e)
      BY <1>1, ValueFoldAppend
    <3>3. ValueTold(pendingAttrs', c, Shown(file, c), ValueFold(c, none, Append(heard, e)))
      BY <3>1, <3>2
    <3>. QED
      BY <1>5, <3>3
  <2>. QED
    BY <2>1, <2>2 DEF AllTold
<1>. QED
  BY <1>2, <1>3, <1>6, <1>7

-----------------------------------------------------------------------------
(* What the file tells: the steps                                          *)

EventOf(kind, s, attrs, st) ==
  [kind |-> kind, span |-> s, name |-> nameOf[s], attrs |-> flattenAttrs(attrs), status |-> st]

\* A call delivers the event it says.
LEMMA AcceptedEvent ==
  ASSUME NamesInv, NEW kind \in {"start", "attrs", "end"}, NEW s \in SpanIds,
         NEW attrs \in AttrLists \cup {<<>>}, NEW st \in Statuses, Accept(kind, s, attrs, st)
  PROVE  /\ EventOf(kind, s, attrs, st) \in Reader!Event
         /\ heard' = Append(heard, EventOf(kind, s, attrs, st))
         /\ UNCHANGED <<writeErrors, settled>>
<1>1. flattenAttrs(attrs) \in Given
  BY DEF Given
<1>2. nameOf[s] \in Names
  BY DEF NamesInv, NameTypes
<1>. QED
  BY <1>1, <1>2 DEF Accept, EventOf, Reader!Event

\* The pending rows after a call, as NamesInv types them.
LEMMA PendingFacts ==
  ASSUME NamesInv
  PROVE  /\ pendingSpans \in Seq(Row) /\ Len(pendingSpans) \in Nat
         /\ \A s \in SpanIds : pendingByID[s] \in 0..Len(pendingSpans)
         /\ \A s \in SpanIds, e \in BOOLEAN, st \in Statuses :
              /\ NewRow(s, e, st) \in Row
              /\ NewRow(s, e, st) = [span |-> s, name |-> nameOf[s], ended |-> e, status |-> st]
BY LenProperties DEF NamesInv, NameTypes, NewRow, Row

\* A span's first event: a row of its own, and pendingByID finds it.
LEMMA StartLog ==
  ASSUME NamesInv, LogInv, NEW s \in SpanIds, NEW attrs \in AttrLists \cup {<<>>},
         WriteStart(s, attrs)
  PROVE  LogInv' /\ \E e \in Reader!Event : Window' = Append(Window, e)
<1>. DEFINE e == EventOf("start", s, attrs, "ok")
            new == NewRow(s, FALSE, "ok")
            n == Len(pendingSpans)
            rows == [i \in DOMAIN flattenAttrs(attrs) |-> newAttrRow(s, flattenAttrs(attrs)[i])]
<1>1. e \in Reader!Event /\ heard' = Append(heard, e) /\ UNCHANGED <<writeErrors, settled>>
  BY AcceptedEvent, SinkAssumption DEF WriteStart
<1>2. /\ pc = "idle" /\ UNCHANGED <<pc, tx, file>>
      /\ phase[s] = "new" /\ phase' = [phase EXCEPT ![s] = "open"]
      /\ pendingSpans' = Append(pendingSpans, new)
      /\ pendingByID' = [pendingByID EXCEPT ![s] = n + 1]
      /\ pendingAttrs' = pendingAttrs \o rows
      /\ attrsSeen' = IF attrs = <<>> THEN attrsSeen ELSE attrsSeen + 1
      /\ attrs # <<>> => attrsSeen < MaxAttrs
  BY DEF WriteStart, Carry
<1>3. /\ n \in Nat /\ pendingSpans \in Seq(Row) /\ pendingByID \in [SpanIds -> 0..n]
      /\ new \in Row /\ new = [span |-> s, name |-> nameOf[s], ended |-> FALSE, status |-> "ok"]
  BY PendingFacts, SinkAssumption DEF NamesInv, NameTypes
<1>. HIDE DEF e, new, n
<1>4. /\ Len(pendingSpans') = n + 1 /\ pendingSpans'[n + 1] = new
      /\ \A i \in 1..n : pendingSpans'[i] = pendingSpans[i]
  BY <1>2, <1>3, AppendProperties DEF n
<1>5. \A i \in 1..n : pendingSpans[i].span # s
  BY <1>2 DEF LogInv, RowsFound, n
<1>6. \A i \in 1..n + 1 : i = n + 1 \/ i \in 1..n
  BY <1>3
<1>7. e.span = s /\ e.attrs = flattenAttrs(attrs) /\ e.kind = "start" /\ e.name = nameOf[s] /\ e.status = "ok"
  BY DEF EventOf, e
<1>8. ASSUME NEW t \in SpanIds, NEW row, RowTold(pendingSpans, t, Resolved(t), row)
      PROVE  RowTold(pendingSpans', t, Resolved(t), Reader!SpanAfter(t, row, e))
  <2>1. CASE t # s
    <3>1. Reader!SpanAfter(t, row, e) = row
      BY <1>7, <2>1 DEF Reader!SpanAfter
    <3>2. new.span = s
      BY <1>3
    <3>. QED
      BY <1>2, <1>3, <1>8, <2>1, <3>1, <3>2, RowAppended
  <2>2. CASE t = s
    <3>1. Reader!SpanAfter(t, row, e) = [name |-> new.name, ended |-> new.ended, status |-> new.status]
      BY <1>3, <1>7, <2>2 DEF Reader!SpanAfter
    <3>2. new.span = t /\ \A i \in 1..Len(pendingSpans) : pendingSpans[i].span # t
      BY <1>3, <1>5, <2>2 DEF n
    <3>. QED
      BY <1>2, <1>3, <1>8, <3>1, <3>2, RowAppended
  <2>. QED
    BY <2>1, <2>2
<1>9. pendingAttrs \in Seq(AttrRow)
  BY DEF LogInv, LogTypes
<1>10. ASSUME NEW c \in SpanIds \X Keys, NEW v, ValueTold(pendingAttrs, c, Shown(file, c), v)
      PROVE  ValueTold(pendingAttrs', c, Shown(file, c), Reader!ValueAfter(c, v, e))
  BY <1>2, <1>7, <1>9, <1>10, ValuesAppended
<1>11. /\ WindowTold' /\ AllTold' /\ Window' = Append(Window, e)
       /\ heard' \in Seq(Reader!Event) /\ settled' \in 0..Len(heard')
  BY <1>1, <1>2, <1>8, <1>10, Delivered
<1>12. LogTypes'
  <2>1. pendingAttrs' \in Seq(AttrRow)
    <3>1. rows \in Seq(AttrRow)
      BY AttrRowsType
    <3>. HIDE DEF rows
    <3>. QED
      BY <1>2, <1>9, <3>1, ConcatProperties
  <2>2. attrsSeen' \in 0..MaxAttrs /\ phase' \in [SpanIds -> {"new", "open", "ended"}]
    BY <1>2, SinkAssumption DEF LogInv, LogTypes
  <2>. QED
    BY <1>1, <1>2, <1>11, <2>1, <2>2 DEF LogInv, LogTypes
<1>13. RowsOnce'
  <2>1. ASSUME NEW i \in 1..n + 1, NEW j \in 1..n + 1, pendingSpans'[i].span = pendingSpans'[j].span
        PROVE  i = j
    <3>1. new.span = s
      BY <1>3
    <3>2. CASE i \in 1..n /\ j \in 1..n
      BY <1>4, <2>1, <3>2 DEF LogInv, RowsOnce, n
    <3>3. CASE i = n + 1 /\ j \in 1..n
      BY <1>4, <1>5, <2>1, <3>1, <3>3
    <3>4. CASE i \in 1..n /\ j = n + 1
      BY <1>4, <1>5, <2>1, <3>1, <3>4
    <3>. QED
      BY <1>6, <3>2, <3>3, <3>4
  <2>. QED
    BY <1>4, <2>1 DEF RowsOnce
<1>14. RowsFound'
  <2>0. phase \in [SpanIds -> {"new", "open", "ended"}]
    BY DEF LogInv, LogTypes
  <2>1. ASSUME NEW i \in 1..n + 1
        PROVE  \/ phase'[pendingSpans'[i].span] = "ended"
               \/ phase'[pendingSpans'[i].span] = "open" /\ pendingByID'[pendingSpans'[i].span] = i
    <3>1. CASE i = n + 1
      <4>1. pendingSpans'[i].span = s
        BY <1>3, <1>4, <3>1
      <4>. QED
        BY <1>2, <1>3, <2>0, <3>1, <4>1
    <3>2. CASE i \in 1..n
      <4>1. pendingSpans'[i] = pendingSpans[i] /\ pendingSpans[i].span # s
        BY <1>4, <1>5, <3>2
      <4>2. pendingSpans[i].span \in SpanIds
        <5>1. pendingSpans[i] \in Row
          BY <1>3, <3>2, ElementOfSeq DEF n
        <5>. QED
          BY <5>1 DEF Row
      <4>3. \/ phase[pendingSpans[i].span] = "ended"
            \/ phase[pendingSpans[i].span] = "open" /\ pendingByID[pendingSpans[i].span] = i
        BY <3>2 DEF LogInv, RowsFound, n
      <4>. QED
        BY <1>2, <1>3, <2>0, <4>1, <4>2, <4>3
    <3>. QED
      BY <1>6, <3>1, <3>2
  <2>2. ASSUME NEW t \in SpanIds, pendingByID'[t] # 0
        PROVE  pendingSpans'[pendingByID'[t]].span = t
    <3>1. CASE t = s
      BY <1>2, <1>3, <1>4, <3>1
    <3>2. CASE t # s
      <4>1. pendingByID'[t] = pendingByID[t] /\ pendingByID[t] \in 1..n
        BY <1>2, <1>3, <2>2, <3>2
      <4>. QED
        BY <1>4, <2>2, <4>1 DEF LogInv, RowsFound
    <3>. QED
      BY <3>1, <3>2
  <2>. QED
    BY <1>4, <2>1, <2>2 DEF RowsFound
<1>. QED
  BY <1>1, <1>2, <1>11, <1>12, <1>13, <1>14 DEF LogInv, InFlush

\* Attributes of a span, which may be the first the sink hears of it.
LEMMA AttrsLog ==
  ASSUME NamesInv, LogInv, NEW s \in SpanIds, NEW attrs \in AttrLists, WriteAttrs(s, attrs)
  PROVE  LogInv' /\ \E e \in Reader!Event : Window' = Append(Window, e)
<1>. DEFINE e == EventOf("attrs", s, attrs, "ok")
            rows == [i \in DOMAIN flattenAttrs(attrs) |-> newAttrRow(s, flattenAttrs(attrs)[i])]
<1>1. e \in Reader!Event /\ heard' = Append(heard, e) /\ UNCHANGED <<writeErrors, settled>>
  BY AcceptedEvent, SinkAssumption DEF WriteAttrs
<1>2. /\ pc = "idle" /\ UNCHANGED <<pc, tx, file, pendingSpans, pendingByID>>
      /\ phase[s] # "ended" /\ phase' = [phase EXCEPT ![s] = "open"]
      /\ pendingAttrs' = pendingAttrs \o rows
      /\ attrsSeen' = IF attrs = <<>> THEN attrsSeen ELSE attrsSeen + 1
      /\ attrs # <<>> => attrsSeen < MaxAttrs
  BY DEF WriteAttrs, Carry
<1>3. e.span = s /\ e.attrs = flattenAttrs(attrs) /\ e.kind = "attrs"
  BY DEF EventOf
<1>. HIDE DEF e
<1>4. \A t, row : Reader!SpanAfter(t, row, e) = row
  BY <1>3 DEF Reader!SpanAfter
<1>5. pendingAttrs \in Seq(AttrRow) /\ phase \in [SpanIds -> {"new", "open", "ended"}]
  BY DEF LogInv, LogTypes
<1>6. ASSUME NEW c \in SpanIds \X Keys, NEW v, ValueTold(pendingAttrs, c, Shown(file, c), v)
      PROVE  ValueTold(pendingAttrs', c, Shown(file, c), Reader!ValueAfter(c, v, e))
  BY <1>2, <1>3, <1>5, <1>6, ValuesAppended
<1>7. /\ WindowTold' /\ AllTold' /\ Window' = Append(Window, e)
      /\ heard' \in Seq(Reader!Event) /\ settled' \in 0..Len(heard')
  <2>1. \A t \in SpanIds : \A row : RowTold(pendingSpans, t, Resolved(t), row) =>
          RowTold(pendingSpans', t, Resolved(t), Reader!SpanAfter(t, row, e))
    BY <1>2, <1>4
  <2>. QED
    BY <1>1, <1>2, <1>6, <2>1, Delivered
<1>8. LogTypes'
  <2>1. pendingAttrs' \in Seq(AttrRow)
    <3>1. rows \in Seq(AttrRow)
      BY AttrRowsType
    <3>. HIDE DEF rows
    <3>. QED
      BY <1>2, <1>5, <3>1, ConcatProperties
  <2>2. attrsSeen' \in 0..MaxAttrs /\ phase' \in [SpanIds -> {"new", "open", "ended"}]
    BY <1>2, SinkAssumption DEF LogInv, LogTypes
  <2>. QED
    BY <1>1, <1>2, <1>7, <2>1, <2>2 DEF LogInv, LogTypes
<1>9. RowsOnce' /\ RowsFound'
  <2>1. \A i \in 1..Len(pendingSpans) : pendingSpans[i].span \in SpanIds
    <3>1. \A i \in 1..Len(pendingSpans) : pendingSpans[i] \in Row
      BY PendingFacts, ElementOfSeq
    <3>. QED
      BY <3>1 DEF Row
  <2>2. \A t \in SpanIds : phase'[t] = IF t = s THEN "open" ELSE phase[t]
    BY <1>2, <1>5
  <2>. QED
    BY <1>2, <2>1, <2>2 DEF LogInv, RowsOnce, RowsFound
<1>. QED
  BY <1>1, <1>2, <1>7, <1>8, <1>9 DEF LogInv, InFlush

\* A span's end completes its pending row, or comes as a row of its own.
LEMMA EndLog ==
  ASSUME NamesInv, LogInv, NEW s \in SpanIds, NEW st \in Statuses, WriteEnd(s, st)
  PROVE  LogInv' /\ \E e \in Reader!Event : Window' = Append(Window, e)
<1>. DEFINE e == EventOf("end", s, <<>>, st)
            new == NewRow(s, TRUE, st)
            n == Len(pendingSpans)
            p == pendingByID[s]
<1>1. e \in Reader!Event /\ heard' = Append(heard, e) /\ UNCHANGED <<writeErrors, settled>>
  BY AcceptedEvent DEF WriteEnd
<1>2. /\ pc = "idle" /\ UNCHANGED <<pc, tx, file, pendingByID, pendingAttrs, attrsSeen>>
      /\ phase[s] # "ended" /\ phase' = [phase EXCEPT ![s] = "ended"]
      /\ pendingSpans' = IF p # 0 THEN Completed(p, st) ELSE Append(pendingSpans, new)
  BY DEF WriteEnd
<1>3. /\ n \in Nat /\ pendingSpans \in Seq(Row) /\ p \in 0..n
      /\ pendingByID \in [SpanIds -> 0..n]
      /\ new \in Row /\ new = [span |-> s, name |-> nameOf[s], ended |-> TRUE, status |-> st]
  BY PendingFacts DEF NamesInv, NameTypes
<1>. HIDE DEF e, new, n
<1>4. e.span = s /\ e.attrs = <<>> /\ e.kind = "end" /\ e.name = nameOf[s] /\ e.status = st
  BY EmptySeq DEF EventOf, e, flattenAttrs, FlattenSeq
<1>5. /\ \A i \in 1..n : pendingSpans[i] \in Row /\ pendingSpans[i].span \in SpanIds
      /\ phase \in [SpanIds -> {"new", "open", "ended"}]
  <2>1. \A i \in 1..n : pendingSpans[i] \in Row
    BY <1>3, ElementOfSeq DEF n
  <2>. QED
    BY <2>1 DEF Row, LogInv, LogTypes
<1>6. \A t \in SpanIds : phase'[t] = IF t = s THEN "ended" ELSE phase[t]
  BY <1>2, <1>5
<1>7. /\ Reader!SpanAfter(s, 0, e) = [name |-> new.name, ended |-> new.ended, status |-> new.status]
      /\ \A row : Reader!SpanAfter(s, row, e) = Reader!SpanAfter(s, 0, e)
      /\ \A t, row : t # s => Reader!SpanAfter(t, row, e) = row
  BY <1>3, <1>4 DEF Reader!SpanAfter
<1>. DEFINE Told == \A t \in SpanIds : \A row : RowTold(pendingSpans, t, Resolved(t), row) =>
                      RowTold(pendingSpans', t, Resolved(t), Reader!SpanAfter(t, row, e))
<1>8. ASSUME p = 0 PROVE Told /\ RowsOnce' /\ RowsFound'
  <2>1. pendingSpans' = Append(pendingSpans, new)
    BY <1>2, <1>8
  <2>2. /\ Len(pendingSpans') = n + 1 /\ pendingSpans'[n + 1] = new
        /\ \A i \in 1..n : pendingSpans'[i] = pendingSpans[i]
    BY <1>3, <2>1, AppendProperties DEF n
  <2>3. \A i \in 1..n : pendingSpans[i].span # s
    BY <1>2, <1>3, <1>8 DEF LogInv, RowsFound, n
  <2>4. \A i \in 1..n + 1 : i = n + 1 \/ i \in 1..n
    BY <1>3
  <2>5. ASSUME NEW t \in SpanIds, NEW row, RowTold(pendingSpans, t, Resolved(t), row)
        PROVE  RowTold(pendingSpans', t, Resolved(t), Reader!SpanAfter(t, row, e))
    <3>1. CASE t # s
      <4>1. Reader!SpanAfter(t, row, e) = row /\ new.span = s
        BY <1>3, <1>7, <3>1
      <4>. QED
        BY <1>3, <2>1, <2>5, <3>1, <4>1, RowAppended
    <3>2. CASE t = s
      <4>1. Reader!SpanAfter(t, row, e) = [name |-> new.name, ended |-> new.ended, status |-> new.status]
        BY <1>7, <3>2
      <4>2. new.span = t /\ \A i \in 1..Len(pendingSpans) : pendingSpans[i].span # t
        BY <1>3, <2>3, <3>2 DEF n
      <4>. QED
        BY <1>3, <2>1, <2>5, <4>1, <4>2, RowAppended
    <3>. QED
      BY <3>1, <3>2
  <2>6. RowsOnce'
    <3>1. ASSUME NEW i \in 1..n + 1, NEW j \in 1..n + 1, pendingSpans'[i].span = pendingSpans'[j].span
          PROVE  i = j
      <4>1. new.span = s
        BY <1>3
      <4>2. CASE i \in 1..n /\ j \in 1..n
        BY <2>2, <3>1, <4>2 DEF LogInv, RowsOnce, n
      <4>3. CASE i = n + 1 /\ j \in 1..n
        BY <2>2, <2>3, <3>1, <4>1, <4>3
      <4>4. CASE i \in 1..n /\ j = n + 1
        BY <2>2, <2>3, <3>1, <4>1, <4>4
      <4>. QED
        BY <2>4, <4>2, <4>3, <4>4
    <3>. QED
      BY <2>2, <3>1 DEF RowsOnce
  <2>7. RowsFound'
    <3>1. ASSUME NEW i \in 1..n + 1
          PROVE  \/ phase'[pendingSpans'[i].span] = "ended"
                 \/ phase'[pendingSpans'[i].span] = "open" /\ pendingByID'[pendingSpans'[i].span] = i
      <4>1. CASE i = n + 1
        BY <1>3, <1>6, <2>2, <4>1
      <4>2. CASE i \in 1..n
        BY <1>2, <1>5, <1>6, <2>2, <4>2 DEF LogInv, RowsFound, n
      <4>. QED
        BY <2>4, <4>1, <4>2
    <3>2. ASSUME NEW t \in SpanIds, pendingByID'[t] # 0
          PROVE  pendingSpans'[pendingByID'[t]].span = t
      <4>1. pendingByID'[t] = pendingByID[t] /\ pendingByID[t] \in 1..n
        BY <1>2, <1>3, <3>2
      <4>. QED
        BY <2>2, <3>2, <4>1 DEF LogInv, RowsFound
    <3>. QED
      BY <2>2, <3>1, <3>2 DEF RowsFound
  <2>. QED
    BY <2>5, <2>6, <2>7
<1>9. ASSUME p # 0 PROVE Told /\ RowsOnce' /\ RowsFound'
  <2>1. p \in 1..n /\ pendingSpans[p] \in Row /\ pendingSpans[p].span = s
    BY <1>3, <1>5, <1>9 DEF LogInv, RowsFound
  <2>2. pendingSpans[p].name = nameOf[s]
    BY <2>1 DEF NamesInv, RowsNamed, n
  <2>3. pendingSpans' = [pendingSpans EXCEPT ![p] = new]
    <3>1. [pendingSpans[p] EXCEPT !.ended = TRUE, !.status = st] = new
      <4>. DEFINE old == pendingSpans[p]
      <4>1. old \in Row /\ old.span = s /\ old.name = nameOf[s]
        BY <2>1, <2>2
      <4>. HIDE DEF old
      <4>. DEFINE x == [old EXCEPT !.ended = TRUE, !.status = st]
      <4>2. x \in Row /\ x.span = s /\ x.name = nameOf[s] /\ x.ended = TRUE /\ x.status = st
        BY <4>1 DEF Row
      <4>. HIDE DEF x
      <4>3. x = new
        BY <1>3, <4>2 DEF Row
      <4>. QED
        BY <4>3 DEF old, x
    <3>. QED
      BY <1>2, <1>3, <1>9, <2>1, <3>1 DEF Completed, n
  <2>4. /\ Len(pendingSpans') = n /\ pendingSpans'[p] = new
        /\ \A i \in 1..n : pendingSpans'[i] = IF i = p THEN new ELSE pendingSpans[i]
    BY <1>3, <2>1, <2>3, ExceptSeq DEF n
  <2>5. \A i \in 1..n : pendingSpans'[i].span = pendingSpans[i].span
    BY <1>3, <2>1, <2>4
  <2>6. ASSUME NEW t \in SpanIds, NEW row, RowTold(pendingSpans, t, Resolved(t), row)
        PROVE  RowTold(pendingSpans', t, Resolved(t), Reader!SpanAfter(t, row, e))
    <3>1. \A i, j \in 1..Len(pendingSpans) : pendingSpans[i].span = pendingSpans[j].span => i = j
      BY DEF LogInv, RowsOnce
    <3>2. new.span = pendingSpans[p].span /\ new.span = s /\ p \in 1..Len(pendingSpans)
      BY <1>3, <2>1 DEF n
    <3>3. CASE t # s
      <4>1. Reader!SpanAfter(t, row, e) = row
        BY <1>7, <3>3
      <4>. HIDE DEF p
      <4>. QED
        BY <1>3, <2>3, <2>6, <3>1, <3>2, <3>3, <4>1, RowCompleted
    <3>4. CASE t = s
      <4>1. Reader!SpanAfter(t, row, e) = [name |-> new.name, ended |-> new.ended, status |-> new.status]
        BY <1>7, <3>4
      <4>. HIDE DEF p
      <4>2. pendingSpans \in Seq(Row) /\ p \in 1..Len(pendingSpans) /\ new \in Row
        BY <1>3, <3>2
      <4>3. RowTold([pendingSpans EXCEPT ![p] = new], t, Resolved(t),
                    [name |-> new.name, ended |-> new.ended, status |-> new.status])
        BY <2>6, <3>1, <3>2, <3>4, <4>2, RowCompleted
      <4>. QED
        BY <2>3, <4>1, <4>3
    <3>. QED
      BY <3>3, <3>4
  <2>7. RowsOnce'
    BY <2>4, <2>5 DEF LogInv, RowsOnce, n
  <2>8. RowsFound'
    <3>1. ASSUME NEW i \in 1..n
          PROVE  \/ phase'[pendingSpans'[i].span] = "ended"
                 \/ phase'[pendingSpans'[i].span] = "open" /\ pendingByID'[pendingSpans'[i].span] = i
      BY <1>2, <1>5, <1>6, <2>5 DEF LogInv, RowsFound, n
    <3>2. ASSUME NEW t \in SpanIds, pendingByID'[t] # 0
          PROVE  pendingSpans'[pendingByID'[t]].span = t
      <4>1. pendingByID'[t] = pendingByID[t] /\ pendingByID[t] \in 1..n
        BY <1>2, <1>3, <3>2
      <4>. QED
        BY <2>5, <3>2, <4>1 DEF LogInv, RowsFound
    <3>. QED
      BY <2>4, <3>1, <3>2 DEF RowsFound
  <2>. QED
    BY <2>6, <2>7, <2>8
<1>10. /\ WindowTold' /\ AllTold' /\ Window' = Append(Window, e)
       /\ heard' \in Seq(Reader!Event) /\ settled' \in 0..Len(heard')
  <2>1. \A c \in SpanIds \X Keys : \A v : ValueTold(pendingAttrs, c, Shown(file, c), v) =>
          ValueTold(pendingAttrs', c, Shown(file, c), Reader!ValueAfter(c, v, e))
    BY <1>2, <1>4, ValuesKept
  <2>. QED
    BY <1>1, <1>2, <1>8, <1>9, <2>1, Delivered
<1>11. LogTypes'
  BY <1>1, <1>2, <1>5, <1>10 DEF LogInv, LogTypes
<1>. QED
  BY <1>1, <1>2, <1>8, <1>9, <1>10, <1>11 DEF LogInv, InFlush

\* A flush in progress leaves the file and what it has been told alone.
LEMMA FlushKeeps ==
  ASSUME LogInv, UNCHANGED <<feedVars, pendingVars, file>>,
         pc \in {"idle", "spans", "attrs"}, pc' \in {"spans", "attrs"},
         tx'.attrs \in [SpanIds \X Keys -> Cells \cup {none}],
         SpansWritten', AttrsWritten'
  PROVE  LogInv' /\ Window' = Window
<1>1. /\ UNCHANGED <<phase, attrsSeen, pendingSpans, pendingByID, pendingAttrs, writeErrors, heard, settled>>
      /\ UNCHANGED file
  BY DEF feedVars, pendingVars
<1>2. LogTypes' /\ RowsOnce' /\ RowsFound'
  BY <1>1 DEF LogInv, LogTypes, RowsOnce, RowsFound
<1>3. Window' = Window
  BY <1>1 DEF Window
<1>4. \A s : Resolved(s)' = Resolved(s)
  BY <1>1 DEF Resolved
<1>5. \A c : Shown(file, c)' = Shown(file, c)
  BY <1>1 DEF Shown
<1>6. WindowTold'
  BY <1>1, <1>3, <1>4, <1>5 DEF LogInv, WindowTold
<1>7. AllTold'
  BY <1>1, <1>4, <1>5 DEF LogInv, AllTold
<1>. QED
  BY <1>2, <1>3, <1>6, <1>7 DEF LogInv

\* A flush starts from the file, with no row written.
LEMMA BeginLog ==
  ASSUME NamesInv, LogInv, FlushBegin
  PROVE  LogInv' /\ Window' = Window
<1>1. /\ UNCHANGED <<feedVars, pendingVars, file>>
      /\ pc = "idle" /\ pc' = "spans" /\ at' = 1 /\ tx' = file
  BY DEF FlushBegin
<1>2. UNCHANGED <<pendingSpans, pendingAttrs>>
  BY <1>1 DEF pendingVars
<1>3. SpansWritten' /\ AttrsWritten'
  <2>1. Len(pendingSpans) \in Nat
    BY PendingFacts
  <2>2. \A i \in 1..Len(pendingSpans) : ~(i < 1)
    BY <2>1
  <2>. QED
    BY <1>1, <1>2, <2>2 DEF SpansWritten, SpanWritten, AttrsWritten
<1>4. tx'.attrs \in [SpanIds \X Keys -> Cells \cup {none}]
  BY <1>1 DEF LogInv, LogTypes
<1>. QED
  BY <1>1, <1>3, <1>4, FlushKeeps

\* What an upsert leaves in the table.
LEMMA UpsertGives ==
  ASSUME NEW spans \in [SpanIds -> FileRow \cup {none}], NEW row \in Row, NEW id \in Nat,
         NEW new, new = Upsert(spans, row, id)
  PROVE  /\ new[row.span] # none /\ new[row.span].ended = row.ended
         /\ new[row.span].status = row.status
         /\ \A s \in SpanIds : s # row.span => new[s] = spans[s]
<1>1. row.span \in SpanIds /\ row.ended \in BOOLEAN /\ row.status \in Statuses
  BY DEF Row
<1>2. \A s \in SpanIds : s # row.span => new[s] = spans[s]
  BY <1>1 DEF Upsert
<1>3. CASE spans[row.span] = none
  <2>. DEFINE x == [nameId |-> id, ended |-> row.ended, status |-> row.status]
  <2>1. x \in FileRow /\ x.ended = row.ended /\ x.status = row.status
    BY <1>1 DEF FileRow
  <2>2. new[row.span] = x
    BY <1>1, <1>3 DEF Upsert
  <2>. HIDE DEF x
  <2>3. new[row.span] # none
    BY <2>1, <2>2, NoneAssumption
  <2>. QED
    BY <1>2, <2>1, <2>2, <2>3
<1>4. CASE spans[row.span] # none
  <2>. DEFINE x == [spans[row.span] EXCEPT !.ended = row.ended, !.status = row.status]
  <2>1. spans[row.span] \in FileRow
    BY <1>1, <1>4
  <2>2. x \in FileRow /\ x.ended = row.ended /\ x.status = row.status
    BY <1>1, <2>1 DEF FileRow
  <2>3. new[row.span] = x
    BY <1>1, <1>4, <2>1 DEF Upsert, FileRow
  <2>. HIDE DEF x
  <2>4. new[row.span] # none
    BY <2>2, <2>3, NoneAssumption
  <2>. QED
    BY <1>2, <2>2, <2>3, <2>4
<1>. QED
  BY <1>3, <1>4

\* A row written: its span has it now, and no other row is that span's.
LEMMA SpanLog ==
  ASSUME NamesInv, LogInv, FlushKnownName \/ FlushFreshName
  PROVE  LogInv' /\ Window' = Window
<1>. DEFINE row == pendingSpans[at]
<1>1. /\ UNCHANGED <<feedVars, pendingVars, pc, file>>
      /\ pc = "spans" /\ at <= Len(pendingSpans) /\ at' = at + 1
  BY DEF FlushKnownName, FlushFreshName, MoreRows
<1>2. /\ at \in Nat \ {0} /\ Len(pendingSpans) \in Nat /\ at \in 1..Len(pendingSpans)
      /\ row \in Row /\ row.name \in Names
      /\ UNCHANGED <<pendingSpans, pendingAttrs>>
  BY <1>1, NextRowNamed, PendingFacts DEF MoreRows, NextRow, pendingVars
<1>3. /\ tx = [names |-> tx.names, spans |-> tx.spans, attrs |-> tx.attrs]
      /\ tx.spans \in [SpanIds -> FileRow \cup {none}] /\ tx.names \in Seq(Names)
  BY DEF NamesInv, NameTypes, Database
<1>4. \E id \in Nat : tx'.spans = Upsert(tx.spans, row, id) /\ tx'.attrs = tx.attrs
  <2>1. CASE FlushKnownName
    <3>1. Lookup(row.name) \in Nat
      BY <1>1, <1>2, LookupSound DEF InFlush
    <3>2. tx' = [names |-> tx.names, spans |-> Upsert(tx.spans, row, Lookup(row.name)), attrs |-> tx.attrs]
      BY <1>3, <2>1 DEF FlushKnownName, NextRow
    <3>. QED
      BY <3>1, <3>2
  <2>2. CASE FlushFreshName
    <3>1. FreshId \in Nat
      BY <1>3, LenProperties DEF FreshId
    <3>2. tx' = [names |-> Append(tx.names, row.name), spans |-> Upsert(tx.spans, row, FreshId),
                 attrs |-> tx.attrs]
      BY <1>3, <2>2 DEF FlushFreshName, NextRow
    <3>. QED
      BY <3>1, <3>2
  <2>. QED
    BY <2>1, <2>2
<1>5. PICK id \in Nat : tx'.spans = Upsert(tx.spans, row, id) /\ tx'.attrs = tx.attrs
  BY <1>4
<1>. HIDE DEF row
<1>6. /\ tx'.spans[row.span] # none /\ tx'.spans[row.span].ended = row.ended
      /\ tx'.spans[row.span].status = row.status
      /\ \A s \in SpanIds : s # row.span => tx'.spans[s] = tx.spans[s]
  BY <1>2, <1>3, <1>5, UpsertGives
<1>7. \A i \in 1..Len(pendingSpans) : i < at + 1 <=> i < at \/ i = at
  BY <1>2
<1>8. SpansWritten'
  <2>. SUFFICES ASSUME NEW s \in SpanIds
       PROVE  /\ (\A i \in 1..Len(pendingSpans) : i < at + 1 => pendingSpans[i].span # s)
                   => tx'.spans[s] = file.spans[s]
              /\ \A i \in 1..Len(pendingSpans) : i < at + 1 /\ pendingSpans[i].span = s =>
                   /\ tx'.spans[s] # none
                   /\ tx'.spans[s].ended = pendingSpans[i].ended
                   /\ tx'.spans[s].status = pendingSpans[i].status
    BY <1>1, <1>2 DEF SpansWritten, SpanWritten
  <2>1. /\ (\A i \in 1..Len(pendingSpans) : i < at => pendingSpans[i].span # s)
             => tx.spans[s] = file.spans[s]
        /\ \A i \in 1..Len(pendingSpans) : i < at /\ pendingSpans[i].span = s =>
             /\ tx.spans[s] # none
             /\ tx.spans[s].ended = pendingSpans[i].ended
             /\ tx.spans[s].status = pendingSpans[i].status
    BY <1>1 DEF LogInv, InFlush, SpansWritten, SpanWritten
  <2>2. CASE s # row.span
    BY <1>2, <1>6, <1>7, <2>1, <2>2 DEF row
  <2>3. CASE s = row.span
    <3>1. \A i \in 1..Len(pendingSpans) : pendingSpans[i].span = s => i = at
      BY <1>2, <2>3 DEF LogInv, RowsOnce, row
    <3>2. pendingSpans[at].span = s /\ at < at + 1
      BY <1>2, <2>3 DEF row
    <3>. QED
      BY <1>2, <1>6, <2>3, <3>1, <3>2 DEF row
  <2>. QED
    BY <2>2, <2>3
<1>9. AttrsWritten'
  BY <1>1, <1>5 DEF LogInv, InFlush, AttrsWritten
<1>10. tx'.attrs \in [SpanIds \X Keys -> Cells \cup {none}]
  BY <1>5 DEF LogInv, LogTypes
<1>. QED
  BY <1>1, <1>8, <1>9, <1>10, FlushKeeps

\* All span rows are written.
LEMMA SpansDoneLog ==
  ASSUME NamesInv, LogInv, FlushSpansDone
  PROVE  LogInv' /\ Window' = Window
<1>1. /\ UNCHANGED <<feedVars, pendingVars, tx, file>>
      /\ pc = "spans" /\ pc' = "attrs" /\ at > Len(pendingSpans) /\ at' = 1
      /\ UNCHANGED <<pendingSpans, pendingAttrs>>
  BY DEF FlushSpansDone, pendingVars
<1>2. /\ at \in Nat /\ Len(pendingSpans) \in Nat
      /\ \A i \in 1..Len(pendingSpans) : i < at
  BY <1>1, PendingFacts DEF NamesInv, NameTypes
<1>3. SpansWritten'
  BY <1>1, <1>2 DEF LogInv, InFlush, SpansWritten, SpanWritten
<1>4. AttrsWritten'
  <2>1. Len(pendingAttrs) \in Nat
    BY LenProperties DEF LogInv, LogTypes
  <2>2. \A i \in 1..Len(pendingAttrs) : ~(i < 1)
    BY <2>1
  <2>3. ASSUME NEW c \in SpanIds \X Keys PROVE HitsBefore(c)' = {}
    BY <1>1, <2>2 DEF HitsBefore, Hits
  <2>4. tx.attrs = file.attrs
    BY <1>1 DEF LogInv, InFlush, AttrsWritten
  <2>. QED
    BY <1>1, <2>3, <2>4 DEF AttrsWritten
<1>5. tx'.attrs \in [SpanIds \X Keys -> Cells \cup {none}]
  BY <1>1 DEF LogInv, LogTypes
<1>. QED
  BY <1>1, <1>3, <1>4, <1>5, FlushKeeps

\* An attribute row written: it is the last one of its key so far.
LEMMA AttrLog ==
  ASSUME NamesInv, LogInv, FlushAttr
  PROVE  LogInv' /\ Window' = Window
<1>. DEFINE row == pendingAttrs[at]
            c0 == <<row.span, row.key>>
<1>1. /\ UNCHANGED <<feedVars, pendingVars, pc, file>>
      /\ pc = "attrs" /\ at <= Len(pendingAttrs) /\ at' = at + 1
      /\ UNCHANGED <<pendingSpans, pendingAttrs>>
  BY DEF FlushAttr, pendingVars
<1>2. at \in 1..Len(pendingAttrs) /\ at \in Nat /\ row \in AttrRow
  <2>1. pendingAttrs \in Seq(AttrRow) /\ at \in Nat \ {0}
    BY DEF LogInv, LogTypes, NamesInv, NameTypes
  <2>2. at \in 1..Len(pendingAttrs)
    BY <1>1, <2>1, LenProperties
  <2>. QED
    BY <2>1, <2>2, ElementOfSeq
<1>3. c0 \in SpanIds \X Keys /\ row.value \in Cells
  BY <1>2 DEF AttrRow
<1>4. tx.attrs \in [SpanIds \X Keys -> Cells \cup {none}]
  BY DEF LogInv, LogTypes
<1>5. tx' = [names |-> tx.names, spans |-> tx.spans, attrs |-> [tx.attrs EXCEPT ![c0] = row.value]]
  <2>1. tx = [names |-> tx.names, spans |-> tx.spans, attrs |-> tx.attrs]
    BY DEF NamesInv, NameTypes, Database
  <2>. QED
    BY <2>1 DEF FlushAttr
<1>. HIDE DEF row, c0
<1>6. tx'.spans = tx.spans /\ tx'.attrs = [tx.attrs EXCEPT ![c0] = row.value]
  BY <1>5
<1>7. tx'.attrs \in [SpanIds \X Keys -> Cells \cup {none}]
  BY <1>3, <1>4, <1>6
<1>8. SpansWritten'
  BY <1>1, <1>6 DEF LogInv, InFlush, SpansWritten, SpanWritten
<1>9. ASSUME NEW c \in SpanIds \X Keys
      PROVE  /\ HitsBefore(c)' = {} => tx'.attrs[c] = file.attrs[c]
             /\ \A i \in HitsBefore(c)' :
                  (\A j \in HitsBefore(c)' : j <= i) => tx'.attrs[c] = pendingAttrs[i].value
  <2>1. /\ HitsBefore(c) = {} => tx.attrs[c] = file.attrs[c]
        /\ \A i \in HitsBefore(c) :
             (\A j \in HitsBefore(c) : j <= i) => tx.attrs[c] = pendingAttrs[i].value
    BY <1>1 DEF LogInv, InFlush, AttrsWritten
  <2>2. HitsBefore(c)' = {i \in Hits(pendingAttrs, c) : i < at + 1}
    BY <1>1 DEF HitsBefore
  <2>3. \A i \in Hits(pendingAttrs, c) : i \in 1..Len(pendingAttrs) /\ (i < at + 1 <=> i < at \/ i = at)
    BY <1>2 DEF Hits
  <2>4. at \in Hits(pendingAttrs, c) <=> c = c0
    BY <1>2 DEF Hits, c0, row
  <2>5. CASE c # c0
    <3>1. HitsBefore(c)' = HitsBefore(c)
      BY <2>2, <2>3, <2>4, <2>5 DEF HitsBefore
    <3>2. tx'.attrs[c] = tx.attrs[c]
      BY <1>4, <1>6, <2>5
    <3>. QED
      BY <2>1, <3>1, <3>2
  <2>6. CASE c = c0
    <3>1. at \in HitsBefore(c)'
      BY <1>2, <2>2, <2>3, <2>4, <2>6
    <3>2. ASSUME NEW i \in HitsBefore(c)', \A j \in HitsBefore(c)' : j <= i PROVE i = at
      <4>1. at <= i
        BY <3>1, <3>2
      <4>2. i \in 1..Len(pendingAttrs) /\ (i < at \/ i = at)
        BY <2>2, <2>3, <3>2
      <4>. QED
        BY <1>2, <4>1, <4>2
    <3>3. tx'.attrs[c] = pendingAttrs[at].value
      BY <1>3, <1>4, <1>6, <2>6 DEF row
    <3>. QED
      BY <3>1, <3>2, <3>3
  <2>. QED
    BY <2>5, <2>6
<1>10. AttrsWritten'
  BY <1>1, <1>9 DEF AttrsWritten
<1>. QED
  BY <1>1, <1>7, <1>8, <1>10, FlushKeeps

\* When every row is written, the transaction's tables are the file with the pending
\* rows: a reader finds what they tell.
LEMMA CommitTells ==
  ASSUME NamesInv, LogInv, Commit
  PROVE  /\ \A s \in SpanIds : \A row :
              RowTold(pendingSpans, s, Resolved(s), row) => Resolved(s)' = row
         /\ \A c \in SpanIds \X Keys : \A v :
              ValueTold(pendingAttrs, c, Shown(file, c), v) => Shown(file, c)' = v
<1>1. file' = tx /\ pc = "attrs" /\ at > Len(pendingAttrs) /\ InFlush /\ at \in Nat
  BY DEF Commit, InFlush, NamesInv, NameTypes
<1>2. /\ SpansWritten /\ AttrsWritten /\ InternedInv /\ NamesJoin
      /\ \A s \in SpanIds : Joined(tx, s)
  BY <1>1 DEF LogInv, NamesInv
<1>3. ASSUME NEW s \in SpanIds, NEW row, RowTold(pendingSpans, s, Resolved(s), row)
      PROVE  Resolved(s)' = row
  <2>1. Resolved(s)' = IF tx.spans[s] = none THEN none
                       ELSE [name |-> tx.names[tx.spans[s].nameId],
                             ended |-> tx.spans[s].ended, status |-> tx.spans[s].status]
    BY <1>1 DEF Resolved
  <2>2. CASE \A i \in 1..Len(pendingSpans) : pendingSpans[i].span # s
    <3>1. row = Resolved(s) /\ tx.spans[s] = file.spans[s]
      BY <1>2, <1>3, <2>2 DEF RowTold, SpansWritten
    <3>2. file.spans[s] # none =>
            tx.names[file.spans[s].nameId] = file.names[file.spans[s].nameId]
      BY <1>2 DEF NamesJoin, Joined, InternedInv
    <3>. QED
      BY <2>1, <3>1, <3>2 DEF Resolved
  <2>3. CASE \E i \in 1..Len(pendingSpans) : pendingSpans[i].span = s
    <3>1. PICK i \in 1..Len(pendingSpans) : pendingSpans[i].span = s
      BY <2>3
    <3>2. row = [name |-> pendingSpans[i].name, ended |-> pendingSpans[i].ended,
                 status |-> pendingSpans[i].status]
      BY <1>3, <3>1 DEF RowTold
    <3>3. /\ tx.spans[s] # none /\ tx.spans[s].ended = pendingSpans[i].ended
          /\ tx.spans[s].status = pendingSpans[i].status
      BY <1>1, <1>2, <3>1 DEF SpansWritten, SpanWritten
    <3>4. pendingSpans[i].name = nameOf[s]
      BY <3>1 DEF NamesInv, RowsNamed
    <3>5. tx.names[tx.spans[s].nameId] = nameOf[s]
      BY <1>2, <3>3 DEF Joined
    <3>. QED
      BY <2>1, <3>2, <3>3, <3>4, <3>5
  <2>. QED
    BY <2>2, <2>3
<1>4. ASSUME NEW c \in SpanIds \X Keys, NEW v, ValueTold(pendingAttrs, c, Shown(file, c), v)
      PROVE  Shown(file, c)' = v
  <2>. DEFINE hits == Hits(pendingAttrs, c)
  <2>1. Shown(file, c)' = IF tx.attrs[c] = none THEN none ELSE ReadBack(tx.attrs[c])
    BY <1>1 DEF Shown
  <2>2. pendingAttrs \in Seq(AttrRow) /\ Len(pendingAttrs) \in Nat
    BY LenProperties DEF LogInv, LogTypes
  <2>3. hits \in SUBSET (1..Len(pendingAttrs)) /\ \A i \in hits : i < at
    BY <1>1, <2>2 DEF Hits
  <2>. HIDE DEF hits
  <2>4. HitsBefore(c) = hits
    BY <2>3 DEF HitsBefore, hits
  <2>5. CASE hits = {}
    <3>1. tx.attrs[c] = file.attrs[c]
      BY <1>1, <1>2, <2>4, <2>5 DEF AttrsWritten
    <3>2. v = Shown(file, c)
      BY <1>4, <2>5 DEF ValueTold, hits
    <3>. QED
      BY <2>1, <3>1, <3>2 DEF Shown
  <2>6. CASE hits # {}
    <3>1. IsFiniteSet(hits) /\ hits \in SUBSET Nat
      <4>1. IsFiniteSet(1..Len(pendingAttrs)) /\ (1..Len(pendingAttrs)) \in SUBSET Nat
        BY <2>2, FS_Interval
      <4>. QED
        BY <2>3, <4>1, FS_Subset
    <3>2. PICK i \in hits : \A j \in hits : j <= i
      BY <2>6, <3>1, MaxOf
    <3>3. tx.attrs[c] = pendingAttrs[i].value
      BY <1>1, <1>2, <2>4, <3>2 DEF AttrsWritten
    <3>4. v = ReadBack(pendingAttrs[i].value)
      BY <1>4, <3>2 DEF ValueTold, hits
    <3>5. pendingAttrs[i].value # none
      <4>1. i \in 1..Len(pendingAttrs)
        BY <2>3
      <4>2. pendingAttrs[i] \in AttrRow
        BY <2>2, <4>1, ElementOfSeq
      <4>. QED
        BY <4>2, NoneAssumption DEF AttrRow
    <3>. QED
      BY <2>1, <3>3, <3>4, <3>5
  <2>. QED
    BY <2>5, <2>6
<1>. QED
  BY <1>3, <1>4

\* With nothing pending a new window opens, and the file tells all of it.
LEMMA ClearedLog ==
  ASSUME LogInv, ClearPending, UNCHANGED feedVars, pc' \in {"idle", "crashed"},
         writeErrors' \in Nat, tx'.attrs \in [SpanIds \X Keys -> Cells \cup {none}],
         file'.attrs \in [SpanIds \X Keys -> Cells \cup {none}], AllTold'
  PROVE  LogInv' /\ Window' = <<>>
<1>1. /\ UNCHANGED <<phase, attrsSeen, heard>>
      /\ pendingSpans' = <<>> /\ pendingByID' = NoRows /\ pendingAttrs' = <<>>
      /\ settled' = Len(heard)
  BY DEF ClearPending, ClearedByID, feedVars
<1>2. Len(heard) \in Nat /\ heard \in Seq(Reader!Event)
  BY LenProperties DEF LogInv, LogTypes
<1>3. Window' = <<>>
  <2>1. SubSeq(heard, Len(heard) + 1, Len(heard)) = <<>>
    BY <1>2, SubSeqEmpty
  <2>. QED
    BY <1>1, <2>1 DEF Window
<1>4. LogTypes'
  BY <1>1, <1>2, EmptySeq DEF LogInv, LogTypes
<1>5. RowsOnce' /\ RowsFound'
  BY <1>1, EmptySeq DEF RowsOnce, RowsFound, NoRows
<1>6. Len(<<>>) = 0 /\ (1..0) = {}
  BY EmptySeq
<1>7. \A s, row0 : RowTold(<<>>, s, row0, SpanFold(s, row0, <<>>))
  BY <1>6, SpanFoldEmpty DEF RowTold
<1>8. \A c, v0 : ValueTold(<<>>, c, v0, ValueFold(c, v0, <<>>))
  BY <1>6, ValueFoldEmpty DEF ValueTold, Hits
<1>9. WindowTold'
  BY <1>1, <1>3, <1>7, <1>8 DEF WindowTold
<1>. QED
  BY <1>1, <1>3, <1>4, <1>5, <1>9 DEF LogInv, InFlush

\* The commit brings the file up to the window.
LEMMA CommitLog ==
  ASSUME NamesInv, LogInv, Commit
  PROVE  /\ LogInv' /\ Window' = <<>>
         /\ \A s \in SpanIds : Resolved(s)' = SpanFold(s, Resolved(s), Window)
         /\ \A c \in SpanIds \X Keys : Shown(file, c)' = ValueFold(c, Shown(file, c), Window)
<1>1. /\ ClearPending /\ UNCHANGED feedVars /\ UNCHANGED <<writeErrors, tx>>
      /\ pc = "attrs" /\ pc' = "idle" /\ file' = tx
      /\ pendingSpans' = <<>> /\ pendingAttrs' = <<>> /\ heard' = heard
  BY DEF Commit, ClearPending
<1>2. \A s \in SpanIds : Resolved(s)' = SpanFold(s, Resolved(s), Window)
  BY CommitTells DEF LogInv, WindowTold
<1>3. \A c \in SpanIds \X Keys : Shown(file, c)' = ValueFold(c, Shown(file, c), Window)
  BY CommitTells DEF LogInv, WindowTold
<1>4. Len(<<>>) = 0 /\ (1..0) = {}
  BY EmptySeq
<1>5. AllTold'
  <2>. SUFFICES ASSUME writeErrors = 0 PROVE AllTold'
    BY <1>1 DEF AllTold
  <2>1. \A s \in SpanIds : Resolved(s)' = SpanFold(s, none, heard)
    BY <1>1, CommitTells DEF LogInv, AllTold
  <2>2. \A c \in SpanIds \X Keys : Shown(file, c)' = ValueFold(c, none, heard)
    BY <1>1, CommitTells DEF LogInv, AllTold
  <2>3. \A s, x : RowTold(<<>>, s, x, x)
    BY <1>4 DEF RowTold
  <2>4. \A c, x : ValueTold(<<>>, c, x, x)
    BY <1>4 DEF ValueTold, Hits
  <2>. QED
    BY <1>1, <2>1, <2>2, <2>3, <2>4 DEF AllTold
<1>6. writeErrors' \in Nat /\ tx'.attrs \in [SpanIds \X Keys -> Cells \cup {none}]
      /\ file'.attrs \in [SpanIds \X Keys -> Cells \cup {none}]
  BY <1>1 DEF LogInv, LogTypes
<1>. QED
  BY <1>1, <1>2, <1>3, <1>5, <1>6, ClearedLog

\* A failed flush and a crash lose the window: the file stays.
LEMMA LossLog ==
  ASSUME NamesInv, LogInv, FlushFails \/ Crash
  PROVE  LogInv' /\ Window' = <<>> /\ UNCHANGED file
<1>1. /\ ClearPending /\ UNCHANGED feedVars /\ tx' = file /\ file' = file
      /\ pc' \in {"idle", "crashed"}
      /\ writeErrors' \in Nat
      /\ writeErrors' # 0 \/ pc' = "crashed"
  <2>1. writeErrors \in Nat
    BY DEF LogInv, LogTypes
  <2>2. CASE FlushFails
    BY <2>1, <2>2 DEF FlushFails, FailureCount
  <2>3. CASE Crash
    BY <2>1, <2>3 DEF Crash
  <2>. QED
    BY <2>2, <2>3
<1>2. AllTold'
  BY <1>1 DEF AllTold
<1>3. tx'.attrs \in [SpanIds \X Keys -> Cells \cup {none}]
      /\ file'.attrs \in [SpanIds \X Keys -> Cells \cup {none}]
  BY <1>1 DEF LogInv, LogTypes
<1>. QED
  BY <1>1, <1>2, <1>3, ClearedLog

\* Closing, and doing nothing.
LEMMA StillLog ==
  ASSUME NamesInv, LogInv, Close \/ UNCHANGED vars
  PROVE  LogInv' /\ Window' = Window /\ UNCHANGED file
<1>1. /\ UNCHANGED <<phase, attrsSeen, pendingSpans, pendingByID, pendingAttrs, writeErrors, heard, settled>>
      /\ UNCHANGED <<tx, file, at>>
      /\ \/ pc' = pc
         \/ pc = "idle" /\ pc' = "closed" /\ pendingSpans = <<>> /\ pendingAttrs = <<>>
  <2>1. CASE Close
    BY <2>1 DEF Close, feedVars, pendingVars
  <2>2. CASE UNCHANGED vars
    BY <2>2 DEF vars, feedVars, pendingVars
  <2>. QED
    BY <2>1, <2>2
<1>2. LogTypes' /\ RowsOnce' /\ RowsFound'
  BY <1>1 DEF LogInv, LogTypes, RowsOnce, RowsFound
<1>3. Window' = Window
  BY <1>1 DEF Window
<1>4. \A s : Resolved(s)' = Resolved(s)
  BY <1>1 DEF Resolved
<1>5. \A c : Shown(file, c)' = Shown(file, c)
  BY <1>1 DEF Shown
<1>6. WindowTold'
  BY <1>1, <1>3, <1>4, <1>5 DEF LogInv, WindowTold
<1>7. AllTold'
  BY <1>1, <1>4, <1>5 DEF LogInv, AllTold
<1>8. InFlush' => SpansWritten' /\ AttrsWritten'
  <2>. SUFFICES ASSUME InFlush' PROVE SpansWritten' /\ AttrsWritten'
    OBVIOUS
  <2>1. pc' = pc /\ InFlush
    BY <1>1 DEF InFlush
  <2>. QED
    BY <1>1, <2>1 DEF LogInv, SpansWritten, SpanWritten, AttrsWritten, HitsBefore
<1>. QED
  BY <1>1, <1>2, <1>3, <1>6, <1>7, <1>8 DEF LogInv

\* The invariant holds of a sink that New just returned.
LEMMA LogInit == Init => LogInv /\ Window = <<>>
<1>. SUFFICES ASSUME Init PROVE LogInv /\ Window = <<>>
  OBVIOUS
<1>1. /\ pendingSpans = <<>> /\ pendingByID = NoRows /\ pendingAttrs = <<>>
      /\ heard = <<>> /\ settled = 0 /\ tx = EmptyFile /\ file = EmptyFile
      /\ phase = [s \in SpanIds |-> "new"] /\ attrsSeen = 0 /\ pc = "idle" /\ writeErrors = 0
  BY DEF Init
<1>2. Len(<<>>) = 0 /\ (1..0) = {} /\ <<>> \in Seq(AttrRow) /\ <<>> \in Seq(Reader!Event)
  BY EmptySeq
<1>3. Window = <<>>
  <2>1. SubSeq(<<>>, 1, 0) = <<>>
    BY SubSeqEmpty
  <2>. QED
    BY <1>1, <1>2, <2>1 DEF Window
<1>4. LogTypes
  BY <1>1, <1>2, SinkAssumption DEF LogTypes, EmptyFile
<1>5. RowsOnce /\ RowsFound
  BY <1>1, <1>2 DEF RowsOnce, RowsFound, NoRows
<1>6. \A s \in SpanIds : Resolved(s) = none
  BY <1>1 DEF Resolved, EmptyFile
<1>7. \A c \in SpanIds \X Keys : Shown(file, c) = none
  BY <1>1 DEF Shown, EmptyFile
<1>8. \A s, row0 : RowTold(<<>>, s, row0, SpanFold(s, row0, <<>>))
  BY <1>2, SpanFoldEmpty DEF RowTold
<1>9. \A c, v0 : ValueTold(<<>>, c, v0, ValueFold(c, v0, <<>>))
  BY <1>2, ValueFoldEmpty DEF ValueTold, Hits
<1>10. WindowTold /\ AllTold
  BY <1>1, <1>3, <1>6, <1>7, <1>8, <1>9 DEF WindowTold, AllTold
<1>. QED
  BY <1>1, <1>3, <1>4, <1>5, <1>10 DEF LogInv, InFlush

-----------------------------------------------------------------------------
(* What the file tells: the theorems                                       *)

\* What each step does to the window and to what a reader sees.
LEMMA LogNext ==
  ASSUME NamesInv, LogInv, [Next]_vars
  PROVE  /\ LogInv'
         /\ \/ UNCHANGED file /\ \E e \in Reader!Event : Window' = Append(Window, e)
            \/ UNCHANGED file /\ Window' \in {Window, <<>>}
            \/ /\ Window' = <<>>
               /\ \A s \in SpanIds : Resolved(s)' = SpanFold(s, Resolved(s), Window)
               /\ \A c \in SpanIds \X Keys : Shown(file, c)' = ValueFold(c, Shown(file, c), Window)
<1>1. ASSUME NEW s \in SpanIds, NEW attrs \in AttrLists \cup {<<>>}, WriteStart(s, attrs)
      PROVE  LogInv' /\ UNCHANGED file /\ \E e \in Reader!Event : Window' = Append(Window, e)
  BY <1>1, StartLog DEF WriteStart
<1>2. ASSUME NEW s \in SpanIds, NEW attrs \in AttrLists, WriteAttrs(s, attrs)
      PROVE  LogInv' /\ UNCHANGED file /\ \E e \in Reader!Event : Window' = Append(Window, e)
  BY <1>2, AttrsLog DEF WriteAttrs
<1>3. ASSUME NEW s \in SpanIds, NEW st \in Statuses, WriteEnd(s, st)
      PROVE  LogInv' /\ UNCHANGED file /\ \E e \in Reader!Event : Window' = Append(Window, e)
  BY <1>3, EndLog DEF WriteEnd
<1>4. CASE FlushBegin \/ FlushKnownName \/ FlushFreshName \/ FlushSpansDone \/ FlushAttr
  <2>1. UNCHANGED file
    BY <1>4 DEF FlushBegin, FlushKnownName, FlushFreshName, FlushSpansDone, FlushAttr
  <2>. QED
    BY <1>4, <2>1, BeginLog, SpanLog, SpansDoneLog, AttrLog
<1>5. CASE Commit
  BY <1>5, CommitLog
<1>6. CASE FlushFails \/ Crash
  BY <1>6, LossLog
<1>7. CASE Close \/ UNCHANGED vars
  BY <1>7, StillLog
<1>. QED
  BY <1>1, <1>2, <1>3, <1>4, <1>5, <1>6, <1>7 DEF Next

\* Every reachable state satisfies both invariants.
LEMMA LogHolds == Spec => [](NamesInv /\ LogInv)
<1>1. LogInv /\ NamesInv /\ [Next]_vars => LogInv'
  BY LogNext
<1>2. Init => LogInv
  BY LogInit
<1>. QED
  BY <1>1, <1>2, NamesHolds, PTL DEF Spec

\* Every variable holds a value of its Go type (write.go:14-33, sqlite.go:82-96).
THEOREM SinkTypeCorrect == Spec => []TypeOK
<1>1. NamesInv /\ LogInv => TypeOK
  <2>. SUFFICES ASSUME NamesInv, LogInv PROVE TypeOK
    OBVIOUS
  <2>1. \A db \in {tx, file} :
           /\ db.names \in Seq(Names)
           /\ db.spans \in [SpanIds -> FileRow \cup {none}]
           /\ \A c \in SpanIds \X Keys : db.attrs[c] = none \/ db.attrs[c] \in Cells
    BY DEF NamesInv, NameTypes, Database, LogInv, LogTypes
  <2>. QED
    BY <2>1 DEF TypeOK, NamesInv, NameTypes, LogInv, LogTypes
<1>. QED
  BY <1>1, LogHolds, PTL

\* A sink closed with no failed flush has told all it heard: every span's last word and
\* the last value of every key, however the flushes cut the events up
\* (write.go:88-92, stats.go:35-39).
THEOREM QuietCorrect == Spec => []QuietMeansComplete
<1>1. LogInv => QuietMeansComplete
  <2>. SUFFICES ASSUME LogInv, pc = "closed", writeErrors = 0 PROVE QuietMeansComplete
    BY DEF QuietMeansComplete
  <2>1. pendingSpans = <<>> /\ pendingAttrs = <<>> /\ AllTold
    BY DEF LogInv
  <2>2. Len(<<>>) = 0 /\ (1..0) = {}
    BY EmptySeq
  <2>3. \A s \in SpanIds : SpanFold(s, none, heard) = Resolved(s)
    BY <2>1, <2>2 DEF AllTold, RowTold
  <2>4. \A c \in SpanIds \X Keys : ValueFold(c, none, heard) = Shown(file, c)
    BY <2>1, <2>2 DEF AllTold, ValueTold, Hits
  <2>5. ASSUME NEW s \in SpanIds
        PROVE  Resolved(s) = FoldLeft(LAMBDA row, e : Reader!SpanAfter(s, row, e), none, heard)
    BY <2>3 DEF SpanFold
  <2>6. ASSUME NEW c \in SpanIds \X Keys
        PROVE  LET given == FoldLeft(LAMBDA value, e : Reader!ValueAfter(c, value, e), none, heard)
               IN  IF file.attrs[c] = none THEN given = none ELSE ReadBack(file.attrs[c]) = given
    BY <2>4 DEF ValueFold, Shown
  <2>. QED
    BY <2>5, <2>6 DEF QuietMeansComplete
<1>. QED
  BY <1>1, LogHolds, PTL

\* The sink implements the trace file: a reader sees whole flush windows, each applied
\* event by event, or lost as a whole by a failed flush or a crash
\* (write.go:35-41, 88-92, 127-140).
THEOREM SinkImplementsTraceFile == Spec => ImplementsTraceFile
<1>. DEFINE rows == [s \in SpanIds |-> Resolved(s)]
            values == [c \in SpanIds \X Keys |-> IF file.attrs[c] = none THEN none
                                                 ELSE ReadBack(file.attrs[c])]
<1>1. Init => Reader!Init
  <2>. SUFFICES ASSUME Init PROVE Reader!Init
    OBVIOUS
  <2>1. Window = <<>>
    BY LogInit
  <2>2. \A s \in SpanIds : Resolved(s) = none
    BY DEF Init, Resolved, EmptyFile
  <2>3. \A c \in SpanIds \X Keys : file.attrs[c] = none
    BY DEF Init, EmptyFile
  <2>. QED
    BY <2>1, <2>2, <2>3 DEF Reader!Init, Window
<1>2. NamesInv /\ LogInv /\ [Next]_vars => [Reader!Next]_(Reader!vars)
  <2>. SUFFICES ASSUME NamesInv, LogInv, [Next]_vars PROVE [Reader!Next]_(Reader!vars)
    OBVIOUS
  <2>1. CASE UNCHANGED file /\ \E e \in Reader!Event : Window' = Append(Window, e)
    <3>1. rows' = rows /\ values' = values
      BY <2>1 DEF Resolved
    <3>2. Reader!Accept
      BY <2>1, <3>1 DEF Reader!Accept, Window
    <3>. QED
      BY <3>2 DEF Reader!Next
  <2>2. CASE UNCHANGED file /\ Window' \in {Window, <<>>}
    <3>1. rows' = rows /\ values' = values
      BY <2>2 DEF Resolved
    <3>. QED
      BY <2>2, <3>1 DEF Reader!Next, Reader!LoseWindow, Reader!vars, Window
  <2>3. CASE /\ Window' = <<>>
             /\ \A s \in SpanIds : Resolved(s)' = SpanFold(s, Resolved(s), Window)
             /\ \A c \in SpanIds \X Keys : Shown(file, c)' = ValueFold(c, Shown(file, c), Window)
    <3>1. rows' = [s \in SpanIds |-> SpanFold(s, rows[s], Window)]
      BY <2>3
    <3>2. values' = [c \in SpanIds \X Keys |-> ValueFold(c, values[c], Window)]
      <4>1. values' = [c \in SpanIds \X Keys |-> Shown(file, c)']
        BY DEF Shown
      <4>2. \A c \in SpanIds \X Keys : values[c] = Shown(file, c)
        BY DEF Shown
      <4>. HIDE DEF values
      <4>. QED
        BY <2>3, <4>1, <4>2
    <3>3. Reader!CommitWindow
      BY <2>3, <3>1, <3>2
         DEF Reader!CommitWindow, Reader!FoldLeft, Reader!MapThenFoldSet, Reader!Max, Max,
             SpanFold, ValueFold, FoldLeft, MapThenFoldSet, Window
    <3>. QED
      BY <3>3 DEF Reader!Next
  <2>. QED
    BY <2>1, <2>2, <2>3, LogNext
<1>. QED
  BY <1>1, <1>2, LogHolds, PTL DEF Spec, ImplementsTraceFile, Reader!Spec
=============================================================================
