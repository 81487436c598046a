------------------------------ MODULE SlogSink ------------------------------
(***************************************************************************)
(* The log sink (slog_sink.go): one record per finished span, with the     *)
(* span's own attributes and then, merged, those its start and attrs       *)
(* events carried.  WriteBatch handles the events of a batch one after the *)
(* other; an action is the body of that loop for one event.  The logger is *)
(* user code: LogAttrs may panic, before or after the record is out.       *)
(***************************************************************************)
EXTENDS Integers, Sequences, FiniteSets, SequencesExt

CONSTANT MaxOpen   \* maxOpenSlogSpans

VARIABLES
  open,      \* span -> the attributes its events carried so far
  records,   \* what the logger got
  heard,     \* history: the events the loop has handled
  crowded,   \* history: the spans with an event that found the map full
  panicked   \* history: the spans whose record made the logger panic

slogVars == <<open, records, heard, crowded, panicked>>

Init ==
  /\ open = [s \in {} |-> <<>>]
  /\ records = <<>>
  /\ heard = <<>>
  /\ crowded = {}
  /\ panicked = {}

-----------------------------------------------------------------------------
(* Seeded faults, used by mutation checks only                             *)

Stranded(s) == open
StartedOnly(e) ==
  IF e.span \in DOMAIN open THEN Append(records, [span |-> e.span, attrs |-> open[e.span]])
  ELSE records
FirstWins(attrs) ==
  FoldLeft(LAMBDA merged, attr :
             IF \E i \in DOMAIN merged : merged[i].key = attr.key THEN merged
             ELSE Append(merged, attr),
           <<>>, attrs)

-----------------------------------------------------------------------------
(* WriteBatch, for one event                                               *)

Hear(e) == heard' = Append(heard, e)

Track(e) ==
  /\ e.kind \in {"start", "attrs"}
  /\ e.span \in DOMAIN open
  /\ Hear(e)
  /\ open' = [open EXCEPT ![e.span] = @ \o e.attrs]
  /\ UNCHANGED <<records, crowded, panicked>>

AtCap == Cardinality(DOMAIN open) >= MaxOpen

TrackNew(e) ==
  /\ e.kind \in {"start", "attrs"}
  /\ e.span \notin DOMAIN open
  /\ ~AtCap
  /\ Hear(e)
  /\ open' = [r \in DOMAIN open \cup {e.span} |-> IF r = e.span THEN e.attrs ELSE open[r]]
  /\ UNCHANGED <<records, crowded, panicked>>

Crowd(e) ==
  /\ e.kind \in {"start", "attrs"}
  /\ e.span \notin DOMAIN open
  /\ AtCap
  /\ Hear(e)
  /\ crowded' = crowded \cup {e.span}
  /\ UNCHANGED <<open, records, panicked>>

\* Each key keeps the place of its first appearance and takes its last value.
mergeLastWins(attrs) ==
  FoldLeft(LAMBDA merged, attr :
             IF \E i \in DOMAIN merged : merged[i].key = attr.key
             THEN [i \in DOMAIN merged |-> IF merged[i].key = attr.key THEN attr ELSE merged[i]]
             ELSE Append(merged, attr),
           <<>>, attrs)

\* The attributes emit puts first come from the end event, outside the merge: a user
\* attribute with the key of one of them follows it in the record.
Field(k, v) == [key |-> k, val |-> v]
Fixed(e) ==
  <<Field("span_id", e.span), Field("trace_id", e.trace),
    Field("duration", e.duration), Field("status", e.status)>>
  \o (IF e.error = "" THEN <<>> ELSE <<Field("error", e.error)>>)

Record(e) ==
  [span |-> e.span,
   attrs |-> Fixed(e) \o (IF e.span \in DOMAIN open THEN mergeLastWins(open[e.span]) ELSE <<>>)]

Logged(e) == Append(records, Record(e))
Closed(s) == [r \in DOMAIN open \ {s} |-> open[r]]

Emit(e) ==
  /\ e.kind = "end"
  /\ Hear(e)
  /\ records' = Logged(e)
  /\ open' = Closed(e.span)
  /\ UNCHANGED <<crowded, panicked>>

\* The panic unwinds past the delete and past the rest of the batch.
LoggerPanics(e) ==
  /\ e.kind = "end"
  /\ Hear(e)
  /\ records' \in {records, Logged(e)}
  /\ panicked' = panicked \cup {e.span}
  /\ UNCHANGED <<open, crowded>>

\* Close discards the open spans.
Close ==
  /\ open' = [s \in {} |-> <<>>]
  /\ UNCHANGED <<records, heard, crowded, panicked>>

-----------------------------------------------------------------------------
(* Properties                                                              *)

\* What the program handed to the sink for a span, in order.
Handed(s) == FlattenSeq([i \in DOMAIN heard |->
                           IF heard[i].span = s THEN heard[i].attrs ELSE <<>>])
KeysOf(attrs) == {attrs[i].key : i \in DOMAIN attrs}
LastOf(attrs, k) == attrs[CHOOSE i \in DOMAIN attrs : attrs[i].key = k
                            /\ \A j \in DOMAIN attrs : attrs[j].key = k => j <= i]
FirstAt(attrs, k) == CHOOSE i \in DOMAIN attrs : attrs[i].key = k
                       /\ \A j \in DOMAIN attrs : attrs[j].key = k => i <= j

\* attrs has each key once, with the last value handed for it, and, when the map always
\* had room, every key, in the order of their first appearance.
Merges(attrs, handed, whole) ==
  /\ \A i, j \in DOMAIN attrs : attrs[i].key = attrs[j].key => i = j
  /\ \A i \in DOMAIN attrs : attrs[i] = LastOf(handed, attrs[i].key)
  /\ whole =>
       /\ KeysOf(attrs) = KeysOf(handed)
       /\ \A i, j \in DOMAIN attrs :
            i < j => FirstAt(handed, attrs[i].key) < FirstAt(handed, attrs[j].key)

\* A record is the span's own attributes, as an end event handled for it says, and after
\* them the user's: each user key once, with the last value handed for it, even when the
\* map was full for a part of the span's life; when it never was, every user key, in the
\* order of their first appearance (slog_sink.go:90-98, 114-116).  Nothing is said of a
\* user key that is also one of the span's own: the record has both.
RecordFaithful ==
  \A n \in DOMAIN records : \E i \in DOMAIN heard :
    LET own == Fixed(heard[i])
        line == records[n].attrs
        rest == SubSeq(line, Len(own) + 1, Len(line))
        s == records[n].span
    IN  /\ heard[i].kind = "end" /\ heard[i].span = s
        /\ line = own \o rest
        /\ Merges(rest, Handed(s), s \notin crowded)

Ended == {heard[i].span : i \in {j \in DOMAIN heard : heard[j].kind = "end"}}

\* The open map never outgrows its cap, and holds no span whose end was handled
\* (slog_sink.go:29-36), unless the logger panicked on it.
OpenIsBounded ==
  /\ Cardinality(DOMAIN open) <= MaxOpen
  /\ DOMAIN open \cap Ended \subseteq panicked

\* One record for each end the sink handled, whether or not a start came before it,
\* and none for any other span; a logger that panicked has at most the one.
OneRecordPerEnd ==
  /\ \A i, j \in DOMAIN records : records[i].span = records[j].span => i = j
  /\ LET logged == {records[i].span : i \in DOMAIN records}
     IN  Ended \ panicked \subseteq logged /\ logged \subseteq Ended
=============================================================================
