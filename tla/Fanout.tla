------------------------------- MODULE Fanout -------------------------------
(***************************************************************************)
(* A fan-out with the log sink among its members, as the demo command sets *)
(* it up (MultiSink(SlogSink(logger), sink)).  The member at Slog is       *)
(* SlogSink, the others are any sinks; the batches are those of a tracer   *)
(* that keeps the order of each span's events and may lose any of them.    *)
(***************************************************************************)
EXTENDS MultiSink

CONSTANTS
  Slog,      \* the log sink's place among the members
  MaxOpen,   \* its cap
  MaxEvents  \* bound: events delivered

Events == UNION {{b[i] : i \in DOMAIN b} : b \in Batches}

ASSUME FanoutAssumption ==
  /\ Slog \in Sinks
  /\ MaxOpen \in Nat
  /\ MaxEvents \in Nat
  /\ \A b \in Batches : b \in Seq(Events)
  \* An end carries no attributes (sink.go:35).
  /\ \A e \in Events : e.attrs \in Seq(Range(e.attrs)) /\ (e.kind = "end" => e.attrs = <<>>)

VARIABLES
  delivered,                               \* history: the events of the batches so far
  read,                                    \* how far the log sink's loop is in the batch
  open, records, heard, crowded, panicked  \* the log sink

Logger == INSTANCE SlogSink

slogVars == <<open, records, heard, crowded, panicked>>
logVars == <<read, slogVars>>
vars == <<multiVars, delivered, logVars>>

FanoutInit == Init /\ delivered = <<>> /\ read = 0 /\ Logger!Init

-----------------------------------------------------------------------------
\* Losses leave gaps, never another order: a span's start comes first, its end last.
InOrder(stream) ==
  \A i, j \in DOMAIN stream : i < j /\ stream[i].span = stream[j].span =>
    stream[i].kind # "end" /\ stream[j].kind # "start"

Deliver(b) ==
  /\ Len(delivered) + Len(b) <= MaxEvents
  /\ delivered' = delivered \o b
  /\ InOrder(delivered')
  /\ WriteBatch(b)
  /\ UNCHANGED logVars

FlushAll == Flush /\ UNCHANGED <<delivered, logVars>>
CloseAll == Close /\ UNCHANGED <<delivered, logVars>>

OtherReturns(outcome) == at # Slog /\ MemberReturns(outcome) /\ UNCHANGED <<delivered, logVars>>
OtherPanics == at # Slog /\ MemberPanics /\ UNCHANGED <<delivered, logVars>>

-----------------------------------------------------------------------------
(* The log sink's turn                                                     *)

Batch == calls[Len(calls)].batch
InLoop == op = "write" /\ at = Slog /\ read < Len(Batch)
Event == Batch[read + 1]

SlogEvent ==
  /\ InLoop
  /\ Logger!Track(Event) \/ Logger!TrackNew(Event) \/ Logger!Crowd(Event) \/ Logger!Emit(Event)
  /\ read' = read + 1
  /\ UNCHANGED <<multiVars, delivered>>

SlogPanics ==
  /\ InLoop
  /\ Logger!LoggerPanics(Event)
  /\ MemberPanics
  /\ read' = 0
  /\ UNCHANGED delivered

\* The log sink never returns an error; its Flush is a no-op.
SlogReturns ==
  /\ op = "write" /\ at = Slog /\ read = Len(Batch)
  /\ MemberReturns("ok")
  /\ read' = 0
  /\ UNCHANGED <<delivered, slogVars>>

SlogFlush == op = "flush" /\ at = Slog /\ MemberReturns("ok") /\ UNCHANGED <<delivered, logVars>>

SlogClose ==
  /\ op = "close" /\ at = Slog
  /\ MemberReturns("ok")
  /\ Logger!Close
  /\ UNCHANGED <<delivered, read>>

ReturnAll == Return /\ UNCHANGED <<delivered, logVars>>

FanoutNext ==
  \/ \E b \in Batches : Deliver(b)
  \/ FlushAll
  \/ CloseAll
  \/ \E outcome \in {"ok", "error"} : OtherReturns(outcome)
  \/ OtherPanics
  \/ SlogEvent
  \/ SlogPanics
  \/ SlogReturns
  \/ SlogFlush
  \/ SlogClose
  \/ ReturnAll

FanoutSpec == FanoutInit /\ [][FanoutNext]_vars

-----------------------------------------------------------------------------
(* Properties of the log sink, among the other members                     *)

RecordFaithful == Logger!RecordFaithful
OpenIsBounded == Logger!OpenIsBounded

EndsOf(C) == UNION {{calls[i].batch[k].span : k \in {j \in DOMAIN calls[i].batch :
                                                       calls[i].batch[j].kind = "end"}} : i \in C}

\* The log follows the delivery: a record for each end in a batch the log sink took
\* without a panic, whatever the members beside it did and whether or not the span's
\* other events arrived; none for a span without such an end except in a batch on
\* which the logger panicked; never two for a span (slog_sink.go:86-88).
LogFollowsDelivery ==
  op = "none" =>
    LET how(outcome) == {i \in Writes : outcome \in Outcomes(Slog, i)}
        logged == {records[i].span : i \in DOMAIN records}
    IN  /\ Logger!OneRecordPerEnd
        /\ EndsOf(how("ok")) \subseteq logged
        /\ logged \subseteq EndsOf(how("ok")) \cup EndsOf(how("panic"))
=============================================================================
