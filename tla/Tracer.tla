------------------------------- MODULE Tracer -------------------------------
(***************************************************************************)
(* The tracer core (tracer.go, span.go, writer.go): producer goroutines    *)
(* call Start, SetAttrs, Fail and End; every call that emits an event      *)
(* pushes it through a bounded channel to one writer goroutine, which      *)
(* batches the events into the sink, ticks its Flush, and on Close drains, *)
(* flushes and closes it.                                                  *)
(*                                                                         *)
(* One action is one step between two points where another goroutine can   *)
(* interfere.  A call is split at the load of closed and at the channel    *)
(* operation; the atomic counters a call bumps before its send are one     *)
(* step, because only a Stats() snapshot can see between them.  A call     *)
(* that returns early without a write (End of an ended span, a nil span)   *)
(* is a stuttering step.                                                   *)
(***************************************************************************)
EXTENDS Integers, Sequences, FiniteSets

CONSTANTS
  Producers,         \* goroutines that trace
  Closers,           \* goroutines that call Close, once each
  BufferSize,        \* WithBufferSize: capacity of the events channel
  MaxBatch,          \* maxBatchSize
  Policies,          \* the policies a tracer may be built with: TRUE is WithBlockingPolicy
  Failures,          \* the statuses Fail can record
  HostileContexts,   \* may a caller's context panic, in Value or in Done?
  SinkFaults,        \* how a sink call can fail
  MaxSpans,          \* bound: span IDs ever minted
  MaxAttrs,          \* bound: SetAttrs calls that emit
  MaxFaults          \* bound: failed WriteBatch and Flush calls

ASSUME SizesAssumption ==
  /\ BufferSize \in Nat \ {0}
  /\ MaxBatch \in Nat \ {0}
  /\ MaxSpans \in Nat
  /\ MaxAttrs \in Nat
  /\ MaxFaults \in Nat
ASSUME PolicyAssumption ==
  /\ Policies \subseteq BOOLEAN
  /\ HostileContexts \in BOOLEAN
  /\ SinkFaults \subseteq {"error", "panic"}
  /\ Failures \subseteq {"error", "canceled"}

VARIABLES
  parent,    \* span -> the parent ID it was started with, 0 for a root
  spans,     \* the spans Start has returned to a caller
  ended,     \* the spans whose ended flag is set
  status,    \* span -> SpanStatus
  locked,    \* the spans whose mutex is held
  pc,        \* producer -> where its call stands
  sending,   \* producer -> the event its call is sending
  queue,     \* the events channel
  blockOnQueueFull,  \* the queue policy New was given
  closed,    \* the closed flag
  stop,      \* is the stop channel closed?
  cpc,       \* closer -> where its Close stands
  result,    \* closer -> what its Close returned
  wpc,       \* where the writer goroutine stands
  stopping,  \* has the writer taken the stop branch?
  batch,     \* the events taken from the channel and not yet delivered
  closeErr,  \* the sink's Close error
  stats,     \* the atomic counters and gauges
  stream,    \* history: every event that entered the channel
  handed,    \* history: every event passed to WriteBatch
  audit      \* history: what became of the events the counters do not tell

spanVars == <<parent, spans, ended, status, locked>>
callVars == <<pc, sending>>
controlVars == <<blockOnQueueFull, closed, stop, cpc, result>>
writerVars == <<wpc, stopping, batch, closeErr, handed>>
vars == <<spanVars, callVars, controlVars, writerVars, queue, stats, stream, audit>>

SpanIds == 1..MaxSpans
Statuses == {"ok"} \cup Failures
Outcomes == {"ok"} \cup SinkFaults

Event == [kind : {"none", "start", "attrs", "end"},
          span : 0..MaxSpans, parent : 0..MaxSpans, status : Statuses]
NoEvent == [kind |-> "none", span |-> 0, parent |-> 0, status |-> "ok"]
StartEvent(s, q) == [kind |-> "start", span |-> s, parent |-> q, status |-> "ok"]
AttrsEvent(s) == [kind |-> "attrs", span |-> s, parent |-> 0, status |-> "ok"]

EndsIn(events) == Cardinality({i \in 1..Len(events) : events[i].kind = "end"})

Stats == [started : Nat, completed : Nat, spansInFlight : Int, tracesInFlight : Int,
          dropped : Nat, written : Nat, writeErrors : Nat, summarized : Nat]
NoStats == [started |-> 0, completed |-> 0, spansInFlight |-> 0, tracesInFlight |-> 0,
            dropped |-> 0, written |-> 0, writeErrors |-> 0, summarized |-> 0]

\* attrs: SetAttrs calls that emitted; panics: Starts that panicked; inert: sends
\* that found the tracer closed; forfeited: blocked sends that stop released;
\* spoiled: events of a failed WriteBatch; unflushed: events accepted since the
\* last Flush; closeMark: how many events were in the stream when closed flipped.
Audit == [attrs : Nat, panics : Nat, inert : Nat, forfeited : Nat,
          spoiled : Nat, unflushed : Nat, closeMark : Nat]
NoAudit == [attrs |-> 0, panics |-> 0, inert |-> 0, forfeited |-> 0,
            spoiled |-> 0, unflushed |-> 0, closeMark |-> 0]

Init ==
  /\ parent = [s \in SpanIds |-> 0]
  /\ spans = {}
  /\ ended = {}
  /\ status = [s \in SpanIds |-> "ok"]
  /\ locked = {}
  /\ pc = [p \in Producers |-> "idle"]
  /\ sending = [p \in Producers |-> NoEvent]
  /\ queue = <<>>
  /\ blockOnQueueFull \in Policies
  /\ closed = FALSE
  /\ stop = FALSE
  /\ cpc = [c \in Closers |-> "idle"]
  /\ result = [c \in Closers |-> "none"]
  /\ wpc = "select"
  /\ stopping = FALSE
  /\ batch = <<>>
  /\ closeErr = "nil"
  /\ stats = NoStats
  /\ stream = <<>>
  /\ handed = <<>>
  /\ audit = NoAudit

-----------------------------------------------------------------------------
(* Seeded faults: plausible slips in the operators below, one line each.   *)
(* The specification never uses them; mutation checks put each in the      *)
(* place of the operator it imitates.                                      *)

ContextBeforeSend == 0..stats.started               \* Start hands its context out too early
MutableAfterEnd(s) == s \in spans \ locked          \* no test of ended
UnlockBeforeSend(s) == locked                       \* the mutex is not held over the send
StaleVerdict(s) == [kind |-> "end", span |-> s, parent |-> parent[s], status |-> "ok"]
EveryEndIsRoot(s) == 1                              \* no test of parent == 0
RoomForOneMore == Len(queue) > BufferSize           \* off by one at the capacity
DropUncounted == 0                                  \* Dropped never moves
DoneAtStop == stop                                  \* Close does not wait for the drain
LoopAfterClose == wpc \in {"select", "exit"}         \* run does not return after closeSink
BatchReset(b) == <<Head(queue)>>                    \* drainInto forgets what it holds
CountAccepted(o) == IF o = "ok" THEN EndsIn(batch) ELSE 0
DrainNothing == stopping                            \* the stop branch skips its drain loop

-----------------------------------------------------------------------------
(* Producers: the public calls up to their send                            *)

\* Every caller's context carries a published span or none.
Contexts == spans \cup {0}

\* The mutex is free and ended is unset: SetAttrs, Fail and End may proceed.
Mutable(s) == s \in spans \ (locked \cup ended)

Hold(s) == locked \cup {s}

RootCount(q) == IF q = 0 THEN 1 ELSE 0
EndedRoot(s) == RootCount(parent[s])

EndEvent(s) == [kind |-> "end", span |-> s, parent |-> parent[s], status |-> status[s]]

Call(p, e) ==
  /\ pc' = [pc EXCEPT ![p] = "check"]
  /\ sending' = [sending EXCEPT ![p] = e]

StartSpan(p, q) ==
  LET s == stats.started + 1 IN
  /\ pc[p] = "idle"
  /\ s <= MaxSpans
  /\ stats' = [stats EXCEPT !.started = s, !.spansInFlight = @ + 1,
                            !.tracesInFlight = @ + RootCount(q)]
  /\ parent' = [parent EXCEPT ![s] = q]
  /\ Call(p, StartEvent(s, q))
  /\ UNCHANGED <<spans, ended, status, locked, controlVars, writerVars, queue, stream, audit>>

\* The caller's context panics when FromContext asks it for a value: the guard
\* recovers, Start returns a nil span, and what was counted stays counted.
StartPanics(p) ==
  /\ HostileContexts
  /\ pc[p] = "idle"
  /\ stats.started < MaxSpans
  /\ stats' = [stats EXCEPT !.started = @ + 1, !.spansInFlight = @ + 1]
  /\ audit' = [audit EXCEPT !.panics = @ + 1]
  /\ UNCHANGED <<spanVars, callVars, controlVars, writerVars, queue, stream>>

SetAttrs(p, s) ==
  /\ pc[p] = "idle"
  /\ audit.attrs < MaxAttrs
  /\ Mutable(s)
  /\ locked' = Hold(s)
  /\ audit' = [audit EXCEPT !.attrs = @ + 1]
  /\ Call(p, AttrsEvent(s))
  /\ UNCHANGED <<parent, spans, ended, status, controlVars, writerVars, queue, stats, stream>>

\* Fail stores its verdict under the mutex and emits nothing.
Fail(p, s, v) ==
  /\ pc[p] = "idle"
  /\ Mutable(s)
  /\ status' = [status EXCEPT ![s] = v]
  /\ UNCHANGED <<parent, spans, ended, locked, callVars, controlVars, writerVars, queue,
                 stats, stream, audit>>

End(p, s) ==
  /\ pc[p] = "idle"
  /\ Mutable(s)
  /\ locked' = Hold(s)
  /\ ended' = ended \cup {s}
  /\ stats' = [stats EXCEPT !.completed = @ + 1, !.spansInFlight = @ - 1,
                            !.tracesInFlight = @ - EndedRoot(s)]
  /\ Call(p, EndEvent(s))
  /\ UNCHANGED <<parent, spans, status, controlVars, writerVars, queue, stream, audit>>

-----------------------------------------------------------------------------
(* Producers: send                                                         *)

Published(p) ==
  IF sending[p].kind = "start" THEN spans \cup {sending[p].span} ELSE spans

\* send is back in the public call: Start hands out its span, SetAttrs and End
\* release the mutex their deferred unlock holds.
Return(p) ==
  /\ pc' = [pc EXCEPT ![p] = "idle"]
  /\ sending' = [sending EXCEPT ![p] = NoEvent]
  /\ spans' = Published(p)
  /\ locked' = locked \ {sending[p].span}
  /\ UNCHANGED <<parent, ended, status, controlVars, writerVars>>

SendCheck(p) ==
  /\ pc[p] = "check"
  /\ ~closed
  /\ pc' = [pc EXCEPT ![p] = "select"]
  /\ UNCHANGED <<spanVars, sending, controlVars, writerVars, queue, stats, stream, audit>>

SendInert(p) ==
  /\ pc[p] = "check"
  /\ closed
  /\ audit' = [audit EXCEPT !.inert = @ + 1]
  /\ Return(p)
  /\ UNCHANGED <<queue, stats, stream>>

Full == Len(queue) >= BufferSize

SendEnqueue(p) ==
  /\ pc[p] = "select"
  /\ ~Full
  /\ queue' = Append(queue, sending[p])
  /\ stream' = Append(stream, sending[p])
  /\ Return(p)
  /\ UNCHANGED <<stats, audit>>

DefaultArm == ~blockOnQueueFull /\ Full
StopArm == blockOnQueueFull /\ stop
DropCount == 1

SendDrop(p) ==
  /\ pc[p] = "select"
  /\ DefaultArm
  /\ stats' = [stats EXCEPT !.dropped = @ + DropCount]
  /\ Return(p)
  /\ UNCHANGED <<queue, stream, audit>>

\* Close's escape hatch for a blocked producer: its event is lost.  With room in
\* the channel and stop closed, select takes either arm.
SendStopped(p) ==
  /\ pc[p] = "select"
  /\ StopArm
  /\ audit' = [audit EXCEPT !.forfeited = @ + 1]
  /\ Return(p)
  /\ UNCHANGED <<queue, stats, stream>>

SendStep(p) ==
  SendCheck(p) \/ SendInert(p) \/ SendEnqueue(p) \/ SendDrop(p) \/ SendStopped(p)

-----------------------------------------------------------------------------
(* Closers: Close                                                          *)

\* Only the Close whose compare-and-swap flips closed goes on to close stop.
AfterFlip == IF closed THEN "wait" ELSE "stop"

CloseBegin(c) ==
  /\ cpc[c] = "idle"
  /\ cpc' = [cpc EXCEPT ![c] = AfterFlip]
  /\ closed' = TRUE
  /\ audit' = [audit EXCEPT !.closeMark = IF closed THEN @ ELSE Len(stream)]
  /\ UNCHANGED <<spanVars, callVars, blockOnQueueFull, stop, result, writerVars, queue, stats, stream>>

CloseStop(c) ==
  /\ cpc[c] = "stop"
  /\ stop' = TRUE
  /\ cpc' = [cpc EXCEPT ![c] = "wait"]
  /\ UNCHANGED <<spanVars, callVars, blockOnQueueFull, closed, result, writerVars, queue, stats,
                 stream, audit>>

CloseReturns(c, how, r) ==
  /\ cpc[c] = "wait"
  /\ cpc' = [cpc EXCEPT ![c] = how]
  /\ result' = [result EXCEPT ![c] = r]
  /\ UNCHANGED <<spanVars, callVars, blockOnQueueFull, closed, stop, writerVars, queue, stats,
                 stream, audit>>

DoneClosed == wpc = "done"

CloseDone(c) == DoneClosed /\ CloseReturns(c, "returned", closeErr)
CloseExpire(c) == CloseReturns(c, "returned", "ctxErr")

\* The context is nil or panics when select asks for its Done channel: the guard
\* recovers, and Close returns the zero error wherever the drain is.
ClosePanics(c) == HostileContexts /\ CloseReturns(c, "recovered", "nil")

CloseStep(c) == CloseStop(c) \/ CloseDone(c) \/ CloseExpire(c) \/ ClosePanics(c)

-----------------------------------------------------------------------------
(* The writer goroutine: run                                               *)

AtSelect == wpc = "select"

\* The main select and the drain loop after stop both take one event, then
\* drainInto tops the batch up.
Receive ==
  /\ AtSelect
  /\ queue # <<>>
  /\ batch' = <<Head(queue)>>
  /\ queue' = Tail(queue)
  /\ wpc' = "drain"
  /\ UNCHANGED <<spanVars, callVars, controlVars, stopping, closeErr, handed, stats, stream, audit>>

Grown(b) == Append(b, Head(queue))

DrainOne ==
  /\ wpc = "drain"
  /\ Len(batch) < MaxBatch
  /\ queue # <<>>
  /\ batch' = Grown(batch)
  /\ queue' = Tail(queue)
  /\ UNCHANGED <<spanVars, callVars, controlVars, wpc, stopping, closeErr, handed, stats, stream, audit>>

DrainDone ==
  /\ wpc = "drain"
  /\ Len(batch) >= MaxBatch \/ queue = <<>>
  /\ wpc' = "deliver"
  /\ UNCHANGED <<spanVars, callVars, controlVars, stopping, batch, closeErr, handed, queue, stats,
                 stream, audit>>

Accepted(o) == IF o = "ok" THEN Len(batch) ELSE 0
FaultCount(o) == IF o = "ok" THEN 0 ELSE 1
WithinBudget(o) == stats.writeErrors + FaultCount(o) <= MaxFaults

\* recordCompletedSpans folds the batch into the summaries before the sink sees it.
CompletedIn(o) == EndsIn(batch)

Deliver(o) ==
  /\ wpc = "deliver"
  /\ WithinBudget(o)
  /\ handed' = handed \o batch
  /\ batch' = <<>>
  /\ stats' = [stats EXCEPT !.summarized = @ + CompletedIn(o),
                            !.written = @ + Accepted(o),
                            !.writeErrors = @ + FaultCount(o)]
  /\ audit' = [audit EXCEPT !.spoiled = @ + (Len(batch) - Accepted(o)),
                            !.unflushed = @ + Accepted(o)]
  /\ wpc' = "select"
  /\ UNCHANGED <<spanVars, callVars, controlVars, stopping, closeErr, queue, stream>>

\* A failed Flush loses what the sink buffered and says so in WriteErrors.
FlushSink(o) ==
  /\ WithinBudget(o)
  /\ stats' = [stats EXCEPT !.writeErrors = @ + FaultCount(o)]
  /\ audit' = [audit EXCEPT !.unflushed = 0]
  /\ UNCHANGED <<spanVars, callVars, controlVars, stopping, batch, closeErr, handed, queue, stream>>

TickArm == AtSelect /\ ~stopping

FlushTick(o) ==
  /\ TickArm
  /\ FlushSink(o)
  /\ UNCHANGED wpc

SeeStop ==
  /\ AtSelect
  /\ ~stopping
  /\ stop
  /\ stopping' = TRUE
  /\ UNCHANGED <<spanVars, callVars, controlVars, wpc, batch, closeErr, handed, queue, stats,
                 stream, audit>>

\* The drain loop's default arm: nothing is queued any more.
Drained == stopping /\ queue = <<>>

FinalFlush(o) ==
  /\ AtSelect
  /\ Drained
  /\ FlushSink(o)
  /\ wpc' = "close"

ErrorOf(o) == IF o = "error" THEN "sinkErr" ELSE "nil"

\* A panic in the sink's Close is a write error and leaves closeErr nil.
CloseSink(o) ==
  /\ wpc = "close"
  /\ closeErr' = ErrorOf(o)
  /\ stats' = [stats EXCEPT !.writeErrors = @ + (IF o = "panic" THEN 1 ELSE 0)]
  /\ wpc' = "exit"
  /\ UNCHANGED <<spanVars, callVars, controlVars, stopping, batch, handed, queue, stream, audit>>

Exit ==
  /\ wpc = "exit"
  /\ wpc' = "done"
  /\ UNCHANGED <<spanVars, callVars, controlVars, stopping, batch, closeErr, handed, queue, stats,
                 stream, audit>>

WriterStep ==
  \/ Receive \/ DrainOne \/ DrainDone \/ SeeStop \/ Exit
  \/ \E o \in Outcomes : Deliver(o) \/ FinalFlush(o) \/ CloseSink(o)

-----------------------------------------------------------------------------
\* A traced program ends with every call back and the writer gone.
Quiet ==
  /\ wpc = "done"
  /\ \A p \in Producers : pc[p] = "idle"
  /\ \A c \in Closers : cpc[c] \in {"returned", "recovered"}

Finished == Quiet /\ UNCHANGED vars

Next ==
  \/ \E p \in Producers :
       \/ \E q \in Contexts : StartSpan(p, q)
       \/ StartPanics(p)
       \/ \E s \in spans : SetAttrs(p, s) \/ End(p, s) \/ (\E v \in Failures : Fail(p, s, v))
       \/ SendStep(p)
  \/ \E c \in Closers : CloseBegin(c) \/ CloseStep(c)
  \/ WriterStep
  \/ \E o \in Outcomes : FlushTick(o)
  \/ Finished

Spec == Init /\ [][Next]_vars

-----------------------------------------------------------------------------
(* Type invariant                                                          *)

\* Every variable holds a value of its Go type; the channel never holds more
\* than its capacity and a batch never more than maxBatchSize.
TypeOK ==
  /\ parent \in [SpanIds -> 0..MaxSpans]
  /\ spans \subseteq SpanIds
  /\ ended \subseteq SpanIds
  /\ status \in [SpanIds -> Statuses]
  /\ locked \subseteq SpanIds
  /\ pc \in [Producers -> {"idle", "check", "select"}]
  /\ sending \in [Producers -> Event]
  /\ \A p \in Producers : pc[p] # "idle" => sending[p].span \in SpanIds
  /\ queue \in Seq(Event) /\ Len(queue) <= BufferSize
  /\ blockOnQueueFull \in Policies
  /\ closed \in BOOLEAN
  /\ stop \in BOOLEAN
  /\ cpc \in [Closers -> {"idle", "stop", "wait", "returned", "recovered"}]
  /\ result \in [Closers -> {"none", "nil", "sinkErr", "ctxErr"}]
  /\ wpc \in {"select", "drain", "deliver", "close", "exit", "done"}
  /\ stopping \in BOOLEAN
  /\ batch \in Seq(Event) /\ Len(batch) <= MaxBatch
  /\ closeErr \in {"nil", "sinkErr"}
  /\ stats \in Stats /\ stats.started <= MaxSpans
  /\ stream \in Seq(Event)
  /\ handed \in Seq(Event)
  /\ audit \in Audit

-----------------------------------------------------------------------------
(* Order                                                                   *)

\* The single writer neither loses, repeats nor reorders what entered the
\* channel: run, drainInto and writeBatch hand the sink the stream in order.
FIFO == stream = handed \o batch \o queue

\* Per-span event order is strict (span.go:71-76, 135-138): whatever goroutines
\* call SetAttrs and End concurrently, nothing follows a span's end event and
\* nothing precedes its start event; in particular each occurs at most once.
PerSpanOrder ==
  \A i, j \in 1..Len(stream) :
    i < j /\ stream[i].span = stream[j].span
      => stream[i].kind # "end" /\ stream[j].kind # "start"

\* A child names its parent only after the parent's Start returned, so a sink
\* that sees both start events sees the parent's first (tracer.go:262-282).
ParentFirst ==
  \A i, j \in 1..Len(stream) :
    i < j => ~(stream[j].kind = "start" /\ stream[j].span = stream[i].parent)

\* The last Fail before End wins and nothing changes it afterwards: the verdict
\* in an end event is the span's status for good (span.go:115-119).
Verdict ==
  \A i \in 1..Len(stream) :
    stream[i].kind = "end" => /\ stream[i].span \in ended
                             /\ stream[i].status = status[stream[i].span]

-----------------------------------------------------------------------------
(* Accounting                                                              *)

\* The gauges count exactly the spans, and the root spans, that are open: those a
\* Start call is sending or has returned and whose End has not run (stats.go:31-32),
\* whatever was dropped or closed.  A Start that panicked leaks one for good.
Minted == spans \cup {sending[p].span : p \in {r \in Producers : sending[r].kind = "start"}}
GaugesExact ==
  /\ stats.spansInFlight = Cardinality(Minted \ ended) + audit.panics
  /\ stats.tracesInFlight = Cardinality({s \in Minted \ ended : parent[s] = 0})
  /\ stats.completed = Cardinality(ended)

\* Every event a call set out to send has exactly one fate: with the caller, in
\* the channel, in the batch, written, in a failed batch, dropped, a no-op after
\* Close, or released by Close from a blocked send.
SendsBegun == (stats.started - audit.panics) + audit.attrs + stats.completed
EveryEventHasOneFate ==
  SendsBegun = Cardinality({p \in Producers : pc[p] # "idle"})
               + Len(queue) + Len(batch) + stats.written + audit.spoiled
               + stats.dropped + audit.inert + audit.forfeited

\* The in-memory summaries count each completed span once, as its end event
\* reaches the sink, whether or not the sink accepts it (writer.go:37-38).
SummaryIndependentOfSink == stats.summarized = EndsIn(handed)

-----------------------------------------------------------------------------
(* Shutdown                                                                *)

\* A graceful Close loses nothing: once the sink's Close is next, everything
\* that was in the channel when closed flipped has been handed to the sink, and
\* the sink was flushed after the last batch it accepted (writer.go:41-56).
CloseDelivers ==
  wpc \in {"close", "exit", "done"} =>
    /\ Len(handed) >= audit.closeMark
    /\ audit.unflushed = 0
    /\ batch = <<>>

\* However many goroutines call Close, those that returned by themselves before their
\* context expired all report the same completion, the error of the sink's one Close,
\* after the writer is gone (tracer.go:187-197).  Every Close, one whose context
\* panicked too, has set the shutdown going: stop is closed, or the one that flipped
\* closed is about to close it.
CloseAgrees ==
  /\ \A c \in Closers : cpc[c] = "returned" /\ result[c] # "ctxErr" =>
       wpc = "done" /\ result[c] = closeErr
  /\ \A c \in Closers : cpc[c] # "idle" => closed
  /\ closed => stop \/ \E c \in Closers : cpc[c] = "stop"

\* The sink is closed once, by the writer, and not used after that: no delivery,
\* no flush and no second close once run reached closeSink (sink.go:45-65).
SinkLeftAlone ==
  /\ wpc' \in {"exit", "done"}
  /\ UNCHANGED <<handed, closeErr, audit.unflushed, stats.writeErrors>>
SinkUntouchedAfterClose == [][(wpc \in {"exit", "done"}) => SinkLeftAlone]_vars
=============================================================================
