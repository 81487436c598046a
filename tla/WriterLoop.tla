----------------------------- MODULE WriterLoop -----------------------------
(***************************************************************************)
(* The channel, its producers, Close and the writer goroutine under a load *)
(* that never ends (tracer.go:179-200, 330-356, writer.go:19-76): Tracer   *)
(* with events that are all alike and without its counters and histories.  *)
(* What is left is finite although the calls never stop, so TLC can ask    *)
(* here what the bounded runs of Tracer cannot: whether calls, the flush   *)
(* tick and the drain get their turn while the channel always has another  *)
(* event.  Tracer implements this specification.                           *)
(***************************************************************************)
EXTENDS Integers

CONSTANTS
  Producers,   \* goroutines that trace
  Closers,     \* goroutines that call Close
  BufferSize,  \* WithBufferSize
  MaxBatch,    \* maxBatchSize
  Policies     \* the policies a tracer may be built with: TRUE is WithBlockingPolicy

VARIABLES
  pc,                \* producer -> where its call stands
  blockOnQueueFull,  \* the queue policy
  queued,            \* how many events the channel holds
  closed,            \* the closed flag
  cpc,               \* closer -> where its Close stands
  stop,              \* is the stop channel closed?
  wpc,               \* where the writer stands
  stopping,          \* has it taken the stop branch?
  held,              \* how many events its batch holds
  unflushed          \* has the sink accepted events since the last Flush?

sendVars == <<pc, queued>>
closeVars == <<blockOnQueueFull, closed, cpc, stop>>
loopVars == <<wpc, stopping, held, unflushed>>
vars == <<sendVars, closeVars, loopVars>>

Init ==
  /\ pc = [p \in Producers |-> "idle"]
  /\ blockOnQueueFull \in Policies
  /\ queued = 0
  /\ closed = FALSE
  /\ cpc = [c \in Closers |-> "idle"]
  /\ stop = FALSE
  /\ wpc = "select"
  /\ stopping = FALSE
  /\ held = 0
  /\ unflushed = FALSE

-----------------------------------------------------------------------------
(* Seeded faults, used by mutation checks only                             *)

TickWhenIdle == wpc = "select" /\ ~stopping /\ queued = 0   \* events first, the tick if there are none
AlwaysLive == TRUE                                           \* send does not look at closed
BlockingArm == FALSE                                         \* the non-blocking select blocks
NoStopArm == FALSE                                           \* a blocked send ignores Close

-----------------------------------------------------------------------------
(* Producers: any call that emits                                          *)

MoveTo(p, place) == pc' = [pc EXCEPT ![p] = place]

Call(p) == pc[p] = "idle" /\ MoveTo(p, "check") /\ UNCHANGED <<queued, closeVars, loopVars>>

Live == ~closed

Check(p) ==
  /\ pc[p] = "check"
  /\ MoveTo(p, IF Live THEN "select" ELSE "idle")
  /\ UNCHANGED <<queued, closeVars, loopVars>>

Enqueue(p) ==
  /\ pc[p] = "select"
  /\ queued < BufferSize
  /\ queued' = queued + 1
  /\ MoveTo(p, "idle")
  /\ UNCHANGED <<closeVars, loopVars>>

DefaultArm == ~blockOnQueueFull /\ queued >= BufferSize
StopArm == blockOnQueueFull /\ stop

\* Dropped at a full channel, or released by stop.
GiveUp(p) ==
  /\ pc[p] = "select"
  /\ DefaultArm \/ StopArm
  /\ MoveTo(p, "idle")
  /\ UNCHANGED <<queued, closeVars, loopVars>>

SendStep(p) == Check(p) \/ Enqueue(p) \/ GiveUp(p)

-----------------------------------------------------------------------------
(* Close                                                                   *)

\* Only the Close that flips closed goes on to close stop.
AfterFlip == IF closed THEN "wait" ELSE "stop"

CloseBegin(c) ==
  /\ cpc[c] = "idle"
  /\ cpc' = [cpc EXCEPT ![c] = AfterFlip]
  /\ closed' = TRUE
  /\ UNCHANGED <<sendVars, blockOnQueueFull, stop, loopVars>>

CloseStop(c) ==
  /\ cpc[c] = "stop"
  /\ stop' = TRUE
  /\ cpc' = [cpc EXCEPT ![c] = "wait"]
  /\ UNCHANGED <<sendVars, blockOnQueueFull, closed, loopVars>>

CloseReturns(c, how) ==
  /\ cpc[c] = "wait"
  /\ cpc' = [cpc EXCEPT ![c] = how]
  /\ UNCHANGED <<sendVars, blockOnQueueFull, closed, stop, loopVars>>

CloseDone(c) == wpc = "done" /\ CloseReturns(c, "returned")

\* The context expires, or it panics and the guard recovers.
CloseEarly(c) == \E how \in {"returned", "recovered"} : CloseReturns(c, how)

-----------------------------------------------------------------------------
(* The writer: run                                                         *)

Receive ==
  /\ wpc = "select"
  /\ queued > 0
  /\ queued' = queued - 1
  /\ held' = 1
  /\ wpc' = "drain"
  /\ UNCHANGED <<pc, closeVars, stopping, unflushed>>

DrainOne ==
  /\ wpc = "drain"
  /\ held < MaxBatch
  /\ queued > 0
  /\ queued' = queued - 1
  /\ held' = held + 1
  /\ UNCHANGED <<pc, closeVars, wpc, stopping, unflushed>>

\* The cap brings drainInto back to the select while producers keep the channel full.
DrainDone ==
  /\ wpc = "drain"
  /\ held >= MaxBatch \/ queued = 0
  /\ wpc' = "deliver"
  /\ UNCHANGED <<sendVars, closeVars, stopping, held, unflushed>>

Deliver(accepted) ==
  /\ wpc = "deliver"
  /\ held' = 0
  /\ unflushed' = (unflushed \/ accepted)
  /\ wpc' = "select"
  /\ UNCHANGED <<sendVars, closeVars, stopping>>

TickArm == wpc = "select" /\ ~stopping

FlushTick ==
  /\ TickArm
  /\ unflushed' = FALSE
  /\ UNCHANGED <<sendVars, closeVars, wpc, stopping, held>>

SeeStop ==
  /\ wpc = "select"
  /\ ~stopping
  /\ stop
  /\ stopping' = TRUE
  /\ UNCHANGED <<sendVars, closeVars, wpc, held, unflushed>>

FinalFlush ==
  /\ wpc = "select"
  /\ stopping
  /\ queued = 0
  /\ unflushed' = FALSE
  /\ wpc' = "close"
  /\ UNCHANGED <<sendVars, closeVars, stopping, held>>

CloseSink ==
  /\ wpc = "close"
  /\ wpc' = "exit"
  /\ UNCHANGED <<sendVars, closeVars, stopping, held, unflushed>>

Exit ==
  /\ wpc = "exit"
  /\ wpc' = "done"
  /\ UNCHANGED <<sendVars, closeVars, stopping, held, unflushed>>

WriterStep ==
  \/ Receive \/ DrainOne \/ DrainDone \/ SeeStop \/ FinalFlush \/ CloseSink \/ Exit
  \/ \E accepted \in BOOLEAN : Deliver(accepted)

-----------------------------------------------------------------------------
Next ==
  \/ \E p \in Producers : Call(p) \/ SendStep(p)
  \/ \E c \in Closers : CloseBegin(c) \/ CloseStop(c) \/ CloseDone(c) \/ CloseEarly(c)
  \/ WriterStep \/ FlushTick

Spec == Init /\ [][Next]_vars

(* Goroutines that can run do run.  A channel serves its blocked senders   *)
(* in order, so a sender for whom room comes up again and again gets it.   *)
(* Nobody is obliged to call, to stop calling or to close, no context to   *)
(* expire, and no call of the sink to return.                              *)
ProducersRun == \A p \in Producers : SF_vars(SendStep(p))
ClosersRun == \A c \in Closers : WF_vars(CloseStop(c) \/ CloseDone(c))

FairSpec == Spec /\ ProducersRun /\ ClosersRun

(* What a sink whose calls return adds: the writer runs, and gets its      *)
(* ticks.  The ticker fires for ever and keeps a tick until it is taken,   *)
(* and select picks among its ready arms at random: an arm that is ready   *)
(* again and again, though never while a batch is in hand, is taken.       *)
SinkReturns == WF_vars(WriterStep) /\ SF_vars(FlushTick)

-----------------------------------------------------------------------------
(* Properties                                                              *)

\* Under the default policy a call returns even when the sink hangs and nobody closes;
\* under WithBlockingPolicy it needs a sink that returns, and gets its place in the
\* channel however many others call (tracer.go:342-353, 62-64).
CallsReturn ==
  (blockOnQueueFull => SinkReturns) => \A p \in Producers : pc[p] # "idle" ~> pc[p] = "idle"

\* A producer blocked on a full buffer never outlives Close, even when the sink
\* hangs and the drain never ends (tracer.go:338-346).
CloseReleasesCallers == \A p \in Producers : closed /\ pc[p] # "idle" ~> pc[p] = "idle"

\* Once Close was called the writer drains, closes the sink and exits although callers
\* never stop calling, for past closed they add nothing; and every Close returns
\* (writer.go:41-57, tracer.go:189-199).
CloseCompletes ==
  SinkReturns => /\ closed ~> wpc = "done"
                 /\ \A c \in Closers : cpc[c] # "idle" ~> cpc[c] \in {"returned", "recovered"}

\* What the sink accepted is flushed, by a tick or by Close, although producers may
\* keep the channel's arm of the select ready for ever (writer.go:32-40, 54).
AcceptedIsFlushed == SinkReturns => (unflushed ~> ~unflushed)
=============================================================================
