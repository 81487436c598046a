------------------------------- MODULE Spans --------------------------------
(***************************************************************************)
(* The bookkeeping of Start, Track and End (tracer.go, span.go), step by   *)
(* atomic step, with Stats readers in between (stats.go).  A new span      *)
(* finds its parent in a context.  A call runs on any tracer: a program    *)
(* holds tracers, and its package-level calls run on the default tracer,   *)
(* which SetDefault may replace while spans are open.  Track is a Start    *)
(* whose context nobody uses; the closer it returns is End.  What the      *)
(* events of a span go through is module Tracer.                           *)
(***************************************************************************)
EXTENDS Integers, Sequences, FiniteSets, Functions

CONSTANTS
  Tracers,          \* the tracers of the program
  Producers,        \* goroutines that trace
  None,             \* no tracer
  Cadence,          \* WithOverheadSampling
  Costs,            \* what the clock can measure for one Start and End, in ns
  HostileContexts,  \* may a caller's context panic in Value?
  MaxWork           \* bound: twice the Starts and the Stats calls together

ASSUME SpansAssumption ==
  /\ None \notin Tracers
  /\ Cadence \in Nat \ {0}
  /\ Costs \subseteq Nat
  /\ HostileContexts \in BOOLEAN
  /\ MaxWork \in Nat

VARIABLES
  ids,       \* tracer -> the last ID minted
  counters,  \* tracer -> the counters and gauges Stats reads
  overhead,  \* tracer -> overheadNS
  spans,     \* the spans made so far
  calls,     \* producer -> the call it is in
  reading,   \* the Stats call: its tracer and the values it has loaded
  lost,      \* history: tracer -> Starts that panicked
  samples,   \* history: tracer -> the costs measured
  snapshots  \* history: what Stats returned

vars == <<ids, counters, overhead, spans, calls, reading, lost, samples, snapshots>>

\* The fields of a snapshot, in the order in which Stats loads them.
Fields == <<"started", "completed", "spansInFlight", "tracesInFlight">>
FieldNames == {Fields[i] : i \in DOMAIN Fields}

Idle == [step |-> "idle"]
NotReading == [tracer |-> None, values |-> <<>>]

Init ==
  /\ ids = [t \in Tracers |-> 0]
  /\ counters = [t \in Tracers |-> [f \in FieldNames |-> 0]]
  /\ overhead = [t \in Tracers |-> 0]
  /\ spans = <<>>
  /\ calls = [p \in Producers |-> Idle]
  /\ reading = NotReading
  /\ lost = [t \in Tracers |-> 0]
  /\ samples = [t \in Tracers |-> {}]
  /\ snapshots = <<>>

\* The Starts of all tracers, and the room the bound leaves.
Starts == FoldFunction(LAMBDA x, y : x + y, 0, [t \in Tracers |-> counters[t].started])
Room(n) == 2 * Starts + Len(snapshots) + n <= MaxWork

Add(t, f, n) == counters' = [counters EXCEPT ![t][f] = @ + n]
At(p, step) == calls[p].step = step
Goto(p, call) == calls' = [calls EXCEPT ![p] = call]

-----------------------------------------------------------------------------
(* Seeded faults, used by mutation checks only                             *)

ParentAsTrace(t, from) == IF from = 0 THEN ids[t] + 1 ELSE spans[from].id
EndTwice(s) == spans[s].state # "made"
RootByTrace(s) == spans[s].id = spans[s].trace
Unseeded(old, sample) == old + (sample - old) \div 8

-----------------------------------------------------------------------------
(* Start and Track                                                         *)

\* Span 0 stands for a context that carries none.
Contexts == {0} \cup {s \in DOMAIN spans : spans[s].state # "made"}

StartCount(p, t, from) ==
  /\ At(p, "idle")
  /\ Room(2)
  /\ Add(t, "started", 1)
  /\ Goto(p, [step |-> "mint", tracer |-> t, from |-> from,
              sampled |-> (counters[t].started + 1) % Cadence = 0])
  /\ UNCHANGED <<ids, overhead, spans, reading, lost, samples, snapshots>>

ParentOf(from) == IF from = 0 THEN 0 ELSE spans[from].id
TraceOf(t, from) == IF from = 0 THEN ids[t] + 1 ELSE spans[from].trace

\* The gauge and the ID are two atomic additions; no reader tells their order.
Mint(t) ==
  /\ Add(t, "spansInFlight", 1)
  /\ ids' = [ids EXCEPT ![t] = @ + 1]

\* A child is complete and goes to the caller; a root has a gauge to move first.
StartMint(p) ==
  LET c == calls[p]
      root == c.from = 0
  IN
  /\ At(p, "mint")
  /\ Mint(c.tracer)
  /\ spans' = Append(spans,
       [tracer |-> c.tracer, id |-> ids[c.tracer] + 1, trace |-> TraceOf(c.tracer, c.from),
        parent |-> ParentOf(c.from), from |-> c.from, sampled |-> c.sampled,
        state |-> IF root THEN "made" ELSE "open"])
  /\ Goto(p, IF root THEN [step |-> "root", span |-> Len(spans) + 1] ELSE Idle)
  /\ UNCHANGED <<overhead, reading, lost, samples, snapshots>>

\* The context panics in Value: the guard recovers and the caller gets no span.
StartPanics(p) ==
  LET t == calls[p].tracer IN
  /\ HostileContexts
  /\ At(p, "mint")
  /\ Mint(t)
  /\ lost' = [lost EXCEPT ![t] = @ + 1]
  /\ Goto(p, Idle)
  /\ UNCHANGED <<overhead, spans, reading, samples, snapshots>>

StartRoot(p) ==
  LET s == calls[p].span IN
  /\ At(p, "root")
  /\ Add(spans[s].tracer, "tracesInFlight", 1)
  /\ spans' = [spans EXCEPT ![s].state = "open"]
  /\ Goto(p, Idle)
  /\ UNCHANGED <<ids, overhead, reading, lost, samples, snapshots>>

-----------------------------------------------------------------------------
(* End, and the closer Track returns                                       *)

\* Under the span's mutex the first End wins; whoever comes later does nothing.
Endable(s) == spans[s].state = "open"
IsRoot(s) == spans[s].parent = 0

End(p, s) ==
  /\ At(p, "idle")
  /\ Endable(s)
  /\ spans' = [spans EXCEPT ![s].state = "ended"]
  /\ Add(spans[s].tracer, "completed", 1)
  /\ Goto(p, [step |-> "flight", span |-> s])
  /\ UNCHANGED <<ids, overhead, reading, lost, samples, snapshots>>

AfterGauges(s) == IF spans[s].sampled THEN [step |-> "load", span |-> s] ELSE Idle

EndFlight(p) ==
  LET s == calls[p].span IN
  /\ At(p, "flight")
  /\ Add(spans[s].tracer, "spansInFlight", -1)
  /\ Goto(p, IF IsRoot(s) THEN [step |-> "unroot", span |-> s] ELSE AfterGauges(s))
  /\ UNCHANGED <<ids, overhead, spans, reading, lost, samples, snapshots>>

EndRoot(p) ==
  LET s == calls[p].span IN
  /\ At(p, "unroot")
  /\ Add(spans[s].tracer, "tracesInFlight", -1)
  /\ Goto(p, AfterGauges(s))
  /\ UNCHANGED <<ids, overhead, spans, reading, lost, samples, snapshots>>

\* recordOverhead is a load and a store, not one step.
OverheadLoad(p) ==
  LET s == calls[p].span IN
  /\ At(p, "load")
  /\ Goto(p, [step |-> "store", span |-> s, old |-> overhead[spans[s].tracer]])
  /\ UNCHANGED <<ids, counters, overhead, spans, reading, lost, samples, snapshots>>

\* Division truncates towards zero.
Eighth(x) == IF x >= 0 THEN x \div 8 ELSE -((-x) \div 8)
Average(old, sample) == IF old = 0 THEN sample ELSE old + Eighth(sample - old)

OverheadStore(p, cost) ==
  LET t == spans[calls[p].span].tracer IN
  /\ At(p, "store")
  /\ overhead' = [overhead EXCEPT ![t] = Average(calls[p].old, cost)]
  /\ samples' = [samples EXCEPT ![t] = @ \cup {cost}]
  /\ Goto(p, Idle)
  /\ UNCHANGED <<ids, counters, spans, reading, lost, snapshots>>

-----------------------------------------------------------------------------
(* Stats                                                                   *)

\* The first load opens the call.
StatsBegin(t) ==
  /\ reading = NotReading
  /\ Room(1)
  /\ reading' = [tracer |-> t, values |-> <<counters[t][Fields[1]]>>]
  /\ UNCHANGED <<ids, counters, overhead, spans, calls, lost, samples, snapshots>>

Loaded == Append(reading.values, counters[reading.tracer][Fields[Len(reading.values) + 1]])

StatsLoad ==
  /\ reading # NotReading
  /\ Len(Loaded) < Len(Fields)
  /\ reading' = [reading EXCEPT !.values = Loaded]
  /\ UNCHANGED <<ids, counters, overhead, spans, calls, lost, samples, snapshots>>

\* The last load returns the snapshot.
StatsReturn ==
  /\ reading # NotReading
  /\ Len(Loaded) = Len(Fields)
  /\ snapshots' = Append(snapshots, [tracer |-> reading.tracer, values |-> Loaded])
  /\ reading' = NotReading
  /\ UNCHANGED <<ids, counters, overhead, spans, calls, lost, samples>>

Next ==
  \/ \E p \in Producers :
       \/ \E t \in Tracers, from \in Contexts : StartCount(p, t, from)
       \/ StartMint(p) \/ StartPanics(p) \/ StartRoot(p)
       \/ \E s \in DOMAIN spans : End(p, s)
       \/ EndFlight(p) \/ EndRoot(p) \/ OverheadLoad(p)
       \/ \E cost \in Costs : OverheadStore(p, cost)
  \/ \E t \in Tracers : StatsBegin(t)
  \/ StatsLoad
  \/ StatsReturn

Spec == Init /\ [][Next]_vars

-----------------------------------------------------------------------------
(* Properties                                                              *)

SpansOf(t) == {s \in DOMAIN spans : spans[s].tracer = t}
Native(t) == \A s \in SpansOf(t) : spans[s].from = 0 \/ spans[s].from \in SpansOf(t)

\* The hierarchy is a strict tree (docs/DESIGN.md:11-21): the spans of a trace have one
\* root among them, whose ID is the trace's, and the parent of every other one is an
\* earlier span of the same trace.  It holds for a tracer whose spans all found their
\* parents among its own, whatever goes on in other tracers; an ID is never given
\* twice in any case.
TraceIsTree ==
  \A t \in Tracers :
    /\ \A r, s \in SpansOf(t) : spans[r].id = spans[s].id => r = s
    /\ Native(t) => \A s \in SpansOf(t) :
         /\ \E r \in SpansOf(t) : spans[r].parent = 0 /\ spans[r].id = spans[s].trace
                                  /\ spans[r].trace = spans[s].trace
         /\ \A r \in SpansOf(t) :
              spans[r].parent = 0 /\ spans[s].parent = 0 /\ spans[r].trace = spans[s].trace => r = s
         /\ spans[s].parent # 0 => \E q \in SpansOf(t) :
              /\ spans[q].id = spans[s].parent /\ spans[q].trace = spans[s].trace
              /\ spans[q].id < spans[s].id

OpenOf(t) == {s \in SpansOf(t) : spans[s].state = "open"}

\* When no call is in progress the gauges of every tracer are what its own open spans
\* and open roots add up to (stats.go:31-32), also for spans whose parent is another
\* tracer's; a Start that panicked in its context stays in SpansInFlight for ever.
GaugesMatchOpen ==
  (\A p \in Producers : At(p, "idle")) =>
    \A t \in Tracers : LET c == counters[t] IN
      /\ c.spansInFlight = Cardinality(OpenOf(t)) + lost[t]
      /\ c.tracesInFlight = Cardinality({s \in OpenOf(t) : spans[s].from = 0})
      /\ c.started = c.completed + c.spansInFlight

\* Stats loads its fields one by one while they move (stats.go:54-65), so a snapshot
\* need not add up; but a gauge is never negative, and a snapshot taken later has no
\* smaller cumulative counter and has counted the start of every span the earlier one
\* saw completed or in flight.
SnapshotsInOrder ==
  \A i, j \in DOMAIN snapshots :
    LET v == snapshots[i].values
        w == snapshots[j].values
    IN  /\ v[3] >= 0 /\ v[4] >= 0
        /\ i < j /\ snapshots[i].tracer = snapshots[j].tracer =>
             /\ v[1] <= w[1] /\ v[2] <= w[2]
             /\ v[2] <= w[1] /\ v[3] <= w[1] /\ v[4] <= w[1]

\* The average stays within the costs measured for the tracer, for all the updates two
\* Ends can take from each other (stats.go:79-89), and is zero before the first.
OverheadInRange ==
  \A t \in Tracers :
    IF samples[t] = {} THEN overhead[t] = 0
    ELSE /\ \E low \in samples[t] : low <= overhead[t]
         /\ \E high \in samples[t] : overhead[t] <= high
=============================================================================
