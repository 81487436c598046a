# gospan: TLA+ models, checks and proofs

gospan is a span-tracing library for Go. A program opens and ends spans through
a `Tracer`; every call turns into events that go through one bounded channel to
one writer goroutine, which batches them into a `Sink`. This directory holds
TLA+ modules of that machinery, the TLC runs that check them on small
instances, and TLAPS proofs for every instance. Paths are relative to the
repository's `src/`.

## 1. Inventory

| component | state | operations | interacts through |
|---|---|---|---|
| public calls (`tracer.go`, `span.go`) | per span: mutex, `ended`, status; atomics: `started`, `ids`, `completed`, in-flight gauges | `Start`, `SetAttrs`, `Fail`, `End`, `Track` | contexts carry spans between goroutines; `send` |
| `send` (`tracer.go`) | `events` channel, `closed`, `stop`, `dropped` | drop-and-count or block until `stop` | channel to the writer |
| writer (`writer.go`) | batch buffer, `written`, `writeErrors`, `closeErr` | `run`, `drainInto`, `writeBatch`, `flushSink`, `closeSink` | sole caller of the sink; ticker; `stop`, `done` |
| `Close` (`tracer.go`) | `closed`, `stop`, `done` | idempotent, bounded by a context | flips `closed`, closes `stop`, waits for `done` |
| `warn` (`tracer.go`) | `lastWarn` | rate-limited logging | called by the writer and by every recovered panic |
| `Stats` (`stats.go`) | the atomics, the overhead average | snapshot, `recordOverhead` | read while everything moves |
| `Summary` (`summary.go`) | per-name accumulators with histograms, under a mutex, capped | `recordCompletedSpans`, snapshot, percentiles | fed by the writer, read by anyone |
| `MultiSink` (`multi_sink.go`) | none | sequential fan-out, joined errors | composes sinks |
| `SlogSink` (`slog_sink.go`) | map of open spans, capped | accumulate, emit at end | user's logger |
| SQLite sink, writing (`sqlite/write.go`) | pending rows, name caches | `WriteBatch`, `flattenAttrs`, `Flush`, `internName` | one database connection |
| SQLite sink, construction (`sqlite/sqlite.go`) | the file at a path | `New`, `resolvePath`, `initialize`, `Close` | file system; other processes |
| default tracer (`tracer.go`) | one atomic pointer | `SetDefault`, package-level `Start`, `Track` | — |

What is hard here: calls of several goroutines on one span; the channel filling
up, with either policy; `closed` read before the channel operation it decides;
`Close` racing everything, several times, with deadlines; a sink that fails,
panics or never comes back; a flush that fails between two statements; a process
that dies; two runs that pick the same file; a sink among others that fails or panics; an
accumulator or a map of open spans at its cap; arithmetic at the ends of int64. Each is
listed with its line under "hazards" in `PROJECT.json`, with the properties that cover it
or the reason why none does.

What makes each component correct: per-span order, parents before children and
final verdicts (public calls); every event has one fate, and no caller stalls
(`send`); the stream reaches the sink in order and `Close` drains it (writer,
`Close`); no silence without a complaint and no flood (`warn`); spans join to
their names and windows are atomic (SQLite writing); nobody shares or destroys
a trace (construction); sums and percentiles agree with the events seen
(`Summary`); an error of one member costs the others nothing, and every failure is counted
once (`MultiSink`); one faithful record per finished span (`SlogSink`); one tree per trace
(span contexts).

## 2. Modules

| module | models | kind |
|---|---|---|
| `Tracer` | `tracer.go`, `span.go`, `writer.go` and the counters of `stats.go` | detailed specification |
| `SpanStream` | what the tracer promises its callers | abstract specification |
| `WriterLoop` | channel, producers, `Close` and writer under a load that never ends | abstract specification, and an instance of its own |
| `MCTracer` | `Tracer` for TLC, and the refinements of `SpanStream` and `WriterLoop` | instance |
| `TracerProofs` | theorems about `Tracer`: types, order, delivery, `Close`, counters and gauges, and that it implements `SpanStream` and `WriterLoop` | proofs |
| `Warn`, `MCWarn` | the rate limit of `warn` | specification, instance |
| `WarnProofs` | theorems about `Warn` | proofs |
| `Spans`, `MCSpans` | the atomic steps of `Start`, `Track` and `End`, contexts, `Stats` and `recordOverhead` | specification, instance |
| `SpansProofs` | theorems about `Spans` | proofs |
| `Summary`, `MCSummary` | `summary.go`: accumulators, cap, snapshot | specification, instance |
| `Histogram` | `summary.go`: buckets and percentiles | pure functions |
| `SummaryProofs` | theorems about `Summary` and `Histogram` | proofs |
| `MultiSink` | `multi_sink.go` and the writer's side of it | specification |
| `SlogSink` | `slog_sink.go` | actions of the log sink |
| `Fanout`, `MCFanout` | `MultiSink` with `SlogSink` among its members, fed by a lossy tracer | composition, instance |
| `FanoutProofs` | theorems about `MultiSink` and `Fanout` | proofs |
| `Attrs` | `flattenAttrs`, `attrCell` and what a reader makes of a cell | pure functions |
| `Int64` | Go's signed integers at a given width | pure functions |
| `SqliteSink` | `sqlite/write.go` | detailed specification |
| `TraceFile` | what the sink promises a reader of its file | abstract specification |
| `MCSqliteSink` | `SqliteSink` for TLC, and the refinement of `TraceFile` | instance |
| `SqliteSinkProofs` | theorems about `SqliteSink`, and that it implements `TraceFile` | proofs |
| `TracePath`, `MCTracePath` | `sqlite.New` with `WithName` | specification, instance |
| `TracePathProofs` | theorems about `TracePath` | proofs |
| `FoldTheorems` | induction over finite data, and what the folds of the community modules compute | lemmas |

Each detailed module has a section "Seeded faults": operators the specification
does not use, each a plausible slip in the operator it imitates (a test left
out, an off-by-one, a counter not moved). Every property is known to fail when
one of them takes its operator's place; the pairs are listed under "mutants" in
`PROJECT.json`.

### Tracer

State and code correspond like this:

- `spans` are the spans some caller holds (`Start` returned them); `ended`,
  `status` and `locked` are fields of a `Span`; `parent` is set when the ID is
  minted. A span is its ID, so `stats.started` doubles as `ids`.
- `pc[p]` is where a producer's call stands: at the load of `closed` ("check") or
  at the channel operation ("select"); `sending[p]` is its event.
- `queue`, `closed`, `stop` are the channel, the flag and whether the `stop`
  channel is closed; `wpc` is where `run` stands, `stopping` that it took the stop
  branch, `batch` the events taken and not delivered; `wpc = "done"` is `close(done)`.
- `stats` are the atomics, `summarized` the end events folded into the summaries.
- `stream`, `handed` and `audit` are history: what entered the channel, what was
  passed to `WriteBatch`, and the fates no counter of the code records.

Abstractions. A step ends where another goroutine can interfere. The counters
that `Start` and `End` bump before their send are one step, because only a
`Stats()` snapshot can see between them. A call that waits for a span's mutex is a
call that has not begun: nothing happens before the lock in `SetAttrs` and `End`
that others can see, and user code never runs under it. Attribute values, names
and times are left out; contexts carry a published span or none. A sender blocked on
a full channel may be overtaken by another, which allows more orders than Go's
first-come queue. A call that returns early without a write is a stuttering step.
`StartPanics` is a context whose `Value` panics (a typed nil pointer does it): the
guard recovers it. `ClosePanics` is the same for `Close`, with a nil context or one whose `Done` or `Err`
panics: by then `closed` is flipped and `stop` closed, and the guard lets Close return nil wherever the
drain is. A caller cannot tell that nil from the one of a finished drain; the model keeps them apart as
`cpc[c] = "recovered"` and `"returned"`. Failing sink calls are the outcomes "error" and "panic"; a sink
that never returns is the absence of fairness for the writer. Nothing is persisted
by the tracer itself, so a crash is modelled where it matters, in `SqliteSink`.

The one step that is always possible at the end, `Finished`, stutters when every
call is back and the writer gone, so TLC's deadlock check is on and would report
any other stop.

### SpanStream and the refinement

`SpanStream` has no channel, lock or writer: `Start`, `SetAttrs`, `Fail` and `End`
take effect at once, and each event is appended to the visible stream or lost. Under
the mapping in `MCTracer`, a span becomes known when `Start` returns and finished when
`End` releases its mutex; every other step of `Tracer` is a stutter. The
refinement is what a caller may rely on: the split of a call at `closed` and at the
channel, `Close` and the writer show through nowhere.

### WriterLoop

`Tracer` numbers its spans and keeps histories, so a run of TLC ends after a few events, and a channel that
is never empty cannot happen in it. `WriterLoop` has events that are all alike and counts them in the channel and in the
batch only: its states are finitely many while the calls go on for ever. So progress is checked there: whether calls,
the flush tick, the drain and every `Close` get their turn although the channel always has another event. A
blocked call holds its span's mutex, so its return is also that of everyone waiting for that span. `Tracer` implements
`WriterLoop` (`ImplementsWriterLoop`: sequences become their lengths), which therefore leaves out no step of
the code; its fairness is argued below.

### Warn

`now`, `last` and the swap are separate steps of each caller, the clock moves
between any two of them. `swaps` records the seconds swapped in, `logged` the
seconds of the warnings in the order they come out.

### Spans

`Tracer` groups the counters a call moves before its send; `Spans` takes them apart, with two
tracers, and leaves the send out. `StartCount`, `StartMint` and `StartRoot` are the additions of
`Start` in their order, `End`, `EndFlight`, `EndRoot`, `OverheadLoad` and `OverheadStore` those
of `End`; `StatsBegin`, `StatsLoad` and `StatsReturn` load one field each. `spansInFlight` and `ids`
move in one step (`Mint`): nobody reads both. A context is a span or 0 for none, and any span a `Start` has
returned may be in the context of a call on any tracer. A call runs on any tracer, which
covers the package-level calls whatever `SetDefault` does; `Track` is a `Start` whose context
nobody uses. A span's parent found in another tracer leaves that tracer's numbers in its trace and
parent, so `TraceIsTree` is about tracers all of whose spans found their parents at home; the
gauges are exact in any case.

### Summary and Histogram

One step folds one end event: a batch is folded under the mutex a reader takes, but no reader can
tell where a batch ends. The durations are `EndNS - StartNS`, from below zero to the
largest. `Int64` gives the arithmetic at `Width` bits, so that the sum that wraps and the top octave are
within TLC's reach; the bucket functions are generic in the width, with 247 buckets at 64.
The rank of a percentile is computed exactly: the float product of `percentile` rounds to the same
rank for the three fractions and every count up to two million. `ExactFields` requires the mean
only while the sum fits an int64; `totalNanos` is not guarded and wraps after 292 years of
span time under one name.

### MultiSink, SlogSink and Fanout

`MultiSink` is the writer's calls, one after the other, and the loop of the fan-out, one member a
step: a member returns nil or an error, or panics. A panic leaves the loop for
`recoverSinkPanic`. The writer's counters are part of the module, because what they say of a
fan-out is the question. `SlogSink` has no `Next` of its own: its actions are the body of the
`WriteBatch` loop for one event, and `Fanout` runs them when the loop has reached the log sink. Its
logger may panic before or after the record is out; the open entry then stays, and so do the events
after it in the batch, unseen. A record has the span's own attributes (`Fixed`: its IDs, duration, status and,
if it failed, the error, from the end event) and after them the merged ones of the user. `emit` does not merge the
two, so a user key `status` is in the record beside the span's own; `RecordFaithful` promises each
user key once and says nothing of such a pair. The batches are those of a tracer that keeps each span's order and may
lose anything; `delivered` is the history of them, which `Deliver` keeps in that order, and `read` is
how far the log sink's loop is in the batch at hand. Past the cap, events of a span may be missed one by one: an attrs event that
finds room after a crowded start is kept, so a record may carry some of the attributes
handed over, never a stale value.

### SqliteSink, Attrs and TraceFile

Events come as the tracer delivers them: per span in order, any of them possibly
dropped (a span may begin with an attrs or an end event). `WriteBatch` is taken event
by event, since nothing can happen between two events of a batch that could not
happen between two batches. A flush is one step per statement on `tx`, the database as
the open transaction sees it; `Commit` makes it `file`; `FlushFails` can strike at any
statement and `Crash` at any time. The id of a name is its place in the `names` table, as
SQLite assigns it after a rollback too (one past the last row, for a table without
AUTOINCREMENT). Trace, parent and start columns are the same in every event of a span
and are left out. A failed commit is taken to be rolled back, and what is committed survives the death of the process
(a power cut may cost the last commits, SQLite's `synchronous=NORMAL`; that is SQLite's).
Attributes go through `Attrs`: groups become joined keys, of which a key is the sequence of its
parts, and values become cells. `attrCell` keeps the bits of a `uint64`, so `ReadBack`, which views a cell
as its kind says, must give the value back; times outside the range of `UnixNano` have no right answer, a NaN
float is stored as NULL by SQLite and is not read back; `SinkAssumption` excludes both (`Storable`). `writeErrors` is the tracer's counter. `TraceFile` knows spans by
their names, applies events in order and has no caches; a reader of the file, joining
spans to names and reading cells by their kind, sees just that.

### TracePath

A run stats the path, replaces the file if it may, opens what is there, creates
the schema, writes the meta row and returns its sink; any call may fail, and a
failure after the open removes whatever the path names then. A run keeps writing to
the file it opened even when the path names another one. Runs are processes; a run that
stops half way is one that takes no more steps. The `-wal` and `-shm` sidecars go with their
database.

## 3. Runs

The longest runs take two to three minutes; bounds are in the `.cfg` files.

| run | what it checks | bounds |
|---|---|---|
| `TracerDrop` | types, `FIFO`, `PerSpanOrder`, `ParentFirst`, `Verdict`, `EveryEventHasOneFate`, `ImplementsSpanStream` | default policy, 2 producers, 1 closer, 2 spans, 1 attrs event, capacity 1, batch 2, 1 failing delivery or flush |
| `TracerShutdown` | `GaugesExact`, `SummaryIndependentOfSink`, `CloseDelivers`, `CloseAgrees`, `SinkUntouchedAfterClose`, `ImplementsWriterLoop` | blocking policy, contexts that panic in Start and Close, 2 closers, 1 failing or panicking delivery or flush, failing or panicking sink close |
| `WriterLoop` | `CallsReturn`, `CloseReleasesCallers` with no fairness for the writer where the policy allows; `CloseCompletes`, `AcceptedIsFlushed` with it | both policies, 2 producers that may call for ever, 2 closers, capacity 2, batch 2, no bound on the number of events |
| `Spans` | `TraceIsTree`, `GaugesMatchOpen`, `SnapshotsInOrder`, `OverheadInRange` | 2 tracers, 2 producers, every span sampled, hostile contexts; 3 Starts, or 2 and two Stats calls, or 1 and four |
| `Summary` | `ExactFields`, `EveryEndCounted`, `PercentilesClose` | 8 bits, 2 names, cap 1, 8 durations, 3 ends |
| `Fanout` | `OnlyPanicStarves`, `WrittenMeansEveryone`, `FailuresShowOnce`, `RecordFaithful`, `OpenIsBounded`, `LogFollowsDelivery` | 3 members, the log sink second with room for 1 span, 3 writes and flushes, 2 failures, 5 events; one span ends well and one fails, a user key is also one of the record's own |
| `SqliteSink` | types, `NamesJoin`, `NameCacheSound`, `NoSelfConflict`, `QuietMeansComplete`, `ImplementsTraceFile` | 2 spans, 2 names, 2 attribute lists (a `uint64` above the top, nested groups, a group and a leaf that meet in one key), 2 of them delivered |
| `Warn` | `NeverTwiceInARow`, `QuietOnlyIfSomeoneSpoke` | 3 callers, 3 seconds, 3 swaps |
| `TracePath` | `NoSharedFile`, `RerunKeepsTrace` | 3 runs, one of which may overwrite, 3 files |

Why the bounds are enough. With capacity 1, two producers fill the channel, drop or
block while the writer holds a batch; a batch of 2 makes `drainInto` both stop at
its limit and at an empty channel. Two spans give a parent and a child, or two roots, on two
goroutines; one attrs event races an end. Two closers are one that flips `closed` and one
that finds it flipped, each able to expire. One failed sink call is enough to separate what
was handed over from what was accepted, and gives `EveryEventHasOneFate` its spoiled batches beside drops and
stranded events; the sends that `stop` releases under the blocking policy are in its theorem only. In
`WriterLoop` two producers refill a channel of two as fast as `drainInto` empties it, so its event arm can be ready at
every select. Two spans over two names, with failing flushes,
give a name interned, rolled back and interned again after another took its id. In `Spans` two
Starts and two Ends interleave on one tracer or on two, with a sampled cost lost between
load and store; a second Stats call follows the first with calls of both goroutines
between. In `Summary` a name fills the cap, three ends give percentiles that fall on
different values, two of them sums that wrap; the durations sit on both sides of every kind of
edge, and `BucketsCover` goes through all of them. In `Fanout` the log sink has a member before
it and one after it, and five events over two spans fill its map, strand an entry and repeat a key.
Symmetry is used only where no liveness is checked.

Deadlock is not checked for the runs other than those of `Tracer` and `WriterLoop`: their inputs are
bounded, and a closed or crashed sink, a finished construction and a summary of no further spans
have no step left.

### Fairness

`FairSpec` of `WriterLoop` says that a goroutine inside `send` or `Close` that can move does; nobody is
obliged to call anything, contexts to expire or the sink's calls to return. For `send` the fairness is strong: a
Go channel serves its blocked senders in order, so a sender for whom room comes up again and again gets it, which the
model, where a sender may be overtaken, does not say by itself. With weak fairness `CallsReturn` fails under the
blocking policy: others take every place that comes free.

Properties that need a sink whose calls return say so: they start from
`SinkReturns`, which is weak fairness of the writer and strong fairness of the flush tick.
The latter is what Go's `select` gives, which chooses at random among ready arms: the ticker keeps a tick until it is taken,
so an arm that is ready again and again, though not while a batch is in hand, is taken at some time. With weak fairness
the writer may take the event arm for ever, nothing is flushed, and `AcceptedIsFlushed` fails. The stop
arm needs no more than the writer's own: past `closed` no new call adds an event, so the event arm is not ready for ever.
`CallsReturn` under the default policy and `CloseReleasesCallers` do not start from `SinkReturns`: they hold with a sink that
hangs.

### Where code and text disagree

Three runs are expected to end in a violation; each shows a sentence of the
repository that the code does not keep, and `PROJECT.json` quotes it under "findings".

| run | the sentence | what happens |
|---|---|---|
| `WarnFlood` | `tracer.go:377`: at most one warning per second | a `now` read before a tick swaps `lastWarn` back; the next caller logs again |
| `TracePathRace` | `sqlite/sqlite.go:115`: a rerun never destroys a trace | two runs pass the collision check together; the loser's cleanup removes the winner's file |
| `FanoutStarves` | `docs/SPEC.md:82`: one failure never starves the rest | a member that panics ends the loop; the members after it miss the call |

Five more places where the text promises a little more than the code does are terms of properties
that hold, where they are exact: `EveryEventHasOneFate` has a term for the events a
closing tracer releases or strands without a counter (README: "loss is measured, never
silent"; `tracer.go:340-341` accepts it); `GaugesExact` and `GaugesMatchOpen` have one for the Starts
whose context panicked, which stay in `SpansInFlight` (`stats.go:31`), and count the calls on a closed
tracer, which still move the counters (`tracer.go:174-176`); `CloseAgrees` leaves out a Close recovered from its
context (nil, or one whose `Done` or `Err` panics): it starts the shutdown and returns nil before the drain is over, where
`tracer.go:174-177` and `187-188` know of no early return but expiry; and `FailuresShowOnce` counts a sink whose `Close`
panics in `WriteErrors` too, of which `stats.go:35-36` names `WriteBatch` and `Flush` only.

## 4. Proofs

Every theorem holds for every value of the constants that meets the named assumption of its
module, the bounds of the runs among them: a bound caps how far a behaviour goes, and the
theorems hold wherever it is put. Every property listed here, the types of
`MultiSink` and `Summary` aside, is checked by a run as well (`BucketsCover` as a part of `PercentilesClose`); and
every invariant, action property and refinement that a passing run checks is proved, liveness alone
is not. Where a property says too little about calls in progress to be inductive, the invariant
adds just that.

### The tracer

`TracerProofs` holds for every set of producers and
closers, every capacity and batch size and both policies (`Policies` may be either or both). It
assumes `SizesAssumption` (capacity and batch size are at least 1, as `New` enforces and `maxBatchSize`
gives; the bounds are numbers) and `PolicyAssumption` (the range of the options and outcomes).

- `TypeCorrect` (`TypeOK`): inductive as it stands; the capacity of the channel and of a
  batch are part of it.
- `OrderCorrect`, `ParentCorrect`, `VerdictCorrect` (`PerSpanOrder`, `ParentFirst`, `Verdict`). The three
  say what is in the stream and do not bound what a call may still send. `OrderInv` adds it: one call at
  most is sending for a span (`SenderInv`), a `Start` sends for a span nobody knows, a `SetAttrs` or `End`
  holds the mutex of its span and an `End` has settled the span; and the stream speaks only of known
  spans (`KnownInv`). The mutex held over the send is what makes `SenderInv` inductive.
- `FIFOCorrect`, `DrainCorrect` (`FIFO`, `CloseDelivers`). `DrainInv` follows the chain of shutdown:
  `stopping` implies `stop` implies `closed`, what was in the stream at the flip is a prefix of it, and
  the final flush finds the channel and the batch empty. `MoveHead` is the lemma about
  sequences that `Receive` and `DrainOne` rest on.
- `CloseCorrect` (`CloseAgrees`): of the calls that return by themselves, neither expired nor recovered from a
  panicking context, each reports the one completion and after it; whichever way a call went, the
  shutdown is under way. Inductive by itself, because `closeErr` moves only before `done`.
- `SinkCorrect` (`SinkUntouchedAfterClose`): an action property, from the type invariant.
- `SummaryCorrect`, `FateCorrect`, `GaugeCorrect` (`SummaryIndependentOfSink`, `EveryEventHasOneFate`,
  `GaugesExact`) count sets: the end events of a sequence, the calls in progress, the open spans and
  roots. Each step moves one element in or out of a set and one counter with it. `FateInv` adds that
  finitely many calls are in progress, although the goroutines may be infinitely many; `IdleInv`, that
  a goroutine outside a call sends nothing.
- `RefinementCorrect` (`ImplementsSpanStream`): initial states map to initial states, the step in which
  `send` returns maps to the step of `SpanStream` of its call, `Fail` to `Fail`, and every other step to a
  stutter. The abstract event is built when the call takes effect, the real one when it began, so
  `ExactInv` says that an event on its way is still what its span's parent and status say.
- `LoopCorrect` (`ImplementsWriterLoop`): every step of the tracer is one of `WriterLoop` or a stutter, from the type
  invariant. A `Fail` and a `Start` that panics stutter, and a `Flush` counts as one whatever it returns.

### The bookkeeping of spans

`SpansProofs` holds for every set of tracers and goroutines under `SpansAssumption`; the bound on work
plays no part.

- `TypesHold` is the type invariant the rest uses: a call in progress names a span that was made.
- `OverheadCorrect` (`OverheadInRange`): `CostInv` adds that an `End` between its load and its store holds
  a value that was within the samples, so an update lost to another stays within them too.
- `TreeCorrect` (`TraceIsTree`): `RowInv` says of each span that its ID is above those of its tracer's
  earlier spans and below the next, and that trace and parent come from the span it was started
  under; `Rooted` follows parents to the root.
- `GaugesCorrect` (`GaugesMatchOpen`). The property is about a moment when no call runs. `Balance` says
  what each counter adds up to between any two steps: open spans and those whose `End` or `Start` is
  on the way (`Minters`, `Rooters`, `Flights`, `Unrooters`), and `RootInv` that every root not yet counted has
  the one `Start` that will count it. `CallCounts` and `SpanCounts` are the lemmas about what a step of one
  goroutine does to the sizes of these sets.
- `SnapshotsCorrect` (`SnapshotsInOrder`): `Headroom` bounds the gauges by `started`, which `Stats` loads
  first, and `ReadingInv` says that what a call has loaded is at least what earlier snapshots saw and at
  most what the counters have come to.

### Induction over data

What a fold computes is proved by induction on its data. The library's induction theorems take an
operator as a parameter, which no prover here instantiates, so `FoldTheorems` states induction as
membership of a set: `NatInductionSet` and `SetInduction` say that a set with the first number (or the empty
set) and every successor has them all, each from a least counterexample (`LeastOf`). From these follow
that a recursion over the subsets of a finite set has a value (`SubsetRecursion`, `RunsAgree`), the laws of
sums (`SumAdd`, `SumChange`, `SumUnion`), left folds along a sequence as a run of intermediate values
(`LeftFoldExists`), and the concatenation of sequences (`FlattenRun`, `FlattenAppend`). The operators stay
those of the community modules; their definitions are expanded there.

### The fan-out and the log sink

`FanoutProofs` holds for every number of members, every set of batches and every bound on calls and
failures, under `MultiSinkAssumption` and, for the composition, `FanoutAssumption` (the log sink is a
member, a batch is a sequence of events, and only a start or an attrs event carries attributes, as
`sink.go:35` has it).

- `TypeCorrect` (`TypeOK` of `MultiSink`). `TypeInv` adds where the loop is (`Placed`): a call is
  in progress only when one was made, which is what the return of a call, reading the last of
  `calls`, needs.
- `StarveCorrect` (`OnlyPanicStarves`). The property speaks of finished calls and says nothing of
  the one in the loop, so `StarveInv` adds what the members have heard (`Heard`: calls that were made, in
  order) and, of the call in progress, that the members passed returned from it and the rest have not
  been reached (`Current`). `Settled` is the property member by member. `ReachOutcomes` is the lemma
  about what one more call of a member changes.
- `FailuresCorrect` (`FailuresShowOnce`). `CollectInv` says that the errors at hand are those of the members
  passed in this call, and that nothing follows a Close, so `closeErr` is about one call.
- `WrittenCorrect` (`WrittenMeansEveryone`). `WrittenInv` is the property with the finished writes as a set of
  its own; a call enters that set in the step that counts its events, which by `CollectInv` and `StarveInv`
  is the return of a write of which every member made "ok". `EventsAdd` is the sum with one call more.
- `FanoutImplements`: every step of the composition maps to a step of `MultiSink` or to a
  stutter. The log sink only ever returns nil or panics, or is inside its loop over the batch.
  `FanoutStarveCorrect`, `FanoutFailuresCorrect` and `FanoutWrittenCorrect` carry the three promises over to
  the composition.
- `OpenCorrect`, `LogCorrect` (`OpenIsBounded`, `LogFollowsDelivery`). Both rest on one fact: an event the
  log sink is about to handle is of a span whose end it has not handled. It holds because the batch
  in hand is the tail of what was delivered (`StreamInv`), every end handled lies before the place the loop
  is at (`HeardInv`, `Place`), and a span's end is delivered last (`InOrder`); `NextEvent` puts the three
  together. `OpenInv` then gives the cap, and `LogInv` accounts for every record: by a batch the log sink
  took, by one in which its logger panicked, or by the part of the batch its loop has been through.
- `RecordCorrect` (`RecordFaithful`). A record is made in the step that handles its end event and begins with that
  event's own attributes (`Made`, `RestIs`); the rest is the merge. `MergeCorrect` says what `mergeLastWins` returns for any list: each key
  once, with its last value, in the order of first appearance (`Merged`, by induction along the list).
  `RecordInv` says that what the map holds for a span is the tail of what was handed for it, and all
  of it unless the span found the map full, and that a span neither in the map nor ended nor crowded out
  had nothing handed. The last value of a key is in the tail, so the record of a crowded span has
  no stale value (`MergeFaithful`). No event follows an end (`NextEvent`), so a record stays faithful
  when it is out. `Close` empties the map, after which nothing is handled (`NotClosing`).

### The rate limit and the path of the trace file

- `WarnProofs`, for any number of callers however long the run: `lastWarn` is the second of the last
  swap won, and a caller's loaded value the second of the last swap won when it loaded (`WarnInv`).
  `NeverTwiceCorrect` (`NeverTwiceInARow`, about swaps in a row: warnings are another matter, see `WarnFlood`) and `QuietCorrect` (the action property
  `QuietOnlyIfSomeoneSpoke`) follow from it.
- `TracePathProofs`, for any number of runs on one path under `TracePathAssumption`: `SharedCorrect`
  (`NoSharedFile`), because `CREATE TABLE` lets one run through per file (`SchemaInv`), and `RerunCorrect` (the
  action property `RerunKeepsTrace`), because a run that may not overwrite went past `Stat` while the path
  was free, and whatever the path names since is younger than the files of the runs that finished
  before it began (`RerunInv`).

### The trace file

`SqliteSinkProofs` holds for every number of spans, names and statuses and every nesting of attributes, under
`SinkAssumption` (attribute lists are made of `Attributes` and have storable values), `AttributesAssumption` (an
attribute has a value of its kind; groups nest finitely, which is stated as: every set of attributes
that is not empty has one whose members are outside it), `NoneAssumption` (the mark for "no row" is no row) and
`WidthAssumption`.

- `NamesCorrect`, `CacheCorrect`, `ConflictCorrect` (`NamesJoin`, `NameCacheSound`, `NoSelfConflict`).
  `CommittedInv` says that the committed cache and the committed table tell each other's ids, `InternedInv`
  that in a flush the open transaction starts with the committed names and the map of the flush tells
  the ids of the rest, and `RowsNamed` that a pending row carries its span's name. A rollback discards the
  transaction and the map together, which is what keeps them in step.
- `SinkTypeCorrect`, `QuietCorrect`, `SinkImplementsTraceFile` (`TypeOK`, `QuietMeansComplete`,
  `ImplementsTraceFile`) rest on `LogInv`. A reader's view of a span or a key is a fold over the events of
  the window, those heard since the last flush ended. `WindowTold` says that the pending rows, put on top
  of the file, tell what that fold gives; `AllTold` the same of every event heard while no flush has
  failed; `SpansWritten` and `AttrsWritten` how far the open transaction has got with the rows. So a
  commit moves the file by the whole window, which is the one step of `TraceFile` it maps to; every
  statement before it is a stutter, and a failed flush or a crash maps to the loss of the window.
  `RowsOnce` and `RowsFound` give that a span has one pending row and that its end finds it.
- The attribute half goes through three lemmas: `FlatExists`, that the recursion over groups has a value
  for every attribute (a least counterexample would be a group all of whose members have one);
  `CellReadBack`, that the cell of a storable value reads back as the value, a `uint64` past the top
  included; and `ValuesAppended`, that of the rows with one key the last one tells.

### The summary

`SummaryProofs` holds for integers of every width from 5 bits on, every set of durations and every cap, under
`SummaryAssumption` (the names of a run are finitely many, durations are numbers of the width),
`WidthAssumption` and `PowerFact`, the recursion of powers of two below the width: a fact of arithmetic that
the provers do not know.

- `BucketsAlwaysCover` (`BucketsCover`, a statement about constants): a duration of eight or more has a place,
  an octave and a quarter of it (`PlaceOf`); bucket, midpoint and the step to the next duration are
  worked out from the place.
- `TypeCorrect`, `ExactCorrect`, `EndsCorrect` (`TypeOK`, `ExactFields`, `EveryEndCounted`). `CountInv` adds to the
  types what each accumulator stands for (`Kept`): its fields and every one of its buckets agree with the
  ends of its name, the sum up to the wrap of the width; and that the ends of names turned away add up
  to `summaryDropped`, with the cap reached if there are any (`Turned`).
- `PercentilesCorrect` (`PercentilesClose`): `PercentileIs` solves the recursion of `percentile`: it returns the
  midpoint of the first bucket at which the sum of the buckets reaches the rank. Buckets are
  monotone in the duration, so that bucket is the one of the exact nearest-rank duration
  (`RankBucket`, `ExactIs`); its midpoint is within an eighth of anything in it, and clamping to
  the exact minimum and maximum takes it no further away (`ClampClose`).

### Only model-checked

- Liveness (`CallsReturn`, `CloseReleasesCallers`, `CloseCompletes`, `AcceptedIsFlushed`): it needs
  fairness and ENABLED, which are out of the prover's reach.
- The three violations of section 3, which are traces TLC finds.

## 5. Not modelled

- The default tracer's pointer: see `Spans` above. Calls on a nil tracer or span do nothing.
- `OpenReadHandle` and `Path`, which keep no state; the SQL scripts, which a person runs on a file;
  the demo command, whose arrangement of sinks `Fanout` takes.
- The resolution of `LogValuer`s (slog's own, which contains its panics), the text an `any` value is
  formatted to, times outside the range of `UnixNano` and NaN floats.
- The level and the message of a log record, and the wall-clock anchor of timestamps.
- The database, the file system and the user's logger are external and modelled by how the
  code uses them.

## 6. Plan

1. The tracer's stream feeding `SqliteSink` in one module: from a public call to a committed row.
   The two ends are each shown to implement what the other assumes (`SpanStream`, `TraceFile`).
2. The wall-clock anchor of timestamps.
