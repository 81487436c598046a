------------------------------ MODULE Summary -------------------------------
(***************************************************************************)
(* The per-name aggregates behind Tracer.Summary (summary.go).  The writer *)
(* folds the end events of every batch into one accumulator per span name, *)
(* for at most MaxSummaryNames names; ends of other names are counted in   *)
(* SummaryDropped.  A batch is folded under the mutex a reader takes, so   *)
(* one end event is one step, and what a reader gets is snapshot of the    *)
(* state.  Events of other kinds are skipped and change nothing.           *)
(***************************************************************************)
EXTENDS Histogram, FiniteSets, Functions

CONSTANTS
  Names,            \* span names
  Durations,        \* EndNS - StartNS of the end events: below zero when a start time is missing
                    \* or the clocks disagree
  MaxSummaryNames,  \* maxSummaryNames
  MaxEnds           \* bound: end events folded

ASSUME SummaryAssumption ==
  /\ IsFiniteSet(Names)
  /\ Durations \subseteq -MaxDuration..MaxDuration
  /\ MaxSummaryNames \in Nat
  /\ MaxEnds \in Nat

Statuses == {"ok", "error", "canceled"}

VARIABLES
  summaries,       \* tracked name -> its accumulator
  summaryDropped,  \* the counter of ends past the cap
  seen             \* history: name -> how many ends it had of each duration and status

vars == <<summaries, summaryDropped, seen>>

Accumulator == [count : Nat, errors : Nat, canceled : Nat, minNanos : 0..MaxDuration,
                maxNanos : 0..MaxDuration, totalNanos : Int, histogram : [Buckets -> Nat]]

NewAccumulator == [count |-> 0, errors |-> 0, canceled |-> 0, minNanos |-> 0, maxNanos |-> 0,
                   totalNanos |-> 0, histogram |-> [i \in Buckets |-> 0]]

Tracked == DOMAIN summaries
EndKinds == Durations \X Statuses
Total(f) == FoldFunction(LAMBDA x, y : x + y, 0, f)
Ends(n) == Total(seen[n])

Init ==
  /\ summaries = [n \in {} |-> NewAccumulator]
  /\ summaryDropped = 0
  /\ seen = [n \in Names |-> [k \in EndKinds |-> 0]]

-----------------------------------------------------------------------------
(* Seeded faults, used by mutation checks only                             *)

MinFromZero(a, d) == IF d < a.minNanos THEN d ELSE a.minNanos   \* the first value is not taken
NotCounted == 0

-----------------------------------------------------------------------------
(* recordCompletedSpans                                                    *)

MinAfter(a, d) == IF a.count = 0 \/ d < a.minNanos THEN d ELSE a.minNanos
MaxAfter(a, d) == IF d > a.maxNanos THEN d ELSE a.maxNanos

Clamped(d) == IF d < 0 THEN 0 ELSE d

record(a, endMinusStart, status) ==
  LET d == Clamped(endMinusStart) IN
  [count |-> a.count + 1,
   errors |-> a.errors + (IF status = "error" THEN 1 ELSE 0),
   canceled |-> a.canceled + (IF status = "canceled" THEN 1 ELSE 0),
   minNanos |-> MinAfter(a, d),
   maxNanos |-> MaxAfter(a, d),
   totalNanos |-> Wrap(a.totalNanos + d),
   histogram |-> [a.histogram EXCEPT ![bucketIndexForDuration(d)] = @ + 1]]

See(n, d, status) ==
  /\ Total([m \in Names |-> Ends(m)]) < MaxEnds
  /\ seen' = [seen EXCEPT ![n][<<d, status>>] = @ + 1]

RecordKnown(n, d, status) ==
  /\ n \in Tracked
  /\ See(n, d, status)
  /\ summaries' = [summaries EXCEPT ![n] = record(@, d, status)]
  /\ UNCHANGED summaryDropped

OverflowCount == 1
AtCap == Cardinality(Tracked) >= MaxSummaryNames

RecordNew(n, d, status) ==
  /\ n \notin Tracked
  /\ ~AtCap
  /\ See(n, d, status)
  /\ summaries' = [m \in Tracked \cup {n} |->
                     IF m = n THEN record(NewAccumulator, d, status) ELSE summaries[m]]
  /\ UNCHANGED summaryDropped

RecordOverflow(n, d, status) ==
  /\ n \notin Tracked
  /\ AtCap
  /\ See(n, d, status)
  /\ summaryDropped' = summaryDropped + OverflowCount
  /\ UNCHANGED summaries

Next == \E n \in Names, d \in Durations, status \in Statuses :
  RecordKnown(n, d, status) \/ RecordNew(n, d, status) \/ RecordOverflow(n, d, status)

Spec == Init /\ [][Next]_vars

-----------------------------------------------------------------------------
(* Summary: the snapshot of one accumulator                                *)

Mean(a) == Quotient(a.totalNanos, a.count)

Reported(a, percent) ==
  clampDuration(percentile(a.histogram, a.count, percent), a.minNanos, a.maxNanos)

-----------------------------------------------------------------------------
(* Properties                                                              *)

\* Every variable holds a value of its Go type; no more names than the cap.
TypeOK ==
  /\ Tracked \subseteq Names /\ Cardinality(Tracked) <= MaxSummaryNames
  /\ \A n \in Tracked : summaries[n] \in Accumulator
  /\ summaryDropped \in Nat
  /\ seen \in [Names -> [EndKinds -> Nat]]

\* The reference: what the ends of a name add up to.
EndsWith(n, K) == Total(Restrict(seen[n], K))
Having(n) == {Clamped(d) : d \in {e \in Durations : EndsWith(n, {e} \X Statuses) > 0}}
SumOfEnds(n) == Total([k \in EndKinds |-> Clamped(k[1]) * seen[n][k]])

\* Count, Errors, Canceled, Min, Max and Mean are exact (summary.go:11): they agree
\* with the ends themselves, whatever order they came in, the mean as long as the
\* sum of the durations fits an int64.  The buckets hold each of them once.
ExactFields ==
  \A n \in Tracked : LET a == summaries[n] IN
    /\ a.count = Ends(n) /\ a.count = Total(a.histogram)
    /\ a.errors = EndsWith(n, Durations \X {"error"})
    /\ a.canceled = EndsWith(n, Durations \X {"canceled"})
    /\ a.minNanos \in Having(n) /\ a.maxNanos \in Having(n)
    /\ \A d \in Having(n) : a.minNanos <= d /\ d <= a.maxNanos
    /\ SumOfEnds(n) <= MaxDuration => Mean(a) = SumOfEnds(n) \div Ends(n)

\* Every completed span is in exactly one place (summary.go:90-99): in the
\* accumulator of its name or in SummaryDropped; a name is turned away only at the
\* cap, and one that was let in is never turned away later.
EveryEndCounted ==
  /\ summaryDropped = Total([n \in Names \ Tracked |-> Ends(n)])
  /\ Total([n \in Tracked |-> summaries[n].count]) + summaryDropped
       = Total([n \in Names |-> Ends(n)])
  /\ summaryDropped > 0 => Cardinality(Tracked) = MaxSummaryNames

\* The value of the nearest rank, by counting.
Exact(n, percent) ==
  LET atMost(d) == EndsWith(n, {e \in Durations : e <= d} \X Statuses)
  IN  CHOOSE d \in Having(n) :
        /\ atMost(d) >= TargetRank(percent, Ends(n))
        /\ \A e \in Having(n) : atMost(e) >= TargetRank(percent, Ends(n)) => d <= e

\* A reported percentile is within an eighth of the exact one, never outside
\* [Min, Max], and percentiles are ordered (summary.go:159-163, 207-209); percentile
\* never falls out of its loop (summary.go:185), the buckets covering every duration.
PercentilesClose ==
  /\ BucketsCover
  /\ \A n \in Tracked : LET a == summaries[n] IN
       /\ \A percent \in {50, 90, 99} : Close(Reported(a, percent), Exact(n, percent))
       /\ a.minNanos <= Reported(a, 50) /\ Reported(a, 50) <= Reported(a, 90)
       /\ Reported(a, 90) <= Reported(a, 99) /\ Reported(a, 99) <= a.maxNanos
=============================================================================
