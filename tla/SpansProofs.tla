----------------------------- MODULE SpansProofs -----------------------------
(***************************************************************************)
(* What holds of the bookkeeping of spans for every number of tracers and  *)
(* goroutines, whichever tracer a context's span comes from and however    *)
(* the steps of Start, End and Stats interleave.  The bound on work plays  *)
(* no part in any proof.                                                   *)
(***************************************************************************)
EXTENDS Spans, TLAPS, FiniteSetTheorems, SequenceTheorems

-----------------------------------------------------------------------------
(* Types                                                                   *)

Span == [tracer : Tracers, id : Nat \ {0}, trace : Nat, parent : Nat, from : Nat,
         sampled : BOOLEAN, state : {"made", "open", "ended"}]

\* A call names a span that was made, and a Start one or none.
MintCalls == [step : {"mint"}, tracer : Tracers, from : 0..Len(spans), sampled : BOOLEAN]
SpanCalls == [step : {"root", "flight", "unroot", "load"}, span : 1..Len(spans)]
StoreCalls == [step : {"store"}, span : 1..Len(spans), old : Nat]
CallStates == {Idle} \cup MintCalls \cup SpanCalls \cup StoreCalls

TypesInv ==
  /\ ids \in [Tracers -> Nat]
  /\ counters \in [Tracers -> [FieldNames -> Int]]
  /\ overhead \in [Tracers -> Nat]
  /\ spans \in Seq(Span)
  /\ calls \in [Producers -> CallStates]
  /\ lost \in [Tracers -> Nat]
  /\ samples \in [Tracers -> SUBSET Costs]

-----------------------------------------------------------------------------
(* Lemmas about the operators                                              *)

\* The fields of a snapshot, spelled out.
LEMMA FieldsAre ==
  /\ FieldNames = {"started", "completed", "spansInFlight", "tracesInFlight"}
  /\ Len(Fields) = 4 /\ \A k \in 1..4 : Fields[k] \in FieldNames
  /\ Fields[1] = "started" /\ Fields[2] = "completed"
  /\ Fields[3] = "spansInFlight" /\ Fields[4] = "tracesInFlight"
<1>1. /\ Len(Fields) = 4 /\ DOMAIN Fields = 1..4
      /\ Fields[1] = "started" /\ Fields[2] = "completed"
      /\ Fields[3] = "spansInFlight" /\ Fields[4] = "tracesInFlight"
  BY DEF Fields
<1>2. 1..4 = {1, 2, 3, 4}
  OBVIOUS
<1>. QED
  BY <1>1, <1>2 DEF FieldNames

\* The spans, as a table of typed rows.
LEMMA SpansTyped ==
  ASSUME TypesInv
  PROVE  /\ DOMAIN spans = 1..Len(spans) /\ Len(spans) \in Nat
         /\ \A s \in DOMAIN spans :
              spans[s] \in Span /\ spans[s].tracer \in Tracers /\ spans[s].id \in Nat \ {0}
<1>1. spans \in Seq(Span)
  BY DEF TypesInv
<1>2. DOMAIN spans = 1..Len(spans) /\ Len(spans) \in Nat
  BY <1>1, LenProperties
<1>3. \A s \in DOMAIN spans : spans[s] \in Span
  BY <1>1, <1>2, ElementOfSeq
<1>. QED
  BY <1>2, <1>3 DEF Span

\* An atomic addition moves one counter of one tracer.
LEMMA AddEffect ==
  ASSUME TypesInv, NEW t \in Tracers, NEW f \in FieldNames, NEW n \in Int, Add(t, f, n)
  PROVE  /\ counters' \in [Tracers -> [FieldNames -> Int]]
         /\ counters'[t][f] = counters[t][f] + n
         /\ \A g \in FieldNames \ {f} : counters'[t][g] = counters[t][g]
         /\ \A u \in Tracers \ {t} : counters'[u] = counters[u]
BY DEF Add, TypesInv

\* What the calls say of themselves, by the step they stand at.
LEMMA CallSteps ==
  ASSUME TypesInv, NEW p \in Producers
  PROVE  /\ At(p, "mint") => calls[p] \in MintCalls
         /\ \A x \in {"root", "flight", "unroot", "load"} : At(p, x) => calls[p] \in SpanCalls
         /\ At(p, "store") => calls[p] \in StoreCalls
BY DEF TypesInv, CallStates, MintCalls, SpanCalls, StoreCalls, At, Idle

\* Setting the state of a span leaves its other columns, and the other spans.
LEMMA StateChange ==
  ASSUME spans \in Seq(Span), NEW s \in DOMAIN spans, NEW x \in {"made", "open", "ended"},
         spans' = [spans EXCEPT ![s].state = x]
  PROVE  /\ spans' \in Seq(Span) /\ Len(spans') = Len(spans)
         /\ \A r \in DOMAIN spans \ {s} : spans'[r] = spans[r]
         /\ spans'[s] = [spans[s] EXCEPT !.state = x]
         /\ spans'[s].state = x
         /\ \A r \in DOMAIN spans :
              /\ spans'[r].tracer = spans[r].tracer /\ spans'[r].id = spans[r].id
              /\ spans'[r].trace = spans[r].trace /\ spans'[r].parent = spans[r].parent
              /\ spans'[r].from = spans[r].from
<1>1. DOMAIN spans = 1..Len(spans) /\ s \in 1..Len(spans) /\ spans[s] \in Span
  BY ElementOfSeq, LenProperties
<1>2. /\ [spans[s] EXCEPT !.state = x] \in Span
      /\ [spans[s] EXCEPT !.state = x].state = x
      /\ [spans[s] EXCEPT !.state = x].tracer = spans[s].tracer
      /\ [spans[s] EXCEPT !.state = x].id = spans[s].id
      /\ [spans[s] EXCEPT !.state = x].trace = spans[s].trace
      /\ [spans[s] EXCEPT !.state = x].parent = spans[s].parent
      /\ [spans[s] EXCEPT !.state = x].from = spans[s].from
  BY <1>1 DEF Span
<1>. DEFINE row == [spans[s] EXCEPT !.state = x]
<1>3. spans' = [spans EXCEPT ![s] = row]
  BY <1>1
<1>. HIDE DEF row
<1>4. /\ spans' \in Seq(Span) /\ Len(spans') = Len(spans)
      /\ \A r \in 1..Len(spans) : spans'[r] = IF r = s THEN row ELSE spans[r]
  BY <1>1, <1>2, <1>3, ExceptSeq DEF row
<1>. QED
  BY <1>1, <1>2, <1>4 DEF row

\* A goroutine moving on leaves the others where they are; calls stay calls as spans
\* are added.
LEMMA CallsMove ==
  ASSUME TypesInv, NEW p \in Producers, NEW c \in CallStates', Goto(p, c),
         Len(spans) \in Nat, Len(spans') \in Nat, Len(spans) <= Len(spans')
  PROVE  /\ calls' \in [Producers -> CallStates']
         /\ calls'[p] = c /\ \A q \in Producers \ {p} : calls'[q] = calls[q]
<1>1. CallStates \subseteq CallStates'
  <2>1. 1..Len(spans) \subseteq 1..Len(spans') /\ 0..Len(spans) \subseteq 0..Len(spans')
    OBVIOUS
  <2>2. MintCalls \subseteq MintCalls'
    BY <2>1 DEF MintCalls
  <2>3. SpanCalls \subseteq SpanCalls'
    BY <2>1 DEF SpanCalls
  <2>4. StoreCalls \subseteq StoreCalls'
    BY <2>1 DEF StoreCalls
  <2>. QED
    BY <2>2, <2>3, <2>4 DEF CallStates, Idle
<1>. QED
  BY <1>1 DEF TypesInv, Goto

\* An eighth of a number lies between it and zero.
LEMMA EighthBetween ==
  ASSUME NEW x \in Int
  PROVE  /\ Eighth(x) \in Int
         /\ x >= 0 => 0 <= Eighth(x) /\ Eighth(x) <= x
         /\ x <= 0 => x <= Eighth(x) /\ Eighth(x) <= 0
<1>1. ASSUME NEW y \in Nat PROVE y \div 8 \in Int /\ 0 <= y \div 8 /\ y \div 8 <= y
  OBVIOUS
<1>2. CASE x >= 0
  <2>1. x \in Nat /\ Eighth(x) = x \div 8
    BY <1>2 DEF Eighth
  <2>. QED
    BY <1>1, <2>1
<1>3. CASE ~(x >= 0)
  <2>. DEFINE y == -x
  <2>1. y \in Nat /\ Eighth(x) = -(y \div 8)
    BY <1>3 DEF Eighth
  <2>2. y \div 8 \in Int /\ 0 <= y \div 8 /\ y \div 8 <= y
    BY <1>1, <2>1
  <2>. QED
    BY <1>3, <2>1, <2>2
<1>. QED
  BY <1>2, <1>3

\* The new average lies between the old one and the sample, and is the first sample.
LEMMA AverageBetween ==
  ASSUME NEW old \in Nat, NEW sample \in Nat
  PROVE  /\ Average(old, sample) \in Nat
         /\ old = 0 => Average(old, sample) = sample
         /\ old # 0 /\ old <= sample => old <= Average(old, sample) /\ Average(old, sample) <= sample
         /\ old # 0 /\ sample <= old => sample <= Average(old, sample) /\ Average(old, sample) <= old
<1>. DEFINE x == sample - old
            e == Eighth(x)
<1>1. x \in Int
  OBVIOUS
<1>2. /\ e \in Int
      /\ x >= 0 => 0 <= e /\ e <= x
      /\ x <= 0 => x <= e /\ e <= 0
  BY <1>1, EighthBetween
<1>3. old # 0 => Average(old, sample) = old + e
  BY DEF Average
<1>. HIDE DEF e
<1>4. old = 0 => Average(old, sample) = sample
  BY DEF Average
<1>. QED
  BY <1>2, <1>3, <1>4

-----------------------------------------------------------------------------
(* Type correctness                                                        *)

\* Nothing has a span yet, and every counter is 0.
LEMMA TypesInit == Init => TypesInv
<1>. SUFFICES ASSUME Init PROVE TypesInv
  OBVIOUS
<1>1. spans \in Seq(Span)
  BY EmptySeq DEF Init
<1>2. counters \in [Tracers -> [FieldNames -> Int]]
  BY DEF Init
<1>3. calls \in [Producers -> CallStates]
  BY DEF Init, CallStates
<1>. QED
  BY <1>1, <1>2, <1>3 DEF Init, TypesInv

\* Every atomic step of Start, End and Stats keeps the types.
LEMMA TypesStep == TypesInv /\ [Next]_vars => TypesInv'
<1>. SUFFICES ASSUME TypesInv, [Next]_vars PROVE TypesInv'
  OBVIOUS
<1>. USE FieldsAre, SpansAssumption
<1>t. /\ DOMAIN spans = 1..Len(spans) /\ Len(spans) \in Nat
      /\ \A s \in DOMAIN spans : spans[s] \in Span /\ spans[s].tracer \in Tracers
  BY SpansTyped
<1>1. ASSUME NEW p \in Producers, NEW t \in Tracers, NEW from \in Contexts, StartCount(p, t, from)
      PROVE  TypesInv'
  <2>. DEFINE c == [step |-> "mint", tracer |-> t, from |-> from,
                    sampled |-> (counters[t].started + 1) % Cadence = 0]
  <2>1. c \in CallStates' /\ UNCHANGED spans
    BY <1>1, <1>t DEF StartCount, CallStates, MintCalls, Contexts
  <2>2. calls' \in [Producers -> CallStates']
    BY <1>1, <1>t, <2>1, CallsMove DEF StartCount
  <2>3. counters' \in [Tracers -> [FieldNames -> Int]]
    BY <1>1, AddEffect DEF StartCount
  <2>. QED
    BY <1>1, <2>2, <2>3 DEF StartCount, TypesInv
<1>2. ASSUME NEW t \in Tracers, Mint(t)
      PROVE  /\ counters' \in [Tracers -> [FieldNames -> Int]]
             /\ ids' \in [Tracers -> Nat]
  <2>1. counters' \in [Tracers -> [FieldNames -> Int]]
    BY <1>2, AddEffect DEF Mint
  <2>2. ids' = [ids EXCEPT ![t] = ids[t] + 1] /\ ids[t] + 1 \in Nat
    BY <1>2 DEF Mint, TypesInv
  <2>. QED
    BY <2>1, <2>2 DEF TypesInv
<1>3. ASSUME NEW p \in Producers, StartMint(p) PROVE TypesInv'
  <2>. DEFINE c == calls[p]
              row == [tracer |-> c.tracer, id |-> ids[c.tracer] + 1,
                      trace |-> TraceOf(c.tracer, c.from), parent |-> ParentOf(c.from),
                      from |-> c.from, sampled |-> c.sampled,
                      state |-> IF c.from = 0 THEN "made" ELSE "open"]
              next == IF c.from = 0 THEN [step |-> "root", span |-> Len(spans) + 1] ELSE Idle
  <2>1. c \in MintCalls
    BY <1>3, CallSteps DEF StartMint
  <2>2. c.tracer \in Tracers /\ c.from \in 0..Len(spans) /\ c.sampled \in BOOLEAN
    BY <2>1 DEF MintCalls
  <2>3. TraceOf(c.tracer, c.from) \in Nat /\ ParentOf(c.from) \in Nat
    <3>1. CASE c.from = 0
      BY <2>2, <3>1 DEF TraceOf, ParentOf, TypesInv
    <3>2. CASE c.from # 0
      <4>1. spans[c.from] \in Span
        BY <1>t, <2>2, <3>2
      <4>. QED
        BY <3>2, <4>1 DEF TraceOf, ParentOf, Span
    <3>. QED
      BY <3>1, <3>2
  <2>4. row \in Span
    <3>1. ids[c.tracer] + 1 \in Nat \ {0}
      BY <2>2 DEF TypesInv
    <3>2. (IF c.from = 0 THEN "made" ELSE "open") \in {"made", "open", "ended"}
      OBVIOUS
    <3>3. c.from \in Nat
      BY <1>t, <2>2
    <3>. HIDE DEF c
    <3>. QED
      BY <2>2, <2>3, <3>1, <3>2, <3>3 DEF Span
  <2>5. spans' \in Seq(Span) /\ Len(spans') = Len(spans) + 1
    BY <1>3, <2>4, AppendProperties DEF StartMint, TypesInv
  <2>6. next \in CallStates'
    BY <1>t, <2>5 DEF CallStates, SpanCalls
  <2>7. calls' \in [Producers -> CallStates']
    BY <1>3, <1>t, <2>5, <2>6, CallsMove DEF StartMint
  <2>. QED
    BY <1>2, <1>3, <2>2, <2>5, <2>7 DEF StartMint, TypesInv
<1>4. ASSUME NEW p \in Producers, StartPanics(p) PROVE TypesInv'
  <2>1. calls[p].tracer \in Tracers
    BY <1>4, CallSteps DEF StartPanics, MintCalls
  <2>2. Idle \in CallStates' /\ UNCHANGED spans
    BY <1>4 DEF StartPanics, CallStates
  <2>3. calls' \in [Producers -> CallStates']
    BY <1>4, <1>t, <2>2, CallsMove DEF StartPanics
  <2>4. lost' \in [Tracers -> Nat]
    BY <1>4, <2>1 DEF StartPanics, TypesInv
  <2>5. ids' \in [Tracers -> Nat] /\ counters' \in [Tracers -> [FieldNames -> Int]]
    BY <1>2, <1>4, <2>1 DEF StartPanics
  <2>. QED
    BY <1>4, <2>3, <2>4, <2>5 DEF StartPanics, TypesInv
<1>5. ASSUME NEW p \in Producers, StartRoot(p) PROVE TypesInv'
  <2>1. calls[p].span \in DOMAIN spans
    BY <1>5, <1>t, CallSteps DEF StartRoot, SpanCalls
  <2>2. spans' \in Seq(Span) /\ Len(spans') = Len(spans)
    BY <1>5, <2>1, StateChange DEF StartRoot, TypesInv
  <2>3. Idle \in CallStates'
    BY DEF CallStates
  <2>4. calls' \in [Producers -> CallStates']
    BY <1>5, <1>t, <2>2, <2>3, CallsMove DEF StartRoot
  <2>5. counters' \in [Tracers -> [FieldNames -> Int]]
    BY <1>5, <1>t, <2>1, AddEffect DEF StartRoot
  <2>. QED
    BY <1>5, <2>2, <2>4, <2>5 DEF StartRoot, TypesInv
<1>6. ASSUME NEW p \in Producers, NEW s \in DOMAIN spans, End(p, s) PROVE TypesInv'
  <2>1. spans' \in Seq(Span) /\ Len(spans') = Len(spans)
    BY <1>6, StateChange DEF End, TypesInv
  <2>2. [step |-> "flight", span |-> s] \in CallStates'
    BY <1>t, <2>1 DEF CallStates, SpanCalls
  <2>3. calls' \in [Producers -> CallStates']
    BY <1>6, <1>t, <2>1, <2>2, CallsMove DEF End
  <2>4. counters' \in [Tracers -> [FieldNames -> Int]]
    BY <1>6, <1>t, AddEffect DEF End
  <2>. QED
    BY <1>6, <2>1, <2>3, <2>4 DEF End, TypesInv
<1>7. ASSUME NEW p \in Producers, EndFlight(p) \/ EndRoot(p) PROVE TypesInv'
  <2>. DEFINE s == calls[p].span
  <2>1. s \in DOMAIN spans /\ UNCHANGED spans
    BY <1>7, <1>t, CallSteps DEF EndFlight, EndRoot, SpanCalls
  <2>2. AfterGauges(s) \in CallStates' /\ [step |-> "unroot", span |-> s] \in CallStates'
    BY <1>t, <2>1 DEF CallStates, SpanCalls, AfterGauges
  <2>3. \E c \in CallStates' : Goto(p, c)
    BY <1>7, <2>2 DEF EndFlight, EndRoot
  <2>4. calls' \in [Producers -> CallStates']
    BY <1>t, <2>1, <2>3, CallsMove
  <2>5. counters' \in [Tracers -> [FieldNames -> Int]]
    BY <1>7, <1>t, <2>1, AddEffect DEF EndFlight, EndRoot
  <2>. QED
    BY <1>7, <2>4, <2>5 DEF EndFlight, EndRoot, TypesInv
<1>8. ASSUME NEW p \in Producers, OverheadLoad(p) PROVE TypesInv'
  <2>. DEFINE s == calls[p].span
              c == [step |-> "store", span |-> s, old |-> overhead[spans[s].tracer]]
  <2>1. s \in DOMAIN spans /\ UNCHANGED spans
    BY <1>8, <1>t, CallSteps DEF OverheadLoad, SpanCalls
  <2>2. c \in CallStates'
    BY <1>t, <2>1 DEF CallStates, StoreCalls, TypesInv
  <2>3. calls' \in [Producers -> CallStates']
    BY <1>8, <1>t, <2>1, <2>2, CallsMove DEF OverheadLoad
  <2>. QED
    BY <1>8, <2>3 DEF OverheadLoad, TypesInv
<1>9. ASSUME NEW p \in Producers, NEW cost \in Costs, OverheadStore(p, cost) PROVE TypesInv'
  <2>1. calls[p].span \in DOMAIN spans /\ calls[p].old \in Nat /\ UNCHANGED spans
    BY <1>9, <1>t, CallSteps DEF OverheadStore, StoreCalls
  <2>2. Average(calls[p].old, cost) \in Nat
    BY <2>1, AverageBetween
  <2>3. Idle \in CallStates'
    BY DEF CallStates
  <2>4. calls' \in [Producers -> CallStates']
    BY <1>9, <1>t, <2>1, <2>3, CallsMove DEF OverheadStore
  <2>. QED
    BY <1>9, <1>t, <2>1, <2>2, <2>4 DEF OverheadStore, TypesInv
<1>10. ASSUME UNCHANGED <<ids, counters, overhead, spans, calls, lost, samples>> PROVE TypesInv'
  BY <1>10 DEF TypesInv, CallStates, MintCalls, SpanCalls, StoreCalls
<1>11. CASE (\E t \in Tracers : StatsBegin(t)) \/ StatsLoad \/ StatsReturn \/ UNCHANGED vars
  BY <1>10, <1>11 DEF StatsBegin, StatsLoad, StatsReturn, vars
<1>. QED
  BY <1>1, <1>3, <1>4, <1>5, <1>6, <1>7, <1>8, <1>9, <1>11 DEF Next

\* Every reachable state is well typed.
LEMMA TypesHold == Spec => []TypesInv
BY TypesInit, TypesStep, PTL DEF Spec

-----------------------------------------------------------------------------
(* The measured overhead                                                   *)

Within(S, x) ==
  /\ \E low \in S : low <= x
  /\ \E high \in S : x <= high

\* An End between its load and its store holds a value some samples lie around, or the
\* zero that stands for no average yet: that is what makes the lost updates harmless.
CostInv ==
  /\ OverheadInRange
  /\ \A p \in Producers : At(p, "store") =>
       calls[p].old = 0 \/ Within(samples[spans[calls[p].span].tracer], calls[p].old)

\* A store of a new average keeps every value within the samples, the new one included.
LEMMA CostStore ==
  ASSUME TypesInv, CostInv, NEW p \in Producers, NEW cost \in Costs, OverheadStore(p, cost)
  PROVE  /\ \A t \in Tracers, x \in Nat : Within(samples[t], x) => Within(samples'[t], x)
         /\ OverheadInRange'
<1>. DEFINE s == calls[p].span
            t == spans[s].tracer
            old == calls[p].old
<1>1. calls[p] \in StoreCalls
  BY CallSteps DEF OverheadStore
<1>2. s \in 1..Len(spans) /\ old \in Nat /\ cost \in Nat
  BY <1>1, SpansAssumption DEF StoreCalls
<1>3. t \in Tracers
  <2>1. spans[s] \in Span
    BY <1>2, ElementOfSeq DEF TypesInv
  <2>. QED
    BY <2>1 DEF Span
<1>4. old = 0 \/ Within(samples[t], old)
  BY DEF CostInv, OverheadStore
<1>5. /\ overhead' = [overhead EXCEPT ![t] = Average(old, cost)]
      /\ samples' = [samples EXCEPT ![t] = @ \cup {cost}]
  BY DEF OverheadStore
<1>6. \A u \in Tracers : samples[u] \subseteq samples'[u] /\ samples[u] \subseteq Nat
  BY <1>3, <1>5, SpansAssumption DEF TypesInv
<1>7. /\ cost \in samples'[t] /\ overhead'[t] = Average(old, cost)
      /\ \A u \in Tracers \ {t} : overhead'[u] = overhead[u] /\ samples'[u] = samples[u]
  BY <1>3, <1>5 DEF TypesInv
<1>. HIDE DEF t, old
<1>8. Within(samples'[t], Average(old, cost))
  <2>. DEFINE avg == Average(old, cost)
  <2>1. SUFFICES \E low, high \in samples'[t] : low <= avg /\ avg <= high
    BY <1>2, <1>7 DEF Within
  <2>2. /\ avg \in Nat
        /\ old = 0 => avg = cost
        /\ old # 0 /\ old <= cost => old <= avg /\ avg <= cost
        /\ old # 0 /\ cost <= old => cost <= avg /\ avg <= old
    BY <1>2, AverageBetween
  <2>. HIDE DEF avg
  <2>3. CASE old = 0
    BY <1>2, <1>7, <2>2, <2>3
  <2>4. CASE old # 0
    <3>1. PICK low \in samples[t], high \in samples[t] : low <= old /\ old <= high
      BY <1>4, <2>4 DEF Within
    <3>2. /\ low \in Nat /\ high \in Nat
          /\ low \in samples'[t] /\ high \in samples'[t] /\ cost \in samples'[t]
      BY <1>3, <1>6, <1>7, <3>1
    <3>3. CASE old <= cost
      <4>1. low <= avg /\ avg <= cost
        BY <1>2, <2>2, <2>4, <3>1, <3>2, <3>3
      <4>. QED
        BY <3>2, <4>1
    <3>4. CASE cost <= old
      <4>1. cost <= avg /\ avg <= high
        BY <1>2, <2>2, <2>4, <3>1, <3>2, <3>4
      <4>. QED
        BY <3>2, <4>1
    <3>. QED
      BY <1>2, <3>3, <3>4
  <2>. QED
    BY <2>3, <2>4
<1>9. \A u \in Tracers, x \in Nat : Within(samples[u], x) => Within(samples'[u], x)
  BY <1>6 DEF Within
<1>10. OverheadInRange'
  BY <1>3, <1>7, <1>8 DEF CostInv, OverheadInRange, Within
<1>. QED
  BY <1>9, <1>10

\* Every step keeps the averages within the samples.
LEMMA CostStep == TypesInv /\ CostInv /\ [Next]_vars => CostInv'
<1>. SUFFICES ASSUME TypesInv, CostInv, [Next]_vars PROVE CostInv'
  OBVIOUS
<1>t. /\ DOMAIN spans = 1..Len(spans) /\ Len(spans) \in Nat
      /\ \A s \in DOMAIN spans : spans[s] \in Span /\ spans[s].tracer \in Tracers
  BY SpansTyped
\* Most steps leave the averages and samples alone, put no call before a store, and
\* leave the tracer of every span.
<1>1. ASSUME UNCHANGED <<overhead, samples>>,
             \A s \in DOMAIN spans : spans'[s].tracer = spans[s].tracer,
             \A q \in Producers : At(q, "store")' => At(q, "store") /\ calls'[q] = calls[q]
      PROVE  CostInv'
  <2>1. OverheadInRange'
    BY <1>1 DEF CostInv, OverheadInRange
  <2>2. ASSUME NEW q \in Producers, At(q, "store")'
        PROVE  calls'[q].old = 0 \/ Within(samples'[spans'[calls'[q].span].tracer], calls'[q].old)
    <3>1. calls'[q] = calls[q] /\ calls[q] \in StoreCalls
      BY <1>1, <2>2, CallSteps
    <3>2. calls[q].span \in DOMAIN spans
      BY <1>t, <3>1 DEF StoreCalls
    <3>3. spans'[calls'[q].span].tracer = spans[calls[q].span].tracer
      BY <1>1, <3>1, <3>2
    <3>4. calls[q].old = 0 \/ Within(samples[spans[calls[q].span].tracer], calls[q].old)
      BY <1>1, <2>2 DEF CostInv
    <3>. QED
      BY <1>1, <3>1, <3>3, <3>4 DEF Within
  <2>. QED
    BY <2>1, <2>2 DEF CostInv
<1>2. ASSUME NEW p \in Producers, NEW c, c.step # "store", Goto(p, c)
      PROVE  \A q \in Producers : At(q, "store")' => At(q, "store") /\ calls'[q] = calls[q]
  BY <1>2 DEF Goto, At, TypesInv
<1>3. ASSUME NEW p \in Producers, NEW t \in Tracers, NEW from \in Contexts, StartCount(p, t, from)
      PROVE  CostInv'
  BY <1>1, <1>2, <1>3 DEF StartCount
<1>4. ASSUME NEW p \in Producers, StartMint(p) PROVE CostInv'
  <2>. DEFINE c == calls[p]
              next == IF c.from = 0 THEN [step |-> "root", span |-> Len(spans) + 1] ELSE Idle
  <2>1. next.step # "store" /\ Goto(p, next)
    BY <1>4 DEF StartMint, Idle
  <2>2. \A s \in DOMAIN spans : spans'[s] = spans[s]
    BY <1>4, <1>t, AppendProperties DEF StartMint, TypesInv
  <2>. QED
    BY <1>1, <1>2, <1>4, <2>1, <2>2 DEF StartMint
<1>5. ASSUME NEW p \in Producers, StartPanics(p) PROVE CostInv'
  BY <1>1, <1>2, <1>5 DEF StartPanics, Idle
<1>6. ASSUME NEW p \in Producers, StartRoot(p) PROVE CostInv'
  <2>1. calls[p].span \in DOMAIN spans
    BY <1>6, <1>t, CallSteps DEF StartRoot, SpanCalls
  <2>2. \A s \in DOMAIN spans : spans'[s].tracer = spans[s].tracer
    BY <1>6, <2>1, StateChange DEF StartRoot, TypesInv
  <2>. QED
    BY <1>1, <1>2, <1>6, <2>2 DEF StartRoot, Idle
<1>7. ASSUME NEW p \in Producers, NEW s \in DOMAIN spans, End(p, s) PROVE CostInv'
  <2>1. \A r \in DOMAIN spans : spans'[r].tracer = spans[r].tracer
    BY <1>7, StateChange DEF End, TypesInv
  <2>. QED
    BY <1>1, <1>2, <1>7, <2>1 DEF End
<1>8. ASSUME NEW p \in Producers, EndFlight(p) \/ EndRoot(p) PROVE CostInv'
  <2>1. \E c : c.step # "store" /\ Goto(p, c)
    BY <1>8 DEF EndFlight, EndRoot, AfterGauges, Idle
  <2>. QED
    BY <1>1, <1>2, <1>8, <2>1 DEF EndFlight, EndRoot
<1>9. ASSUME NEW p \in Producers, OverheadLoad(p) PROVE CostInv'
  <2>. DEFINE s == calls[p].span
              t == spans[s].tracer
              c == [step |-> "store", span |-> s, old |-> overhead[t]]
  <2>1. s \in DOMAIN spans /\ t \in Tracers /\ UNCHANGED <<spans, overhead, samples>>
    BY <1>9, <1>t, CallSteps DEF OverheadLoad, SpanCalls
  <2>2. overhead[t] = 0 \/ Within(samples[t], overhead[t])
    BY <2>1 DEF CostInv, OverheadInRange, Within
  <2>3. calls' = [calls EXCEPT ![p] = c]
    BY <1>9 DEF OverheadLoad, Goto
  <2>4. calls'[p] = c /\ \A q \in Producers \ {p} : calls'[q] = calls[q]
    BY <2>3 DEF TypesInv
  <2>5. OverheadInRange'
    BY <2>1 DEF CostInv, OverheadInRange
  <2>6. ASSUME NEW q \in Producers, At(q, "store")'
        PROVE  calls'[q].old = 0 \/ Within(samples'[spans'[calls'[q].span].tracer], calls'[q].old)
    <3>1. CASE q = p
      <4>1. calls'[q].span = s /\ calls'[q].old = overhead[t]
        BY <2>4, <3>1
      <4>. QED
        BY <2>1, <2>2, <4>1 DEF Within
    <3>2. CASE q # p
      <4>1. calls'[q] = calls[q] /\ At(q, "store")
        BY <2>4, <2>6, <3>2 DEF At
      <4>. QED
        BY <2>1, <4>1 DEF CostInv, Within
    <3>. QED
      BY <3>1, <3>2
  <2>. QED
    BY <2>5, <2>6 DEF CostInv
<1>10. ASSUME NEW p \in Producers, NEW cost \in Costs, OverheadStore(p, cost) PROVE CostInv'
  <2>1. UNCHANGED spans
    BY <1>10 DEF OverheadStore
  <2>2. \A q \in Producers : At(q, "store")' => At(q, "store") /\ calls'[q] = calls[q]
    BY <1>2, <1>10 DEF OverheadStore, Idle
  <2>3. ASSUME NEW q \in Producers, At(q, "store")'
        PROVE  calls'[q].old = 0 \/ Within(samples'[spans'[calls'[q].span].tracer], calls'[q].old)
    <3>1. calls'[q] = calls[q] /\ calls[q] \in StoreCalls /\ At(q, "store")
      BY <2>2, <2>3, CallSteps
    <3>2. calls[q].span \in DOMAIN spans /\ calls[q].old \in Nat
      BY <1>t, <3>1 DEF StoreCalls
    <3>3. calls[q].old = 0 \/ Within(samples[spans[calls[q].span].tracer], calls[q].old)
      BY <3>1 DEF CostInv
    <3>4. Within(samples[spans[calls[q].span].tracer], calls[q].old)
            => Within(samples'[spans[calls[q].span].tracer], calls[q].old)
      BY <1>t, <1>10, <3>2, CostStore
    <3>. QED
      BY <2>1, <3>1, <3>3, <3>4 DEF Within
  <2>. QED
    BY <1>10, <2>3, CostStore DEF CostInv
<1>11. CASE UNCHANGED <<overhead, spans, calls, samples>>
  BY <1>11 DEF CostInv, OverheadInRange, Within, At
<1>12. CASE (\E t \in Tracers : StatsBegin(t)) \/ StatsLoad \/ StatsReturn \/ UNCHANGED vars
  BY <1>11, <1>12 DEF StatsBegin, StatsLoad, StatsReturn, vars
<1>. QED
  BY <1>3, <1>4, <1>5, <1>6, <1>7, <1>8, <1>9, <1>10, <1>12 DEF Next

\* The average stays within the costs measured (stats.go:79-89), however many Ends
\* overwrite each other's updates.
THEOREM OverheadCorrect == Spec => []OverheadInRange
<1>1. Init => CostInv
  BY DEF Init, CostInv, OverheadInRange, At, Idle
<1>2. CostInv => OverheadInRange
  BY DEF CostInv
<1>. QED
  BY <1>1, <1>2, TypesHold, CostStep, PTL DEF Spec

-----------------------------------------------------------------------------
(* The tree of a trace                                                     *)

\* A tracer's IDs grow with the order in which its spans were made, a parent is an
\* earlier span, and a span copies its parent's ID and trace.
RowInv(s) ==
  /\ spans[s].id <= ids[spans[s].tracer]
  /\ \A r \in 1..(s - 1) : spans[r].tracer = spans[s].tracer => spans[r].id < spans[s].id
  /\ spans[s].from \in 0..(s - 1)
  /\ spans[s].from = 0 => spans[s].parent = 0 /\ spans[s].trace = spans[s].id
  /\ spans[s].from # 0 =>
       spans[s].parent = spans[spans[s].from].id /\ spans[s].trace = spans[spans[s].from].trace

\* The root of a span's trace exists: a child found its parent, so it inherits the
\* parent's root.
Rooted(t) == Native(t) => \A s \in SpansOf(t) : \E r \in SpansOf(t) :
  spans[r].from = 0 /\ spans[r].trace = spans[s].trace

TreeInv ==
  /\ \A s \in DOMAIN spans : RowInv(s)
  /\ \A t \in Tracers : Rooted(t)

\* The columns a span keeps for ever.
SameColumns(s) ==
  /\ spans'[s].tracer = spans[s].tracer /\ spans'[s].id = spans[s].id
  /\ spans'[s].trace = spans[s].trace /\ spans'[s].parent = spans[s].parent
  /\ spans'[s].from = spans[s].from

\* The spans only grow, by the one that a Start mints; nothing but its state changes in
\* a span; IDs only grow.
LEMMA SpansMove ==
  ASSUME TypesInv, [Next]_vars
  PROVE  /\ \A t \in Tracers : ids[t] <= ids'[t]
         /\ \A s \in DOMAIN spans : SameColumns(s)
         /\ DOMAIN spans' = DOMAIN spans \/ \E p \in Producers : StartMint(p)
<1>t. /\ DOMAIN spans = 1..Len(spans) /\ Len(spans) \in Nat
      /\ ids \in [Tracers -> Nat] /\ spans \in Seq(Span)
  BY LenProperties DEF TypesInv
<1>1. ASSUME UNCHANGED <<ids, spans>>
      PROVE  /\ \A t \in Tracers : ids[t] <= ids'[t]
             /\ \A s \in DOMAIN spans : SameColumns(s)
             /\ DOMAIN spans' = DOMAIN spans
  BY <1>1, <1>t DEF SameColumns
<1>2. ASSUME NEW s \in DOMAIN spans, NEW x \in {"made", "open", "ended"}, UNCHANGED ids,
             spans' = [spans EXCEPT ![s].state = x]
      PROVE  /\ \A t \in Tracers : ids[t] <= ids'[t]
             /\ \A r \in DOMAIN spans : SameColumns(r)
             /\ DOMAIN spans' = DOMAIN spans
  <2>1. /\ spans' \in Seq(Span) /\ Len(spans') = Len(spans)
        /\ \A r \in DOMAIN spans : SameColumns(r)
    BY <1>2, <1>t, StateChange DEF SameColumns
  <2>2. DOMAIN spans' = DOMAIN spans
    BY <2>1, <1>t, LenProperties
  <2>. QED
    BY <1>2, <1>t, <2>1, <2>2
<1>3. ASSUME NEW t \in Tracers, Mint(t) PROVE \A u \in Tracers : ids[u] <= ids'[u]
  <2>1. \A u \in Tracers : ids'[u] = IF u = t THEN ids[u] + 1 ELSE ids[u]
    BY <1>3, <1>t DEF Mint
  <2>. QED
    BY <2>1, <1>t
<1>4. CASE \E p \in Producers, t \in Tracers, from \in Contexts : StartCount(p, t, from)
  BY <1>1, <1>4 DEF StartCount
<1>5. ASSUME NEW p \in Producers, StartMint(p)
      PROVE  /\ \A t \in Tracers : ids[t] <= ids'[t]
             /\ \A s \in DOMAIN spans : SameColumns(s)
  <2>1. calls[p].tracer \in Tracers
    BY <1>5, CallSteps DEF StartMint, MintCalls
  <2>2. \A s \in DOMAIN spans : spans'[s] = spans[s]
    BY <1>5, <1>t, AppendProperties DEF StartMint
  <2>. QED
    BY <1>3, <1>5, <2>1, <2>2 DEF StartMint, SameColumns
<1>6. ASSUME NEW p \in Producers, StartPanics(p)
      PROVE  /\ \A t \in Tracers : ids[t] <= ids'[t]
             /\ UNCHANGED spans
  <2>1. calls[p].tracer \in Tracers
    BY <1>6, CallSteps DEF StartPanics, MintCalls
  <2>. QED
    BY <1>3, <1>6, <2>1 DEF StartPanics
<1>7. ASSUME NEW p \in Producers, StartRoot(p)
      PROVE  \E s \in DOMAIN spans : UNCHANGED ids /\ spans' = [spans EXCEPT ![s].state = "open"]
  <2>1. calls[p].span \in DOMAIN spans
    BY <1>7, <1>t, CallSteps DEF StartRoot, SpanCalls
  <2>. QED
    BY <1>7, <2>1 DEF StartRoot
<1>8. CASE \E p \in Producers, s \in DOMAIN spans : End(p, s)
  BY <1>2, <1>8 DEF End
<1>9. CASE \E p \in Producers :
             \/ EndFlight(p) \/ EndRoot(p) \/ OverheadLoad(p)
             \/ \E cost \in Costs : OverheadStore(p, cost)
  BY <1>1, <1>9 DEF EndFlight, EndRoot, OverheadLoad, OverheadStore
<1>10. CASE (\E t \in Tracers : StatsBegin(t)) \/ StatsLoad \/ StatsReturn \/ UNCHANGED vars
  BY <1>1, <1>10 DEF StatsBegin, StatsLoad, StatsReturn, vars
<1>11. CASE \E p \in Producers : StartMint(p)
  BY <1>5, <1>11
<1>12. CASE \E p \in Producers : StartPanics(p)
  BY <1>6, <1>12 DEF SameColumns
<1>13. CASE \E p \in Producers : StartRoot(p)
  BY <1>2, <1>7, <1>13
<1>. QED
  BY <1>4, <1>8, <1>9, <1>10, <1>11, <1>12, <1>13 DEF Next

\* A span that a Start mints is the last, with the newest ID of its tracer.
LEMMA MintedSpan ==
  ASSUME TypesInv, NEW p \in Producers, StartMint(p)
  PROVE  LET n == Len(spans) + 1
             t == calls[p].tracer
             from == calls[p].from
         IN  /\ t \in Tracers /\ from \in 0..Len(spans)
             /\ DOMAIN spans' = (DOMAIN spans) \cup {n} /\ n \notin DOMAIN spans
             /\ \A s \in DOMAIN spans : spans'[s] = spans[s]
             /\ spans'[n].tracer = t /\ spans'[n].from = from
             /\ spans'[n].id = ids[t] + 1 /\ ids'[t] = ids[t] + 1
             /\ \A u \in Tracers \ {t} : ids'[u] = ids[u]
             /\ spans'[n].parent = ParentOf(from) /\ spans'[n].trace = TraceOf(t, from)
             /\ spans'[n].state = IF from = 0 THEN "made" ELSE "open"
<1>. DEFINE n == Len(spans) + 1
            c == calls[p]
            row == [tracer |-> c.tracer, id |-> ids[c.tracer] + 1,
                    trace |-> TraceOf(c.tracer, c.from), parent |-> ParentOf(c.from),
                    from |-> c.from, sampled |-> c.sampled,
                    state |-> IF c.from = 0 THEN "made" ELSE "open"]
<1>1. c.tracer \in Tracers /\ c.from \in 0..Len(spans)
  BY CallSteps DEF StartMint, MintCalls
<1>2. spans \in Seq(Span) /\ DOMAIN spans = 1..Len(spans) /\ Len(spans) \in Nat
  BY LenProperties DEF TypesInv
<1>3. spans' = Append(spans, row)
  BY DEF StartMint
<1>4. /\ DOMAIN spans' = 1..n /\ spans'[n] = row
      /\ \A s \in 1..Len(spans) : spans'[s] = spans[s]
  <2>. HIDE DEF row
  <2>1. /\ Len(Append(spans, row)) = n /\ Append(spans, row)[n] = row
        /\ \A s \in 1..Len(spans) : Append(spans, row)[s] = spans[s]
        /\ DOMAIN Append(spans, row) = 1..n
    BY <1>2
  <2>. QED
    BY <1>3, <2>1
<1>5. ids'[c.tracer] = ids[c.tracer] + 1 /\ \A u \in Tracers \ {c.tracer} : ids'[u] = ids[u]
  BY <1>1 DEF StartMint, Mint, TypesInv
<1>. QED
  BY <1>1, <1>2, <1>4, <1>5

\* A step that mints nothing leaves the table as it is.
LEMMA TreeKept ==
  ASSUME TypesInv, TreeInv, [Next]_vars, DOMAIN spans' = DOMAIN spans
  PROVE  TreeInv'
<1>t. /\ DOMAIN spans = 1..Len(spans) /\ Len(spans) \in Nat
      /\ \A s \in DOMAIN spans : spans[s] \in Span /\ spans[s].tracer \in Tracers
      /\ ids \in [Tracers -> Nat] /\ ids' \in [Tracers -> Nat]
  <2>1. TypesInv'
    BY TypesStep
  <2>. QED
    BY <2>1, SpansTyped DEF TypesInv
<1>1. /\ \A t \in Tracers : ids[t] <= ids'[t]
      /\ \A s \in DOMAIN spans : SameColumns(s)
  BY SpansMove
<1>2. ASSUME NEW s \in DOMAIN spans PROVE RowInv(s)'
  <2>1. RowInv(s)
    BY <1>2 DEF TreeInv
  <2>2. SameColumns(s) /\ (\A r \in 1..(s - 1) : SameColumns(r))
    BY <1>1, <1>2, <1>t
  <2>3. spans[s].from # 0 => SameColumns(spans[s].from)
    BY <1>2, <1>t, <2>1, <2>2 DEF RowInv
  <2>4. spans[s].id <= ids'[spans[s].tracer]
    <3>1. ids[spans[s].tracer] <= ids'[spans[s].tracer] /\ spans[s].id <= ids[spans[s].tracer]
      BY <1>1, <1>2, <1>t, <2>1 DEF RowInv
    <3>2. spans[s].id \in Nat /\ ids[spans[s].tracer] \in Nat /\ ids'[spans[s].tracer] \in Nat
      BY <1>2, <1>t DEF Span
    <3>. QED
      BY <3>1, <3>2
  <2>. QED
    BY <2>1, <2>2, <2>3, <2>4 DEF RowInv, SameColumns
<1>3. ASSUME NEW t \in Tracers PROVE Rooted(t)'
  <2>1. SpansOf(t)' = SpansOf(t)
    BY <1>1 DEF SpansOf, SameColumns
  <2>2. \A s \in SpansOf(t) : SameColumns(s)
    BY <1>1 DEF SpansOf
  <2>3. Native(t)' => Native(t)
    BY <2>1, <2>2 DEF Native, SameColumns
  <2>4. Rooted(t)
    BY DEF TreeInv
  <2>. QED
    BY <2>1, <2>2, <2>3, <2>4 DEF Rooted, SameColumns
<1>. QED
  BY <1>2, <1>3 DEF TreeInv

\* A minted span is a root of its own or hangs under its parent.
LEMMA TreeGrows ==
  ASSUME TypesInv, TreeInv, NEW p \in Producers, StartMint(p)
  PROVE  TreeInv'
<1>. DEFINE n == Len(spans) + 1
            t == calls[p].tracer
            from == calls[p].from
<1>1. /\ t \in Tracers /\ from \in 0..Len(spans)
      /\ DOMAIN spans' = (DOMAIN spans) \cup {n} /\ n \notin DOMAIN spans
      /\ \A s \in DOMAIN spans : spans'[s] = spans[s]
      /\ spans'[n].tracer = t /\ spans'[n].from = from
      /\ spans'[n].id = ids[t] + 1 /\ ids'[t] = ids[t] + 1
      /\ \A u \in Tracers \ {t} : ids'[u] = ids[u]
      /\ spans'[n].parent = ParentOf(from) /\ spans'[n].trace = TraceOf(t, from)
  BY MintedSpan
<1>t. /\ DOMAIN spans = 1..Len(spans) /\ Len(spans) \in Nat
      /\ \A s \in DOMAIN spans : spans[s] \in Span /\ spans[s].tracer \in Tracers /\ spans[s].id \in Nat
      /\ ids \in [Tracers -> Nat]
  BY SpansTyped DEF TypesInv
<1>. HIDE DEF t, from
<1>2. ASSUME NEW s \in DOMAIN spans PROVE RowInv(s)'
  <2>1. RowInv(s)
    BY <1>2 DEF TreeInv
  <2>2. spans'[s] = spans[s] /\ (\A r \in 1..(s - 1) : spans'[r] = spans[r])
    BY <1>1, <1>2, <1>t
  <2>3. spans[s].from # 0 => spans'[spans[s].from] = spans[spans[s].from]
    BY <1>2, <1>t, <2>1, <2>2 DEF RowInv
  <2>4. spans[s].id <= ids'[spans[s].tracer]
    <3>1. spans[s].id <= ids[spans[s].tracer]
      BY <2>1 DEF RowInv
    <3>2. spans[s].id \in Nat /\ ids[spans[s].tracer] \in Nat
      BY <1>2, <1>t
    <3>3. ids'[spans[s].tracer] \in {ids[spans[s].tracer], ids[spans[s].tracer] + 1}
      BY <1>1, <1>2, <1>t
    <3>. QED
      BY <3>1, <3>2, <3>3
  <2>. QED
    BY <2>1, <2>2, <2>3, <2>4 DEF RowInv
<1>3. ASSUME NEW s \in Nat, s = n PROVE RowInv(s)'
  <2>1. ASSUME NEW r \in 1..(s - 1), spans'[r].tracer = spans'[s].tracer
        PROVE  spans'[r].id < spans'[s].id
    <3>1. r \in DOMAIN spans /\ spans'[r] = spans[r] /\ spans[r].tracer = t
      BY <1>1, <1>3, <1>t, <2>1
    <3>2. spans[r].id <= ids[t] /\ spans[r].id \in Nat /\ ids[t] \in Nat
      BY <1>1, <1>t, <3>1 DEF TreeInv, RowInv
    <3>. QED
      BY <1>1, <1>3, <3>1, <3>2
  <2>2. spans'[s].id <= ids'[spans'[s].tracer]
    BY <1>1, <1>3, <1>t
  <2>3. CASE from = 0
    BY <1>1, <1>3, <1>t, <2>1, <2>2, <2>3 DEF RowInv, ParentOf, TraceOf
  <2>4. CASE from # 0
    <3>1. from \in DOMAIN spans
      BY <1>1, <1>t, <2>4
    <3>2. spans'[from] = spans[from]
      BY <1>1, <3>1
    <3>3. spans'[s].parent = spans[from].id /\ spans'[s].trace = spans[from].trace
      BY <1>1, <1>3, <2>4 DEF ParentOf, TraceOf
    <3>. QED
      BY <1>1, <1>3, <1>t, <2>1, <2>2, <2>4, <3>1, <3>2, <3>3 DEF RowInv
  <2>. QED
    BY <2>3, <2>4
<1>4. ASSUME NEW u \in Tracers PROVE Rooted(u)'
  <2>1. Rooted(u)
    BY DEF TreeInv
  <2>2. CASE u # t
    <3>1. SpansOf(u)' = SpansOf(u) /\ \A s \in SpansOf(u) : spans'[s] = spans[s]
      BY <1>1, <2>2 DEF SpansOf
    <3>. QED
      BY <2>1, <3>1 DEF Rooted, Native
  <2>3. CASE u = t
    <3>1. /\ SpansOf(u)' = SpansOf(u) \cup {n}
          /\ \A s \in SpansOf(u) : spans'[s] = spans[s] /\ s # n
      BY <1>1, <2>3 DEF SpansOf
    <3>2. SUFFICES ASSUME Native(u)', NEW s \in SpansOf(u)'
                   PROVE  \E r \in SpansOf(u)' : spans'[r].from = 0 /\ spans'[r].trace = spans'[s].trace
      BY <2>3 DEF Rooted
    <3>3. ASSUME NEW q \in SpansOf(u) PROVE spans[q].from = 0 \/ spans[q].from \in SpansOf(u)
      <4>1. q \in DOMAIN spans /\ spans'[q] = spans[q] /\ spans[q].from \in 0..(q - 1)
        BY <3>1, <3>3 DEF SpansOf, TreeInv, RowInv
      <4>2. spans[q].from # n
        BY <1>t, <4>1
      <4>3. spans'[q].from = 0 \/ spans'[q].from \in SpansOf(u)'
        BY <3>1, <3>2, <3>3 DEF Native
      <4>. QED
        BY <3>1, <4>1, <4>2, <4>3
    <3>4. \A q \in SpansOf(u) : \E r \in SpansOf(u) : spans[r].from = 0 /\ spans[r].trace = spans[q].trace
      BY <2>1, <2>3, <3>3 DEF Rooted, Native
    <3>5. CASE s \in SpansOf(u)
      BY <3>1, <3>4, <3>5
    <3>6. CASE s = n /\ from = 0
      BY <1>1, <3>1, <3>6
    <3>7. CASE s = n /\ from # 0
      <4>1. from \in SpansOf(u)' /\ from # n
        BY <1>1, <1>t, <3>1, <3>2, <3>7 DEF Native
      <4>2. from \in SpansOf(u)
        BY <3>1, <4>1
      <4>3. PICK r \in SpansOf(u) : spans[r].from = 0 /\ spans[r].trace = spans[from].trace
        BY <3>4, <4>2
      <4>4. spans'[n].trace = spans[from].trace
        BY <1>1, <3>7 DEF TraceOf
      <4>. QED
        BY <3>1, <3>7, <4>3, <4>4
    <3>. QED
      BY <3>1, <3>2, <3>5, <3>6, <3>7
  <2>. QED
    BY <2>2, <2>3
<1>5. n \in Nat
  BY <1>t
<1>. QED
  BY <1>1, <1>2, <1>3, <1>4, <1>5 DEF TreeInv

\* Every reachable state satisfies the tree invariant.
LEMMA TreeHolds == Spec => []TreeInv
<1>1. Init => TreeInv
  BY DEF Init, TreeInv, Rooted, SpansOf
<1>2. TypesInv /\ TreeInv /\ [Next]_vars => TreeInv'
  BY SpansMove, TreeKept, TreeGrows
<1>. QED
  BY <1>1, <1>2, TypesHold, PTL DEF Spec

\* The spans of a tracer whose parents are its own form strict trees, and an ID is given
\* once (docs/DESIGN.md:11-21): whatever other tracers do, and whoever replaces the
\* default tracer meanwhile.
THEOREM TreeCorrect == Spec => []TraceIsTree
<1>1. TypesInv /\ TreeInv => TraceIsTree
  <2>. SUFFICES ASSUME TypesInv, TreeInv, NEW t \in Tracers
                PROVE  /\ \A r, s \in SpansOf(t) : spans[r].id = spans[s].id => r = s
                       /\ Native(t) => \A s \in SpansOf(t) :
                            /\ \E r \in SpansOf(t) : spans[r].parent = 0 /\ spans[r].id = spans[s].trace
                                                     /\ spans[r].trace = spans[s].trace
                            /\ \A r \in SpansOf(t) :
                                 spans[r].parent = 0 /\ spans[s].parent = 0
                                   /\ spans[r].trace = spans[s].trace => r = s
                            /\ spans[s].parent # 0 => \E q \in SpansOf(t) :
                                 /\ spans[q].id = spans[s].parent /\ spans[q].trace = spans[s].trace
                                 /\ spans[q].id < spans[s].id
    BY DEF TraceIsTree
  <2>t. /\ DOMAIN spans = 1..Len(spans) /\ Len(spans) \in Nat
        /\ \A s \in DOMAIN spans : spans[s].id \in Nat \ {0} /\ RowInv(s)
    BY SpansTyped DEF TreeInv
  <2>1. ASSUME NEW r \in SpansOf(t), NEW s \in SpansOf(t), r < s PROVE spans[r].id < spans[s].id
    BY <2>1, <2>t DEF SpansOf, RowInv
  <2>2. ASSUME NEW r \in SpansOf(t), NEW s \in SpansOf(t), spans[r].id = spans[s].id PROVE r = s
    <3>1. /\ r \in Nat /\ s \in Nat /\ spans[r].id \in Nat /\ spans[s].id \in Nat
          /\ ~(r < s) /\ ~(s < r)
      BY <2>1, <2>2, <2>t DEF SpansOf
    <3>. QED
      BY <3>1
  \* A span without a parent is one that was started without a context.
  <2>3. ASSUME NEW s \in SpansOf(t)
        PROVE  /\ spans[s].parent = 0 <=> spans[s].from = 0
               /\ spans[s].parent = 0 => spans[s].trace = spans[s].id
    <3>1. s \in DOMAIN spans /\ RowInv(s)
      BY <2>t DEF SpansOf
    <3>2. spans[s].from # 0 => spans[s].from \in DOMAIN spans
      BY <2>t, <3>1 DEF RowInv
    <3>. QED
      BY <2>t, <3>1, <3>2 DEF RowInv
  <2>4. ASSUME Native(t), NEW s \in SpansOf(t)
        PROVE  \E r \in SpansOf(t) : spans[r].parent = 0 /\ spans[r].id = spans[s].trace
                                     /\ spans[r].trace = spans[s].trace
    <3>1. PICK r \in SpansOf(t) : spans[r].from = 0 /\ spans[r].trace = spans[s].trace
      BY <2>4 DEF TreeInv, Rooted
    <3>. QED
      BY <2>3, <3>1
  <2>5. ASSUME NEW r \in SpansOf(t), NEW s \in SpansOf(t), spans[r].parent = 0,
               spans[s].parent = 0, spans[r].trace = spans[s].trace
        PROVE  r = s
    BY <2>2, <2>3, <2>5
  <2>6. ASSUME Native(t), NEW s \in SpansOf(t), spans[s].parent # 0
        PROVE  \E q \in SpansOf(t) :
                 /\ spans[q].id = spans[s].parent /\ spans[q].trace = spans[s].trace
                 /\ spans[q].id < spans[s].id
    <3>1. spans[s].from # 0 /\ spans[s].from \in SpansOf(t) /\ RowInv(s) /\ s \in DOMAIN spans
      BY <2>3, <2>6, <2>t DEF Native, SpansOf
    <3>2. spans[s].from < s
      BY <2>t, <3>1 DEF RowInv
    <3>3. spans[spans[s].from].id < spans[s].id
      BY <2>1, <3>1, <3>2
    <3>. QED
      BY <3>1, <3>3 DEF RowInv
  <2>. QED
    BY <2>2, <2>4, <2>5, <2>6
<1>. QED
  BY <1>1, TypesHold, TreeHolds, PTL

-----------------------------------------------------------------------------
(* The gauges                                                              *)

Ended(t) == {s \in SpansOf(t) : spans[s].state = "ended"}
Live(t) == {s \in SpansOf(t) : spans[s].state # "ended"}
OpenRoots(t) == {s \in OpenOf(t) : spans[s].from = 0}

\* Who stands between two atomic additions of a tracer: a Start before its mint or its
\* root, an End before it takes the span, and perhaps the trace, off the gauges.
CallSpan(p) == spans[calls[p].span]
Minters(t) == {p \in Producers : At(p, "mint") /\ calls[p].tracer = t}
Rooters(t) == {p \in Producers : At(p, "root") /\ CallSpan(p).tracer = t}
Flights(t) == {p \in Producers : At(p, "flight") /\ CallSpan(p).tracer = t}
Unrooters(t) == {p \in Producers : /\ At(p, "flight") \/ At(p, "unroot")
                                   /\ CallSpan(p).parent = 0 /\ CallSpan(p).tracer = t}

\* A root stays "made", out of everyone's reach, for the one Start that made it.
RootInv ==
  /\ \A p \in Producers : At(p, "root") => CallSpan(p).state = "made" /\ CallSpan(p).from = 0
  /\ \A p, q \in Producers :
       At(p, "root") /\ At(q, "root") /\ calls[p].span = calls[q].span => p = q
  /\ \A s \in DOMAIN spans : spans[s].state = "made" =>
       \E p \in Producers : At(p, "root") /\ calls[p].span = s
  /\ \A p \in Producers : At(p, "unroot") => CallSpan(p).parent = 0

\* What the counters of a tracer add up to between two steps.
Balance(t) ==
  /\ counters[t].started = ids[t] + Cardinality(Minters(t))
  /\ ids[t] = Cardinality(Live(t)) + Cardinality(Ended(t)) + lost[t]
  /\ counters[t].completed = Cardinality(Ended(t))
  /\ counters[t].spansInFlight = Cardinality(Live(t)) + lost[t] + Cardinality(Flights(t))
  /\ counters[t].tracesInFlight = Cardinality(OpenRoots(t)) + Cardinality(Unrooters(t))

\* No gauge runs ahead of the Starts that will move it.
Headroom(t) ==
  /\ counters[t].spansInFlight + Cardinality(Minters(t)) <= counters[t].started
  /\ counters[t].tracesInFlight + Cardinality(Minters(t)) + Cardinality(Rooters(t))
       <= counters[t].started

FiniteCalls(t) ==
  /\ IsFiniteSet(Minters(t)) /\ IsFiniteSet(Rooters(t))
  /\ IsFiniteSet(Flights(t)) /\ IsFiniteSet(Unrooters(t))

GaugeInv == \A t \in Tracers : FiniteCalls(t) /\ Balance(t) /\ Headroom(t)

\* How much an element adds to the size of a set.
One(b) == IF b THEN 1 ELSE 0

\* Two sets that differ in one element at most differ in size by as much.
LEMMA CardStep ==
  ASSUME NEW S, NEW T, NEW x, IsFiniteSet(S), T \ {x} = S \ {x}
  PROVE  /\ IsFiniteSet(T) /\ Cardinality(S) \in Nat /\ Cardinality(T) \in Nat
         /\ Cardinality(T) + One(x \in S) = Cardinality(S) + One(x \in T)
<1>. DEFINE R == S \ {x}
<1>1. IsFiniteSet(R) /\ Cardinality(R) = Cardinality(S) - One(x \in S)
  <2>1. CASE x \in S
    BY <2>1, FS_RemoveElement DEF One
  <2>2. CASE x \notin S
    <3>1. R = S
      BY <2>2
    <3>2. Cardinality(S) \in Nat /\ One(x \in S) = 0
      BY <2>2, FS_CardinalityType DEF One
    <3>. HIDE DEF R
    <3>. QED
      BY <3>1, <3>2
  <2>. QED
    BY <2>1, <2>2
<1>2. R = T \ {x} /\ x \notin R
  OBVIOUS
<1>. HIDE DEF R
<1>3. IsFiniteSet(T) /\ Cardinality(T) = Cardinality(R) + One(x \in T)
  <2>1. CASE x \in T
    <3>1. T = R \cup {x}
      BY <1>2, <2>1
    <3>. QED
      BY <1>1, <1>2, <2>1, <3>1, FS_AddElement DEF One
  <2>2. CASE x \notin T
    <3>1. R = T
      BY <1>2, <2>2
    <3>. QED
      BY <1>1, <2>2, <3>1, FS_CardinalityType DEF One
  <2>. QED
    BY <2>1, <2>2
<1>4. Cardinality(R) \in Nat /\ Cardinality(S) \in Nat /\ Cardinality(T) \in Nat
  BY <1>1, <1>3, FS_CardinalityType
<1>. QED
  BY <1>1, <1>3, <1>4 DEF One

\* A goroutine that moves on may leave or join the sets of its tracer; nobody else does.
Counts(p, t) ==
  /\ Cardinality(Minters(t)') + One(p \in Minters(t))
       = Cardinality(Minters(t)) + One(p \in Minters(t)')
  /\ Cardinality(Rooters(t)') + One(p \in Rooters(t))
       = Cardinality(Rooters(t)) + One(p \in Rooters(t)')
  /\ Cardinality(Flights(t)') + One(p \in Flights(t))
       = Cardinality(Flights(t)) + One(p \in Flights(t)')
  /\ Cardinality(Unrooters(t)') + One(p \in Unrooters(t))
       = Cardinality(Unrooters(t)) + One(p \in Unrooters(t)')

\* A step of one goroutine moves only its own call in or out of the sets of calls.
LEMMA CallCounts ==
  ASSUME TypesInv, [Next]_vars, NEW p \in Producers, NEW c, Goto(p, c),
         NEW t \in Tracers, FiniteCalls(t)
  PROVE  FiniteCalls(t)' /\ Counts(p, t)
<1>1. \A q \in Producers \ {p} : calls'[q] = calls[q]
  BY DEF Goto, TypesInv
<1>2. ASSUME NEW q \in Producers \ {p},
             At(q, "root") \/ At(q, "flight") \/ At(q, "unroot")
      PROVE  CallSpan(q)'.tracer = CallSpan(q).tracer /\ CallSpan(q)'.parent = CallSpan(q).parent
  <2>1. calls[q].span \in DOMAIN spans
    BY <1>2, CallSteps, SpansTyped DEF SpanCalls
  <2>. QED
    BY <1>1, <2>1, SpansMove DEF SameColumns, CallSpan
<1>3. ASSUME NEW q \in Producers \ {p}
      PROVE  /\ q \in Minters(t)' <=> q \in Minters(t)
             /\ q \in Rooters(t)' <=> q \in Rooters(t)
             /\ q \in Flights(t)' <=> q \in Flights(t)
             /\ q \in Unrooters(t)' <=> q \in Unrooters(t)
  <2>1. calls'[q] = calls[q]
    BY <1>1
  <2>2. q \in Minters(t)' <=> q \in Minters(t)
    BY <2>1 DEF Minters, At
  <2>3. q \in Rooters(t)' <=> q \in Rooters(t)
    BY <1>2, <2>1 DEF Rooters, At
  <2>4. q \in Flights(t)' <=> q \in Flights(t)
    BY <1>2, <2>1 DEF Flights, At
  <2>5. q \in Unrooters(t)' <=> q \in Unrooters(t)
    BY <1>2, <2>1 DEF Unrooters, At
  <2>. QED
    BY <2>2, <2>3, <2>4, <2>5
<1>4. /\ Minters(t)' \subseteq Producers /\ Minters(t) \subseteq Producers
      /\ Rooters(t)' \subseteq Producers /\ Rooters(t) \subseteq Producers
      /\ Flights(t)' \subseteq Producers /\ Flights(t) \subseteq Producers
      /\ Unrooters(t)' \subseteq Producers /\ Unrooters(t) \subseteq Producers
  BY DEF Minters, Rooters, Flights, Unrooters
<1>5. /\ Minters(t)' \ {p} = Minters(t) \ {p} /\ Rooters(t)' \ {p} = Rooters(t) \ {p}
      /\ Flights(t)' \ {p} = Flights(t) \ {p} /\ Unrooters(t)' \ {p} = Unrooters(t) \ {p}
  BY <1>3, <1>4
<1>. QED
  BY <1>5, CardStep DEF FiniteCalls, Counts

\* A step that touches one span may move it between the sets of its tracer.
SpanDeltas(s, t) ==
  /\ Cardinality(Live(t)') + One(s \in Live(t)) = Cardinality(Live(t)) + One(s \in Live(t)')
  /\ Cardinality(Ended(t)') + One(s \in Ended(t)) = Cardinality(Ended(t)) + One(s \in Ended(t)')
  /\ Cardinality(OpenRoots(t)') + One(s \in OpenRoots(t))
       = Cardinality(OpenRoots(t)) + One(s \in OpenRoots(t)')

\* A change of one span moves only that span in or out of the sets of spans.
LEMMA SpanCounts ==
  ASSUME TypesInv, TypesInv', NEW s,
         (DOMAIN spans') \ {s} = (DOMAIN spans) \ {s},
         \A r \in (DOMAIN spans) \ {s} : spans'[r] = spans[r],
         NEW t \in Tracers
  PROVE  SpanDeltas(s, t)
<1>1. IsFiniteSet(DOMAIN spans)
  BY SpansTyped, FS_Interval, SMTT(40)
<1>2. /\ Live(t) \subseteq DOMAIN spans /\ Ended(t) \subseteq DOMAIN spans
      /\ OpenRoots(t) \subseteq DOMAIN spans
  BY DEF Live, Ended, OpenRoots, OpenOf, SpansOf
<1>3. IsFiniteSet(Live(t)) /\ IsFiniteSet(Ended(t)) /\ IsFiniteSet(OpenRoots(t))
  BY <1>1, <1>2, FS_Subset
<1>4. SpansOf(t)' \ {s} = SpansOf(t) \ {s}
  BY DEF SpansOf
<1>5. Live(t)' \ {s} = Live(t) \ {s}
  BY <1>4 DEF Live, SpansOf
<1>6. Ended(t)' \ {s} = Ended(t) \ {s}
  BY <1>4 DEF Ended, SpansOf
<1>7. OpenRoots(t)' \ {s} = OpenRoots(t) \ {s}
  BY <1>4 DEF OpenRoots, OpenOf, SpansOf
<1>. QED
  BY <1>3, <1>5, <1>6, <1>7, CardStep DEF SpanDeltas

\* Where the goroutine that moves goes; the others stay.
LEMMA Moved ==
  ASSUME TypesInv, NEW p \in Producers, NEW c, Goto(p, c)
  PROVE  calls'[p] = c /\ \A q \in Producers \ {p} : calls'[q] = calls[q]
BY DEF TypesInv, Goto

\* A step that neither makes nor opens a span, and takes a goroutine off the roots only
\* through its own span, keeps RootInv.
LEMMA RootKept ==
  ASSUME TypesInv, RootInv, [Next]_vars, DOMAIN spans' = DOMAIN spans,
         \A s \in DOMAIN spans : spans'[s].state = "made" <=> spans[s].state = "made",
         NEW p \in Producers, ~At(p, "root"),
         NEW c, Goto(p, c), c.step # "root",
         c.step = "unroot" => c.span \in DOMAIN spans /\ spans[c.span].parent = 0
  PROVE  RootInv'
<1>1. calls'[p] = c /\ \A q \in Producers \ {p} : calls'[q] = calls[q]
  BY Moved
<1>2. \A s \in DOMAIN spans : SameColumns(s)
  BY SpansMove
<1>3. ASSUME NEW q \in Producers, At(q, "root")'
      PROVE  At(q, "root") /\ calls'[q] = calls[q] /\ calls[q].span \in DOMAIN spans
  <2>1. q # p
    BY <1>1, <1>3 DEF At
  <2>2. At(q, "root") /\ calls'[q] = calls[q]
    BY <1>1, <1>3, <2>1 DEF At
  <2>. QED
    BY <2>2, CallSteps, SpansTyped DEF SpanCalls
<1>4. ASSUME NEW q \in Producers, At(q, "root") PROVE At(q, "root")' /\ calls'[q] = calls[q]
  BY <1>1, <1>4 DEF At
<1>5. ASSUME NEW q \in Producers, At(q, "root")'
      PROVE  CallSpan(q)'.state = "made" /\ CallSpan(q)'.from = 0
  BY <1>2, <1>3, <1>5 DEF RootInv, CallSpan, SameColumns
<1>6. ASSUME NEW q \in Producers, NEW r \in Producers, At(q, "root")', At(r, "root")',
             calls'[q].span = calls'[r].span
      PROVE  q = r
  BY <1>3, <1>6 DEF RootInv
<1>7. ASSUME NEW s \in DOMAIN spans', spans'[s].state = "made"
      PROVE  \E q \in Producers : At(q, "root")' /\ calls'[q].span = s
  <2>1. PICK q \in Producers : At(q, "root") /\ calls[q].span = s
    BY <1>7 DEF RootInv
  <2>. QED
    BY <1>4, <2>1
<1>8. ASSUME NEW q \in Producers, At(q, "unroot")' PROVE CallSpan(q)'.parent = 0
  <2>1. CASE q = p
    BY <1>1, <1>2, <1>8, <2>1 DEF CallSpan, At, SameColumns
  <2>2. CASE q # p
    <3>1. calls'[q] = calls[q] /\ At(q, "unroot")
      BY <1>1, <1>8, <2>2 DEF At
    <3>2. calls[q].span \in DOMAIN spans /\ CallSpan(q).parent = 0
      BY <3>1, CallSteps, SpansTyped DEF SpanCalls, RootInv
    <3>. QED
      BY <1>2, <3>1, <3>2 DEF CallSpan, SameColumns
  <2>. QED
    BY <2>1, <2>2
<1>. QED
  BY <1>5, <1>6, <1>7, <1>8 DEF RootInv

\* Every step keeps each unfinished root with the one Start that made it.
LEMMA RootStep == TypesInv /\ RootInv /\ [Next]_vars => RootInv'
<1>. SUFFICES ASSUME TypesInv, RootInv, [Next]_vars PROVE RootInv'
  OBVIOUS
<1>t. /\ DOMAIN spans = 1..Len(spans) /\ Len(spans) \in Nat
      /\ \A s \in DOMAIN spans : spans[s] \in Span
  BY SpansTyped
<1>1. ASSUME NEW p \in Producers, NEW t \in Tracers, NEW from \in Contexts, StartCount(p, t, from)
      PROVE  RootInv'
  BY <1>1, RootKept DEF StartCount, At
<1>2. ASSUME NEW p \in Producers, StartMint(p) PROVE RootInv'
  <2>. DEFINE n == Len(spans) + 1
              root == calls[p].from = 0
              c == IF root THEN [step |-> "root", span |-> n] ELSE Idle
  <2>1. /\ DOMAIN spans' = (DOMAIN spans) \cup {n} /\ n \notin DOMAIN spans
        /\ \A s \in DOMAIN spans : spans'[s] = spans[s]
        /\ spans'[n].from = calls[p].from
        /\ spans'[n].state = IF root THEN "made" ELSE "open"
    BY <1>2, MintedSpan
  <2>2. calls'[p] = c /\ (\A q \in Producers \ {p} : calls'[q] = calls[q]) /\ At(p, "mint")
    BY <1>2, Moved DEF StartMint
  <2>3. ASSUME NEW q \in Producers \ {p}, At(q, "root") \/ At(q, "unroot") \/ At(q, "root")' \/ At(q, "unroot")'
        PROVE  /\ At(q, "root")' <=> At(q, "root")
               /\ At(q, "unroot")' <=> At(q, "unroot")
               /\ calls'[q] = calls[q] /\ calls[q].span \in DOMAIN spans
               /\ CallSpan(q)' = CallSpan(q)
    <3>1. calls'[q] = calls[q]
      BY <2>2
    <3>2. calls[q].span \in DOMAIN spans
      BY <1>t, <2>3, <3>1, CallSteps DEF At, SpanCalls
    <3>. QED
      BY <2>1, <3>1, <3>2 DEF At, CallSpan
  <2>4. ~At(p, "unroot")' /\ (At(p, "root")' => root /\ calls'[p].span = n /\ CallSpan(p)' = spans'[n])
    BY <2>2 DEF At, Idle, CallSpan
  <2>5. \A q \in Producers : At(q, "root")' => CallSpan(q)'.state = "made" /\ CallSpan(q)'.from = 0
    BY <2>1, <2>3, <2>4 DEF RootInv
  <2>6. \A q \in Producers : At(q, "unroot")' => CallSpan(q)'.parent = 0
    BY <2>3, <2>4 DEF RootInv
  <2>7. ASSUME NEW q \in Producers, NEW r \in Producers, At(q, "root")', At(r, "root")',
               calls'[q].span = calls'[r].span
        PROVE  q = r
    <3>1. CASE q # p /\ r # p
      BY <2>3, <2>7, <3>1 DEF RootInv
    <3>2. CASE q = p \/ r = p
      BY <2>1, <2>3, <2>4, <2>7, <3>2
    <3>. QED
      BY <3>1, <3>2
  <2>8. ASSUME NEW s \in DOMAIN spans', spans'[s].state = "made"
        PROVE  \E q \in Producers : At(q, "root")' /\ calls'[q].span = s
    <3>1. CASE s = n
      BY <2>1, <2>2, <2>8, <3>1 DEF At
    <3>2. CASE s # n
      <4>1. s \in DOMAIN spans /\ spans[s].state = "made"
        BY <2>1, <2>8, <3>2
      <4>2. PICK q \in Producers : At(q, "root") /\ calls[q].span = s
        BY <4>1 DEF RootInv
      <4>3. q # p
        BY <2>2, <4>2 DEF At
      <4>. QED
        BY <2>3, <4>2, <4>3
    <3>. QED
      BY <3>1, <3>2
  <2>. QED
    BY <2>5, <2>6, <2>7, <2>8 DEF RootInv
<1>3. ASSUME NEW p \in Producers, StartPanics(p) PROVE RootInv'
  BY <1>3, RootKept DEF StartPanics, At, Idle
<1>4. ASSUME NEW p \in Producers, StartRoot(p) PROVE RootInv'
  <2>1. PICK k \in DOMAIN spans : k = calls[p].span
    BY <1>4, <1>t, CallSteps DEF StartRoot, SpanCalls
  <2>2. /\ spans' \in Seq(Span) /\ Len(spans') = Len(spans)
        /\ \A r \in DOMAIN spans \ {k} : spans'[r] = spans[r]
        /\ spans'[k].state = "open" /\ spans'[k].parent = spans[k].parent
    BY <1>4, <2>1, StateChange DEF StartRoot, TypesInv
  <2>3. DOMAIN spans' = DOMAIN spans
    BY <1>t, <2>2, LenProperties
  <2>4. calls'[p] = Idle /\ (\A q \in Producers \ {p} : calls'[q] = calls[q]) /\ At(p, "root")
    BY <1>4, Moved DEF StartRoot
  <2>5. ASSUME NEW q \in Producers, At(q, "root")'
        PROVE  At(q, "root") /\ calls'[q] = calls[q] /\ CallSpan(q)' = CallSpan(q)
    <3>1. q # p /\ At(q, "root") /\ calls'[q] = calls[q]
      BY <2>4, <2>5 DEF At, Idle
    <3>2. calls[q].span # k /\ calls[q].span \in DOMAIN spans
      BY <1>t, <2>1, <2>4, <3>1, CallSteps DEF RootInv, SpanCalls
    <3>. QED
      BY <2>2, <3>1, <3>2 DEF CallSpan
  <2>6. ASSUME NEW q \in Producers, At(q, "unroot")' PROVE CallSpan(q)'.parent = 0
    <3>1. At(q, "unroot") /\ calls'[q] = calls[q]
      BY <2>4, <2>6 DEF At, Idle
    <3>2. calls[q].span \in DOMAIN spans /\ CallSpan(q).parent = 0
      BY <1>t, <3>1, CallSteps DEF RootInv, SpanCalls
    <3>. QED
      BY <2>2, <3>1, <3>2 DEF CallSpan
  <2>7. ASSUME NEW s \in DOMAIN spans', spans'[s].state = "made"
        PROVE  \E q \in Producers : At(q, "root")' /\ calls'[q].span = s
    <3>1. s # k /\ s \in DOMAIN spans /\ spans[s].state = "made"
      BY <2>2, <2>3, <2>7
    <3>2. PICK q \in Producers : At(q, "root") /\ calls[q].span = s
      BY <3>1 DEF RootInv
    <3>. QED
      BY <2>1, <2>4, <3>1, <3>2 DEF At
  <2>. QED
    BY <2>5, <2>6, <2>7 DEF RootInv
<1>5. ASSUME NEW p \in Producers, NEW s \in DOMAIN spans, End(p, s) PROVE RootInv'
  <2>1. /\ spans' \in Seq(Span) /\ Len(spans') = Len(spans)
        /\ \A r \in DOMAIN spans \ {s} : spans'[r] = spans[r]
        /\ spans'[s].state = "ended"
    BY <1>5, StateChange DEF End, TypesInv
  <2>2. DOMAIN spans' = DOMAIN spans
    BY <1>t, <2>1, LenProperties
  <2>3. \A r \in DOMAIN spans : spans'[r].state = "made" <=> spans[r].state = "made"
    BY <1>5, <2>1 DEF End, Endable
  <2>. QED
    BY <1>5, <2>2, <2>3, RootKept DEF End, At
<1>6. ASSUME NEW p \in Producers, EndFlight(p) \/ EndRoot(p) PROVE RootInv'
  <2>. DEFINE s == calls[p].span
  <2>1. s \in DOMAIN spans /\ UNCHANGED spans /\ ~At(p, "root")
    BY <1>6, <1>t, CallSteps DEF EndFlight, EndRoot, SpanCalls, At
  <2>2. \E c : /\ Goto(p, c) /\ c.step # "root"
               /\ c.step = "unroot" => c.span \in DOMAIN spans /\ spans[c.span].parent = 0
    <3>1. AfterGauges(s).step \in {"load", "idle"}
      BY DEF AfterGauges, Idle
    <3>2. CASE EndFlight(p) /\ IsRoot(s)
      BY <2>1, <3>2 DEF EndFlight, IsRoot
    <3>3. CASE ~(EndFlight(p) /\ IsRoot(s))
      <4>1. Goto(p, AfterGauges(s))
        BY <1>6, <3>3 DEF EndFlight, EndRoot
      <4>. QED
        BY <3>1, <4>1
    <3>. QED
      BY <3>2, <3>3
  <2>. QED
    BY <2>1, <2>2, RootKept
<1>7. ASSUME NEW p \in Producers, OverheadLoad(p) PROVE RootInv'
  BY <1>7, RootKept DEF OverheadLoad, At
<1>8. ASSUME NEW p \in Producers, NEW cost \in Costs, OverheadStore(p, cost) PROVE RootInv'
  BY <1>8, RootKept DEF OverheadStore, At, Idle
<1>9. CASE UNCHANGED <<spans, calls>>
  BY <1>9 DEF RootInv, At, CallSpan
<1>10. CASE (\E t \in Tracers : StatsBegin(t)) \/ StatsLoad \/ StatsReturn \/ UNCHANGED vars
  BY <1>9, <1>10 DEF StatsBegin, StatsLoad, StatsReturn, vars
<1>. QED
  BY <1>1, <1>2, <1>3, <1>4, <1>5, <1>6, <1>7, <1>8, <1>10 DEF Next

\* Every reachable state satisfies the invariant of the roots.
LEMMA RootHolds == Spec => []RootInv
<1>1. Init => RootInv
  BY DEF Init, RootInv, At, Idle
<1>. QED
  BY <1>1, TypesHold, RootStep, PTL DEF Spec

\* The cardinalities that the balance adds up.
Sizes(t) ==
  /\ Cardinality(Minters(t)) \in Nat /\ Cardinality(Rooters(t)) \in Nat
  /\ Cardinality(Flights(t)) \in Nat /\ Cardinality(Unrooters(t)) \in Nat
  /\ Cardinality(Live(t)) \in Nat /\ Cardinality(Ended(t)) \in Nat
  /\ Cardinality(OpenRoots(t)) \in Nat
  /\ ids[t] \in Nat /\ lost[t] \in Nat
  /\ counters[t].started \in Int /\ counters[t].completed \in Int
  /\ counters[t].spansInFlight \in Int /\ counters[t].tracesInFlight \in Int

\* The sets the gauges are compared with are finite, their sizes numbers.
LEMMA SizesTyped == \A u \in Tracers : TypesInv /\ FiniteCalls(u) => Sizes(u)
<1>. SUFFICES ASSUME TypesInv, NEW t \in Tracers, FiniteCalls(t) PROVE Sizes(t)
  OBVIOUS
<1>1. IsFiniteSet(DOMAIN spans)
  BY SpansTyped, FS_Interval
<1>2. /\ Live(t) \subseteq DOMAIN spans /\ Ended(t) \subseteq DOMAIN spans
      /\ OpenRoots(t) \subseteq DOMAIN spans
  BY DEF Live, Ended, OpenRoots, OpenOf, SpansOf
<1>3. IsFiniteSet(Live(t)) /\ IsFiniteSet(Ended(t)) /\ IsFiniteSet(OpenRoots(t))
  BY <1>1, <1>2, FS_Subset
<1>4. /\ counters[t].started \in Int /\ counters[t].completed \in Int
      /\ counters[t].spansInFlight \in Int /\ counters[t].tracesInFlight \in Int
  BY FieldsAre DEF TypesInv
<1>. QED
  BY <1>3, <1>4, FS_CardinalityType DEF Sizes, FiniteCalls, TypesInv

\* The same of the next state.
LEMMA SizesNext == (\A u \in Tracers : TypesInv /\ FiniteCalls(u) => Sizes(u))'
BY SizesTyped, PTL

\* What an addition to a counter means for the counters of any tracer.
LEMMA AddAt ==
  ASSUME TypesInv, NEW u \in Tracers, NEW f \in FieldNames, NEW n \in Int, Add(u, f, n), NEW t \in Tracers
  PROVE  \A g \in FieldNames :
           counters'[t][g] = counters[t][g] + (IF t = u /\ g = f THEN n ELSE 0)
<1>. SUFFICES ASSUME NEW g \in FieldNames
              PROVE  counters'[t][g] = counters[t][g] + (IF t = u /\ g = f THEN n ELSE 0)
  OBVIOUS
<1>1. /\ counters'[u][f] = counters[u][f] + n
      /\ \A h \in FieldNames \ {f} : counters'[u][h] = counters[u][h]
      /\ \A v \in Tracers \ {u} : counters'[v] = counters[v]
  BY AddEffect
<1>2. counters[t][g] \in Int
  BY DEF TypesInv
<1>3. t = u /\ g = f => counters'[t][g] = counters[t][g] + n
  BY <1>1
<1>4. ~(t = u /\ g = f) => counters'[t][g] = counters[t][g]
  BY <1>1
<1>. QED
  BY <1>2, <1>3, <1>4

\* Without a step of a call the sets are what they were.
LEMMA SetsKept ==
  ASSUME UNCHANGED spans, NEW t \in Tracers
  PROVE  Live(t)' = Live(t) /\ Ended(t)' = Ended(t) /\ OpenRoots(t)' = OpenRoots(t)
BY DEF Live, Ended, OpenRoots, OpenOf, SpansOf

\* Every step moves the gauges as it moves the sets they count.
LEMMA GaugeStep == TypesInv /\ TreeInv /\ RootInv /\ GaugeInv /\ [Next]_vars => GaugeInv'
<1>. SUFFICES ASSUME TypesInv, TreeInv, RootInv, GaugeInv, [Next]_vars, NEW t \in Tracers
              PROVE  FiniteCalls(t)' /\ Balance(t)' /\ Headroom(t)'
  BY DEF GaugeInv
<1>f. FiniteCalls(t) /\ Balance(t) /\ Headroom(t) /\ Sizes(t)
  BY SizesTyped DEF GaugeInv
<1>t. /\ DOMAIN spans = 1..Len(spans) /\ Len(spans) \in Nat
      /\ \A s \in DOMAIN spans : spans[s] \in Span /\ spans[s].tracer \in Tracers
  BY SpansTyped
<1>p. TypesInv'
  BY TypesStep
<1>s. FiniteCalls(t)' => Sizes(t)'
  BY <1>p, SizesNext
\* Who is where before and after a step: the sets a goroutine of each kind is in.
<1>m. ASSUME NEW p \in Producers
      PROVE  /\ ~At(p, "mint") => p \notin Minters(t)
             /\ ~At(p, "root") => p \notin Rooters(t)
             /\ ~At(p, "flight") => p \notin Flights(t)
             /\ ~At(p, "flight") /\ ~At(p, "unroot") => p \notin Unrooters(t)
             /\ ~At(p, "mint")' => p \notin Minters(t)'
             /\ ~At(p, "root")' => p \notin Rooters(t)'
             /\ ~At(p, "flight")' => p \notin Flights(t)'
             /\ ~At(p, "flight")' /\ ~At(p, "unroot")' => p \notin Unrooters(t)'
  BY DEF Minters, Rooters, Flights, Unrooters
<1>c. ASSUME NEW p \in Producers, NEW c, Goto(p, c)
      PROVE  FiniteCalls(t)' /\ Sizes(t)' /\ Counts(p, t) /\ calls'[p] = c
  BY <1>c, <1>f, <1>s, CallCounts, Moved
\* The counter a step adds to, and the ones it leaves.
<1>a. ASSUME NEW u \in Tracers, NEW f \in FieldNames, NEW n \in Int, Add(u, f, n)
      PROVE  /\ counters'[t].started = counters[t].started + n * One(t = u /\ f = "started")
             /\ counters'[t].completed = counters[t].completed + n * One(t = u /\ f = "completed")
             /\ counters'[t].spansInFlight
                  = counters[t].spansInFlight + n * One(t = u /\ f = "spansInFlight")
             /\ counters'[t].tracesInFlight
                  = counters[t].tracesInFlight + n * One(t = u /\ f = "tracesInFlight")
  <2>1. \A g \in FieldNames :
          counters'[t][g] = counters[t][g] + (IF t = u /\ g = f THEN n ELSE 0)
    BY <1>a, AddAt
  <2>2. \A g \in FieldNames : (IF t = u /\ g = f THEN n ELSE 0) = n * One(t = u /\ f = g)
    BY DEF One
  <2>. QED
    BY <2>1, <2>2, FieldsAre
<1>1. ASSUME NEW p \in Producers, NEW u \in Tracers, NEW from \in Contexts, StartCount(p, u, from)
      PROVE  FiniteCalls(t)' /\ Balance(t)' /\ Headroom(t)'
  <2>. DEFINE c == [step |-> "mint", tracer |-> u, from |-> from,
                    sampled |-> (counters[u].started + 1) % Cadence = 0]
  <2>1. Goto(p, c) /\ At(p, "idle") /\ UNCHANGED <<ids, spans, lost>>
    BY <1>1 DEF StartCount
  <2>2. FiniteCalls(t)' /\ Sizes(t)' /\ Counts(p, t) /\ calls'[p] = c
    BY <1>c, <2>1
  <2>3. /\ p \notin Minters(t) /\ p \notin Rooters(t) /\ p \notin Flights(t) /\ p \notin Unrooters(t)
        /\ p \notin Rooters(t)' /\ p \notin Flights(t)' /\ p \notin Unrooters(t)'
        /\ p \in Minters(t)' <=> t = u
    BY <2>1, <2>2, <1>m DEF At, Minters
  <2>4. /\ counters'[t].started = counters[t].started + One(t = u)
        /\ counters'[t].completed = counters[t].completed
        /\ counters'[t].spansInFlight = counters[t].spansInFlight
        /\ counters'[t].tracesInFlight = counters[t].tracesInFlight
    BY <1>1, <1>a, <1>f, FieldsAre DEF StartCount, One, Sizes
  <2>5. Live(t)' = Live(t) /\ Ended(t)' = Ended(t) /\ OpenRoots(t)' = OpenRoots(t)
    BY <2>1, SetsKept
  <2>. QED
    BY <1>f, <2>1, <2>2, <2>3, <2>4, <2>5 DEF Counts, One, Sizes, Balance, Headroom
\* A Start takes its ID and the gauge in one step, whether or not it gets its span.
<1>2. ASSUME NEW u \in Tracers, Mint(u)
      PROVE  /\ counters'[t].started = counters[t].started
             /\ counters'[t].completed = counters[t].completed
             /\ counters'[t].spansInFlight = counters[t].spansInFlight + One(t = u)
             /\ counters'[t].tracesInFlight = counters[t].tracesInFlight
             /\ ids'[t] = ids[t] + One(t = u)
  <2>1. ids'[t] = ids[t] + One(t = u)
    BY <1>2 DEF Mint, One, TypesInv
  <2>. QED
    BY <1>2, <1>a, <1>f, <2>1, FieldsAre DEF Mint, One, Sizes
<1>3. ASSUME NEW p \in Producers, StartMint(p)
      PROVE  FiniteCalls(t)' /\ Balance(t)' /\ Headroom(t)'
  <2>1. PICK u \in Tracers, root \in BOOLEAN, n \in Nat :
          u = calls[p].tracer /\ root = (calls[p].from = 0) /\ n = Len(spans) + 1
    <3>1. calls[p].tracer \in Tracers /\ Len(spans) + 1 \in Nat
      BY <1>3, <1>t, CallSteps DEF StartMint, MintCalls
    <3>2. (calls[p].from = 0) \in BOOLEAN
      OBVIOUS
    <3>. QED
      BY <3>1, <3>2
  <2>. DEFINE c == IF root THEN [step |-> "root", span |-> n] ELSE Idle
  <2>2. Goto(p, c) /\ At(p, "mint") /\ Mint(u) /\ UNCHANGED lost
    BY <1>3, <2>1 DEF StartMint
  <2>3. FiniteCalls(t)' /\ Sizes(t)' /\ Counts(p, t) /\ calls'[p] = c
    BY <1>c, <2>2
  <2>4. /\ DOMAIN spans' = (DOMAIN spans) \cup {n} /\ n \notin DOMAIN spans
        /\ \A s \in DOMAIN spans : spans'[s] = spans[s]
        /\ spans'[n].tracer = u /\ root = (spans'[n].from = 0)
        /\ spans'[n].state = IF root THEN "made" ELSE "open"
    BY <1>3, <2>1, MintedSpan
  <2>5. /\ p \notin Rooters(t) /\ p \notin Flights(t) /\ p \notin Unrooters(t)
        /\ p \notin Minters(t)' /\ p \notin Flights(t)' /\ p \notin Unrooters(t)'
        /\ p \in Minters(t) <=> t = u
        /\ p \in Rooters(t)' => t = u
    <3>1. calls'[p] = Idle \/ calls'[p] = [step |-> "root", span |-> n]
      BY <2>3
    <3>2. p \in Minters(t) <=> t = u
      BY <2>1, <2>2 DEF Minters
    <3>3. p \in Rooters(t)' => t = u
      BY <2>4, <3>1 DEF Rooters, CallSpan, At, Idle
    <3>. QED
      BY <1>m, <2>2, <3>1, <3>2, <3>3 DEF At, Idle
  <2>6. /\ n \in Live(t)' <=> t = u
        /\ n \notin Live(t) /\ n \notin Ended(t) /\ n \notin OpenRoots(t)
        /\ n \notin Ended(t)' /\ n \notin OpenRoots(t)'
    BY <2>4 DEF Live, Ended, OpenRoots, OpenOf, SpansOf
  <2>7. SpanDeltas(n, t)
    BY <1>p, <2>4, SpanCounts
  <2>. HIDE DEF c
  <2>8. Balance(t)'
    BY <1>2, <1>f, <2>2, <2>3, <2>5, <2>6, <2>7 DEF Counts, SpanDeltas, One, Sizes, Balance
  <2>9. Headroom(t)'
    BY <1>2, <1>f, <2>2, <2>3, <2>5, <2>6, <2>7 DEF Counts, One, Sizes, Headroom
  <2>. QED
    BY <2>3, <2>8, <2>9
<1>4. ASSUME NEW p \in Producers, StartPanics(p)
      PROVE  FiniteCalls(t)' /\ Balance(t)' /\ Headroom(t)'
  <2>1. PICK u \in Tracers : u = calls[p].tracer
    BY <1>4, CallSteps DEF StartPanics, MintCalls
  <2>2. Goto(p, Idle) /\ At(p, "mint") /\ Mint(u) /\ UNCHANGED spans
    BY <1>4, <2>1 DEF StartPanics
  <2>3. FiniteCalls(t)' /\ Sizes(t)' /\ Counts(p, t) /\ calls'[p] = Idle
    BY <1>c, <2>2
  <2>4. /\ p \notin Rooters(t) /\ p \notin Flights(t) /\ p \notin Unrooters(t)
        /\ p \notin Minters(t)' /\ p \notin Rooters(t)' /\ p \notin Flights(t)' /\ p \notin Unrooters(t)'
        /\ p \in Minters(t) <=> t = u
    BY <1>m, <2>1, <2>2, <2>3 DEF At, Idle, Minters
  <2>5. lost'[t] = lost[t] + One(t = u)
    BY <1>4, <2>1 DEF StartPanics, One, TypesInv
  <2>6. Live(t)' = Live(t) /\ Ended(t)' = Ended(t) /\ OpenRoots(t)' = OpenRoots(t)
    BY <2>2, SetsKept
  <2>. QED
    BY <1>2, <1>f, <2>2, <2>3, <2>4, <2>5, <2>6 DEF Counts, One, Sizes, Balance, Headroom
<1>5. ASSUME NEW p \in Producers, StartRoot(p)
      PROVE  FiniteCalls(t)' /\ Balance(t)' /\ Headroom(t)'
  <2>1. PICK k \in DOMAIN spans, u \in Tracers : k = calls[p].span /\ u = spans[k].tracer
    BY <1>5, <1>t, CallSteps DEF StartRoot, SpanCalls
  <2>2. /\ Goto(p, Idle) /\ At(p, "root") /\ Add(u, "tracesInFlight", 1)
        /\ spans' = [spans EXCEPT ![k].state = "open"] /\ UNCHANGED <<ids, lost>>
    BY <1>5, <2>1 DEF StartRoot
  <2>3. FiniteCalls(t)' /\ Sizes(t)' /\ Counts(p, t) /\ calls'[p] = Idle
    BY <1>c, <2>2
  <2>4. /\ p \notin Minters(t) /\ p \notin Flights(t) /\ p \notin Unrooters(t)
        /\ p \notin Minters(t)' /\ p \notin Rooters(t)' /\ p \notin Flights(t)' /\ p \notin Unrooters(t)'
        /\ p \in Rooters(t) <=> t = u
    BY <1>m, <2>1, <2>2, <2>3 DEF At, Idle, Rooters, CallSpan
  <2>5. /\ DOMAIN spans' = DOMAIN spans
        /\ \A r \in DOMAIN spans \ {k} : spans'[r] = spans[r]
        /\ spans'[k].state = "open" /\ spans'[k].tracer = u /\ spans'[k].from = 0
        /\ spans[k].state = "made"
    <3>1. spans[k].from = 0 /\ spans[k].state = "made"
      BY <2>1, <2>2 DEF RootInv, CallSpan
    <3>2. /\ spans' \in Seq(Span) /\ Len(spans') = Len(spans)
          /\ \A r \in DOMAIN spans \ {k} : spans'[r] = spans[r]
          /\ spans'[k].state = "open" /\ spans'[k].tracer = u /\ spans'[k].from = 0
      BY <2>1, <2>2, <3>1, StateChange DEF TypesInv
    <3>3. DOMAIN spans' = DOMAIN spans
      BY <1>t, <3>2, LenProperties
    <3>. QED
      BY <3>1, <3>2, <3>3
  <2>6. /\ k \in Live(t)' <=> t = u
        /\ k \in Live(t) <=> t = u
        /\ k \in OpenRoots(t)' <=> t = u
        /\ k \notin OpenRoots(t) /\ k \notin Ended(t) /\ k \notin Ended(t)'
    BY <2>1, <2>5 DEF Live, Ended, OpenRoots, OpenOf, SpansOf
  <2>7. SpanDeltas(k, t)
    BY <1>p, <2>5, SpanCounts
  <2>8. /\ counters'[t].started = counters[t].started
        /\ counters'[t].completed = counters[t].completed
        /\ counters'[t].spansInFlight = counters[t].spansInFlight
        /\ counters'[t].tracesInFlight = counters[t].tracesInFlight + One(t = u)
    BY <1>a, <1>f, <2>2, FieldsAre DEF One, Sizes
  <2>. QED
    BY <1>f, <2>2, <2>3, <2>4, <2>6, <2>7, <2>8
    DEF Counts, SpanDeltas, One, Sizes, Balance, Headroom
<1>6. ASSUME NEW p \in Producers, NEW k \in DOMAIN spans, End(p, k)
      PROVE  FiniteCalls(t)' /\ Balance(t)' /\ Headroom(t)'
  <2>1. PICK u \in Tracers, root \in BOOLEAN : u = spans[k].tracer /\ root = (spans[k].from = 0)
    BY <1>t
  <2>r. root = (spans[k].parent = 0)
    <3>1. RowInv(k) /\ k \in DOMAIN spans
      BY DEF TreeInv
    <3>2. spans[k].from # 0 => spans[k].from \in DOMAIN spans
      BY <1>t, <3>1 DEF RowInv
    <3>. QED
      BY <2>1, <3>1, <3>2, SpansTyped DEF RowInv
  <2>. DEFINE c == [step |-> "flight", span |-> k]
  <2>2. /\ Goto(p, c) /\ At(p, "idle") /\ Add(u, "completed", 1)
        /\ spans' = [spans EXCEPT ![k].state = "ended"] /\ UNCHANGED <<ids, lost>>
        /\ spans[k].state = "open"
    BY <1>6, <2>1 DEF End, Endable
  <2>3. FiniteCalls(t)' /\ Sizes(t)' /\ Counts(p, t) /\ calls'[p] = c
    BY <1>c, <2>2
  <2>4. /\ DOMAIN spans' = DOMAIN spans
        /\ \A r \in DOMAIN spans \ {k} : spans'[r] = spans[r]
        /\ spans'[k].state = "ended" /\ spans'[k].tracer = u
        /\ spans'[k].from = spans[k].from /\ spans'[k].parent = spans[k].parent
    <3>1. /\ spans' \in Seq(Span) /\ Len(spans') = Len(spans)
          /\ \A r \in DOMAIN spans \ {k} : spans'[r] = spans[r]
          /\ spans'[k].state = "ended" /\ spans'[k].tracer = u
          /\ spans'[k].from = spans[k].from /\ spans'[k].parent = spans[k].parent
      BY <2>1, <2>2, StateChange DEF TypesInv
    <3>2. DOMAIN spans' = DOMAIN spans
      BY <1>t, <3>1, LenProperties
    <3>. QED
      BY <3>1, <3>2
  <2>5. /\ p \notin Minters(t) /\ p \notin Rooters(t) /\ p \notin Flights(t) /\ p \notin Unrooters(t)
        /\ p \notin Minters(t)' /\ p \notin Rooters(t)'
        /\ p \in Flights(t)' <=> t = u
        /\ p \in Unrooters(t)' <=> t = u /\ root
    <3>1. CallSpan(p)' = spans'[k] /\ calls'[p].step = "flight"
      BY <2>3 DEF CallSpan
    <3>2. /\ p \in Flights(t)' <=> t = u
          /\ p \in Unrooters(t)' <=> t = u /\ root
      BY <2>r, <2>4, <3>1 DEF Flights, Unrooters, At
    <3>. QED
      BY <1>m, <2>2, <3>1, <3>2 DEF At
  <2>6. /\ k \in Live(t) <=> t = u
        /\ k \in OpenRoots(t) <=> t = u /\ root
        /\ k \in Ended(t)' <=> t = u
        /\ k \notin Live(t)' /\ k \notin OpenRoots(t)' /\ k \notin Ended(t)
    BY <2>1, <2>2, <2>4 DEF Live, Ended, OpenRoots, OpenOf, SpansOf
  <2>7. SpanDeltas(k, t)
    BY <1>p, <2>4, SpanCounts
  <2>8. /\ counters'[t].started = counters[t].started
        /\ counters'[t].completed = counters[t].completed + One(t = u)
        /\ counters'[t].spansInFlight = counters[t].spansInFlight
        /\ counters'[t].tracesInFlight = counters[t].tracesInFlight
    BY <1>a, <1>f, <2>2, FieldsAre DEF One, Sizes
  <2>. QED
    BY <1>f, <2>2, <2>3, <2>5, <2>6, <2>7, <2>8
    DEF Counts, SpanDeltas, One, Sizes, Balance, Headroom
<1>7. ASSUME NEW p \in Producers, EndFlight(p)
      PROVE  FiniteCalls(t)' /\ Balance(t)' /\ Headroom(t)'
  <2>1. PICK k \in DOMAIN spans, u \in Tracers, root \in BOOLEAN :
          k = calls[p].span /\ u = spans[k].tracer /\ root = (spans[k].parent = 0)
    BY <1>7, <1>t, CallSteps DEF EndFlight, SpanCalls
  <2>. DEFINE c == IF root THEN [step |-> "unroot", span |-> k] ELSE AfterGauges(k)
  <2>2. /\ Goto(p, c) /\ At(p, "flight") /\ Add(u, "spansInFlight", -1)
        /\ UNCHANGED <<ids, spans, lost>>
    BY <1>7, <2>1 DEF EndFlight, IsRoot
  <2>3. FiniteCalls(t)' /\ Sizes(t)' /\ Counts(p, t) /\ calls'[p] = c
    BY <1>c, <2>2
  <2>4. /\ p \notin Minters(t) /\ p \notin Rooters(t)
        /\ p \notin Minters(t)' /\ p \notin Rooters(t)' /\ p \notin Flights(t)'
        /\ p \in Flights(t) <=> t = u
        /\ p \in Unrooters(t) <=> t = u /\ root
        /\ p \in Unrooters(t)' <=> t = u /\ root
    <3>1. /\ p \in Flights(t) <=> t = u
          /\ p \in Unrooters(t) <=> t = u /\ root
      BY <2>1, <2>2 DEF Flights, Unrooters, CallSpan
    <3>2. CASE root
      <4>1. calls'[p].step = "unroot" /\ CallSpan(p)' = spans[k]
        BY <2>2, <2>3, <3>2 DEF CallSpan
      <4>2. p \in Unrooters(t)' <=> t = u
        BY <2>1, <3>2, <4>1 DEF Unrooters, At
      <4>. QED
        BY <1>m, <2>2, <3>1, <3>2, <4>1, <4>2 DEF At
    <3>3. CASE ~root
      <4>1. calls'[p].step \in {"idle", "load"}
        BY <2>3, <3>3 DEF AfterGauges, Idle
      <4>. QED
        BY <1>m, <2>2, <3>1, <3>3, <4>1 DEF At
    <3>. QED
      BY <3>2, <3>3
  <2>5. Live(t)' = Live(t) /\ Ended(t)' = Ended(t) /\ OpenRoots(t)' = OpenRoots(t)
    BY <2>2, SetsKept
  <2>6. /\ counters'[t].started = counters[t].started
        /\ counters'[t].completed = counters[t].completed
        /\ counters'[t].spansInFlight = counters[t].spansInFlight - One(t = u)
        /\ counters'[t].tracesInFlight = counters[t].tracesInFlight
    BY <1>a, <1>f, <2>2, FieldsAre DEF One, Sizes
  <2>. QED
    BY <1>f, <2>2, <2>3, <2>4, <2>5, <2>6 DEF Counts, One, Sizes, Balance, Headroom
<1>8. ASSUME NEW p \in Producers, EndRoot(p)
      PROVE  FiniteCalls(t)' /\ Balance(t)' /\ Headroom(t)'
  <2>1. PICK k \in DOMAIN spans, u \in Tracers : k = calls[p].span /\ u = spans[k].tracer
    BY <1>8, <1>t, CallSteps DEF EndRoot, SpanCalls
  <2>2. /\ Goto(p, AfterGauges(k)) /\ At(p, "unroot") /\ Add(u, "tracesInFlight", -1)
        /\ UNCHANGED <<ids, spans, lost>>
    BY <1>8, <2>1 DEF EndRoot
  <2>3. FiniteCalls(t)' /\ Sizes(t)' /\ Counts(p, t) /\ calls'[p] = AfterGauges(k)
    BY <1>c, <2>2
  <2>4. /\ p \notin Minters(t) /\ p \notin Rooters(t) /\ p \notin Flights(t)
        /\ p \notin Minters(t)' /\ p \notin Rooters(t)' /\ p \notin Flights(t)' /\ p \notin Unrooters(t)'
        /\ p \in Unrooters(t) <=> t = u
    <3>1. calls'[p].step \in {"idle", "load"}
      BY <2>3 DEF AfterGauges, Idle
    <3>2. CallSpan(p).parent = 0 /\ CallSpan(p) = spans[k]
      BY <2>1, <2>2 DEF RootInv, CallSpan
    <3>3. p \in Unrooters(t) <=> t = u
      BY <2>1, <2>2, <3>2 DEF Unrooters
    <3>. QED
      BY <1>m, <2>2, <3>1, <3>3 DEF At
  <2>5. Live(t)' = Live(t) /\ Ended(t)' = Ended(t) /\ OpenRoots(t)' = OpenRoots(t)
    BY <2>2, SetsKept
  <2>6. /\ counters'[t].started = counters[t].started
        /\ counters'[t].completed = counters[t].completed
        /\ counters'[t].spansInFlight = counters[t].spansInFlight
        /\ counters'[t].tracesInFlight = counters[t].tracesInFlight - One(t = u)
    BY <1>a, <1>f, <2>2, FieldsAre DEF One, Sizes
  <2>. QED
    BY <1>f, <2>2, <2>3, <2>4, <2>5, <2>6 DEF Counts, One, Sizes, Balance, Headroom
\* The overhead moves no gauge, and neither do the readers.
<1>9. ASSUME NEW p \in Producers, NEW c, Goto(p, c), At(p, "load") \/ At(p, "store"),
             c.step \in {"store", "idle"}, UNCHANGED <<ids, counters, spans, lost>>
      PROVE  FiniteCalls(t)' /\ Balance(t)' /\ Headroom(t)'
  <2>1. FiniteCalls(t)' /\ Sizes(t)' /\ Counts(p, t) /\ calls'[p] = c
    BY <1>9, <1>c
  <2>2. /\ p \notin Minters(t) /\ p \notin Rooters(t) /\ p \notin Flights(t) /\ p \notin Unrooters(t)
        /\ p \notin Minters(t)' /\ p \notin Rooters(t)' /\ p \notin Flights(t)' /\ p \notin Unrooters(t)'
    BY <1>9, <1>m, <2>1 DEF At
  <2>3. Live(t)' = Live(t) /\ Ended(t)' = Ended(t) /\ OpenRoots(t)' = OpenRoots(t)
    BY <1>9, SetsKept
  <2>. QED
    BY <1>9, <1>f, <2>1, <2>2, <2>3 DEF Counts, One, Sizes, Balance, Headroom
<1>10. CASE \E p \in Producers : OverheadLoad(p) \/ \E cost \in Costs : OverheadStore(p, cost)
  BY <1>9, <1>10 DEF OverheadLoad, OverheadStore, Idle
<1>11. ASSUME UNCHANGED <<ids, counters, spans, calls, lost>>
       PROVE  FiniteCalls(t)' /\ Balance(t)' /\ Headroom(t)'
  <2>1. /\ Minters(t)' = Minters(t) /\ Rooters(t)' = Rooters(t)
        /\ Flights(t)' = Flights(t) /\ Unrooters(t)' = Unrooters(t)
    BY <1>11 DEF Minters, Rooters, Flights, Unrooters, At, CallSpan
  <2>2. Live(t)' = Live(t) /\ Ended(t)' = Ended(t) /\ OpenRoots(t)' = OpenRoots(t)
    BY <1>11, SetsKept
  <2>. QED
    BY <1>11, <1>f, <2>1, <2>2 DEF FiniteCalls, Balance, Headroom
<1>12. CASE (\E u \in Tracers : StatsBegin(u)) \/ StatsLoad \/ StatsReturn \/ UNCHANGED vars
  BY <1>11, <1>12 DEF StatsBegin, StatsLoad, StatsReturn, vars
<1>. QED
  BY <1>1, <1>3, <1>4, <1>5, <1>6, <1>7, <1>8, <1>10, <1>12 DEF Next

\* Nothing is open and nothing is counted at the start.
LEMMA GaugeInit == Init => GaugeInv
<1>. SUFFICES ASSUME Init, NEW t \in Tracers PROVE FiniteCalls(t) /\ Balance(t) /\ Headroom(t)
  BY DEF GaugeInv
<1>1. Minters(t) = {} /\ Rooters(t) = {} /\ Flights(t) = {} /\ Unrooters(t) = {}
  BY DEF Init, Minters, Rooters, Flights, Unrooters, At, Idle
<1>2. Live(t) = {} /\ Ended(t) = {} /\ OpenRoots(t) = {}
  BY DEF Init, Live, Ended, OpenRoots, OpenOf, SpansOf
<1>3. /\ counters[t].started = 0 /\ counters[t].completed = 0 /\ counters[t].spansInFlight = 0
      /\ counters[t].tracesInFlight = 0 /\ ids[t] = 0 /\ lost[t] = 0
  BY FieldsAre DEF Init
<1>. QED
  BY <1>1, <1>2, <1>3, FS_EmptySet DEF FiniteCalls, Balance, Headroom

\* Every reachable state satisfies the invariant of the gauges.
LEMMA GaugeHolds == Spec => []GaugeInv
BY GaugeInit, GaugeStep, TypesHold, TreeHolds, RootHolds, PTL DEF Spec

\* Between calls the gauges of a tracer are its open spans and open roots (stats.go:31-32),
\* plus what Starts that panicked in their context left in SpansInFlight.
THEOREM GaugesCorrect == Spec => []GaugesMatchOpen
<1>1. TypesInv /\ RootInv /\ GaugeInv => GaugesMatchOpen
  <2>. SUFFICES ASSUME TypesInv, RootInv, GaugeInv, \A p \in Producers : At(p, "idle"), NEW t \in Tracers
                PROVE  /\ counters[t].spansInFlight = Cardinality(OpenOf(t)) + lost[t]
                       /\ counters[t].tracesInFlight = Cardinality({s \in OpenOf(t) : spans[s].from = 0})
                       /\ counters[t].started = counters[t].completed + counters[t].spansInFlight
    BY DEF GaugesMatchOpen
  <2>1. FiniteCalls(t) /\ Balance(t) /\ Sizes(t)
    BY SizesTyped DEF GaugeInv
  <2>2. Minters(t) = {} /\ Flights(t) = {} /\ Unrooters(t) = {}
    BY DEF Minters, Flights, Unrooters, At
  <2>3. Live(t) = OpenOf(t)
    <3>1. \A s \in DOMAIN spans : spans[s].state # "made"
      BY DEF RootInv, At
    <3>2. \A s \in DOMAIN spans : spans[s].state \in {"made", "open", "ended"}
      BY SpansTyped DEF Span
    <3>. QED
      BY <3>1, <3>2 DEF Live, OpenOf, SpansOf
  <2>. QED
    BY <2>1, <2>2, <2>3, FS_EmptySet DEF Balance, Sizes, OpenRoots
<1>. QED
  BY <1>1, TypesHold, RootHolds, GaugeHolds, PTL

-----------------------------------------------------------------------------
(* Snapshots                                                               *)

Row == [tracer : Tracers, values : Seq(Int)]

\* The values of a snapshot against the counters of its tracer.
Seen(t, v) ==
  /\ v[1] <= counters[t].started /\ v[2] <= counters[t].completed
  /\ v[3] \in 0..counters[t].started /\ v[4] \in 0..counters[t].started

\* The values a Stats call has loaded so far, which are at most what the counters have
\* come to, and at least what every earlier snapshot of the tracer saw: its first load
\* came after theirs.
ReadingInv ==
  LET t == reading.tracer
      w == reading.values
  IN  /\ reading \in Row /\ Len(w) \in 1..3
      /\ w[1] <= counters[t].started
      /\ Len(w) >= 2 => w[2] <= counters[t].completed
      /\ Len(w) >= 3 => w[3] \in 0..counters[t].started
      /\ \A i \in DOMAIN snapshots : snapshots[i].tracer = t =>
           LET v == snapshots[i].values IN
           /\ v[1] <= w[1] /\ v[2] <= w[1] /\ v[3] <= w[1] /\ v[4] <= w[1]
           /\ Len(w) >= 2 => v[2] <= w[2]

SnapInv ==
  /\ snapshots \in Seq(Row)
  /\ \A i \in DOMAIN snapshots :
       Len(snapshots[i].values) = 4 /\ Seen(snapshots[i].tracer, snapshots[i].values)
  /\ reading # NotReading => ReadingInv
  /\ SnapshotsInOrder

\* The cumulative counters never go down.
LEMMA CountersGrow ==
  ASSUME TypesInv, [Next]_vars, NEW t \in Tracers
  PROVE  /\ counters[t].started \in Int /\ counters'[t].started \in Int
         /\ counters[t].completed \in Int /\ counters'[t].completed \in Int
         /\ counters[t].started <= counters'[t].started
         /\ counters[t].completed <= counters'[t].completed
<1>t. TypesInv'
  BY TypesStep
<1>i. /\ counters[t].started \in Int /\ counters'[t].started \in Int
      /\ counters[t].completed \in Int /\ counters'[t].completed \in Int
  BY <1>t, FieldsAre, SMTT(40) DEF TypesInv
<1>1. ASSUME NEW u \in Tracers, NEW f \in FieldNames, NEW n \in Int, Add(u, f, n),
             f \in {"started", "completed"} => n = 1
      PROVE  /\ counters[t].started <= counters'[t].started
             /\ counters[t].completed <= counters'[t].completed
  <2>1. \A g \in FieldNames :
          counters'[t][g] = counters[t][g] + (IF t = u /\ g = f THEN n ELSE 0)
    BY <1>1, AddAt
  <2>2. counters'[t].started = counters[t].started + (IF t = u /\ f = "started" THEN n ELSE 0)
    BY <2>1, FieldsAre
  <2>3. counters'[t].completed = counters[t].completed + (IF t = u /\ f = "completed" THEN n ELSE 0)
    BY <2>1, FieldsAre
  <2>. QED
    BY <1>1, <1>i, <2>2, <2>3
<1>2. CASE UNCHANGED counters
  BY <1>2, <1>i
<1>3. ASSUME NEW u \in Tracers, Add(u, "started", 1) \/ Add(u, "completed", 1)
      PROVE  /\ counters[t].started <= counters'[t].started
             /\ counters[t].completed <= counters'[t].completed
  <2>1. "started" \in FieldNames /\ "completed" \in FieldNames
    BY FieldsAre
  <2>. QED
    BY <1>1, <1>3, <2>1
<1>4. ASSUME NEW u \in Tracers, NEW f \in {"spansInFlight", "tracesInFlight"}, NEW n \in Int, Add(u, f, n)
      PROVE  /\ counters[t].started <= counters'[t].started
             /\ counters[t].completed <= counters'[t].completed
  <2>1. f \in FieldNames /\ f \notin {"started", "completed"}
    BY FieldsAre
  <2>. QED
    BY <1>1, <1>4, <2>1
<1>5. ASSUME NEW p \in Producers, NEW u \in Tracers, NEW from \in Contexts, StartCount(p, u, from)
      PROVE  Add(u, "started", 1)
  BY <1>5 DEF StartCount
<1>6. ASSUME NEW p \in Producers, StartMint(p) \/ StartPanics(p)
      PROVE  \E u \in Tracers : Add(u, "spansInFlight", 1)
  <2>1. calls[p].tracer \in Tracers
    BY <1>6, CallSteps DEF StartMint, StartPanics, MintCalls
  <2>. QED
    BY <1>6, <2>1 DEF StartMint, StartPanics, Mint
<1>7. ASSUME NEW p \in Producers, StartRoot(p) \/ EndFlight(p) \/ EndRoot(p)
      PROVE  \E u \in Tracers, f \in {"spansInFlight", "tracesInFlight"}, n \in Int : Add(u, f, n)
  <2>1. calls[p].span \in DOMAIN spans
    BY <1>7, CallSteps, SpansTyped DEF StartRoot, EndFlight, EndRoot, SpanCalls
  <2>2. spans[calls[p].span].tracer \in Tracers
    BY <2>1, SpansTyped
  <2>. QED
    BY <1>7, <2>2 DEF StartRoot, EndFlight, EndRoot
<1>8. ASSUME NEW p \in Producers, NEW s \in DOMAIN spans, End(p, s)
      PROVE  \E u \in Tracers : Add(u, "completed", 1)
  BY <1>8, SpansTyped DEF End
<1>9. CASE \E p \in Producers : OverheadLoad(p) \/ \E cost \in Costs : OverheadStore(p, cost)
  BY <1>2, <1>9 DEF OverheadLoad, OverheadStore
<1>10. CASE (\E u \in Tracers : StatsBegin(u)) \/ StatsLoad \/ StatsReturn \/ UNCHANGED vars
  BY <1>2, <1>10 DEF StatsBegin, StatsLoad, StatsReturn, vars
<1>11. \/ \E u \in Tracers : Add(u, "started", 1) \/ Add(u, "completed", 1)
       \/ \E u \in Tracers, f \in {"spansInFlight", "tracesInFlight"}, n \in Int : Add(u, f, n)
       \/ \E p \in Producers : OverheadLoad(p) \/ \E cost \in Costs : OverheadStore(p, cost)
       \/ (\E u \in Tracers : StatsBegin(u)) \/ StatsLoad \/ StatsReturn \/ UNCHANGED vars
  BY <1>5, <1>6, <1>7, <1>8 DEF Next
<1>. QED
  BY <1>i, <1>3, <1>4, <1>9, <1>10, <1>11

\* A gauge is between zero and the number of Starts at every step, not only between calls.
LEMMA GaugeBounds ==
  ASSUME TypesInv, GaugeInv, NEW t \in Tracers
  PROVE  LET c == counters[t] IN
         /\ c.started \in Int /\ c.completed \in Int
         /\ c.completed <= c.started
         /\ c.spansInFlight \in 0..c.started /\ c.tracesInFlight \in 0..c.started
<1>1. FiniteCalls(t) /\ Balance(t) /\ Headroom(t) /\ Sizes(t)
  BY SizesTyped DEF GaugeInv
<1>. QED
  BY <1>1 DEF Balance, Headroom, Sizes

\* Steps of Start and End leave the readers where they were, with the counters grown.
LEMMA SnapKept ==
  ASSUME TypesInv, SnapInv, [Next]_vars, UNCHANGED <<reading, snapshots>>
  PROVE  SnapInv'
<1>1. \A t \in Tracers :
        /\ counters[t].started \in Int /\ counters'[t].started \in Int
        /\ counters[t].completed \in Int /\ counters'[t].completed \in Int
        /\ counters[t].started <= counters'[t].started
        /\ counters[t].completed <= counters'[t].completed
  BY CountersGrow
<1>2. ASSUME NEW i \in DOMAIN snapshots
      PROVE  Seen(snapshots[i].tracer, snapshots[i].values)'
  <2>1. PICK v \in Seq(Int), t \in Tracers :
          v = snapshots[i].values /\ t = snapshots[i].tracer /\ Len(v) = 4
    <3>1. snapshots[i] \in Row
      BY <1>2, ElementOfSeq, LenProperties DEF SnapInv
    <3>. QED
      BY <3>1 DEF Row, SnapInv
  <2>2. v[1] \in Int /\ v[2] \in Int /\ v[3] \in Int /\ v[4] \in Int
    BY <2>1, ElementOfSeq
  <2>3. Seen(t, v)
    BY <2>1 DEF SnapInv
  <2>4. /\ v[1] <= counters'[t].started /\ v[2] <= counters'[t].completed
        /\ v[3] \in 0..counters'[t].started /\ v[4] \in 0..counters'[t].started
    <3>1. /\ v[1] <= counters[t].started /\ v[2] <= counters[t].completed
          /\ v[3] \in 0..counters[t].started /\ v[4] \in 0..counters[t].started
      BY <2>3 DEF Seen
    <3>2. /\ counters[t].started \in Int /\ counters'[t].started \in Int
          /\ counters[t].completed \in Int /\ counters'[t].completed \in Int
          /\ counters[t].started <= counters'[t].started
          /\ counters[t].completed <= counters'[t].completed
      BY <1>1
    <3>. QED
      BY <2>2, <3>1, <3>2, SMTT(40)
  <2>. QED
    BY <2>1, <2>4 DEF Seen
<1>3. ASSUME reading # NotReading PROVE ReadingInv'
  <2>1. PICK w \in Seq(Int), t \in Tracers : w = reading.values /\ t = reading.tracer
    BY <1>3 DEF SnapInv, ReadingInv, Row
  <2>2. Len(w) \in 1..3 /\ \A k \in 1..Len(w) : w[k] \in Int
    BY <1>3, <2>1, ElementOfSeq DEF SnapInv, ReadingInv
  <2>3. /\ w[1] <= counters'[t].started
        /\ Len(w) >= 2 => w[2] <= counters'[t].completed
        /\ Len(w) >= 3 => w[3] \in 0..counters'[t].started
    <3>1. /\ w[1] <= counters[t].started
          /\ Len(w) >= 2 => w[2] <= counters[t].completed
          /\ Len(w) >= 3 => w[3] \in 0..counters[t].started
      BY <1>3, <2>1 DEF SnapInv, ReadingInv
    <3>2. /\ counters[t].started \in Int /\ counters'[t].started \in Int
          /\ counters[t].completed \in Int /\ counters'[t].completed \in Int
          /\ counters[t].started <= counters'[t].started
          /\ counters[t].completed <= counters'[t].completed
      BY <1>1
    <3>3. PICK k \in 1..3 : k = Len(w)
      BY <2>2
    <3>4. w[1] \in Int /\ (k >= 2 => w[2] \in Int) /\ (k >= 3 => w[3] \in Int)
      BY <2>2, <3>3
    <3>. QED
      BY <3>1, <3>2, <3>3, <3>4
  <2>. QED
    BY <1>3, <2>1, <2>3 DEF SnapInv, ReadingInv
<1>. QED
  BY <1>2, <1>3 DEF SnapInv, SnapshotsInOrder

\* Every load keeps a snapshot between what earlier ones saw and what the counters
\* have come to.
LEMMA SnapStep == TypesInv /\ GaugeInv /\ SnapInv /\ [Next]_vars => SnapInv'
<1>. SUFFICES ASSUME TypesInv, GaugeInv, SnapInv, [Next]_vars PROVE SnapInv'
  OBVIOUS
<1>b. \A t \in Tracers : LET c == counters[t] IN
        /\ c.started \in Int /\ c.completed \in Int
        /\ c.completed <= c.started
        /\ c.spansInFlight \in 0..c.started /\ c.tracesInFlight \in 0..c.started
  BY GaugeBounds
\* Earlier snapshots, row by row.
<1>r. ASSUME NEW i \in DOMAIN snapshots
      PROVE  LET v == snapshots[i].values
                 t == snapshots[i].tracer
             IN  /\ t \in Tracers /\ v \in Seq(Int) /\ Len(v) = 4
                 /\ v[1] \in Int /\ v[2] \in Int /\ v[3] \in Int /\ v[4] \in Int
                 /\ Seen(t, v)
  <2>1. snapshots[i] \in Row
    BY <1>r, ElementOfSeq, LenProperties DEF SnapInv
  <2>2. snapshots[i].values \in Seq(Int) /\ snapshots[i].tracer \in Tracers
    BY <2>1 DEF Row
  <2>3. Len(snapshots[i].values) = 4 /\ Seen(snapshots[i].tracer, snapshots[i].values)
    BY <1>r DEF SnapInv
  <2>. QED
    BY <2>2, <2>3, ElementOfSeq
\* The call under way.
<1>w. ASSUME reading # NotReading
      PROVE  LET t == reading.tracer
                 w == reading.values
             IN  /\ t \in Tracers /\ w \in Seq(Int) /\ Len(w) \in 1..3
                 /\ \A k \in 1..Len(w) : w[k] \in Int
                 /\ counters[t][Fields[Len(w) + 1]] \in Int
                 /\ Loaded \in Seq(Int) /\ Len(Loaded) = Len(w) + 1
                 /\ Loaded[Len(w) + 1] = counters[t][Fields[Len(w) + 1]]
                 /\ \A k \in 1..Len(w) : Loaded[k] = w[k]
  <2>. DEFINE t == reading.tracer
              w == reading.values
  <2>1. t \in Tracers /\ w \in Seq(Int) /\ Len(w) \in 1..3
    BY <1>w DEF SnapInv, ReadingInv, Row
  <2>2. Fields[Len(w) + 1] \in FieldNames
    <3>1. PICK k \in 1..4 : k = Len(w) + 1
      <4>1. \A a \in 1..3 : a + 1 \in 1..4
        OBVIOUS
      <4>. QED
        BY <2>1, <4>1
    <3>. QED
      BY <3>1, FieldsAre
  <2>3. counters[t][Fields[Len(w) + 1]] \in Int
    BY <2>1, <2>2 DEF TypesInv
  <2>. QED
    BY <2>1, <2>3, ElementOfSeq, AppendProperties DEF Loaded
<1>1. ASSUME NEW t \in Tracers, StatsBegin(t) PROVE SnapInv'
  <2>1. reading' = [tracer |-> t, values |-> <<counters[t].started>>]
    BY <1>1, FieldsAre DEF StatsBegin
  <2>2. reading' \in Row /\ Len(reading'.values) = 1
    BY <1>b, <2>1 DEF Row
  <2>3. ReadingInv'
    <3>1. reading'.values[1] = counters[t].started /\ reading'.tracer = t
      BY <2>1
    <3>2. ASSUME NEW i \in DOMAIN snapshots, snapshots[i].tracer = t
          PROVE  LET v == snapshots[i].values
                     s == counters[t].started
                 IN  v[1] <= s /\ v[2] <= s /\ v[3] <= s /\ v[4] <= s
      BY <1>b, <1>r, <3>2 DEF Seen
    <3>3. UNCHANGED <<counters, snapshots>>
      BY <1>1 DEF StatsBegin
    <3>. QED
      BY <1>b, <2>2, <3>1, <3>2, <3>3 DEF ReadingInv
  <2>. QED
    BY <1>1, <2>3 DEF StatsBegin, SnapInv, SnapshotsInOrder, Seen
<1>2. CASE StatsLoad
  <2>1. PICK t \in Tracers, w \in Seq(Int), x \in Seq(Int) :
          t = reading.tracer /\ w = reading.values /\ x = Loaded
    BY <1>2, <1>w DEF StatsLoad
  <2>2. /\ Len(w) \in 1..2 /\ Len(x) = Len(w) + 1
        /\ \A k \in 1..Len(w) : x[k] = w[k] /\ w[k] \in Int
        /\ x[Len(w) + 1] = counters[t][Fields[Len(w) + 1]]
        /\ reading' = [tracer |-> t, values |-> x]
    <3>1. reading \in Row
      BY <1>2 DEF StatsLoad, SnapInv, ReadingInv
    <3>2. reading' = [tracer |-> t, values |-> x]
      BY <1>2, <2>1, <3>1 DEF StatsLoad, Row
    <3>3. Len(x) < 4 /\ reading # NotReading
      BY <1>2, <2>1, FieldsAre DEF StatsLoad
    <3>4. /\ Len(w) \in 1..3 /\ Len(x) = Len(w) + 1
          /\ \A k \in 1..Len(w) : x[k] = w[k] /\ w[k] \in Int
          /\ x[Len(w) + 1] = counters[t][Fields[Len(w) + 1]]
      BY <1>w, <2>1, <3>3
    <3>. QED
      BY <3>2, <3>3, <3>4
  <2>3. /\ x[1] = w[1]
        /\ Len(w) = 1 => x[2] = counters[t].completed
        /\ Len(w) = 2 => x[2] = w[2] /\ x[3] = counters[t].spansInFlight
    <3>1. CASE Len(w) = 1
      <4>1. x[1] = w[1] /\ x[2] = counters[t][Fields[2]]
        BY <2>2, <3>1
      <4>. QED
        BY <3>1, <4>1, FieldsAre
    <3>2. CASE Len(w) = 2
      <4>1. x[1] = w[1] /\ x[2] = w[2] /\ x[3] = counters[t][Fields[3]]
        BY <2>2, <3>2
      <4>. QED
        BY <3>2, <4>1, FieldsAre
    <3>. QED
      BY <2>2, <3>1, <3>2
  <2>4. /\ x[1] <= counters[t].started
        /\ x[2] <= counters[t].completed
        /\ Len(x) >= 3 => x[3] \in 0..counters[t].started
    <3>1. w[1] <= counters[t].started /\ (Len(w) >= 2 => w[2] <= counters[t].completed)
      BY <1>2, <2>1 DEF StatsLoad, SnapInv, ReadingInv
    <3>2. /\ counters[t].completed \in Int
          /\ counters[t].spansInFlight \in 0..counters[t].started
      BY <1>b
    <3>3. CASE Len(w) = 1
      <4>1. ~(Len(x) >= 3) /\ x[1] = w[1] /\ x[2] = counters[t].completed
        BY <2>2, <2>3, <3>3
      <4>. QED
        BY <3>1, <3>2, <4>1
    <3>4. CASE Len(w) = 2
      <4>1. x[1] = w[1] /\ x[2] = w[2] /\ x[3] = counters[t].spansInFlight
        BY <2>3, <3>4
      <4>2. w[2] <= counters[t].completed
        BY <3>1, <3>4
      <4>. QED
        BY <3>1, <3>2, <4>1, <4>2
    <3>. QED
      BY <2>2, <3>3, <3>4
  <2>5. ASSUME NEW i \in DOMAIN snapshots, snapshots[i].tracer = t
        PROVE  LET v == snapshots[i].values IN
               /\ v[1] <= x[1] /\ v[2] <= x[1] /\ v[3] <= x[1] /\ v[4] <= x[1]
               /\ v[2] <= x[2]
    <3>1. LET v == snapshots[i].values IN
          /\ v[1] <= w[1] /\ v[2] <= w[1] /\ v[3] <= w[1] /\ v[4] <= w[1]
          /\ Len(w) >= 2 => v[2] <= w[2]
      BY <1>2, <2>1, <2>5 DEF StatsLoad, SnapInv, ReadingInv
    <3>2. snapshots[i].values[2] <= counters[t].completed
      BY <1>r, <2>5 DEF Seen
    <3>. QED
      BY <2>2, <2>3, <3>1, <3>2
  <2>6. UNCHANGED <<counters, snapshots>>
    BY <1>2 DEF StatsLoad
  <2>7. ReadingInv'
    <3>1. reading'.tracer = t /\ reading'.values = x /\ reading' \in Row
      BY <2>2 DEF Row
    <3>2. Len(x) \in 1..3
      <4>1. \A a \in 1..2 : a + 1 \in 1..3
        OBVIOUS
      <4>. QED
        BY <2>2, <4>1
    <3>. QED
      BY <2>4, <2>5, <2>6, <3>1, <3>2 DEF ReadingInv
  <2>. QED
    BY <2>6, <2>7 DEF SnapInv, SnapshotsInOrder, Seen
<1>3. CASE StatsReturn
  <2>1. PICK t \in Tracers, w \in Seq(Int), x \in Seq(Int) :
          t = reading.tracer /\ w = reading.values /\ x = Loaded
    BY <1>3, <1>w DEF StatsReturn
  <2>. DEFINE row == [tracer |-> t, values |-> x]
              n == Len(snapshots) + 1
  <2>2. /\ Len(w) = 3 /\ Len(x) = 4
        /\ x[1] = w[1] /\ x[2] = w[2] /\ x[3] = w[3] /\ x[4] = counters[t].tracesInFlight
        /\ w[1] \in Int /\ w[2] \in Int /\ w[3] \in Int
    <3>1. Len(x) = 4
      BY <1>3, <2>1, FieldsAre DEF StatsReturn
    <3>2. Len(w) = 3
      <4>1. Len(x) = Len(w) + 1 /\ Len(w) \in 1..3
        BY <1>3, <1>w, <2>1 DEF StatsReturn
      <4>2. \A a \in 1..3 : a + 1 = 4 => a = 3
        OBVIOUS
      <4>. QED
        BY <3>1, <4>1, <4>2
    <3>3. /\ \A k \in 1..3 : x[k] = w[k] /\ w[k] \in Int
          /\ x[4] = counters[t][Fields[4]]
      <4>1. /\ \A k \in 1..Len(w) : x[k] = w[k] /\ w[k] \in Int
            /\ x[Len(w) + 1] = counters[t][Fields[Len(w) + 1]]
        BY <1>3, <1>w, <2>1 DEF StatsReturn
      <4>. QED
        BY <3>2, <4>1
    <3>. QED
      BY <3>1, <3>2, <3>3, FieldsAre
  <2>3. snapshots' = Append(snapshots, row) /\ reading' = NotReading /\ UNCHANGED counters
    BY <1>3, <2>1 DEF StatsReturn
  <2>4. row \in Row
    BY DEF Row
  <2>5. /\ snapshots' \in Seq(Row) /\ DOMAIN snapshots' = (DOMAIN snapshots) \cup {n}
        /\ n \in Nat /\ n \notin DOMAIN snapshots /\ snapshots'[n] = row
        /\ \A i \in DOMAIN snapshots : snapshots'[i] = snapshots[i] /\ i < n /\ i \in Nat
    <3>1. /\ snapshots \in Seq(Row) /\ DOMAIN snapshots = 1..Len(snapshots) /\ Len(snapshots) \in Nat
      BY LenProperties DEF SnapInv
    <3>. HIDE DEF row
    <3>2. /\ Append(snapshots, row) \in Seq(Row)
          /\ DOMAIN Append(snapshots, row) = 1..n
          /\ Append(snapshots, row)[n] = row
          /\ \A i \in 1..Len(snapshots) : Append(snapshots, row)[i] = snapshots[i]
      BY <2>4, <3>1, AppendProperties, LenProperties
    <3>. QED
      BY <2>3, <3>1, <3>2
  <2>6. Seen(t, x)
    BY <1>3, <1>b, <2>1, <2>2 DEF StatsReturn, SnapInv, ReadingInv, Seen
  <2>7. ASSUME NEW i \in DOMAIN snapshots, snapshots[i].tracer = t
        PROVE  LET v == snapshots[i].values IN
               v[1] <= x[1] /\ v[2] <= x[2] /\ v[2] <= x[1] /\ v[3] <= x[1] /\ v[4] <= x[1]
    BY <1>3, <2>1, <2>2, <2>7 DEF StatsReturn, SnapInv, ReadingInv
  <2>8. x[3] >= 0 /\ x[4] >= 0
    BY <1>b, <2>2, <2>6 DEF Seen
  <2>9. SnapshotsInOrder'
    <3>1. ASSUME NEW i \in DOMAIN snapshots', NEW j \in DOMAIN snapshots'
          PROVE  LET v == snapshots'[i].values
                     y == snapshots'[j].values
                 IN  /\ v[3] >= 0 /\ v[4] >= 0
                     /\ i < j /\ snapshots'[i].tracer = snapshots'[j].tracer =>
                          /\ v[1] <= y[1] /\ v[2] <= y[2]
                          /\ v[2] <= y[1] /\ v[3] <= y[1] /\ v[4] <= y[1]
      <4>1. CASE i \in DOMAIN snapshots /\ j \in DOMAIN snapshots
        BY <2>5, <4>1 DEF SnapInv, SnapshotsInOrder
      <4>2. CASE i \in DOMAIN snapshots /\ j = n
        BY <2>5, <2>7, <4>2 DEF SnapInv, SnapshotsInOrder
      <4>3. CASE i = n
        <5>1. ~(i < j)
          BY <2>5, <4>3
        <5>. QED
          BY <2>5, <2>8, <4>3, <5>1
      <4>. QED
        BY <2>5, <4>1, <4>2, <4>3
    <3>. QED
      BY <3>1 DEF SnapshotsInOrder
  <2>10. ASSUME NEW i \in DOMAIN snapshots'
         PROVE  (Len(snapshots[i].values) = 4 /\ Seen(snapshots[i].tracer, snapshots[i].values))'
    <3>1. CASE i \in DOMAIN snapshots
      BY <1>r, <2>3, <2>5, <3>1 DEF Seen
    <3>2. CASE i = n
      <4>1. snapshots'[i].tracer = t /\ snapshots'[i].values = x
        BY <2>5, <3>2
      <4>. QED
        BY <2>2, <2>3, <2>6, <4>1 DEF Seen
    <3>. QED
      BY <2>5, <3>1, <3>2
  <2>. QED
    BY <2>3, <2>5, <2>9, <2>10 DEF SnapInv
<1>4. CASE UNCHANGED <<reading, snapshots>>
  BY <1>4, SnapKept
<1>5. CASE \E p \in Producers :
             \/ \E t \in Tracers, from \in Contexts : StartCount(p, t, from)
             \/ StartMint(p) \/ StartPanics(p) \/ StartRoot(p)
             \/ \E s \in DOMAIN spans : End(p, s)
             \/ EndFlight(p) \/ EndRoot(p) \/ OverheadLoad(p)
             \/ \E cost \in Costs : OverheadStore(p, cost)
  BY <1>4, <1>5 DEF StartCount, StartMint, StartPanics, StartRoot, End, EndFlight, EndRoot,
                    OverheadLoad, OverheadStore
<1>6. CASE UNCHANGED vars
  BY <1>4, <1>6 DEF vars
<1>. QED
  BY <1>1, <1>2, <1>3, <1>5, <1>6 DEF Next

\* Whatever moves while Stats loads its fields one by one (stats.go:54-65), no gauge it
\* returns is negative, and no snapshot goes back behind an earlier one of its tracer.
THEOREM SnapshotsCorrect == Spec => []SnapshotsInOrder
<1>1. Init => SnapInv
  BY EmptySeq DEF Init, SnapInv, SnapshotsInOrder
<1>2. SnapInv => SnapshotsInOrder
  BY DEF SnapInv
<1>. QED
  BY <1>1, <1>2, TypesHold, GaugeHolds, SnapStep, PTL DEF Spec
=============================================================================
