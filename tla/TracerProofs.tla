---------------------------- MODULE TracerProofs ----------------------------
(***************************************************************************)
(* What holds of the tracer for every number of goroutines, every buffer   *)
(* and batch size, either policy and any bound on spans, attributes and    *)
(* failures.  TypeOK is inductive; the order of events and the delivery    *)
(* promise of Close each rest on an inductive invariant of their own.      *)
(* The counters and gauges follow by counting sets (the calls in progress, *)
(* the open spans, the end events of a sequence): each event has one fate, *)
(* each completed span is summarized once, each gauge is the number of     *)
(* spans it claims to be.  Last, the tracer implements SpanStream: the     *)
(* step in which send returns to its public call is the instant that call  *)
(* takes effect, Fail is one by itself, every other step is internal.      *)
(***************************************************************************)
EXTENDS MCTracer, Functions, TLAPS, FiniteSetTheorems, SequenceTheorems

-----------------------------------------------------------------------------
(* Lemmas about the operators                                              *)

\* The number of end events in a sequence of events is a natural number.
LEMMA EndsInType == ASSUME NEW q \in Seq(Event) PROVE EndsIn(q) \in Nat
<1>. DEFINE Ends == {i \in 1..Len(q) : q[i].kind = "end"}
<1>1. IsFiniteSet(1..Len(q))
  BY LenProperties, FS_Interval
<1>2. IsFiniteSet(Ends)
  BY <1>1, FS_Subset
<1>3. Cardinality(Ends) \in Nat
  BY <1>2, FS_CardinalityType
<1>. QED
  BY <1>3 DEF EndsIn

\* The events the three calls build are events, and NoEvent is one.
LEMMA EventTypes ==
  ASSUME TypeOK
  PROVE  /\ NoEvent \in Event
         /\ \A s \in SpanIds : /\ AttrsEvent(s) \in Event
                               /\ EndEvent(s) \in Event
                               /\ \A q \in 0..MaxSpans : StartEvent(s, q) \in Event
<1>1. MaxSpans \in Nat
  BY SizesAssumption
<1>. QED
  BY <1>1 DEF TypeOK, NoEvent, AttrsEvent, EndEvent, StartEvent, Event, SpanIds, Statuses

\* Updating counters with numbers keeps the records of counters what they are.
LEMMA StatsUpdates ==
  ASSUME NEW r \in Stats
  PROVE  /\ \A n \in Nat : /\ [r EXCEPT !.dropped = n] \in Stats
                           /\ [r EXCEPT !.writeErrors = n] \in Stats
         /\ \A n \in Nat, i \in Int : [r EXCEPT !.started = n, !.spansInFlight = i] \in Stats
         /\ \A n \in Nat, i, j \in Int :
              /\ [r EXCEPT !.started = n, !.spansInFlight = i, !.tracesInFlight = j] \in Stats
              /\ [r EXCEPT !.completed = n, !.spansInFlight = i, !.tracesInFlight = j] \in Stats
         /\ \A n, m, l \in Nat :
              [r EXCEPT !.summarized = n, !.written = m, !.writeErrors = l] \in Stats
BY DEF Stats

\* The same of the history record.
LEMMA AuditUpdates ==
  ASSUME NEW r \in Audit, NEW n \in Nat, NEW m \in Nat
  PROVE  /\ [r EXCEPT !.attrs = n] \in Audit
         /\ [r EXCEPT !.panics = n] \in Audit
         /\ [r EXCEPT !.inert = n] \in Audit
         /\ [r EXCEPT !.forfeited = n] \in Audit
         /\ [r EXCEPT !.spoiled = n, !.unflushed = m] \in Audit
         /\ [r EXCEPT !.unflushed = n] \in Audit
         /\ [r EXCEPT !.closeMark = n] \in Audit
BY DEF Audit

-----------------------------------------------------------------------------
(* Type correctness                                                        *)

\* Init is well typed: every counter zero, every sequence empty.
LEMMA TypeInit == Init => TypeOK
<1>. SUFFICES ASSUME Init PROVE TypeOK
  OBVIOUS
<1>. USE SizesAssumption DEF Init
<1>1. /\ parent \in [SpanIds -> 0..MaxSpans]
      /\ status \in [SpanIds -> Statuses]
      /\ sending \in [Producers -> Event]
  BY DEF Statuses, Event, NoEvent
<1>2. stats \in Stats /\ audit \in Audit
  BY DEF NoStats, Stats, NoAudit, Audit
<1>3. stats.started <= MaxSpans
  BY DEF NoStats
<1>4. <<>> \in Seq(Event) /\ Len(<<>>) = 0
  BY EmptySeq
<1>5. /\ queue \in Seq(Event) /\ Len(queue) <= BufferSize
      /\ batch \in Seq(Event) /\ Len(batch) <= MaxBatch
      /\ stream \in Seq(Event) /\ handed \in Seq(Event)
  BY <1>4
<1>6. /\ pc \in [Producers -> {"idle", "check", "select"}]
      /\ \A p \in Producers : pc[p] = "idle"
      /\ cpc \in [Closers -> {"idle", "stop", "wait", "returned", "recovered"}]
      /\ result \in [Closers -> {"none", "nil", "sinkErr", "ctxErr"}]
  OBVIOUS
<1>. QED
  BY <1>1, <1>2, <1>3, <1>5, <1>6 DEF TypeOK

\* Every call, every arm of send and every step of the writer keeps the types.
LEMMA TypeStep == TypeOK /\ [Next]_vars => TypeOK'
<1>. SUFFICES ASSUME TypeOK, [Next]_vars PROVE TypeOK'
  OBVIOUS
<1>. USE SizesAssumption
<1>. USE DEF spanVars, callVars, controlVars, writerVars
<1>. stats \in Stats /\ audit \in Audit /\ stats.started <= MaxSpans
  BY DEF TypeOK
<1>0. /\ stats.started \in Nat /\ stats.completed \in Nat /\ stats.dropped \in Nat
      /\ stats.written \in Nat /\ stats.writeErrors \in Nat /\ stats.summarized \in Nat
      /\ stats.spansInFlight \in Int /\ stats.tracesInFlight \in Int
  BY DEF Stats
<1>a. /\ audit.attrs \in Nat /\ audit.panics \in Nat /\ audit.inert \in Nat
      /\ audit.forfeited \in Nat /\ audit.spoiled \in Nat /\ audit.unflushed \in Nat
  BY DEF Audit
<1>1. ASSUME NEW p \in Producers, NEW q \in Contexts, StartSpan(p, q) PROVE TypeOK'
  <2>. DEFINE s == stats.started + 1
              i == stats.spansInFlight + 1
              t == stats.tracesInFlight + RootCount(q)
  <2>0. s \in Nat /\ 1 <= s /\ s <= MaxSpans
    BY <1>0, <1>1 DEF StartSpan
  <2>a. q \in 0..MaxSpans
    BY DEF TypeOK, Contexts, SpanIds
  <2>1. s \in Nat /\ s \in SpanIds /\ q \in 0..MaxSpans
    BY <2>0, <2>a DEF SpanIds
  <2>2. StartEvent(s, q) \in Event /\ StartEvent(s, q).span = s
    BY <2>1, EventTypes DEF StartEvent
  <2>3. i \in Int /\ t \in Int
    BY <1>0 DEF RootCount
  <2>4. stats' = [stats EXCEPT !.started = s, !.spansInFlight = i, !.tracesInFlight = t]
    BY <1>1 DEF StartSpan
  <2>5. stats' \in Stats
    <3>. HIDE DEF s, i, t
    <3>. QED  BY <2>1, <2>3, <2>4, StatsUpdates
  <2>6. stats'.started <= MaxSpans
    BY <2>1, <2>4 DEF Stats, SpanIds
  <2>7. parent' \in [SpanIds -> 0..MaxSpans]
    BY <1>1, <2>1 DEF StartSpan, TypeOK
  <2>. QED
    BY <1>1, <2>1, <2>2, <2>5, <2>6, <2>7 DEF StartSpan, Call, TypeOK
<1>2. ASSUME NEW p \in Producers, StartPanics(p) PROVE TypeOK'
  <2>. DEFINE s == stats.started + 1
              i == stats.spansInFlight + 1
              n == audit.panics + 1
  <2>1. s \in Nat /\ s <= MaxSpans /\ i \in Int /\ n \in Nat
    BY <1>0, <1>a, <1>2 DEF StartPanics
  <2>2. stats' = [stats EXCEPT !.started = s, !.spansInFlight = i]
    BY <1>2 DEF StartPanics
  <2>3. audit' = [audit EXCEPT !.panics = n]
    BY <1>2 DEF StartPanics
  <2>4. stats' \in Stats /\ audit' \in Audit
    <3>. HIDE DEF s, i, n
    <3>. QED  BY <2>1, <2>2, <2>3, StatsUpdates, AuditUpdates
  <2>5. stats'.started <= MaxSpans
    BY <2>1, <2>2 DEF Stats
  <2>. QED
    BY <1>2, <2>4, <2>5 DEF StartPanics, TypeOK
<1>3. ASSUME NEW p \in Producers, NEW s \in spans, SetAttrs(p, s) PROVE TypeOK'
  <2>1. AttrsEvent(s) \in Event /\ AttrsEvent(s).span = s /\ s \in SpanIds
    BY EventTypes DEF TypeOK, AttrsEvent
  <2>2. audit.attrs + 1 \in Nat /\ audit' = [audit EXCEPT !.attrs = audit.attrs + 1]
    BY <1>a, <1>3 DEF SetAttrs
  <2>3. audit' \in Audit
    BY <2>2, AuditUpdates
  <2>. QED
    BY <1>3, <2>1, <2>3 DEF SetAttrs, Call, Hold, TypeOK
<1>4. ASSUME NEW p \in Producers, NEW s \in spans, End(p, s) PROVE TypeOK'
  <2>. DEFINE n == stats.completed + 1
              i == stats.spansInFlight - 1
              t == stats.tracesInFlight - EndedRoot(s)
  <2>1. EndEvent(s) \in Event /\ EndEvent(s).span = s /\ s \in SpanIds
    BY EventTypes DEF TypeOK, EndEvent
  <2>2. n \in Nat /\ i \in Int /\ t \in Int
    BY <1>0 DEF EndedRoot, RootCount
  <2>3. stats' = [stats EXCEPT !.completed = n, !.spansInFlight = i, !.tracesInFlight = t]
    BY <1>4 DEF End
  <2>4. stats' \in Stats
    <3>. HIDE DEF n, i, t
    <3>. QED  BY <2>2, <2>3, StatsUpdates
  <2>5. stats'.started <= MaxSpans
    BY <2>3 DEF Stats
  <2>. QED
    BY <1>4, <2>1, <2>4, <2>5 DEF End, Call, Hold, TypeOK
<1>5. ASSUME NEW p \in Producers, NEW s \in spans, NEW v \in Failures, Fail(p, s, v)
      PROVE  TypeOK'
  BY <1>5 DEF Fail, TypeOK, Statuses
<1>6. ASSUME NEW p \in Producers, pc[p] # "idle", Return(p)
      PROVE  /\ pc' \in [Producers -> {"idle", "check", "select"}]
             /\ sending' \in [Producers -> Event]
             /\ \A r \in Producers : pc'[r] # "idle" => sending'[r].span \in SpanIds
             /\ spans' \subseteq SpanIds
             /\ locked' \subseteq SpanIds
  BY <1>6, EventTypes DEF Return, Published, TypeOK
<1>7. ASSUME NEW p \in Producers, SendStep(p) PROVE TypeOK'
  <2>1. CASE SendCheck(p)
    BY <2>1 DEF SendCheck, TypeOK
  <2>2. CASE SendInert(p)
    <3>1. audit.inert + 1 \in Nat /\ audit' = [audit EXCEPT !.inert = audit.inert + 1]
      BY <1>a, <2>2 DEF SendInert
    <3>2. audit' \in Audit
      BY <3>1, AuditUpdates
    <3>. QED
      BY <1>6, <2>2, <3>2 DEF SendInert, Return, TypeOK
  <2>3. CASE SendEnqueue(p)
    <3>1. sending[p] \in Event
      BY DEF TypeOK
    <3>2. /\ queue' \in Seq(Event) /\ Len(queue') = Len(queue) + 1
          /\ stream' \in Seq(Event)
      BY <2>3, <3>1, AppendProperties DEF SendEnqueue, TypeOK
    <3>3. Len(queue') <= BufferSize
      BY <2>3, <3>2, LenProperties DEF SendEnqueue, Full, TypeOK
    <3>. QED
      BY <1>6, <2>3, <3>2, <3>3 DEF SendEnqueue, Return, TypeOK
  <2>4. CASE SendDrop(p)
    <3>1. /\ stats.dropped + 1 \in Nat
          /\ stats' = [stats EXCEPT !.dropped = stats.dropped + 1]
      BY <1>0, <2>4 DEF SendDrop, DropCount
    <3>2. stats' \in Stats /\ stats'.started <= MaxSpans
      BY <3>1, StatsUpdates DEF Stats
    <3>. QED
      BY <1>6, <2>4, <3>2 DEF SendDrop, Return, TypeOK
  <2>5. CASE SendStopped(p)
    <3>1. audit.forfeited + 1 \in Nat /\ audit' = [audit EXCEPT !.forfeited = audit.forfeited + 1]
      BY <1>a, <2>5 DEF SendStopped
    <3>2. audit' \in Audit
      BY <3>1, AuditUpdates
    <3>. QED
      BY <1>6, <2>5, <3>2 DEF SendStopped, Return, TypeOK
  <2>. QED
    BY <1>7, <2>1, <2>2, <2>3, <2>4, <2>5 DEF SendStep
<1>8. ASSUME NEW c \in Closers, CloseBegin(c) PROVE TypeOK'
  <2>1. audit' \in Audit
    <3>1. audit.closeMark \in Nat /\ Len(stream) \in Nat
      BY LenProperties DEF TypeOK, Audit
    <3>2. \E n \in Nat : audit' = [audit EXCEPT !.closeMark = n]
      BY <1>8, <3>1 DEF CloseBegin
    <3>. QED
      BY <3>2, AuditUpdates
  <2>. QED
    BY <1>8, <2>1 DEF CloseBegin, AfterFlip, TypeOK
<1>9. ASSUME NEW c \in Closers, CloseStep(c) PROVE TypeOK'
  <2>1. CASE CloseStop(c)
    BY <2>1 DEF CloseStop, TypeOK
  <2>2. CASE CloseDone(c)
    BY <2>2 DEF CloseDone, CloseReturns, TypeOK
  <2>3. CASE CloseExpire(c)
    BY <2>3 DEF CloseExpire, CloseReturns, TypeOK
  <2>4. CASE ClosePanics(c)
    BY <2>4 DEF ClosePanics, CloseReturns, TypeOK
  <2>. QED
    BY <1>9, <2>1, <2>2, <2>3, <2>4 DEF CloseStep
<1>10. CASE Receive
  <2>1. Head(queue) \in Event /\ Tail(queue) \in Seq(Event) /\ Len(Tail(queue)) = Len(queue) - 1
    BY <1>10, HeadTailProperties DEF Receive, TypeOK
  <2>2. batch' \in Seq(Event) /\ Len(batch') = 1
    BY <1>10, <2>1 DEF Receive
  <2>3. Len(queue) \in Nat
    BY LenProperties DEF TypeOK
  <2>. QED
    BY <1>10, <2>1, <2>2, <2>3 DEF Receive, TypeOK
<1>11. CASE DrainOne
  <2>1. Head(queue) \in Event /\ Tail(queue) \in Seq(Event) /\ Len(Tail(queue)) = Len(queue) - 1
    BY <1>11, HeadTailProperties DEF DrainOne, TypeOK
  <2>2. batch' \in Seq(Event) /\ Len(batch') = Len(batch) + 1
    BY <1>11, <2>1, AppendProperties DEF DrainOne, Grown, TypeOK
  <2>3. Len(queue) \in Nat /\ Len(batch) \in Nat
    BY LenProperties DEF TypeOK
  <2>4. Len(queue') <= BufferSize /\ Len(batch') <= MaxBatch
    BY <1>11, <2>1, <2>2, <2>3 DEF DrainOne, TypeOK
  <2>. QED
    BY <1>11, <2>1, <2>2, <2>4 DEF DrainOne, TypeOK
<1>12. CASE DrainDone
  BY <1>12 DEF DrainDone, TypeOK
<1>13. ASSUME NEW o \in Outcomes, Deliver(o) PROVE TypeOK'
  <2>. DEFINE n == stats.summarized + CompletedIn(o)
              m == stats.written + Accepted(o)
              l == stats.writeErrors + FaultCount(o)
              x == audit.spoiled + (Len(batch) - Accepted(o))
              y == audit.unflushed + Accepted(o)
  <2>1. Len(batch) \in Nat /\ Accepted(o) \in 0..Len(batch) /\ FaultCount(o) \in Nat
    <3>1. Len(batch) \in Nat
      BY LenProperties DEF TypeOK
    <3>. QED
      BY <3>1 DEF Accepted, FaultCount
  <2>2. EndsIn(batch) \in Nat /\ CompletedIn(o) = EndsIn(batch)
    BY EndsInType DEF CompletedIn, TypeOK
  <2>3. n \in Nat /\ m \in Nat /\ l \in Nat /\ x \in Nat /\ y \in Nat
    <3>1. Accepted(o) \in Nat /\ Len(batch) - Accepted(o) \in Nat
      BY <2>1
    <3>2. \A a, b \in Nat : a + b \in Nat
      OBVIOUS
    <3>3. n \in Nat /\ m \in Nat /\ l \in Nat
      BY <1>0, <2>1, <2>2, <3>1, <3>2, Zenon
    <3>4. x \in Nat /\ y \in Nat
      BY <1>a, <3>1, <3>2, Zenon
    <3>. QED
      BY <3>3, <3>4
  <2>4. stats' = [stats EXCEPT !.summarized = n, !.written = m, !.writeErrors = l]
    BY <1>13 DEF Deliver
  <2>5. audit' = [audit EXCEPT !.spoiled = x, !.unflushed = y]
    BY <1>13 DEF Deliver
  <2>6. stats' \in Stats
    <3>. HIDE DEF n, m, l
    <3>. QED  BY <2>3, <2>4, StatsUpdates
  <2>9. audit' \in Audit
    <3>. HIDE DEF x, y
    <3>. QED  BY <2>3, <2>5, AuditUpdates
  <2>7. stats'.started <= MaxSpans
    BY <2>4 DEF Stats
  <2>8. /\ handed' \in Seq(Event)
        /\ batch' \in Seq(Event) /\ Len(batch') <= MaxBatch
    BY <1>13, ConcatProperties, EmptySeq DEF Deliver, TypeOK
  <2>. QED
    BY <1>13, <2>6, <2>7, <2>8, <2>9 DEF Deliver, TypeOK
<1>14. ASSUME NEW o \in Outcomes, FlushSink(o), wpc' \in {"select", "close"} PROVE TypeOK'
  <2>1. /\ stats.writeErrors + FaultCount(o) \in Nat
        /\ stats' = [stats EXCEPT !.writeErrors = stats.writeErrors + FaultCount(o)]
    BY <1>0, <1>14 DEF FlushSink, FaultCount
  <2>2. stats' \in Stats /\ stats'.started <= MaxSpans
    BY <2>1, StatsUpdates DEF Stats
  <2>3. audit' \in Audit
    BY <1>14, AuditUpdates DEF FlushSink
  <2>. QED
    BY <1>14, <2>2, <2>3 DEF FlushSink, TypeOK
<1>15. CASE SeeStop
  BY <1>15 DEF SeeStop, TypeOK
<1>16. ASSUME NEW o \in Outcomes, CloseSink(o) PROVE TypeOK'
  <2>. DEFINE l == stats.writeErrors + (IF o = "panic" THEN 1 ELSE 0)
  <2>1. l \in Nat /\ stats' = [stats EXCEPT !.writeErrors = l]
    BY <1>0, <1>16 DEF CloseSink
  <2>2. stats' \in Stats /\ stats'.started <= MaxSpans
    <3>. HIDE DEF l
    <3>. QED  BY <2>1, StatsUpdates DEF Stats
  <2>. QED
    BY <1>16, <2>2 DEF CloseSink, ErrorOf, TypeOK
<1>17. CASE Exit
  BY <1>17 DEF Exit, TypeOK
<1>18. CASE UNCHANGED vars
  BY <1>18 DEF vars, TypeOK
<1>19. ASSUME NEW o \in Outcomes, FlushTick(o) \/ FinalFlush(o) PROVE TypeOK'
  BY <1>14, <1>19 DEF FlushTick, FinalFlush, TickArm, AtSelect
<1>. QED
  BY <1>1, <1>2, <1>3, <1>4, <1>5, <1>7, <1>8, <1>9, <1>10, <1>11, <1>12, <1>13, <1>15,
     <1>16, <1>17, <1>18, <1>19 DEF Next, WriterStep, Finished

\* Every reachable state is well typed: the channel never holds more than its
\* capacity, a batch never more than maxBatchSize, and a counter never goes below
\* zero.
THEOREM TypeCorrect == Spec => []TypeOK
<1>. QED
  BY TypeInit, TypeStep, PTL DEF Spec

-----------------------------------------------------------------------------
(* The order of events                                                     *)

\* A span is known only once minted, and ended or locked only once known; what a
\* span names as its parent is known.
SpansInv ==
  /\ spans \subseteq 1..stats.started
  /\ ended \subseteq spans
  /\ locked \subseteq spans
  /\ \A s \in spans : parent[s] \in spans \cup {0}

\* One call at most is sending for a span.  A Start sends for a span nobody knows
\* yet; a SetAttrs or End holds the mutex of its span, and an End has settled it.
SenderInv(p) ==
  /\ sending[p].kind \in {"start", "attrs", "end"}
  /\ sending[p].span \in 1..stats.started
  /\ sending[p].parent \in spans \cup {0}
  /\ \A r \in Producers \ {p} : pc[r] # "idle" => sending[r].span # sending[p].span
  /\ sending[p].kind = "start" =>
       sending[p].span \notin spans /\ parent[sending[p].span] = sending[p].parent
  /\ sending[p].kind # "start" => sending[p].span \in locked
  /\ sending[p].kind = "attrs" => sending[p].span \notin ended
  /\ sending[p].kind = "end" =>
       /\ sending[p].span \in ended
       /\ sending[p].status = status[sending[p].span]
       /\ \A i \in 1..Len(stream) :
            stream[i].span = sending[p].span => stream[i].kind # "end"
SendersInv == \A p \in Producers : pc[p] # "idle" => SenderInv(p)

\* What entered the channel speaks of known spans only.
KnownInv ==
  \A i \in 1..Len(stream) : stream[i].span \in spans /\ stream[i].parent \in spans \cup {0}

OrderInv == SpansInv /\ SendersInv /\ KnownInv /\ Verdict /\ PerSpanOrder /\ ParentFirst

\* The order invariant holds of a tracer that New just returned.
LEMMA OrderInit == Init => OrderInv
<1>. SUFFICES ASSUME Init PROVE OrderInv
  OBVIOUS
<1>1. Len(stream) = 0 /\ 1..Len(stream) = {}
  BY EmptySeq DEF Init
<1>. QED
  BY <1>1 DEF Init, OrderInv, SpansInv, SendersInv, KnownInv, Verdict, PerSpanOrder, ParentFirst

\* The steps that touch neither spans nor calls nor the stream.
LEMMA OrderFrame ==
  ASSUME OrderInv, UNCHANGED <<parent, spans, ended, status, locked, pc, sending, stream>>,
         stats'.started = stats.started
  PROVE  OrderInv'
BY DEF OrderInv, SpansInv, SendersInv, SenderInv, KnownInv, Verdict, PerSpanOrder, ParentFirst

\* The writer, a closer, a drop count: none of them mints a span.
LEMMA StartedFrame ==
  ASSUME TypeOK, NEW n, NEW m, NEW l
  PROVE  /\ [stats EXCEPT !.dropped = n].started = stats.started
         /\ [stats EXCEPT !.writeErrors = n].started = stats.started
         /\ [stats EXCEPT !.completed = n, !.spansInFlight = m, !.tracesInFlight = l].started
              = stats.started
         /\ [stats EXCEPT !.summarized = n, !.written = m, !.writeErrors = l].started
              = stats.started
BY DEF TypeOK, Stats

\* It survives every step; only SendEnqueue, which extends the stream, is hard.
LEMMA OrderStep == TypeOK /\ OrderInv /\ [Next]_vars => OrderInv'
<1>. SUFFICES ASSUME TypeOK, OrderInv, [Next]_vars PROVE OrderInv'
  OBVIOUS
<1>. USE SizesAssumption
<1>. USE DEF spanVars, callVars, controlVars, writerVars
<1>. stats.started \in Nat /\ stats.started <= MaxSpans /\ MaxSpans \in Nat
  BY DEF TypeOK, Stats
<1>t. /\ spans \subseteq SpanIds /\ ended \subseteq SpanIds /\ locked \subseteq SpanIds
      /\ Len(stream) \in Nat
      /\ \A i \in 1..Len(stream) : stream[i] \in Event
  BY LenProperties, ElementOfSeq DEF TypeOK
<1>1. ASSUME NEW p \in Producers, NEW q \in Contexts, StartSpan(p, q) PROVE OrderInv'
  <2>. DEFINE s == stats.started + 1
  <2>1. /\ stats'.started = s
        /\ s \in SpanIds
        /\ s \notin spans
        /\ \A r \in Producers : pc[r] # "idle" => sending[r].span # s
    <3>1. stats'.started = s
      BY <1>1 DEF StartSpan, TypeOK, Stats
    <3>2. s \in SpanIds /\ s \notin 1..stats.started
      BY <1>1 DEF StartSpan, SpanIds
    <3>. QED
      BY <3>1, <3>2 DEF OrderInv, SpansInv, SendersInv, SenderInv
  <2>2. /\ parent'[s] = q
        /\ \A x \in SpanIds \ {s} : parent'[x] = parent[x]
        /\ sending'[p] = StartEvent(s, q) /\ pc'[p] = "check" /\ pc[p] = "idle"
        /\ \A r \in Producers \ {p} : pc'[r] = pc[r] /\ sending'[r] = sending[r]
        /\ UNCHANGED <<spans, ended, status, locked, stream>>
    BY <1>1, <2>1 DEF StartSpan, Call, TypeOK
  <2>3. SpansInv'
    BY <1>t, <2>1, <2>2 DEF OrderInv, SpansInv
  <2>4. SenderInv(p)'
    BY <2>1, <2>2 DEF SenderInv, StartEvent, Contexts
  <2>5. ASSUME NEW r \in Producers \ {p}, pc[r] # "idle" PROVE SenderInv(r)'
    <3>1. SenderInv(r) /\ sending[r].span # s /\ sending[r].span \in SpanIds
      BY <2>1, <2>5 DEF OrderInv, SendersInv, TypeOK
    <3>. QED
      BY <2>1, <2>2, <2>5, <3>1 DEF SenderInv, StartEvent
  <2>6. SendersInv'
    BY <2>2, <2>4, <2>5 DEF SendersInv
  <2>. QED
    BY <2>2, <2>3, <2>6 DEF OrderInv, KnownInv, Verdict, PerSpanOrder, ParentFirst
<1>2. ASSUME NEW p \in Producers, StartPanics(p) PROVE OrderInv'
  <2>1. stats'.started = stats.started + 1
    BY <1>2 DEF StartPanics, TypeOK, Stats
  <2>2. SpansInv'
    BY <1>2, <2>1 DEF StartPanics, OrderInv, SpansInv
  <2>3. SendersInv'
    BY <1>2, <2>1 DEF StartPanics, OrderInv, SendersInv, SenderInv
  <2>. QED
    BY <1>2, <2>2, <2>3 DEF StartPanics, OrderInv, KnownInv, Verdict, PerSpanOrder, ParentFirst
<1>3. ASSUME NEW p \in Producers, NEW s \in spans, SetAttrs(p, s) PROVE OrderInv'
  <2>1. /\ s \in SpanIds /\ s \notin locked /\ s \notin ended /\ locked' = locked \cup {s}
        /\ sending'[p] = AttrsEvent(s) /\ pc'[p] = "check" /\ pc[p] = "idle"
        /\ \A r \in Producers \ {p} : pc'[r] = pc[r] /\ sending'[r] = sending[r]
        /\ UNCHANGED <<parent, spans, ended, status, stats, stream>>
    BY <1>3, <1>t DEF SetAttrs, Call, Hold, Mutable, TypeOK
  <2>2. \A r \in Producers : pc[r] # "idle" => sending[r].span # s
    BY <2>1 DEF OrderInv, SendersInv, SenderInv
  <2>3. SpansInv'
    BY <2>1 DEF OrderInv, SpansInv
  <2>4. SenderInv(p)'
    BY <2>1, <2>2, <2>3 DEF SenderInv, SpansInv, AttrsEvent
  <2>5. ASSUME NEW r \in Producers \ {p}, pc[r] # "idle" PROVE SenderInv(r)'
    BY <2>1, <2>2, <2>5 DEF OrderInv, SendersInv, SenderInv, AttrsEvent
  <2>6. SendersInv'
    BY <2>1, <2>4, <2>5 DEF SendersInv
  <2>. QED
    BY <2>1, <2>3, <2>6 DEF OrderInv, KnownInv, Verdict, PerSpanOrder, ParentFirst
<1>4. ASSUME NEW p \in Producers, NEW s \in spans, End(p, s) PROVE OrderInv'
  <2>1. /\ s \in SpanIds /\ s \notin locked /\ s \notin ended
        /\ locked' = locked \cup {s} /\ ended' = ended \cup {s}
        /\ sending'[p] = EndEvent(s) /\ pc'[p] = "check" /\ pc[p] = "idle"
        /\ \A r \in Producers \ {p} : pc'[r] = pc[r] /\ sending'[r] = sending[r]
        /\ UNCHANGED <<parent, spans, status, stream>>
    BY <1>4, <1>t DEF End, Call, Hold, Mutable, TypeOK
  <2>s. stats'.started = stats.started
    BY <1>4, StartedFrame DEF End
  <2>2. \A r \in Producers : pc[r] # "idle" => sending[r].span # s
    BY <2>1 DEF OrderInv, SendersInv, SenderInv
  <2>3. SpansInv'
    BY <2>1, <2>s DEF OrderInv, SpansInv
  <2>4. \A i \in 1..Len(stream) : stream[i].span = s => stream[i].kind # "end"
    BY <2>1 DEF OrderInv, Verdict
  <2>5. SenderInv(p)'
    BY <2>1, <2>s, <2>2, <2>3, <2>4 DEF SenderInv, SpansInv, EndEvent
  <2>6. ASSUME NEW r \in Producers \ {p}, pc[r] # "idle" PROVE SenderInv(r)'
    BY <2>1, <2>s, <2>2, <2>6 DEF OrderInv, SendersInv, SenderInv, EndEvent
  <2>7. SendersInv'
    BY <2>1, <2>5, <2>6 DEF SendersInv
  <2>8. Verdict'
    BY <2>1 DEF OrderInv, Verdict
  <2>. QED
    BY <2>1, <2>3, <2>7, <2>8 DEF OrderInv, KnownInv, PerSpanOrder, ParentFirst
<1>5. ASSUME NEW p \in Producers, NEW s \in spans, NEW v \in Failures, Fail(p, s, v)
      PROVE  OrderInv'
  <2>1. /\ s \notin ended
        /\ \A x \in SpanIds \ {s} : status'[x] = status[x]
        /\ UNCHANGED <<parent, spans, ended, locked, pc, sending, stats, stream>>
    BY <1>5 DEF Fail, Mutable, TypeOK
  <2>2. SendersInv'
    BY <1>t, <2>1 DEF OrderInv, SendersInv, SenderInv
  <2>3. Verdict'
    BY <1>t, <2>1 DEF OrderInv, Verdict
  <2>. QED
    BY <2>1, <2>2, <2>3 DEF OrderInv, SpansInv, KnownInv, PerSpanOrder, ParentFirst
<1>6. ASSUME NEW p \in Producers, pc[p] # "idle", Return(p), stats'.started = stats.started
      PROVE  /\ SpansInv'
             /\ spans \subseteq spans'
             /\ sending[p].span \in spans'
             /\ pc'[p] = "idle"
             /\ \A r \in Producers \ {p} : pc'[r] = pc[r] /\ sending'[r] = sending[r]
             /\ \A r \in Producers \ {p} : pc[r] # "idle" =>
                  /\ sending[r].span # sending[p].span
                  /\ sending[r].span \in locked => sending[r].span \in locked'
                  /\ sending[r].span \notin spans => sending[r].span \notin spans'
             /\ UNCHANGED <<parent, ended, status>>
  <2>1. SenderInv(p) /\ sending[p].span \in SpanIds
    BY <1>6 DEF OrderInv, SendersInv, TypeOK
  <2>2. /\ spans' = IF sending[p].kind = "start" THEN spans \cup {sending[p].span} ELSE spans
        /\ locked' = locked \ {sending[p].span}
        /\ pc'[p] = "idle"
        /\ \A r \in Producers \ {p} : pc'[r] = pc[r] /\ sending'[r] = sending[r]
        /\ UNCHANGED <<parent, ended, status>>
    BY <1>6 DEF Return, Published, TypeOK
  <2>3. sending[p].span \in spans'
    BY <2>1, <2>2 DEF OrderInv, SpansInv, SenderInv
  <2>4. \A r \in Producers \ {p} : pc[r] # "idle" => sending[r].span # sending[p].span
    BY <2>1 DEF SenderInv
  <2>5. SpansInv'
    <3>1. CASE sending[p].kind = "start"
      BY <1>6, <2>1, <2>2, <3>1 DEF OrderInv, SpansInv, SenderInv
    <3>2. CASE sending[p].kind # "start"
      BY <1>6, <2>1, <2>2, <3>2 DEF OrderInv, SpansInv, SenderInv
    <3>. QED
      BY <3>1, <3>2
  <2>. QED
    BY <2>2, <2>3, <2>4, <2>5
<1>7. ASSUME NEW p \in Producers, pc[p] # "idle", Return(p), UNCHANGED stream,
             stats'.started = stats.started
      PROVE  OrderInv'
  <2>1. ASSUME NEW r \in Producers, pc'[r] # "idle" PROVE SenderInv(r)'
    <3>1. r # p /\ SenderInv(r)
      BY <1>6, <1>7, <2>1 DEF OrderInv, SendersInv
    <3>. QED
      BY <1>6, <1>7, <2>1, <3>1 DEF SenderInv
  <2>2. SendersInv'
    BY <2>1 DEF SendersInv
  <2>3. KnownInv'
    BY <1>6, <1>7 DEF OrderInv, KnownInv
  <2>4. Verdict' /\ PerSpanOrder' /\ ParentFirst'
    BY <1>6, <1>7 DEF OrderInv, Verdict, PerSpanOrder, ParentFirst
  <2>. QED
    BY <1>6, <1>7, <2>2, <2>3, <2>4 DEF OrderInv
<1>8. ASSUME NEW p \in Producers, SendEnqueue(p) PROVE OrderInv'
  <2>. DEFINE e == sending[p]
              n == Len(stream)
  <2>1. /\ pc[p] # "idle" /\ Return(p) /\ stats' = stats
        /\ stream' = Append(stream, e)
        /\ e \in Event /\ e.span \in SpanIds
    BY <1>8 DEF SendEnqueue, TypeOK
  <2>2. SenderInv(p)
    BY <2>1 DEF OrderInv, SendersInv
  <2>3. /\ Len(stream') = n + 1
        /\ \A i \in 1..n : stream'[i] = stream[i]
        /\ stream'[n + 1] = e
    BY <2>1, AppendProperties DEF TypeOK
  <2>4. ASSUME NEW r \in Producers, pc'[r] # "idle" PROVE SenderInv(r)'
    <3>1. r # p /\ SenderInv(r) /\ pc[r] # "idle"
      BY <1>6, <2>1, <2>4 DEF OrderInv, SendersInv
    <3>2. \A i \in 1..Len(stream') :
            stream'[i].span = sending[r].span => i \in 1..n /\ stream'[i] = stream[i]
      BY <1>6, <2>1, <2>3, <3>1
    <3>. QED
      BY <1>6, <2>1, <2>4, <3>1, <3>2 DEF SenderInv
  <2>5. KnownInv'
    <3>1. e.parent \in spans \cup {0}
      BY <2>2 DEF SenderInv
    <3>. QED
      BY <1>6, <2>1, <2>3, <3>1 DEF OrderInv, KnownInv
  <2>6. Verdict'
    <3>1. e.kind = "end" => e.span \in ended /\ e.status = status[e.span]
      BY <2>2 DEF SenderInv
    <3>. QED
      BY <1>6, <2>1, <2>3, <3>1 DEF OrderInv, Verdict
  <2>7. \A i \in 1..n : stream[i].span = e.span => stream[i].kind # "end" /\ e.kind # "start"
    BY <2>2 DEF SenderInv, OrderInv, KnownInv, Verdict
  <2>8. PerSpanOrder'
    BY <2>3, <2>7 DEF OrderInv, PerSpanOrder
  <2>9. \A i \in 1..n : e.kind = "start" => e.span # stream[i].parent
    BY <2>1, <2>2 DEF SenderInv, OrderInv, KnownInv, SpanIds
  <2>10. ParentFirst'
    BY <2>3, <2>9 DEF OrderInv, ParentFirst
  <2>. QED
    BY <1>6, <2>1, <2>4, <2>5, <2>6, <2>8, <2>10 DEF OrderInv, SendersInv
<1>9. ASSUME NEW p \in Producers, SendStep(p) PROVE OrderInv'
  <2>1. CASE SendCheck(p)
    <3>1. SendersInv'
      BY <2>1 DEF SendCheck, TypeOK, OrderInv, SendersInv, SenderInv
    <3>. QED
      BY <2>1, <3>1 DEF SendCheck, OrderInv, SpansInv, KnownInv, Verdict, PerSpanOrder, ParentFirst
  <2>2. CASE SendInert(p)
    BY <1>7, <2>2 DEF SendInert
  <2>3. CASE SendDrop(p)
    BY <1>7, <2>3, StartedFrame DEF SendDrop
  <2>4. CASE SendStopped(p)
    BY <1>7, <2>4 DEF SendStopped
  <2>. QED
    BY <1>8, <1>9, <2>1, <2>2, <2>3, <2>4 DEF SendStep
<1>10. ASSUME NEW c \in Closers, CloseBegin(c) \/ CloseStep(c)
       PROVE  OrderInv'
  BY <1>10, OrderFrame DEF CloseBegin, CloseStep, CloseStop, CloseDone, CloseExpire, ClosePanics,
                           CloseReturns
<1>11. CASE Receive \/ DrainOne \/ DrainDone \/ SeeStop \/ Exit
  BY <1>11, OrderFrame DEF Receive, DrainOne, DrainDone, SeeStop, Exit
<1>12. ASSUME NEW o \in Outcomes, Deliver(o) \/ FinalFlush(o) \/ FlushTick(o) \/ CloseSink(o)
       PROVE  OrderInv'
  <2>1. stats'.started = stats.started
    <3>1. CASE Deliver(o)
      BY <3>1, StartedFrame DEF Deliver
    <3>2. CASE FinalFlush(o) \/ FlushTick(o)
      BY <3>2, StartedFrame DEF FinalFlush, FlushTick, FlushSink
    <3>3. CASE CloseSink(o)
      BY <3>3, StartedFrame DEF CloseSink
    <3>. QED
      BY <1>12, <3>1, <3>2, <3>3
  <2>. QED
    BY <1>12, <2>1, OrderFrame DEF Deliver, FinalFlush, FlushTick, FlushSink, CloseSink
<1>13. CASE UNCHANGED vars
  BY <1>13, OrderFrame DEF vars
<1>. QED
  BY <1>1, <1>2, <1>3, <1>4, <1>5, <1>9, <1>10, <1>11, <1>12, <1>13
     DEF Next, WriterStep, Finished

\* Every reachable state satisfies the order invariant.
LEMMA OrderHolds == Spec => []OrderInv
BY TypeInit, TypeStep, OrderInit, OrderStep, PTL DEF Spec

\* For every number of goroutines, policy and bound: nothing follows a span's end event
\* and nothing precedes its start event, whoever calls SetAttrs and End concurrently.
THEOREM OrderCorrect == Spec => []PerSpanOrder
<1>1. OrderInv => PerSpanOrder
  BY DEF OrderInv
<1>. QED
  BY OrderHolds, <1>1, PTL

\* A child's start event never overtakes its parent's in the channel.
THEOREM ParentCorrect == Spec => []ParentFirst
<1>1. OrderInv => ParentFirst
  BY DEF OrderInv
<1>. QED
  BY OrderHolds, <1>1, PTL

\* An end event carries the status its span keeps for good.
THEOREM VerdictCorrect == Spec => []Verdict
<1>1. OrderInv => Verdict
  BY DEF OrderInv
<1>. QED
  BY OrderHolds, <1>1, PTL

-----------------------------------------------------------------------------
(* Shutdown                                                                *)

\* The writer holds no batch between deliveries; once it is past the final flush it
\* has seen stop, which only a Close that flipped closed closes, and by then all
\* that was in the channel at the flip has been handed over and flushed.
DrainInv ==
  /\ FIFO
  /\ closed => audit.closeMark <= Len(stream)
  /\ \A c \in Closers : cpc[c] = "stop" => closed
  /\ stop => closed
  /\ stopping => stop
  /\ wpc \notin {"drain", "deliver"} => batch = <<>>
  /\ wpc \in {"close", "exit", "done"} =>
       /\ stopping
       /\ audit.closeMark <= Len(handed)
       /\ audit.unflushed = 0

\* What the history record keeps across the updates of its other fields.
LEMMA AuditFrame ==
  ASSUME TypeOK, NEW n, NEW m
  PROVE  /\ [audit EXCEPT !.attrs = n].closeMark = audit.closeMark
         /\ [audit EXCEPT !.attrs = n].unflushed = audit.unflushed
         /\ [audit EXCEPT !.panics = n].closeMark = audit.closeMark
         /\ [audit EXCEPT !.panics = n].unflushed = audit.unflushed
         /\ [audit EXCEPT !.inert = n].closeMark = audit.closeMark
         /\ [audit EXCEPT !.inert = n].unflushed = audit.unflushed
         /\ [audit EXCEPT !.forfeited = n].closeMark = audit.closeMark
         /\ [audit EXCEPT !.forfeited = n].unflushed = audit.unflushed
         /\ [audit EXCEPT !.spoiled = n, !.unflushed = m].closeMark = audit.closeMark
         /\ [audit EXCEPT !.unflushed = n].closeMark = audit.closeMark
         /\ [audit EXCEPT !.unflushed = n].unflushed = n
         /\ [audit EXCEPT !.closeMark = n].closeMark = n
         /\ [audit EXCEPT !.closeMark = n].unflushed = audit.unflushed
BY DEF TypeOK, Audit

\* Moving the head of the channel to the end of the batch changes nothing in the
\* concatenation of what was handed over, the batch and the channel.
LEMMA MoveHead ==
  ASSUME NEW h \in Seq(Event), NEW b \in Seq(Event), NEW q \in Seq(Event), q # <<>>
  PROVE  h \o Append(b, Head(q)) \o Tail(q) = h \o b \o q
<1>1. /\ Head(q) \in Event
      /\ Tail(q) \in Seq(Event)
      /\ <<Head(q)>> \in Seq(Event)
  BY HeadTailProperties
<1>2. q = <<Head(q)>> \o Tail(q)
  <2>. DEFINE x == <<Head(q)>> \o Tail(q)
  <2>1. x \in Seq(Event) /\ Len(x) = Len(q)
    BY <1>1, HeadTailProperties, ConcatProperties, LenProperties
  <2>2. \A i \in 1..Len(q) : x[i] = q[i]
    BY <1>1, HeadTailProperties, ConcatProperties, LenProperties
  <2>. QED
    BY <2>1, <2>2, SeqEqual
<1>3. Append(b, Head(q)) = b \o <<Head(q)>>
  BY <1>1, AppendIsConcat
<1>4. h \o b \in Seq(Event) /\ b \o <<Head(q)>> \in Seq(Event)
  BY <1>1, ConcatProperties
<1>5. (h \o (b \o <<Head(q)>>)) \o Tail(q) = ((h \o b) \o <<Head(q)>>) \o Tail(q)
  BY <1>1, ConcatAssociative
<1>6. ((h \o b) \o <<Head(q)>>) \o Tail(q) = (h \o b) \o (<<Head(q)>> \o Tail(q))
  BY <1>1, <1>4, ConcatAssociative
<1>. QED
  BY <1>2, <1>3, <1>5, <1>6

\* The drain invariant holds of a tracer that New just returned.
LEMMA DrainInit == Init => DrainInv
<1>. SUFFICES ASSUME Init PROVE DrainInv
  OBVIOUS
<1>1. <<>> \in Seq(Event) /\ <<>> \o <<>> \o <<>> = <<>>
  BY EmptySeq, ConcatEmptySeq
<1>. QED
  BY <1>1 DEF Init, DrainInv, FIFO

\* It survives every step: Receive and DrainOne move heads, FinalFlush finds the
\* channel empty.
LEMMA DrainStep == TypeOK /\ DrainInv /\ [Next]_vars => DrainInv'
<1>. SUFFICES ASSUME TypeOK, DrainInv, [Next]_vars PROVE DrainInv'
  OBVIOUS
<1>. USE DEF spanVars, callVars, controlVars, writerVars
<1>t. /\ queue \in Seq(Event) /\ batch \in Seq(Event) /\ handed \in Seq(Event)
      /\ stream \in Seq(Event)
      /\ Len(stream) \in Nat /\ Len(handed) \in Nat
      /\ audit.closeMark \in Nat /\ audit.unflushed \in Nat
  BY LenProperties DEF TypeOK, Audit
<1>1. ASSUME UNCHANGED <<closed, stop, cpc, stopping, wpc, batch, handed, queue, stream>>,
             audit'.closeMark = audit.closeMark, audit'.unflushed = audit.unflushed
      PROVE  DrainInv'
  BY <1>1 DEF DrainInv, FIFO
<1>2. ASSUME NEW p \in Producers, NEW q \in Contexts, StartSpan(p, q) PROVE DrainInv'
  BY <1>1, <1>2 DEF StartSpan
<1>3. ASSUME NEW p \in Producers, StartPanics(p) PROVE DrainInv'
  BY <1>1, <1>3, AuditFrame DEF StartPanics
<1>4. ASSUME NEW p \in Producers, NEW s \in spans, SetAttrs(p, s) PROVE DrainInv'
  BY <1>1, <1>4, AuditFrame DEF SetAttrs
<1>5. ASSUME NEW p \in Producers, NEW s \in spans, End(p, s) PROVE DrainInv'
  BY <1>1, <1>5 DEF End
<1>6. ASSUME NEW p \in Producers, NEW s \in spans, NEW v \in Failures, Fail(p, s, v)
      PROVE  DrainInv'
  BY <1>1, <1>6 DEF Fail
<1>7. ASSUME NEW p \in Producers, SendStep(p) PROVE DrainInv'
  <2>1. CASE SendCheck(p)
    BY <1>1, <2>1 DEF SendCheck
  <2>2. CASE SendInert(p)
    BY <1>1, <2>2, AuditFrame DEF SendInert, Return
  <2>3. CASE SendEnqueue(p)
    <3>1. /\ sending[p] \in Event
          /\ queue' = Append(queue, sending[p])
          /\ stream' = Append(stream, sending[p])
          /\ UNCHANGED <<closed, stop, cpc, stopping, wpc, batch, handed, audit>>
      BY <2>3 DEF SendEnqueue, Return, TypeOK
    <3>2. handed \o batch \in Seq(Event) /\ <<sending[p]>> \in Seq(Event)
      BY <1>t, <3>1, ConcatProperties
    <3>3. /\ queue' = queue \o <<sending[p]>>
          /\ stream' = stream \o <<sending[p]>>
          /\ Len(stream') = Len(stream) + 1
      BY <1>t, <3>1, AppendIsConcat, AppendProperties
    <3>4. (handed \o batch) \o (queue \o <<sending[p]>>)
            = ((handed \o batch) \o queue) \o <<sending[p]>>
      BY <1>t, <3>2, ConcatAssociative
    <3>5. FIFO'
      BY <3>1, <3>3, <3>4 DEF DrainInv, FIFO
    <3>. QED
      BY <1>t, <3>1, <3>3, <3>5 DEF DrainInv
  <2>4. CASE SendDrop(p)
    BY <1>1, <2>4 DEF SendDrop, Return
  <2>5. CASE SendStopped(p)
    BY <1>1, <2>5, AuditFrame DEF SendStopped, Return
  <2>. QED
    BY <1>7, <2>1, <2>2, <2>3, <2>4, <2>5 DEF SendStep
<1>8. ASSUME NEW c \in Closers, CloseBegin(c) PROVE DrainInv'
  <2>1. /\ audit'.unflushed = audit.unflushed
        /\ audit'.closeMark = IF closed THEN audit.closeMark ELSE Len(stream)
    BY <1>8, AuditFrame DEF CloseBegin
  <2>. QED
    BY <1>8, <1>t, <2>1 DEF CloseBegin, DrainInv, FIFO
<1>9. ASSUME NEW c \in Closers, CloseStop(c) PROVE DrainInv'
  BY <1>9 DEF CloseStop, DrainInv, FIFO
<1>10. ASSUME NEW c \in Closers, CloseDone(c) \/ CloseExpire(c) \/ ClosePanics(c)
       PROVE  DrainInv'
  <2>1. /\ \A d \in Closers : cpc'[d] = "stop" => cpc[d] = "stop"
        /\ UNCHANGED <<closed, stop, stopping, wpc, batch, handed, queue, stream, audit>>
    BY <1>10 DEF CloseDone, CloseExpire, ClosePanics, CloseReturns, TypeOK
  <2>. QED
    BY <2>1 DEF DrainInv, FIFO
<1>11. CASE Receive
  <2>1. batch = <<>> /\ queue # <<>> /\ batch' = Append(batch, Head(queue))
    BY <1>11 DEF Receive, AtSelect, DrainInv
  <2>2. FIFO'
    BY <1>11, <1>t, <2>1, MoveHead DEF Receive, DrainInv, FIFO
  <2>. QED
    BY <1>11, <2>2 DEF Receive, DrainInv
<1>12. CASE DrainOne
  <2>1. FIFO'
    BY <1>12, <1>t, MoveHead DEF DrainOne, Grown, DrainInv, FIFO
  <2>. QED
    BY <1>12, <2>1 DEF DrainOne, DrainInv
<1>13. CASE DrainDone
  BY <1>13 DEF DrainDone, DrainInv, FIFO
<1>14. ASSUME NEW o \in Outcomes, Deliver(o) PROVE DrainInv'
  <2>1. audit'.closeMark = audit.closeMark
    BY <1>14, AuditFrame DEF Deliver
  <2>2. handed \o batch \in Seq(Event) /\ (handed \o batch) \o <<>> = handed \o batch
    BY <1>t, ConcatProperties, ConcatEmptySeq
  <2>3. FIFO'
    BY <1>14, <2>2 DEF Deliver, DrainInv, FIFO
  <2>. QED
    BY <1>14, <2>1, <2>3 DEF Deliver, DrainInv
<1>15. ASSUME NEW o \in Outcomes, FlushTick(o) PROVE DrainInv'
  <2>1. audit'.closeMark = audit.closeMark
    BY <1>15, AuditFrame DEF FlushTick, FlushSink
  <2>. QED
    BY <1>15, <2>1 DEF FlushTick, FlushSink, TickArm, AtSelect, DrainInv, FIFO
<1>16. ASSUME NEW o \in Outcomes, FinalFlush(o) PROVE DrainInv'
  <2>1. audit'.closeMark = audit.closeMark /\ audit'.unflushed = 0
    BY <1>16, AuditFrame DEF FinalFlush, FlushSink
  <2>2. batch = <<>> /\ queue = <<>> /\ closed
    BY <1>16 DEF FinalFlush, AtSelect, Drained, DrainInv
  <2>3. stream = handed
    BY <1>t, <2>2, ConcatEmptySeq DEF DrainInv, FIFO
  <2>. QED
    BY <1>16, <2>1, <2>2, <2>3 DEF FinalFlush, FlushSink, Drained, DrainInv, FIFO
<1>17. CASE SeeStop
  BY <1>17 DEF SeeStop, DrainInv, FIFO
<1>18. ASSUME NEW o \in Outcomes, CloseSink(o) PROVE DrainInv'
  BY <1>18 DEF CloseSink, DrainInv, FIFO
<1>19. CASE Exit
  BY <1>19 DEF Exit, DrainInv, FIFO
<1>20. CASE UNCHANGED vars
  BY <1>1, <1>20 DEF vars
<1>. QED
  BY <1>2, <1>3, <1>4, <1>5, <1>6, <1>7, <1>8, <1>9, <1>10, <1>11, <1>12, <1>13, <1>14, <1>15,
     <1>16, <1>17, <1>18, <1>19, <1>20 DEF Next, WriterStep, CloseStep, Finished

\* Every reachable state satisfies the drain invariant.
LEMMA DrainHolds == Spec => [](TypeOK /\ DrainInv)
BY TypeInit, TypeStep, DrainInit, DrainStep, PTL DEF Spec

\* For every number of goroutines, every buffer and batch size: the writer hands the
\* sink what entered the channel in order, with no gap and no repetition.
THEOREM FIFOCorrect == Spec => []FIFO
<1>1. DrainInv => FIFO
  BY DEF DrainInv
<1>. QED
  BY DrainHolds, <1>1, PTL

\* For every number of closers and every failure of the sink: Close drains what was in
\* the channel when it was called, and has it flushed.
THEOREM DrainCorrect == Spec => []CloseDelivers
<1>1. TypeOK /\ DrainInv => CloseDelivers
  <2>. SUFFICES ASSUME TypeOK, DrainInv PROVE CloseDelivers
    OBVIOUS
  <2>1. audit.closeMark \in Nat /\ Len(handed) \in Nat
    BY LenProperties DEF TypeOK, Audit
  <2>. QED
    BY <2>1 DEF DrainInv, CloseDelivers
<1>. QED
  BY DrainHolds, <1>1, PTL

\* A Close that waited out the drain keeps reporting what it reported: nobody is
\* told before the writer is gone, and then closeErr has its last value.  The Close
\* that flips closed stands before the close of stop until it has closed it.
LEMMA AgreeStep == TypeOK /\ CloseAgrees /\ [Next]_vars => CloseAgrees'
<1>. SUFFICES ASSUME TypeOK, CloseAgrees, [Next]_vars PROVE CloseAgrees'
  OBVIOUS
<1>. USE DEF spanVars, callVars, controlVars, writerVars
<1>1. ASSUME UNCHANGED <<result, cpc, closed, stop, wpc, closeErr>> PROVE CloseAgrees'
  BY <1>1 DEF CloseAgrees
<1>2. ASSUME wpc # "done", UNCHANGED <<result, cpc, closed, stop>> PROVE CloseAgrees'
  BY <1>2 DEF CloseAgrees
<1>3. ASSUME NEW p \in Producers, NEW q \in Contexts, StartSpan(p, q) PROVE CloseAgrees'
  BY <1>1, <1>3 DEF StartSpan
<1>4. ASSUME NEW p \in Producers, StartPanics(p) PROVE CloseAgrees'
  BY <1>1, <1>4 DEF StartPanics
<1>5. ASSUME NEW p \in Producers, NEW s \in spans,
             SetAttrs(p, s) \/ End(p, s) \/ (\E v \in Failures : Fail(p, s, v))
      PROVE  CloseAgrees'
  BY <1>1, <1>5 DEF SetAttrs, End, Fail
<1>6. ASSUME NEW p \in Producers, SendStep(p) PROVE CloseAgrees'
  BY <1>1, <1>6 DEF SendStep, SendCheck, SendInert, SendEnqueue, SendDrop, SendStopped, Return
<1>7. ASSUME NEW c \in Closers, CloseBegin(c) PROVE CloseAgrees'
  <2>1. /\ closed' /\ UNCHANGED <<stop, result, wpc, closeErr>>
        /\ \A d \in Closers \ {c} : cpc'[d] = cpc[d]
        /\ cpc[c] = "idle" /\ cpc'[c] = IF closed THEN "wait" ELSE "stop"
    BY <1>7 DEF CloseBegin, AfterFlip, TypeOK
  <2>2. stop' \/ \E d \in Closers : cpc'[d] = "stop"
    BY <2>1 DEF CloseAgrees
  <2>. QED
    BY <2>1, <2>2 DEF CloseAgrees
<1>8. ASSUME NEW c \in Closers, CloseStop(c) PROVE CloseAgrees'
  BY <1>8 DEF CloseStop, CloseAgrees, TypeOK
<1>9. ASSUME NEW c \in Closers, CloseDone(c) \/ CloseExpire(c) \/ ClosePanics(c)
      PROVE  CloseAgrees'
  <2>1. /\ cpc[c] = "wait" /\ cpc'[c] \in {"returned", "recovered"}
        /\ UNCHANGED <<closed, stop, wpc, closeErr>>
        /\ \A d \in Closers \ {c} : cpc'[d] = cpc[d] /\ result'[d] = result[d]
    BY <1>9 DEF CloseDone, CloseExpire, ClosePanics, CloseReturns, TypeOK
  <2>2. cpc'[c] = "returned" /\ result'[c] # "ctxErr" => wpc' = "done" /\ result'[c] = closeErr'
    BY <1>9 DEF CloseDone, CloseExpire, ClosePanics, CloseReturns, DoneClosed, TypeOK
  <2>3. closed' => stop' \/ \E d \in Closers : cpc'[d] = "stop"
    BY <2>1 DEF CloseAgrees
  <2>. QED
    BY <2>1, <2>2, <2>3 DEF CloseAgrees
<1>10. CASE Receive \/ DrainOne \/ DrainDone \/ SeeStop \/ Exit
  BY <1>2, <1>10 DEF Receive, DrainOne, DrainDone, SeeStop, Exit, AtSelect
<1>11. ASSUME NEW o \in Outcomes, Deliver(o) \/ FinalFlush(o) \/ CloseSink(o) \/ FlushTick(o)
       PROVE  CloseAgrees'
  BY <1>2, <1>11 DEF Deliver, FinalFlush, CloseSink, FlushTick, FlushSink, TickArm, AtSelect
<1>12. CASE UNCHANGED vars
  BY <1>1, <1>12 DEF vars
<1>. QED
  BY <1>3, <1>4, <1>5, <1>6, <1>7, <1>8, <1>9, <1>10, <1>11, <1>12
     DEF Next, WriterStep, CloseStep, Finished

\* For every number of goroutines that call Close: all that report completion by
\* themselves report the same one, after it happened; and whichever of them have an
\* expired or a panicking context, the shutdown is on its way once one was called.
THEOREM CloseCorrect == Spec => []CloseAgrees
<1>1. Init => CloseAgrees
  BY DEF Init, CloseAgrees
<1>. QED
  BY TypeInit, TypeStep, <1>1, AgreeStep, PTL DEF Spec

\* In a step from a state where the writer is past closeSink, the sink is not touched:
\* such a writer has no step left but Exit.
LEMMA SinkStep ==
  ASSUME TypeOK, [Next]_vars, wpc \in {"exit", "done"}
  PROVE  SinkLeftAlone
<1>. USE DEF spanVars, callVars, controlVars, writerVars, SinkLeftAlone
<1>1. CASE UNCHANGED vars
  BY <1>1 DEF vars
<1>2. ASSUME NEW p \in Producers,
             \/ \E q \in Contexts : StartSpan(p, q)
             \/ StartPanics(p)
             \/ \E s \in spans : SetAttrs(p, s) \/ End(p, s) \/ (\E v \in Failures : Fail(p, s, v))
      PROVE  SinkLeftAlone
  <2>1. UNCHANGED <<wpc, handed, closeErr>>
    BY <1>2 DEF StartSpan, StartPanics, SetAttrs, End, Fail
  <2>2. audit'.unflushed = audit.unflushed
    <3>1. CASE StartPanics(p)
      BY <3>1, AuditFrame DEF StartPanics
    <3>2. CASE \E s \in spans : SetAttrs(p, s)
      BY <3>2, AuditFrame DEF SetAttrs
    <3>3. CASE UNCHANGED audit
      BY <3>3
    <3>. QED
      BY <1>2, <3>1, <3>2, <3>3 DEF StartSpan, End, Fail
  <2>3. stats'.writeErrors = stats.writeErrors
    BY <1>2 DEF StartSpan, StartPanics, SetAttrs, End, Fail, TypeOK, Stats
  <2>. QED
    BY <2>1, <2>2, <2>3
<1>3. ASSUME NEW p \in Producers, SendStep(p)
      PROVE  SinkLeftAlone
  <2>1. UNCHANGED <<wpc, handed, closeErr>>
    BY <1>3 DEF SendStep, SendCheck, SendInert, SendEnqueue, SendDrop, SendStopped, Return
  <2>2. audit'.unflushed = audit.unflushed
    <3>1. CASE SendInert(p)
      BY <3>1, AuditFrame DEF SendInert
    <3>2. CASE SendStopped(p)
      BY <3>2, AuditFrame DEF SendStopped
    <3>3. CASE UNCHANGED audit
      BY <3>3
    <3>. QED
      BY <1>3, <3>1, <3>2, <3>3 DEF SendStep, SendCheck, SendEnqueue, SendDrop
  <2>3. stats'.writeErrors = stats.writeErrors
    BY <1>3 DEF SendStep, SendCheck, SendInert, SendEnqueue, SendDrop, SendStopped, TypeOK, Stats
  <2>. QED
    BY <2>1, <2>2, <2>3
<1>4. ASSUME NEW c \in Closers, CloseBegin(c) \/ CloseStep(c)
      PROVE  SinkLeftAlone
  <2>1. audit'.unflushed = audit.unflushed
    <3>1. CASE CloseBegin(c)
      BY <3>1, AuditFrame DEF CloseBegin
    <3>2. CASE UNCHANGED audit
      BY <3>2
    <3>. QED
      BY <1>4, <3>1, <3>2 DEF CloseStep, CloseStop, CloseDone, CloseExpire, ClosePanics, CloseReturns
  <2>. QED
    BY <1>4, <2>1 DEF CloseBegin, CloseStep, CloseStop, CloseDone, CloseExpire, ClosePanics,
                      CloseReturns
<1>5. CASE WriterStep
  BY <1>5 DEF WriterStep, Receive, DrainOne, DrainDone, SeeStop, Exit, Deliver, FinalFlush,
              CloseSink, AtSelect
<1>6. ~ \E o \in Outcomes : FlushTick(o)
  BY DEF FlushTick, TickArm, AtSelect
<1>. QED
  BY <1>1, <1>2, <1>3, <1>4, <1>5, <1>6 DEF Next, Finished

\* The sink contract, for every policy, size and failure: closed exactly once and
\* never used afterwards.
THEOREM SinkCorrect == Spec => SinkUntouchedAfterClose
<1>1. TypeOK /\ [Next]_vars => [(wpc \in {"exit", "done"}) => SinkLeftAlone]_vars
  BY SinkStep
<1>. QED
  BY TypeInit, TypeStep, <1>1, PTL DEF Spec, SinkUntouchedAfterClose

-----------------------------------------------------------------------------
(* Counting: the invariants                                                *)

Busy == {p \in Producers : pc[p] # "idle"}

\* How many events are with a caller, in the channel and in the batch.
Calls == Cardinality(Busy)
InQueue == Len(queue)
InBatch == Len(batch)

\* How many are still inside the tracer, how many have left it.
Inside == Calls + InQueue + InBatch
Gone == (stats.written + audit.spoiled) + (stats.dropped + audit.inert + audit.forfeited)

\* Only finitely many calls are in progress, however many goroutines there are.
FateInv == IsFiniteSet(Busy) /\ EveryEventHasOneFate

\* A goroutine outside a call sends nothing.
IdleInv == \A p \in Producers : pc[p] = "idle" => sending[p] = NoEvent

Open == Minted \ ended
OpenRoots == {s \in Open : parent[s] = 0}

-----------------------------------------------------------------------------
(* Lemmas about counting                                                   *)

\* The end events of a concatenation are those of its parts.
LEMMA EndsConcat ==
  ASSUME NEW s \in Seq(Event), NEW t \in Seq(Event)
  PROVE  EndsIn(s \o t) = EndsIn(s) + EndsIn(t)
<1>. DEFINE A == {i \in 1..Len(s) : s[i].kind = "end"}
            B == {i \in 1..Len(t) : t[i].kind = "end"}
            C == {i \in 1..Len(s \o t) : (s \o t)[i].kind = "end"}
            Late == {i \in C : i > Len(s)}
            shift == [i \in B |-> i + Len(s)]
<1>1. /\ Len(s) \in Nat /\ Len(t) \in Nat
      /\ Len(s \o t) = Len(s) + Len(t)
      /\ \A i \in 1..Len(s) + Len(t) :
           (s \o t)[i] = IF i <= Len(s) THEN s[i] ELSE t[i - Len(s)]
  BY LenProperties, ConcatProperties
<1>2. IsFiniteSet(A) /\ IsFiniteSet(B) /\ IsFiniteSet(C)
  <2>1. IsFiniteSet(1..Len(s)) /\ IsFiniteSet(1..Len(t)) /\ IsFiniteSet(1..Len(s \o t))
    BY <1>1, FS_Interval
  <2>2. A \in SUBSET (1..Len(s)) /\ B \in SUBSET (1..Len(t)) /\ C \in SUBSET (1..Len(s \o t))
    OBVIOUS
  <2>. QED
    BY <2>1, <2>2, FS_Subset
<1>3. shift \in Bijection(B, Late)
  <2>1. shift \in [B -> Late]
    BY <1>1
  <2>2. \A i, j \in B : shift[i] = shift[j] => i = j
    BY <1>1
  <2>3. \A k \in Late : \E i \in B : shift[i] = k
    <3>. SUFFICES ASSUME NEW k \in Late PROVE k - Len(s) \in B /\ shift[k - Len(s)] = k
      OBVIOUS
    <3>1. k \in 1..Len(s) + Len(t) /\ k > Len(s) /\ (s \o t)[k].kind = "end"
      BY <1>1
    <3>2. (s \o t)[k] = t[k - Len(s)] /\ k - Len(s) \in 1..Len(t)
      BY <1>1, <3>1
    <3>3. k - Len(s) \in B
      BY <3>1, <3>2
    <3>4. (k - Len(s)) + Len(s) = k
      BY <1>1, <3>1
    <3>5. \A i \in B : shift[i] = i + Len(s)
      OBVIOUS
    <3>. HIDE DEF shift, B
    <3>. QED
      BY <3>3, <3>4, <3>5
  <2>. QED
    BY <2>1, <2>2, <2>3 DEF Bijection, Injection, Surjection, IsInjective
<1>4. IsFiniteSet(Late) /\ Cardinality(Late) = Cardinality(B)
  <2>1. ExistsBijection(B, Late) /\ IsFiniteSet(B)
    BY <1>2, <1>3 DEF ExistsBijection
  <2>. HIDE DEF B, Late
  <2>. QED
    BY <2>1, FS_Bijection
<1>5. C = A \cup Late /\ A \cap Late = {}
  BY <1>1
<1>6. Cardinality(C) = Cardinality(A) + Cardinality(Late) - Cardinality(A \cap Late)
  BY <1>2, <1>4, <1>5, FS_Union
<1>7. Cardinality(A \cap Late) = 0 /\ Cardinality(A) \in Nat /\ Cardinality(B) \in Nat
  BY <1>2, <1>5, FS_EmptySet, FS_CardinalityType
<1>8. EndsIn(s) = Cardinality(A) /\ EndsIn(t) = Cardinality(B) /\ EndsIn(s \o t) = Cardinality(C)
  BY DEF EndsIn
<1>. HIDE DEF A, B, C, Late
<1>. QED
  BY <1>4, <1>6, <1>7, <1>8

\* Adding a new member, taking a member away.
LEMMA OneMore ==
  ASSUME NEW S, NEW x, IsFiniteSet(S), x \notin S
  PROVE  IsFiniteSet(S \cup {x}) /\ Cardinality(S \cup {x}) = Cardinality(S) + 1
BY FS_AddElement

\* A set without one of its elements has one less.
LEMMA OneLess ==
  ASSUME NEW S, NEW x, IsFiniteSet(S), x \in S
  PROVE  IsFiniteSet(S \ {x}) /\ Cardinality(S \ {x}) = Cardinality(S) - 1
BY FS_RemoveElement

-----------------------------------------------------------------------------
(* Every completed span is summarized once                                 *)

\* Only Deliver summarizes, and it hands over the batch it counts.
LEMMA SummaryStep ==
  TypeOK /\ SummaryIndependentOfSink /\ [Next]_vars => SummaryIndependentOfSink'
<1>. SUFFICES ASSUME TypeOK, SummaryIndependentOfSink, [Next]_vars
     PROVE  SummaryIndependentOfSink'
  OBVIOUS
<1>. USE DEF spanVars, callVars, controlVars, writerVars, SummaryIndependentOfSink
<1>. stats \in Stats
  BY DEF TypeOK
<1>1. ASSUME NEW p \in Producers,
             \/ \E q \in Contexts : StartSpan(p, q)
             \/ StartPanics(p)
             \/ \E s \in spans : SetAttrs(p, s) \/ End(p, s) \/ (\E v \in Failures : Fail(p, s, v))
      PROVE  SummaryIndependentOfSink'
  BY <1>1 DEF StartSpan, StartPanics, SetAttrs, End, Fail, Stats
<1>2. ASSUME NEW p \in Producers, SendStep(p) PROVE SummaryIndependentOfSink'
  BY <1>2 DEF SendStep, SendCheck, SendInert, SendEnqueue, SendDrop, SendStopped, Return, Stats
<1>3. ASSUME NEW c \in Closers, CloseBegin(c) \/ CloseStep(c)
      PROVE  SummaryIndependentOfSink'
  BY <1>3 DEF CloseBegin, CloseStep, CloseStop, CloseDone, CloseExpire, ClosePanics, CloseReturns
<1>4. CASE Receive \/ DrainOne \/ DrainDone \/ SeeStop \/ Exit
  BY <1>4 DEF Receive, DrainOne, DrainDone, SeeStop, Exit
<1>5. ASSUME NEW o \in Outcomes, Deliver(o) PROVE SummaryIndependentOfSink'
  <2>1. EndsIn(handed') = EndsIn(handed) + EndsIn(batch)
    BY <1>5, EndsConcat DEF Deliver, TypeOK
  <2>2. stats'.summarized = stats.summarized + EndsIn(batch)
    BY <1>5 DEF Deliver, CompletedIn, Stats
  <2>. QED
    BY <2>1, <2>2
<1>6. ASSUME NEW o \in Outcomes, FlushTick(o) \/ FinalFlush(o) \/ CloseSink(o)
      PROVE  SummaryIndependentOfSink'
  BY <1>6 DEF FlushTick, FinalFlush, FlushSink, CloseSink, Stats
<1>7. CASE UNCHANGED vars
  BY <1>7 DEF vars
<1>. QED
  BY <1>1, <1>2, <1>3, <1>4, <1>5, <1>6, <1>7 DEF Next, WriterStep, Finished

\* For every size and failure of the sink: the summaries have counted exactly the end
\* events handed to it (writer.go:37-38).
THEOREM SummaryCorrect == Spec => []SummaryIndependentOfSink
<1>1. Init => SummaryIndependentOfSink
  <2>1. {i \in 1..Len(<<>>) : <<>>[i].kind = "end"} = {}
    BY EmptySeq
  <2>. QED
    BY <2>1, FS_EmptySet DEF Init, SummaryIndependentOfSink, NoStats, EndsIn
<1>. QED
  BY TypeInit, TypeStep, <1>1, SummaryStep, PTL DEF Spec

-----------------------------------------------------------------------------
(* Every event has one fate                                                *)

\* No call is in progress and nothing is counted in a tracer that New just returned.
LEMMA FateInit == Init => FateInv
<1>. SUFFICES ASSUME Init PROVE FateInv
  OBVIOUS
<1>1. Busy = {}
  BY DEF Init, Busy
<1>2. IsFiniteSet(Busy) /\ Cardinality(Busy) = 0
  BY <1>1, FS_EmptySet
<1>. QED
  BY <1>2 DEF Init, FateInv, EveryEventHasOneFate, SendsBegun, Busy, NoStats, NoAudit

\* A call that begins its send joins the busy ones, a send that returns leaves them.
LEMMA BusyChange ==
  ASSUME TypeOK, FateInv, NEW p \in Producers
  PROVE  /\ \A e : Call(p, e) /\ pc[p] = "idle" =>
              IsFiniteSet(Busy') /\ Calls' = Calls + 1
         /\ Return(p) /\ pc[p] # "idle" =>
              IsFiniteSet(Busy') /\ Calls' = Calls - 1
<1>1. ASSUME NEW e, Call(p, e), pc[p] = "idle" PROVE Busy' = Busy \cup {p} /\ p \notin Busy
  BY <1>1 DEF Call, Busy, TypeOK
<1>2. ASSUME Return(p), pc[p] # "idle" PROVE Busy' = Busy \ {p} /\ p \in Busy
  BY <1>2 DEF Return, Busy, TypeOK
<1>. QED
  BY <1>1, <1>2, OneMore, OneLess DEF FateInv, Calls

\* The fates in two groups.
LEMMA Regroup ==
  ASSUME NEW a \in Int, NEW b \in Int, NEW c \in Int, NEW d \in Int,
         NEW e \in Int, NEW f \in Int, NEW g \in Int, NEW h \in Int
  PROVE  /\ a + b + c + d + e + f + g + h = (a + b + c) + ((d + e) + (f + g + h))
         /\ a + b + c \in Int /\ (d + e) + (f + g + h) \in Int
OBVIOUS

\* It survives every step: each moves one event, or a batch, from one fate to another.
LEMMA FateStep == TypeOK /\ DrainInv /\ FateInv /\ [Next]_vars => FateInv'
<1>. SUFFICES ASSUME TypeOK, DrainInv, FateInv, [Next]_vars PROVE FateInv'
  OBVIOUS
<1>. USE DEF spanVars, callVars, controlVars, writerVars
<1>. stats \in Stats /\ audit \in Audit
  BY DEF TypeOK
<1>t. /\ IsFiniteSet(Busy) /\ Calls \in Nat
      /\ InQueue \in Nat /\ InBatch \in Nat
      /\ queue \in Seq(Event) /\ batch \in Seq(Event)
  BY LenProperties, FS_CardinalityType DEF TypeOK, FateInv, Calls, InQueue, InBatch
<1>n. /\ stats.started \in Nat /\ stats.completed \in Nat
      /\ stats.written \in Nat /\ stats.dropped \in Nat
      /\ audit.attrs \in Nat /\ audit.panics \in Nat /\ audit.spoiled \in Nat
      /\ audit.inert \in Nat /\ audit.forfeited \in Nat
  BY DEF Stats, Audit
<1>f. /\ SendsBegun = Inside + Gone
      /\ SendsBegun \in Int /\ Inside \in Int /\ Gone \in Int
  <2>1. SendsBegun = Calls + InQueue + InBatch + stats.written + audit.spoiled
                     + stats.dropped + audit.inert + audit.forfeited
    BY DEF FateInv, EveryEventHasOneFate, Busy, Calls, InQueue, InBatch
  <2>2. /\ Calls + InQueue + InBatch + stats.written + audit.spoiled
             + stats.dropped + audit.inert + audit.forfeited = Inside + Gone
        /\ Inside \in Int /\ Gone \in Int
    <3>1. /\ Calls \in Int /\ InQueue \in Int /\ InBatch \in Int
          /\ stats.written \in Int /\ audit.spoiled \in Int
          /\ stats.dropped \in Int /\ audit.inert \in Int /\ audit.forfeited \in Int
      BY <1>t, <1>n
    <3>. QED
      BY <3>1, Regroup DEF Inside, Gone
  <2>. QED
    BY <2>1, <2>2
<1>g. ASSUME IsFiniteSet(Busy'), TypeOK', SendsBegun' = Inside' + Gone' PROVE FateInv'
  <2>1. /\ Calls' \in Nat /\ InQueue' \in Nat /\ InBatch' \in Nat
        /\ stats'.written \in Nat /\ stats'.dropped \in Nat
        /\ audit'.spoiled \in Nat /\ audit'.inert \in Nat /\ audit'.forfeited \in Nat
    BY <1>g, LenProperties, FS_CardinalityType DEF TypeOK, Stats, Audit, Calls, InQueue, InBatch
  <2>2. SendsBegun' = Calls' + InQueue' + InBatch' + stats'.written + audit'.spoiled
                      + stats'.dropped + audit'.inert + audit'.forfeited
    <3>1. \A n \in Nat : n \in Int
      OBVIOUS
    <3>. QED
      BY <1>g, <2>1, <3>1, Regroup DEF Inside, Gone
  <2>. QED
    BY <1>g, <2>2 DEF FateInv, EveryEventHasOneFate, Busy, Calls, InQueue, InBatch
<1>b. ASSUME IsFiniteSet(Busy'),
             SendsBegun' = SendsBegun + 1, Inside' = Inside + 1, Gone' = Gone
      PROVE  FateInv'
  BY <1>b, <1>f, <1>g, TypeStep
<1>m. ASSUME IsFiniteSet(Busy'), NEW n \in Int,
             SendsBegun' = SendsBegun, Inside' = Inside - n, Gone' = Gone + n
      PROVE  FateInv'
  BY <1>m, <1>f, <1>g, TypeStep
<1>k. ASSUME IsFiniteSet(Busy'), SendsBegun' = SendsBegun, Inside' = Inside, Gone' = Gone
      PROVE  FateInv'
  BY <1>k, <1>f, <1>g, TypeStep
<1>1. ASSUME UNCHANGED <<pc, queue, batch, stats, audit>> PROVE FateInv'
  BY <1>1 DEF FateInv, EveryEventHasOneFate, SendsBegun, Busy
<1>2. ASSUME NEW p \in Producers, NEW q \in Contexts, StartSpan(p, q) PROVE FateInv'
  <2>1. IsFiniteSet(Busy') /\ Calls' = Calls + 1
    BY <1>2, BusyChange DEF StartSpan
  <2>2. /\ stats'.started = stats.started + 1
        /\ stats'.completed = stats.completed
        /\ stats'.written = stats.written /\ stats'.dropped = stats.dropped
        /\ UNCHANGED <<InQueue, InBatch, audit>>
    BY <1>2 DEF StartSpan, Stats, InQueue, InBatch
  <2>s. SendsBegun' = SendsBegun + 1
    BY <1>n, <2>1, <2>2 DEF SendsBegun
  <2>i. Inside' = Inside + 1
    BY <1>t, <2>1, <2>2 DEF Inside
  <2>g. Gone' = Gone
    BY <1>n, <2>1, <2>2 DEF Gone
  <2>. QED
    BY <1>t, <1>b, <2>1, <2>2, <2>s, <2>i, <2>g
<1>3. ASSUME NEW p \in Producers, StartPanics(p) PROVE FateInv'
  <2>1. /\ stats'.started = stats.started + 1
        /\ stats'.completed = stats.completed
        /\ stats'.written = stats.written /\ stats'.dropped = stats.dropped
        /\ UNCHANGED <<Busy, Calls, InQueue, InBatch>>
    BY <1>3 DEF StartPanics, Stats, Busy, Calls, InQueue, InBatch
  <2>2. /\ audit'.panics = audit.panics + 1 /\ audit'.attrs = audit.attrs
        /\ audit'.spoiled = audit.spoiled /\ audit'.inert = audit.inert
        /\ audit'.forfeited = audit.forfeited
    BY <1>3 DEF StartPanics, Audit
  <2>s. SendsBegun' = SendsBegun
    BY <1>n, <2>1, <2>2 DEF SendsBegun
  <2>i. Inside' = Inside
    BY <1>t, <2>1, <2>2 DEF Inside
  <2>g. Gone' = Gone
    BY <1>n, <2>1, <2>2 DEF Gone
  <2>. QED
    BY <1>t, <1>k, <2>1, <2>2, <2>s, <2>i, <2>g
<1>4. ASSUME NEW p \in Producers, NEW s \in spans, SetAttrs(p, s) PROVE FateInv'
  <2>1. IsFiniteSet(Busy') /\ Calls' = Calls + 1
    BY <1>4, BusyChange DEF SetAttrs
  <2>2. /\ audit'.attrs = audit.attrs + 1 /\ audit'.panics = audit.panics
        /\ audit'.spoiled = audit.spoiled /\ audit'.inert = audit.inert
        /\ audit'.forfeited = audit.forfeited
        /\ UNCHANGED <<InQueue, InBatch, stats>>
    BY <1>4 DEF SetAttrs, Audit, InQueue, InBatch
  <2>s. SendsBegun' = SendsBegun + 1
    BY <1>n, <2>1, <2>2 DEF SendsBegun
  <2>i. Inside' = Inside + 1
    BY <1>t, <2>1, <2>2 DEF Inside
  <2>g. Gone' = Gone
    BY <1>n, <2>1, <2>2 DEF Gone
  <2>. QED
    BY <1>t, <1>b, <2>1, <2>2, <2>s, <2>i, <2>g
<1>5. ASSUME NEW p \in Producers, NEW s \in spans, End(p, s) PROVE FateInv'
  <2>1. IsFiniteSet(Busy') /\ Calls' = Calls + 1
    BY <1>5, BusyChange DEF End
  <2>2. /\ stats'.completed = stats.completed + 1
        /\ stats'.started = stats.started
        /\ stats'.written = stats.written /\ stats'.dropped = stats.dropped
        /\ UNCHANGED <<InQueue, InBatch, audit>>
    BY <1>5 DEF End, Stats, InQueue, InBatch
  <2>s. SendsBegun' = SendsBegun + 1
    BY <1>n, <2>1, <2>2 DEF SendsBegun
  <2>i. Inside' = Inside + 1
    BY <1>t, <2>1, <2>2 DEF Inside
  <2>g. Gone' = Gone
    BY <1>n, <2>1, <2>2 DEF Gone
  <2>. QED
    BY <1>t, <1>b, <2>1, <2>2, <2>s, <2>i, <2>g
<1>6. ASSUME NEW p \in Producers, NEW s \in spans, NEW v \in Failures, Fail(p, s, v)
      PROVE  FateInv'
  BY <1>1, <1>6 DEF Fail
<1>7. ASSUME NEW p \in Producers, SendStep(p) PROVE FateInv'
  <2>1. CASE SendCheck(p)
    <3>1. UNCHANGED <<Busy, Calls, InQueue, InBatch, stats, audit>>
      BY <2>1 DEF SendCheck, Busy, TypeOK, Calls, InQueue, InBatch
    <3>s. SendsBegun' = SendsBegun
      BY <1>n, <2>1, <3>1 DEF SendsBegun
    <3>i. Inside' = Inside
      BY <1>t, <2>1, <3>1 DEF Inside
    <3>g. Gone' = Gone
      BY <1>n, <2>1, <3>1 DEF Gone
    <3>. QED
      BY <1>t, <1>k, <2>1, <3>1, <3>s, <3>i, <3>g
  <2>2. CASE SendInert(p)
    <3>1. IsFiniteSet(Busy') /\ Calls' = Calls - 1
      BY <2>2, BusyChange DEF SendInert
    <3>2. /\ audit'.inert = audit.inert + 1
          /\ audit'.attrs = audit.attrs /\ audit'.panics = audit.panics
          /\ audit'.spoiled = audit.spoiled /\ audit'.forfeited = audit.forfeited
          /\ UNCHANGED <<InQueue, InBatch, stats>>
      BY <2>2 DEF SendInert, Return, Audit, InQueue, InBatch
    <3>s. SendsBegun' = SendsBegun
      BY <1>n, <3>1, <3>2 DEF SendsBegun
    <3>i. Inside' = Inside - 1
      BY <1>t, <3>1, <3>2 DEF Inside
    <3>g. Gone' = Gone + 1
      BY <1>n, <3>1, <3>2 DEF Gone
    <3>. QED
      BY <1>t, <1>m, <3>1, <3>2, <3>s, <3>i, <3>g
  <2>3. CASE SendEnqueue(p)
    <3>1. IsFiniteSet(Busy') /\ Calls' = Calls - 1
      BY <2>3, BusyChange DEF SendEnqueue
    <3>2. /\ InQueue' = InQueue + 1
          /\ UNCHANGED <<InBatch, stats, audit>>
      BY <1>t, <2>3, AppendProperties DEF SendEnqueue, Return, TypeOK, InQueue, InBatch
    <3>s. SendsBegun' = SendsBegun
      BY <1>n, <3>1, <3>2 DEF SendsBegun
    <3>i. Inside' = Inside
      BY <1>t, <3>1, <3>2 DEF Inside
    <3>g. Gone' = Gone
      BY <1>n, <3>1, <3>2 DEF Gone
    <3>. QED
      BY <1>t, <1>k, <3>1, <3>2, <3>s, <3>i, <3>g
  <2>4. CASE SendDrop(p)
    <3>1. IsFiniteSet(Busy') /\ Calls' = Calls - 1
      BY <2>4, BusyChange DEF SendDrop
    <3>2. /\ stats'.dropped = stats.dropped + 1
          /\ stats'.started = stats.started /\ stats'.completed = stats.completed
          /\ stats'.written = stats.written
          /\ UNCHANGED <<InQueue, InBatch, audit>>
      BY <2>4 DEF SendDrop, DropCount, Return, Stats, InQueue, InBatch
    <3>s. SendsBegun' = SendsBegun
      BY <1>n, <3>1, <3>2 DEF SendsBegun
    <3>i. Inside' = Inside - 1
      BY <1>t, <3>1, <3>2 DEF Inside
    <3>g. Gone' = Gone + 1
      BY <1>n, <3>1, <3>2 DEF Gone
    <3>. QED
      BY <1>t, <1>m, <3>1, <3>2, <3>s, <3>i, <3>g
  <2>5. CASE SendStopped(p)
    <3>1. IsFiniteSet(Busy') /\ Calls' = Calls - 1
      BY <2>5, BusyChange DEF SendStopped
    <3>2. /\ audit'.forfeited = audit.forfeited + 1
          /\ audit'.attrs = audit.attrs /\ audit'.panics = audit.panics
          /\ audit'.spoiled = audit.spoiled /\ audit'.inert = audit.inert
          /\ UNCHANGED <<InQueue, InBatch, stats>>
      BY <2>5 DEF SendStopped, Return, Audit, InQueue, InBatch
    <3>s. SendsBegun' = SendsBegun
      BY <1>n, <3>1, <3>2 DEF SendsBegun
    <3>i. Inside' = Inside - 1
      BY <1>t, <3>1, <3>2 DEF Inside
    <3>g. Gone' = Gone + 1
      BY <1>n, <3>1, <3>2 DEF Gone
    <3>. QED
      BY <1>t, <1>m, <3>1, <3>2, <3>s, <3>i, <3>g
  <2>. QED
    BY <1>7, <2>1, <2>2, <2>3, <2>4, <2>5 DEF SendStep
<1>8. ASSUME NEW c \in Closers, CloseBegin(c) \/ CloseStep(c)
      PROVE  FateInv'
  <2>1. CASE CloseBegin(c)
    <3>1. /\ audit'.attrs = audit.attrs /\ audit'.panics = audit.panics
          /\ audit'.spoiled = audit.spoiled /\ audit'.inert = audit.inert
          /\ audit'.forfeited = audit.forfeited
          /\ UNCHANGED <<Busy, Calls, InQueue, InBatch, stats>>
      BY <2>1 DEF CloseBegin, Audit, Busy, Calls, InQueue, InBatch
    <3>s. SendsBegun' = SendsBegun
      BY <1>n, <3>1 DEF SendsBegun
    <3>i. Inside' = Inside
      BY <1>t, <3>1 DEF Inside
    <3>g. Gone' = Gone
      BY <1>n, <3>1 DEF Gone
    <3>. QED
      BY <1>t, <1>k, <3>1, <3>s, <3>i, <3>g
  <2>2. CASE CloseStep(c)
    BY <1>1, <2>2 DEF CloseStep, CloseStop, CloseDone, CloseExpire, ClosePanics, CloseReturns
  <2>. QED
    BY <1>8, <2>1, <2>2
<1>9. CASE Receive \/ DrainOne
  <2>1. queue # <<>> /\ queue' = Tail(queue)
    BY <1>9 DEF Receive, DrainOne
  <2>2. Head(queue) \in Event /\ Len(queue') = Len(queue) - 1
    BY <1>t, <2>1, HeadTailProperties
  <2>3. Len(batch') = Len(batch) + 1
    <3>1. CASE Receive
      <4>1. batch = <<>>
        BY <3>1 DEF Receive, AtSelect, DrainInv
      <4>. QED
        BY <3>1, <4>1 DEF Receive
    <3>2. CASE DrainOne
      BY <1>t, <2>2, <3>2, AppendProperties DEF DrainOne, Grown
    <3>. QED
      BY <1>9, <3>1, <3>2
  <2>4. InQueue' = InQueue - 1 /\ InBatch' = InBatch + 1
    BY <2>2, <2>3 DEF InQueue, InBatch
  <2>5. UNCHANGED <<Busy, Calls, stats, audit>>
    BY <1>9 DEF Receive, DrainOne, Busy, Calls
  <2>s. SendsBegun' = SendsBegun
    BY <1>n, <2>4, <2>5 DEF SendsBegun
  <2>i. Inside' = Inside
    BY <1>t, <2>4, <2>5 DEF Inside
  <2>g. Gone' = Gone
    BY <1>n, <2>4, <2>5 DEF Gone
  <2>. QED
    BY <1>t, <1>k, <2>4, <2>5, <2>s, <2>i, <2>g
<1>10. CASE DrainDone \/ SeeStop \/ Exit
  BY <1>1, <1>10 DEF DrainDone, SeeStop, Exit
<1>11. ASSUME NEW o \in Outcomes, Deliver(o) PROVE FateInv'
  <2>0. Accepted(o) \in Int
    BY <1>t DEF Accepted, InBatch
  <2>1. /\ stats'.written = stats.written + Accepted(o)
        /\ stats'.started = stats.started /\ stats'.completed = stats.completed
        /\ stats'.dropped = stats.dropped
    BY <1>11 DEF Deliver, Stats
  <2>2. /\ audit'.spoiled = audit.spoiled + (InBatch - Accepted(o))
        /\ audit'.attrs = audit.attrs /\ audit'.panics = audit.panics
        /\ audit'.inert = audit.inert /\ audit'.forfeited = audit.forfeited
    BY <1>11 DEF Deliver, Audit, InBatch
  <2>3. InBatch' = 0 /\ UNCHANGED <<Busy, Calls, InQueue>>
    BY <1>11 DEF Deliver, Busy, Calls, InQueue, InBatch
  <2>s. SendsBegun' = SendsBegun
    BY <1>n, <2>0, <2>1, <2>2, <2>3 DEF SendsBegun
  <2>i. Inside' = Inside - InBatch
    BY <1>t, <2>0, <2>1, <2>2, <2>3 DEF Inside
  <2>g. Gone' = Gone + InBatch
    <3>. DEFINE tried == stats.written + audit.spoiled
                rest == stats.dropped + audit.inert + audit.forfeited
    <3>1. Gone = tried + rest /\ Gone' = tried' + rest'
      BY DEF Gone
    <3>t. tried \in Int /\ rest \in Int
      BY <1>n
    <3>2. tried' = tried + InBatch
      BY <1>n, <1>t, <2>0, <2>1, <2>2
    <3>3. rest' = rest
      BY <2>1, <2>2
    <3>. HIDE DEF tried, rest
    <3>. QED
      BY <1>t, <3>1, <3>t, <3>2, <3>3
  <2>. QED
    BY <1>t, <1>m, <2>0, <2>1, <2>2, <2>3, <2>s, <2>i, <2>g
<1>12. ASSUME NEW o \in Outcomes, FlushTick(o) \/ FinalFlush(o) \/ CloseSink(o) PROVE FateInv'
  <2>1. /\ stats'.started = stats.started /\ stats'.completed = stats.completed
        /\ stats'.written = stats.written /\ stats'.dropped = stats.dropped
        /\ audit'.attrs = audit.attrs /\ audit'.panics = audit.panics
        /\ audit'.spoiled = audit.spoiled /\ audit'.inert = audit.inert
        /\ audit'.forfeited = audit.forfeited
        /\ UNCHANGED <<Busy, Calls, InQueue, InBatch>>
    BY <1>12 DEF FlushTick, FinalFlush, FlushSink, CloseSink, Stats, Audit, Busy, Calls, InQueue, InBatch
  <2>s. SendsBegun' = SendsBegun
    BY <1>n, <2>1 DEF SendsBegun
  <2>i. Inside' = Inside
    BY <1>t, <2>1 DEF Inside
  <2>g. Gone' = Gone
    BY <1>n, <2>1 DEF Gone
  <2>. QED
    BY <1>t, <1>k, <2>1, <2>s, <2>i, <2>g
<1>13. CASE UNCHANGED vars
  BY <1>1, <1>13 DEF vars
<1>. QED
  BY <1>2, <1>3, <1>4, <1>5, <1>6, <1>7, <1>8, <1>9, <1>10, <1>11, <1>12, <1>13
     DEF Next, WriterStep, Finished

\* For every number of goroutines, every size and policy: each event a call set out to
\* send is at any moment in exactly one place, and none is unaccounted for.
THEOREM FateCorrect == Spec => []EveryEventHasOneFate
<1>1. FateInv => EveryEventHasOneFate
  BY DEF FateInv
<1>. QED
  BY DrainHolds, FateInit, FateStep, <1>1, PTL DEF Spec

-----------------------------------------------------------------------------
(* The gauges                                                              *)

\* Beside it the step needs OrderInv: spans are minted in order, and the span of a Start
\* in progress is neither published nor ended.
GaugeInv == IdleInv /\ GaugesExact

\* The gauges, in the words of this module.
LEMMA GaugeCounts ==
  GaugesExact <=> /\ stats.spansInFlight = Cardinality(Open) + audit.panics
                  /\ stats.tracesInFlight = Cardinality(OpenRoots)
                  /\ stats.completed = Cardinality(ended)
BY DEF GaugesExact, Open, OpenRoots

\* Nothing is open in a tracer that New just returned.
LEMMA GaugeInit == Init => GaugeInv
<1>. SUFFICES ASSUME Init PROVE GaugeInv
  OBVIOUS
<1>1. IdleInv
  BY DEF Init, IdleInv
<1>2. Minted = {}
  BY DEF Init, Minted, NoEvent
<1>3. Open = {} /\ OpenRoots = {} /\ ended = {}
  BY <1>2 DEF Init, Open, OpenRoots
<1>4. Cardinality(Open) = 0 /\ Cardinality(OpenRoots) = 0 /\ Cardinality(ended) = 0
  BY <1>3, FS_EmptySet
<1>. QED
  BY <1>1, <1>4, GaugeCounts DEF Init, GaugeInv, NoStats, NoAudit

\* A span that is minted has an ID that was minted; the three sets are finite.
LEMMA MintedFinite ==
  ASSUME TypeOK, OrderInv, IdleInv
  PROVE  /\ Minted \subseteq 1..stats.started
         /\ IsFiniteSet(Open) /\ IsFiniteSet(OpenRoots) /\ IsFiniteSet(ended)
<1>1. Minted \subseteq 1..stats.started
  <2>. SUFFICES ASSUME NEW p \in Producers, sending[p].kind = "start"
       PROVE  sending[p].span \in 1..stats.started
    BY DEF Minted, OrderInv, SpansInv
  <2>1. pc[p] # "idle"
    BY DEF IdleInv, NoEvent
  <2>. QED
    BY <2>1 DEF OrderInv, SendersInv, SenderInv
<1>2. IsFiniteSet(1..stats.started)
  BY FS_Interval DEF TypeOK, Stats
<1>3. Open \in SUBSET (1..stats.started) /\ OpenRoots \in SUBSET (1..stats.started)
      /\ ended \in SUBSET (1..stats.started)
  BY <1>1 DEF Open, OpenRoots, OrderInv, SpansInv
<1>. QED
  BY <1>1, <1>2, <1>3, FS_Subset

\* A send that returns publishes the span of a Start and forgets its event: what is
\* minted stays minted.
LEMMA ReturnKeepsMinted ==
  ASSUME TypeOK, OrderInv, IdleInv, NEW p \in Producers, pc[p] # "idle", Return(p)
  PROVE  Minted' = Minted /\ IdleInv' /\ UNCHANGED <<ended, parent>>
<1>1. /\ sending' = [sending EXCEPT ![p] = NoEvent]
      /\ pc' = [pc EXCEPT ![p] = "idle"]
      /\ spans' = Published(p)
      /\ UNCHANGED <<ended, parent>>
  BY DEF Return
<1>2. /\ sending'[p] = NoEvent /\ pc'[p] = "idle"
      /\ \A r \in Producers \ {p} : sending'[r] = sending[r] /\ pc'[r] = pc[r]
  BY <1>1 DEF TypeOK
<1>3. sending'[p].kind # "start"
  BY <1>2 DEF NoEvent
<1>4. Minted' \subseteq Minted
  BY <1>1, <1>2, <1>3 DEF Minted, Published
<1>5. ASSUME NEW x \in Minted PROVE x \in Minted'
  <2>1. CASE x \in spans
    BY <1>1, <2>1 DEF Minted, Published
  <2>2. CASE \E r \in Producers : sending[r].kind = "start" /\ x = sending[r].span
    BY <1>1, <1>2, <2>2 DEF Minted, Published
  <2>. QED
    BY <2>1, <2>2 DEF Minted
<1>6. IdleInv'
  BY <1>2 DEF IdleInv
<1>. QED
  BY <1>1, <1>4, <1>5, <1>6

\* A call that begins a send for a span already minted mints none.
LEMMA CallKeepsMinted ==
  ASSUME TypeOK, IdleInv, NEW p \in Producers, NEW e, pc[p] = "idle", Call(p, e),
         e.kind # "start", UNCHANGED spans
  PROVE  Minted' = Minted /\ IdleInv'
<1>1. /\ sending[p] = NoEvent
      /\ sending'[p] = e /\ pc'[p] = "check"
      /\ \A r \in Producers \ {p} : sending'[r] = sending[r] /\ pc'[r] = pc[r]
  BY DEF Call, TypeOK, IdleInv
<1>. QED
  BY <1>1 DEF Minted, IdleInv, NoEvent

\* It survives every step.
LEMMA GaugeStep == TypeOK /\ OrderInv /\ GaugeInv /\ [Next]_vars => GaugeInv'
<1>. SUFFICES ASSUME TypeOK, OrderInv, GaugeInv, [Next]_vars PROVE GaugeInv'
  OBVIOUS
<1>. USE DEF spanVars, callVars, controlVars, writerVars
<1>. stats \in Stats /\ audit \in Audit
  BY DEF TypeOK
<1>t. /\ Minted \subseteq 1..stats.started
      /\ IsFiniteSet(Open) /\ IsFiniteSet(OpenRoots) /\ IsFiniteSet(ended)
      /\ Cardinality(Open) \in Nat /\ Cardinality(OpenRoots) \in Nat /\ Cardinality(ended) \in Nat
      /\ audit.panics \in Nat /\ stats.started \in Nat
      /\ IdleInv /\ GaugesExact
  BY MintedFinite, FS_CardinalityType DEF GaugeInv, Audit, Stats
<1>f. /\ stats.spansInFlight = Cardinality(Open) + audit.panics
      /\ stats.tracesInFlight = Cardinality(OpenRoots)
      /\ stats.completed = Cardinality(ended)
  BY <1>t, GaugeCounts
<1>g. ASSUME /\ stats'.spansInFlight = Cardinality(Open') + audit'.panics
             /\ stats'.tracesInFlight = Cardinality(OpenRoots')
             /\ stats'.completed = Cardinality(ended'),
             IdleInv'
      PROVE  GaugeInv'
  BY <1>g DEF GaugeInv, GaugesExact, Open, OpenRoots
<1>1. ASSUME UNCHANGED <<Minted, ended, parent>>, IdleInv',
             stats'.spansInFlight = stats.spansInFlight,
             stats'.tracesInFlight = stats.tracesInFlight,
             stats'.completed = stats.completed,
             audit'.panics = audit.panics
      PROVE  GaugeInv'
  <2>1. UNCHANGED <<Open, OpenRoots, ended>>
    BY <1>1 DEF Open, OpenRoots
  <2>. QED
    BY <1>1, <1>f, <1>g, <2>1
<1>k. ASSUME UNCHANGED <<pc, sending, spans>> PROVE Minted' = Minted /\ IdleInv'
  BY <1>k, <1>t DEF Minted, IdleInv
<1>2. ASSUME NEW p \in Producers, NEW q \in Contexts, StartSpan(p, q) PROVE GaugeInv'
  <2>. DEFINE s == stats.started + 1
  <2>1. /\ pc[p] = "idle" /\ s \in SpanIds
        /\ parent' = [parent EXCEPT ![s] = q]
        /\ sending' = [sending EXCEPT ![p] = StartEvent(s, q)]
        /\ pc' = [pc EXCEPT ![p] = "check"]
        /\ UNCHANGED <<spans, ended, audit>>
    BY <1>2, <1>t DEF StartSpan, Call, SpanIds
  <2>2. /\ sending[p] = NoEvent
        /\ sending'[p] = StartEvent(s, q) /\ pc'[p] = "check"
        /\ \A r \in Producers \ {p} : sending'[r] = sending[r] /\ pc'[r] = pc[r]
    BY <1>t, <2>1 DEF TypeOK, IdleInv
  <2>3. IdleInv'
    BY <1>t, <2>2 DEF IdleInv
  <2>4. Minted' = Minted \cup {s}
    BY <2>1, <2>2 DEF Minted, StartEvent, NoEvent
  <2>5. s \notin Minted /\ s \notin ended /\ s \notin Open /\ s \notin OpenRoots
    BY <1>t DEF Open, OpenRoots, OrderInv, SpansInv
  <2>6. Open' = Open \cup {s} /\ ended' = ended
    BY <2>1, <2>4, <2>5 DEF Open
  <2>7. Cardinality(Open') = Cardinality(Open) + 1
    BY <1>t, <2>5, <2>6, OneMore
  <2>8. /\ stats'.spansInFlight = stats.spansInFlight + 1
        /\ stats'.tracesInFlight = stats.tracesInFlight + RootCount(q)
        /\ stats'.completed = stats.completed
    BY <1>2 DEF StartSpan, Stats
  <2>9. parent'[s] = q /\ \A x \in Open : parent'[x] = parent[x]
    <3>1. Open \subseteq SpanIds
      BY <1>t, SizesAssumption DEF Open, TypeOK, SpanIds
    <3>. QED
      BY <2>1, <2>5, <3>1 DEF TypeOK
  <2>10. Cardinality(OpenRoots') = Cardinality(OpenRoots) + RootCount(q)
    <3>1. CASE q = 0
      <4>1. OpenRoots' = OpenRoots \cup {s}
        BY <2>6, <2>9, <3>1 DEF OpenRoots
      <4>. QED
        BY <1>t, <2>5, <3>1, <4>1, OneMore DEF RootCount
    <3>2. CASE q # 0
      <4>1. OpenRoots' = OpenRoots
        BY <2>6, <2>9, <3>2 DEF OpenRoots
      <4>. QED
        BY <1>t, <3>2, <4>1 DEF RootCount
    <3>. QED
      BY <3>1, <3>2
  <2>11. Cardinality(Open') + audit'.panics = (Cardinality(Open) + audit.panics) + 1
    BY <1>t, <2>1, <2>7
  <2>. QED
    BY <1>f, <1>g, <2>1, <2>3, <2>8, <2>10, <2>11
<1>3. ASSUME NEW p \in Producers, StartPanics(p) PROVE GaugeInv'
  <2>1. Minted' = Minted /\ IdleInv' /\ UNCHANGED <<ended, parent>>
    BY <1>3, <1>k DEF StartPanics
  <2>2. UNCHANGED <<Open, OpenRoots, ended>>
    BY <2>1 DEF Open, OpenRoots
  <2>3. /\ stats'.spansInFlight = stats.spansInFlight + 1
        /\ stats'.tracesInFlight = stats.tracesInFlight
        /\ stats'.completed = stats.completed
        /\ audit'.panics = audit.panics + 1
    BY <1>3 DEF StartPanics, Stats, Audit
  <2>. QED
    BY <1>t, <1>f, <1>g, <2>1, <2>2, <2>3
<1>4. ASSUME NEW p \in Producers, NEW s \in spans, SetAttrs(p, s) PROVE GaugeInv'
  <2>1. Minted' = Minted /\ IdleInv'
    BY <1>4, <1>t, CallKeepsMinted DEF SetAttrs, AttrsEvent
  <2>2. audit'.panics = audit.panics
    BY <1>4 DEF SetAttrs, Audit
  <2>. QED
    BY <1>1, <1>4, <2>1, <2>2 DEF SetAttrs
<1>5. ASSUME NEW p \in Producers, NEW s \in spans, End(p, s) PROVE GaugeInv'
  <2>1. Minted' = Minted /\ IdleInv'
    BY <1>5, <1>t, CallKeepsMinted DEF End, EndEvent
  <2>2. /\ ended' = ended \cup {s} /\ s \notin ended /\ s \in Open
        /\ UNCHANGED <<parent, audit>>
    BY <1>5 DEF End, Mutable, Open, Minted
  <2>3. Open' = Open \ {s}
    BY <2>1, <2>2 DEF Open
  <2>4. /\ Cardinality(Open') = Cardinality(Open) - 1
        /\ Cardinality(ended') = Cardinality(ended) + 1
    BY <1>t, <2>2, <2>3, OneMore, OneLess
  <2>5. Cardinality(OpenRoots') = Cardinality(OpenRoots) - EndedRoot(s)
    <3>1. CASE parent[s] = 0
      <4>1. OpenRoots' = OpenRoots \ {s} /\ s \in OpenRoots
        BY <2>2, <2>3, <3>1 DEF OpenRoots
      <4>. QED
        BY <1>t, <3>1, <4>1, OneLess DEF EndedRoot, RootCount
    <3>2. CASE parent[s] # 0
      <4>1. OpenRoots' = OpenRoots
        BY <2>2, <2>3, <3>2 DEF OpenRoots
      <4>. QED
        BY <1>t, <3>2, <4>1 DEF EndedRoot, RootCount
    <3>. QED
      BY <3>1, <3>2
  <2>6. /\ stats'.spansInFlight = stats.spansInFlight - 1
        /\ stats'.tracesInFlight = stats.tracesInFlight - EndedRoot(s)
        /\ stats'.completed = stats.completed + 1
    BY <1>5 DEF End, Stats
  <2>7. Cardinality(Open') + audit'.panics = (Cardinality(Open) + audit.panics) - 1
    BY <1>t, <2>2, <2>4
  <2>. QED
    BY <1>f, <1>g, <2>1, <2>4, <2>5, <2>6, <2>7
<1>6. ASSUME NEW p \in Producers, NEW s \in spans, NEW v \in Failures, Fail(p, s, v)
      PROVE  GaugeInv'
  BY <1>1, <1>6, <1>k DEF Fail
<1>7. ASSUME NEW p \in Producers, SendStep(p) PROVE GaugeInv'
  <2>1. CASE SendCheck(p)
    <3>1. UNCHANGED <<sending, spans>> /\ IdleInv'
      BY <1>t, <2>1 DEF SendCheck, IdleInv, TypeOK
    <3>2. Minted' = Minted
      BY <3>1 DEF Minted
    <3>. QED
      BY <1>1, <2>1, <3>1, <3>2 DEF SendCheck
  <2>2. CASE SendInert(p) \/ SendEnqueue(p) \/ SendDrop(p) \/ SendStopped(p)
    <3>1. pc[p] # "idle" /\ Return(p)
      BY <2>2 DEF SendInert, SendEnqueue, SendDrop, SendStopped
    <3>2. Minted' = Minted /\ IdleInv' /\ UNCHANGED <<ended, parent>>
      BY <1>t, <3>1, ReturnKeepsMinted
    <3>3. /\ stats'.spansInFlight = stats.spansInFlight
          /\ stats'.tracesInFlight = stats.tracesInFlight
          /\ stats'.completed = stats.completed
          /\ audit'.panics = audit.panics
      BY <2>2 DEF SendInert, SendEnqueue, SendDrop, SendStopped, Stats, Audit
    <3>. QED
      BY <1>1, <3>2, <3>3
  <2>. QED
    BY <1>7, <2>1, <2>2 DEF SendStep
<1>8. ASSUME NEW c \in Closers, CloseBegin(c) \/ CloseStep(c)
      PROVE  GaugeInv'
  <2>1. UNCHANGED <<pc, sending, spans, ended, parent, stats>>
    BY <1>8 DEF CloseBegin, CloseStep, CloseStop, CloseDone, CloseExpire, ClosePanics, CloseReturns
  <2>2. audit'.panics = audit.panics
    BY <1>8 DEF CloseBegin, CloseStep, CloseStop, CloseDone, CloseExpire, ClosePanics,
                CloseReturns, Audit
  <2>. QED
    BY <1>1, <1>k, <2>1, <2>2
<1>9. CASE Receive \/ DrainOne \/ DrainDone \/ SeeStop \/ Exit
  <2>1. UNCHANGED <<pc, sending, spans, ended, parent, stats, audit>>
    BY <1>9 DEF Receive, DrainOne, DrainDone, SeeStop, Exit
  <2>. QED
    BY <1>1, <1>k, <2>1
<1>10. ASSUME NEW o \in Outcomes, Deliver(o) \/ FlushTick(o) \/ FinalFlush(o) \/ CloseSink(o)
       PROVE  GaugeInv'
  <2>1. UNCHANGED <<pc, sending, spans, ended, parent>>
    BY <1>10 DEF Deliver, FlushTick, FinalFlush, FlushSink, CloseSink
  <2>2. /\ stats'.spansInFlight = stats.spansInFlight
        /\ stats'.tracesInFlight = stats.tracesInFlight
        /\ stats'.completed = stats.completed
        /\ audit'.panics = audit.panics
    BY <1>10 DEF Deliver, FlushTick, FinalFlush, FlushSink, CloseSink, Stats, Audit
  <2>. QED
    BY <1>1, <1>k, <2>1, <2>2
<1>11. CASE UNCHANGED vars
  BY <1>1, <1>k, <1>11 DEF vars
<1>. QED
  BY <1>2, <1>3, <1>4, <1>5, <1>6, <1>7, <1>8, <1>9, <1>10, <1>11
     DEF Next, WriterStep, Finished

\* For every number of goroutines and spans, whatever is dropped, closed or panics: the
\* gauges are the numbers of open spans and of open traces (stats.go:31-32).
THEOREM GaugeCorrect == Spec => []GaugesExact
<1>1. GaugeInv => GaugesExact
  BY DEF GaugeInv
<1>. QED
  BY TypeInit, TypeStep, OrderInit, OrderStep, GaugeInit, GaugeStep, <1>1, PTL DEF Spec

-----------------------------------------------------------------------------
(* The refinement of SpanStream: the inductive invariant                   *)

\* An event on its way is still what the span's parent and status say it is: nobody
\* changes either under the mutex its call holds.
Exact(p) ==
  LET s == sending[p].span IN
  /\ sending[p].kind = "start" => sending[p] = StartEvent(s, sending[p].parent)
  /\ sending[p].kind = "attrs" => sending[p] = AttrsEvent(s)
  /\ sending[p].kind = "end" => sending[p] = EndEvent(s)
ExactInv == \A p \in Producers : pc[p] # "idle" => Exact(p)

\* No event is on its way in a tracer that New just returned.
LEMMA ExactInit == Init => ExactInv
BY DEF Init, ExactInv

\* Steps that leave the calls and the spans' parents and statuses alone.
LEMMA ExactFrame ==
  ASSUME ExactInv, UNCHANGED <<parent, status, sending>>,
         \A p \in Producers : pc'[p] # "idle" => pc[p] # "idle"
  PROVE  ExactInv'
BY DEF ExactInv, Exact, EndEvent

\* It survives every step.
LEMMA ExactStep == TypeOK /\ OrderInv /\ ExactInv /\ [Next]_vars => ExactInv'
<1>. SUFFICES ASSUME TypeOK, OrderInv, ExactInv, [Next]_vars PROVE ExactInv'
  OBVIOUS
<1>. USE DEF spanVars, callVars, controlVars, writerVars
<1>1. ASSUME NEW p \in Producers, NEW e, Call(p, e), pc[p] = "idle"
      PROVE  /\ sending'[p] = e
             /\ \A r \in Producers \ {p} : sending'[r] = sending[r] /\ pc'[r] = pc[r]
  BY <1>1 DEF Call, TypeOK
<1>2. ASSUME NEW p \in Producers, NEW q \in Contexts, StartSpan(p, q) PROVE ExactInv'
  <2>. DEFINE s == stats.started + 1
  <2>1. /\ parent' = [parent EXCEPT ![s] = q] /\ UNCHANGED status
        /\ sending'[p] = StartEvent(s, q)
        /\ \A r \in Producers \ {p} : sending'[r] = sending[r] /\ pc'[r] = pc[r]
    BY <1>1, <1>2 DEF StartSpan
  <2>2. Exact(p)'
    BY <2>1 DEF Exact, StartEvent
  <2>3. ASSUME NEW r \in Producers \ {p}, pc[r] # "idle" PROVE Exact(r)'
    <3>1. sending[r].span # s /\ sending[r].span \in SpanIds /\ stats.started \in Nat
      BY <2>3 DEF OrderInv, SendersInv, SenderInv, TypeOK, Stats
    <3>2. parent'[sending[r].span] = parent[sending[r].span]
      BY <2>1, <3>1 DEF TypeOK
    <3>. QED
      BY <2>1, <2>3, <3>2 DEF ExactInv, Exact, EndEvent
  <2>. QED
    BY <2>1, <2>2, <2>3 DEF ExactInv
<1>3. ASSUME NEW p \in Producers, NEW s \in spans, SetAttrs(p, s) \/ End(p, s) PROVE ExactInv'
  <2>1. /\ sending'[p] \in {AttrsEvent(s), EndEvent(s)} /\ UNCHANGED <<parent, status>>
        /\ \A r \in Producers \ {p} : sending'[r] = sending[r] /\ pc'[r] = pc[r]
    BY <1>1, <1>3 DEF SetAttrs, End
  <2>2. Exact(p)'
    BY <2>1 DEF Exact, AttrsEvent, EndEvent
  <2>3. ASSUME NEW r \in Producers \ {p}, pc[r] # "idle" PROVE Exact(r)'
    BY <2>1, <2>3 DEF ExactInv, Exact, EndEvent
  <2>. QED
    BY <2>1, <2>2, <2>3 DEF ExactInv
<1>4. ASSUME NEW p \in Producers, NEW s \in spans, NEW v \in Failures, Fail(p, s, v)
      PROVE  ExactInv'
  <2>. SUFFICES ASSUME NEW r \in Producers, pc[r] # "idle" PROVE Exact(r)'
    BY <1>4 DEF Fail, ExactInv
  <2>1. status' = [status EXCEPT ![s] = v] /\ s \notin ended /\ UNCHANGED <<parent, sending>>
    BY <1>4 DEF Fail, Mutable
  <2>2. sending[r].kind = "end" => status'[sending[r].span] = status[sending[r].span]
    BY <2>1 DEF OrderInv, SendersInv, SenderInv, TypeOK
  <2>. QED
    BY <2>1, <2>2 DEF ExactInv, Exact, EndEvent
<1>5. ASSUME NEW p \in Producers, StartPanics(p) \/ SendCheck(p) PROVE ExactInv'
  BY <1>5, ExactFrame DEF StartPanics, SendCheck, TypeOK
<1>6. ASSUME NEW p \in Producers, SendInert(p) \/ SendEnqueue(p) \/ SendDrop(p) \/ SendStopped(p)
      PROVE  ExactInv'
  <2>1. /\ pc'[p] = "idle" /\ UNCHANGED <<parent, status>>
        /\ \A r \in Producers \ {p} : sending'[r] = sending[r] /\ pc'[r] = pc[r]
    BY <1>6 DEF SendInert, SendEnqueue, SendDrop, SendStopped, Return, TypeOK
  <2>. QED
    BY <2>1 DEF ExactInv, Exact, EndEvent
<1>7. ASSUME NEW c \in Closers, CloseBegin(c) \/ CloseStep(c)
      PROVE  ExactInv'
  BY <1>7, ExactFrame DEF CloseBegin, CloseStep, CloseStop, CloseDone, CloseExpire, ClosePanics,
                          CloseReturns
<1>8. CASE WriterStep
  BY <1>8, ExactFrame DEF WriterStep, Receive, DrainOne, DrainDone, SeeStop, Exit, Deliver,
                          FinalFlush, FlushSink, CloseSink
<1>9. ASSUME NEW o \in Outcomes, FlushTick(o) PROVE ExactInv'
  BY <1>9, ExactFrame DEF FlushTick, FlushSink
<1>10. CASE UNCHANGED vars
  BY <1>10, ExactFrame DEF vars
<1>. QED
  BY <1>2, <1>3, <1>4, <1>5, <1>6, <1>7, <1>8, <1>9, <1>10 DEF Next, SendStep, Finished

-----------------------------------------------------------------------------
(* The refinement                                                          *)

LineageOf(parents, published) ==
  [s \in SpanIds |-> IF s \in published THEN parents[s] ELSE 0]

\* Initial states map to initial states.
LEMMA StreamInit == Init => Stream!Init
BY DEF Init, Stream!Init

\* Steps that show nowhere.
LEMMA Internal ==
  ASSUME UNCHANGED <<spans, status, stream>>, ended' \ locked' = ended \ locked,
         \A s \in spans : parent'[s] = parent[s]
  PROVE  UNCHANGED Stream!vars
BY DEF Stream!vars

\* The step in which a send returns is the public call taking effect, its event made
\* visible or lost.
LEMMA CallTakesEffect ==
  ASSUME TypeOK, OrderInv, ExactInv, NEW p \in Producers, pc[p] # "idle", Return(p),
         stream' \in {stream, Append(stream, sending[p])}
  PROVE  Stream!Next
<1>. DEFINE s == sending[p].span
            q == sending[p].parent
<1>1. SenderInv(p) /\ Exact(p) /\ s \in SpanIds
  BY DEF OrderInv, SendersInv, ExactInv, TypeOK
<1>2. /\ spans' = Published(p) /\ locked' = locked \ {s}
      /\ UNCHANGED <<parent, ended, status>>
  BY DEF Return
<1>3. CASE sending[p].kind = "start"
  <2>1. /\ s \notin spans /\ q \in spans \cup {0} /\ parent[s] = q
        /\ sending[p] = StartEvent(s, q)
    BY <1>1, <1>3 DEF SenderInv, Exact
  <2>2. spans' = spans \cup {s} /\ ended' \ locked' = ended \ locked
    BY <1>2, <1>3, <2>1 DEF Published, OrderInv, SpansInv
  <2>3. LineageOf(parent', spans') = [LineageOf(parent, spans) EXCEPT ![s] = q]
    BY <1>1, <1>2, <2>1, <2>2 DEF LineageOf
  <2>4. Stream!MaybeEmit(Stream!Record("start", s, q, "ok"))
    BY <2>1 DEF Stream!MaybeEmit, Stream!Record, StartEvent
  <2>5. PICK x \in SpanIds, y \in spans \cup {0} : x = s /\ y = q
    BY <1>1, <2>1
  <2>6. Stream!Start(x, y)
    BY <1>2, <2>1, <2>2, <2>3, <2>4, <2>5 DEF Stream!Start, LineageOf
  <2>. QED
    BY <2>6 DEF Stream!Next
<1>4. CASE sending[p].kind = "attrs"
  <2>1. s \in spans /\ s \notin ended /\ sending[p] = AttrsEvent(s)
    BY <1>1, <1>4 DEF SenderInv, Exact, OrderInv, SpansInv
  <2>2. spans' = spans /\ ended' \ locked' = ended \ locked
    BY <1>2, <1>4, <2>1 DEF Published
  <2>3. Stream!MaybeEmit(Stream!Record("attrs", s, 0, "ok"))
    BY <2>1 DEF Stream!MaybeEmit, Stream!Record, AttrsEvent
  <2>4. Stream!SetAttrs(s)
    BY <1>2, <2>1, <2>2, <2>3 DEF Stream!SetAttrs
  <2>. QED
    BY <2>1, <2>4 DEF Stream!Next
<1>5. CASE sending[p].kind = "end"
  <2>1. s \in spans /\ s \in ended /\ s \in locked /\ sending[p] = EndEvent(s)
    BY <1>1, <1>5 DEF SenderInv, Exact, OrderInv, SpansInv
  <2>2. spans' = spans /\ ended' \ locked' = (ended \ locked) \cup {s}
    BY <1>2, <1>5, <2>1 DEF Published
  <2>3. LineageOf(parent, spans)[s] = parent[s]
    BY <1>1, <2>1 DEF LineageOf
  <2>4. Stream!MaybeEmit(Stream!Record("end", s, LineageOf(parent, spans)[s], status[s]))
    BY <2>1, <2>3 DEF Stream!MaybeEmit, Stream!Record, EndEvent
  <2>5. Stream!End(s)
    BY <1>2, <2>1, <2>2, <2>4 DEF Stream!End, LineageOf
  <2>. QED
    BY <2>1, <2>5 DEF Stream!Next
<1>. QED
  BY <1>1, <1>3, <1>4, <1>5 DEF SenderInv

\* Every step of the tracer is a step of the abstract stream or none.
LEMMA StreamStep ==
  TypeOK /\ OrderInv /\ ExactInv /\ [Next]_vars => [Stream!Next]_(Stream!vars)
<1>. SUFFICES ASSUME TypeOK, OrderInv, ExactInv, [Next]_vars
     PROVE  Stream!Next \/ UNCHANGED Stream!vars
  OBVIOUS
<1>. USE DEF spanVars, callVars, controlVars, writerVars
<1>1. ASSUME NEW p \in Producers, NEW q \in Contexts, StartSpan(p, q)
      PROVE  UNCHANGED Stream!vars
  <2>1. stats.started + 1 \notin spans
    BY DEF OrderInv, SpansInv, TypeOK, Stats
  <2>2. \A s \in spans : parent'[s] = parent[s]
    BY <1>1, <2>1 DEF StartSpan, TypeOK
  <2>. QED
    BY <1>1, <2>2, Internal DEF StartSpan
<1>2. ASSUME NEW p \in Producers, StartPanics(p) \/ SendCheck(p) PROVE UNCHANGED Stream!vars
  BY <1>2, Internal DEF StartPanics, SendCheck
<1>3. ASSUME NEW p \in Producers, NEW s \in spans, SetAttrs(p, s) \/ End(p, s)
      PROVE  UNCHANGED Stream!vars
  <2>1. ended' \ locked' = ended \ locked
    BY <1>3 DEF SetAttrs, End, Mutable, Hold
  <2>. QED
    BY <1>3, <2>1, Internal DEF SetAttrs, End
<1>4. ASSUME NEW p \in Producers, NEW s \in spans, NEW v \in Failures, Fail(p, s, v)
      PROVE  Stream!Next
  <2>1. Stream!Fail(s, v)
    BY <1>4 DEF Fail, Mutable, Stream!Fail
  <2>. QED
    BY <2>1 DEF Stream!Next
<1>5. ASSUME NEW p \in Producers, SendInert(p) \/ SendEnqueue(p) \/ SendDrop(p) \/ SendStopped(p)
      PROVE  Stream!Next
  <2>1. /\ pc[p] # "idle" /\ Return(p)
        /\ stream' \in {stream, Append(stream, sending[p])}
    BY <1>5 DEF SendInert, SendEnqueue, SendDrop, SendStopped
  <2>. QED
    BY <2>1, CallTakesEffect
<1>6. ASSUME NEW c \in Closers, CloseBegin(c) \/ CloseStep(c)
      PROVE  UNCHANGED Stream!vars
  BY <1>6, Internal DEF CloseBegin, CloseStep, CloseStop, CloseDone, CloseExpire, ClosePanics,
                        CloseReturns
<1>7. CASE WriterStep
  BY <1>7, Internal DEF WriterStep, Receive, DrainOne, DrainDone, SeeStop, Exit, Deliver,
                        FinalFlush, FlushSink, CloseSink
<1>8. ASSUME NEW o \in Outcomes, FlushTick(o) PROVE UNCHANGED Stream!vars
  BY <1>8, Internal DEF FlushTick, FlushSink
<1>9. CASE UNCHANGED vars
  BY <1>9, Internal DEF vars
<1>. QED
  BY <1>1, <1>2, <1>3, <1>4, <1>5, <1>6, <1>7, <1>8, <1>9 DEF Next, SendStep, Finished

\* For every number of goroutines, every size and policy: callers and the sink cannot
\* tell the tracer from one in which every public call happens at one instant
\* (span.go:71-76, tracer.go:265-282).
THEOREM RefinementCorrect == Spec => ImplementsSpanStream
<1>1. TypeOK /\ OrderInv /\ ExactInv /\ [Next]_vars => [Stream!Next]_(Stream!vars)
  BY StreamStep
<1>. QED
  BY TypeInit, TypeStep, OrderInit, OrderStep, ExactInit, ExactStep, StreamInit, <1>1, PTL
     DEF Spec, ImplementsSpanStream, Stream!Spec

-----------------------------------------------------------------------------
(* Refinement of WriterLoop                                                *)

\* A tracer that New just returned is a loop at its start.
LEMMA LoopInit == Init => Loop!Init
<1>1. Len(<<>>) = 0
  BY EmptySeq
<1>. QED
  BY <1>1 DEF Init, NoAudit, Loop!Init

\* The loop sees of the history only whether something waits for a flush.
LEMMA LoopFrame ==
  ASSUME TypeOK, audit'.unflushed = audit.unflushed,
         UNCHANGED <<pc, queue, blockOnQueueFull, closed, cpc, stop, wpc, stopping, batch>>
  PROVE  UNCHANGED Loop!vars
BY DEF Loop!vars, Loop!sendVars, Loop!closeVars, Loop!loopVars

\* Every call that emits is the same call of the loop, Fail and a Start that panics none.
LEMMA LoopCall ==
  ASSUME TypeOK, NEW p \in Producers,
         \/ \E q \in Contexts : StartSpan(p, q)
         \/ StartPanics(p)
         \/ \E s \in spans : SetAttrs(p, s) \/ End(p, s) \/ (\E v \in Failures : Fail(p, s, v))
  PROVE  Loop!Next \/ UNCHANGED Loop!vars
<1>. USE DEF spanVars, callVars, controlVars, writerVars
<1>1. CASE (\E q \in Contexts : StartSpan(p, q)) \/ (\E s \in spans : SetAttrs(p, s) \/ End(p, s))
  <2>1. /\ pc[p] = "idle" /\ pc' = [pc EXCEPT ![p] = "check"]
        /\ UNCHANGED <<queue, blockOnQueueFull, closed, cpc, stop, wpc, stopping, batch>>
    BY <1>1 DEF StartSpan, SetAttrs, End, Call
  <2>2. audit'.unflushed = audit.unflushed
    <3>1. CASE \E s \in spans : SetAttrs(p, s)
      BY <3>1, AuditFrame DEF SetAttrs
    <3>2. CASE ~ \E s \in spans : SetAttrs(p, s)
      BY <1>1, <3>2 DEF StartSpan, End
    <3>. QED  BY <3>1, <3>2
  <2>3. Loop!Call(p)
    BY <2>1, <2>2 DEF Loop!Call, Loop!MoveTo, Loop!closeVars, Loop!loopVars
  <2>. QED
    BY <2>3 DEF Loop!Next
<1>2. CASE StartPanics(p) \/ \E s \in spans, v \in Failures : Fail(p, s, v)
  <2>1. audit'.unflushed = audit.unflushed
    <3>1. CASE StartPanics(p)
      BY <3>1, AuditFrame DEF StartPanics
    <3>2. CASE ~StartPanics(p)
      BY <1>2, <3>2 DEF Fail
    <3>. QED  BY <3>1, <3>2
  <2>. QED
    BY <1>2, <2>1, LoopFrame DEF StartPanics, Fail
<1>. QED
  BY <1>1, <1>2

\* So is every arm of send.
LEMMA LoopSend ==
  ASSUME TypeOK, NEW p \in Producers, SendStep(p)
  PROVE  Loop!Next
<1>. USE DEF spanVars, callVars, controlVars, writerVars, Return
<1>. USE DEF Loop!MoveTo, Loop!closeVars, Loop!loopVars, Loop!SendStep
<1>t. queue \in Seq(Event) /\ Len(queue) \in Nat /\ BufferSize \in Nat
  BY LenProperties, SizesAssumption DEF TypeOK
<1>1. CASE SendCheck(p)
  <2>1. Loop!Check(p)
    BY <1>1 DEF SendCheck, Loop!Check, Loop!Live
  <2>. QED  BY <2>1 DEF Loop!Next
<1>2. CASE SendInert(p)
  <2>1. audit'.unflushed = audit.unflushed
    BY <1>2, AuditFrame DEF SendInert
  <2>2. Loop!Check(p)
    BY <1>2, <2>1 DEF SendInert, Loop!Check, Loop!Live
  <2>. QED  BY <2>2 DEF Loop!Next
<1>3. CASE SendEnqueue(p)
  <2>1. sending[p] \in Event /\ Len(queue') = Len(queue) + 1 /\ Len(queue) < BufferSize
    BY <1>3, <1>t, AppendProperties DEF SendEnqueue, Full, TypeOK
  <2>2. Loop!Enqueue(p)
    BY <1>3, <2>1 DEF SendEnqueue, Loop!Enqueue
  <2>. QED  BY <2>2 DEF Loop!Next
<1>4. CASE SendDrop(p) \/ SendStopped(p)
  <2>1. audit'.unflushed = audit.unflushed
    <3>1. CASE SendStopped(p)
      BY <3>1, AuditFrame DEF SendStopped
    <3>2. CASE SendDrop(p)
      BY <3>2 DEF SendDrop
    <3>. QED  BY <1>4, <3>1, <3>2
  <2>2. Loop!GiveUp(p)
    BY <1>4, <2>1 DEF SendDrop, SendStopped, DefaultArm, StopArm, Full, Loop!GiveUp,
                      Loop!DefaultArm, Loop!StopArm
  <2>. QED  BY <2>2 DEF Loop!Next
<1>. QED
  BY <1>1, <1>2, <1>3, <1>4 DEF SendStep

\* A Close takes the same steps in the loop, which keeps no results; one that expires and
\* one whose context panics are its CloseEarly.
LEMMA LoopClose ==
  ASSUME TypeOK, NEW c \in Closers, CloseBegin(c) \/ CloseStep(c)
  PROVE  Loop!Next
<1>. USE DEF spanVars, callVars, controlVars, writerVars
<1>. USE DEF Loop!sendVars, Loop!loopVars
<1>1. CASE CloseBegin(c)
  <2>1. audit'.unflushed = audit.unflushed
    BY <1>1, AuditFrame DEF CloseBegin
  <2>2. Loop!CloseBegin(c)
    BY <1>1, <2>1 DEF CloseBegin, AfterFlip, Loop!CloseBegin, Loop!AfterFlip
  <2>. QED  BY <2>2 DEF Loop!Next
<1>2. CASE CloseStop(c)
  <2>1. Loop!CloseStop(c)
    BY <1>2 DEF CloseStop, Loop!CloseStop
  <2>. QED  BY <2>1 DEF Loop!Next
<1>3. CASE CloseDone(c)
  <2>1. Loop!CloseDone(c)
    BY <1>3 DEF CloseDone, DoneClosed, CloseReturns, Loop!CloseDone, Loop!CloseReturns
  <2>. QED  BY <2>1 DEF Loop!Next
<1>4. CASE CloseExpire(c) \/ ClosePanics(c)
  <2>1. Loop!CloseEarly(c)
    BY <1>4 DEF CloseExpire, ClosePanics, CloseReturns, Loop!CloseEarly, Loop!CloseReturns
  <2>. QED  BY <2>1 DEF Loop!Next
<1>. QED
  BY <1>1, <1>2, <1>3, <1>4 DEF CloseStep

\* What the writer does without the sink: take events, see stop, exit.
LEMMA LoopWrite ==
  ASSUME TypeOK, Receive \/ DrainOne \/ DrainDone \/ SeeStop \/ Exit
  PROVE  Loop!WriterStep
<1>. USE DEF spanVars, callVars, controlVars, writerVars
<1>. USE DEF Loop!sendVars, Loop!closeVars
<1>t. /\ queue \in Seq(Event) /\ Len(queue) \in Nat /\ (queue = <<>> <=> Len(queue) = 0)
      /\ batch \in Seq(Event) /\ Len(batch) \in Nat /\ MaxBatch \in Nat
  BY LenProperties, EmptySeq, SizesAssumption DEF TypeOK
<1>h. queue # <<>> => Head(queue) \in Event /\ Len(Tail(queue)) = Len(queue) - 1
  BY <1>t, HeadTailProperties
<1>1. CASE Receive
  <2>1. Len(batch') = 1
    BY <1>1, <1>h DEF Receive
  <2>. QED
    BY <1>1, <1>t, <1>h, <2>1 DEF Receive, AtSelect, Loop!Receive, Loop!WriterStep
<1>2. CASE DrainOne
  <2>1. Len(batch') = Len(batch) + 1
    BY <1>2, <1>t, <1>h, AppendProperties DEF DrainOne, Grown
  <2>. QED
    BY <1>2, <1>t, <1>h, <2>1 DEF DrainOne, Loop!DrainOne, Loop!WriterStep
<1>3. CASE DrainDone
  BY <1>3, <1>t DEF DrainDone, Loop!DrainDone, Loop!WriterStep
<1>4. CASE SeeStop
  BY <1>4 DEF SeeStop, AtSelect, Loop!SeeStop, Loop!WriterStep
<1>5. CASE Exit
  BY <1>5 DEF Exit, Loop!Exit, Loop!WriterStep
<1>. QED
  BY <1>1, <1>2, <1>3, <1>4, <1>5

\* What it does with the sink, whatever the outcome of the call: a batch leaves something
\* to flush if the sink accepted any of it, a flush leaves nothing.
LEMMA LoopSink ==
  ASSUME TypeOK, NEW o \in Outcomes, Deliver(o) \/ FlushTick(o) \/ FinalFlush(o) \/ CloseSink(o)
  PROVE  Loop!Next
<1>. USE DEF spanVars, callVars, controlVars, writerVars
<1>. USE DEF Loop!sendVars, Loop!closeVars
<1>t. /\ queue \in Seq(Event) /\ Len(queue) \in Nat /\ (queue = <<>> => Len(queue) = 0)
      /\ Len(<<>>) = 0 /\ Len(batch) \in Nat /\ audit.unflushed \in Nat
  BY LenProperties, EmptySeq DEF TypeOK, Audit
<1>1. CASE Deliver(o)
  <2>. DEFINE accepted == Accepted(o) > 0
  <2>1. Accepted(o) \in Nat
    BY <1>t DEF Accepted
  <2>2. audit'.unflushed = audit.unflushed + Accepted(o)
    BY <1>1 DEF Deliver, TypeOK, Audit
  <2>3. (audit'.unflushed > 0) <=> (audit.unflushed > 0 \/ accepted)
    BY <1>t, <2>1, <2>2
  <2>4. accepted \in BOOLEAN
    OBVIOUS
  <2>5. Len(batch') = 0 /\ wpc = "deliver" /\ wpc' = "select"
        /\ UNCHANGED <<pc, queue, blockOnQueueFull, closed, cpc, stop, stopping>>
    BY <1>1, <1>t DEF Deliver
  <2>6. Loop!Deliver(accepted)
    <3>. HIDE DEF accepted
    <3>. QED  BY <2>3, <2>4, <2>5 DEF Loop!Deliver
  <2>. QED
    <3>. HIDE DEF accepted
    <3>. QED  BY <2>4, <2>6 DEF Loop!Next, Loop!WriterStep
<1>2. CASE FlushTick(o) \/ FinalFlush(o)
  <2>1. audit'.unflushed = 0
    BY <1>2, AuditFrame DEF FlushTick, FinalFlush, FlushSink
  <2>2. (audit'.unflushed > 0) = FALSE
    BY <2>1
  <2>3. CASE FlushTick(o)
    BY <2>2, <2>3 DEF FlushTick, FlushSink, TickArm, AtSelect, Loop!FlushTick, Loop!TickArm,
                      Loop!Next
  <2>4. CASE FinalFlush(o)
    BY <1>t, <2>2, <2>4 DEF FinalFlush, FlushSink, AtSelect, Drained, Loop!FinalFlush,
                            Loop!Next, Loop!WriterStep
  <2>. QED
    BY <1>2, <2>3, <2>4
<1>3. CASE CloseSink(o)
  BY <1>3 DEF CloseSink, Loop!CloseSink, Loop!Next, Loop!WriterStep
<1>. QED
  BY <1>1, <1>2, <1>3

\* Every step of the tracer is a step of the loop or none.
LEMMA LoopStep == TypeOK /\ [Next]_vars => [Loop!Next]_(Loop!vars)
<1>. SUFFICES ASSUME TypeOK, [Next]_vars
     PROVE  Loop!Next \/ UNCHANGED Loop!vars
  OBVIOUS
<1>1. CASE UNCHANGED vars
  BY <1>1, LoopFrame DEF vars, spanVars, callVars, controlVars, writerVars
<1>2. ASSUME Receive \/ DrainOne \/ DrainDone \/ SeeStop \/ Exit PROVE Loop!Next
  BY <1>2, LoopWrite DEF Loop!Next
<1>. QED
  BY <1>1, <1>2, LoopCall, LoopSend, LoopClose, LoopSink DEF Next, WriterStep, Finished

\* For every number of goroutines, every size, policy and failure: the tracer's channel,
\* Close and writer are those of WriterLoop (writer.go:19-76), of which TLC checks
\* what happens under a load that never ends.
THEOREM LoopCorrect == Spec => ImplementsWriterLoop
BY TypeInit, TypeStep, LoopInit, LoopStep, PTL DEF Spec, ImplementsWriterLoop, Loop!Spec
=============================================================================
