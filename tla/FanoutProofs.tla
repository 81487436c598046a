---------------------------- MODULE FanoutProofs ----------------------------
(***************************************************************************)
(* What holds of a fan-out for every number of members, every set of       *)
(* batches and every bound on calls and failures: types, that only a panic *)
(* costs a member a call, that every failure is counted once and every     *)
(* event that all members accepted is counted as written.  The composition *)
(* with the log sink is a fan-out as well, whatever the log sink does, so  *)
(* all of it holds there too; and there the log sink keeps its map within  *)
(* the cap, its records in step with what was delivered, and each record   *)
(* faithful to the attributes it was handed.                               *)
(***************************************************************************)
EXTENDS Fanout, FoldTheorems

-----------------------------------------------------------------------------
(* The inductive invariant                                                 *)

\* Between calls the loop is at its start; in a call there is one.
Placed ==
  /\ op = "none" => at = 1
  /\ op # "none" => calls # <<>>

\* A member has heard of calls that were made, in their order.
Heard ==
  \A m \in Sinks :
    /\ \A k \in DOMAIN got[m] : got[m][k].call \in 1..Len(calls)
    /\ \A j, k \in DOMAIN got[m] : j < k => got[m][j].call < got[m][k].call

\* While a call is in the loop, the members passed have returned from it and the
\* others have not been reached.
Current ==
  op # "none" =>
    \A m \in Sinks :
      IF m < at THEN Outcomes(m, Len(calls)) # {} /\ "panic" \notin Outcomes(m, Len(calls))
                ELSE Outcomes(m, Len(calls)) = {}

\* A call the writer is back from reached everyone up to the first panic.
Settled ==
  \A m \in Sinks, i \in Finished : Outcomes(m, i) = {} <=> PanickedBefore(m, i)

TypeInv == TypeOK /\ Placed
StarveInv == Heard /\ Current /\ Settled

-----------------------------------------------------------------------------
(* Types                                                                   *)

\* Every step of the writer and of the loop keeps the types and the loop's place.
LEMMA TypeStep == ASSUME TypeInv, [Next]_multiVars PROVE TypeInv'
<1>. USE MultiSinkAssumption DEF TypeInv, TypeOK, Placed, Sinks, Ops, Call
<1>1. ASSUME NEW o \in Ops, NEW b \in Batches \cup {<<>>}, Begin(o, b) PROVE TypeInv'
  <2>1. [op |-> o, batch |-> b] \in Call
    OBVIOUS
  <2>2. calls' \in Seq(Call) /\ calls' # <<>>
    BY <1>1, <2>1 DEF Begin
  <2>. QED
    BY <1>1, <2>2 DEF Begin, countVars
<1>2. ASSUME NEW outcome \in {"ok", "error", "panic"}, Reach(outcome)
      PROVE  got' \in [Sinks -> Seq([call : Nat, outcome : {"ok", "error", "panic"}])]
  <2>1. [call |-> Len(calls), outcome |-> outcome]
          \in [call : Nat, outcome : {"ok", "error", "panic"}]
    BY LenProperties
  <2>2. Append(got[at], [call |-> Len(calls), outcome |-> outcome])
          \in Seq([call : Nat, outcome : {"ok", "error", "panic"}])
    BY <1>2, <2>1 DEF Reach
  <2>. QED
    BY <1>2, <2>2 DEF Reach
<1>3. ASSUME NEW outcome \in {"ok", "error"}, MemberReturns(outcome) PROVE TypeInv'
  <2>1. at' \in 1..Members + 1 /\ errs' \subseteq 1..at' - 1
    BY <1>3 DEF MemberReturns, Reach, NextMember, Collected
  <2>. QED
    BY <1>2, <1>3, <2>1 DEF MemberReturns, Reach, countVars
<1>4. CASE MemberPanics
  <2>1. got' \in [Sinks -> Seq([call : Nat, outcome : {"ok", "error", "panic"}])]
    BY <1>2, <1>4 DEF MemberPanics
  <2>2. writeErrors' \in Nat
    BY <1>4 DEF MemberPanics, PanicCount
  <2>. QED
    BY <1>4, <2>1, <2>2 DEF MemberPanics, Leave
<1>5. CASE Return
  <2>1. calls[Len(calls)] \in Call
    <3>1. Len(calls) \in 1..Len(calls)
      BY <1>5, EmptySeq, LenProperties DEF Return
    <3>. QED
      BY <3>1, ElementOfSeq
  <2>2. Len(calls[Len(calls)].batch) \in Nat
    BY <2>1
  <2>3. written' \in Nat /\ writeErrors' \in Nat /\ closeErr' \in {"nil", "error"}
    BY <1>5, <2>2 DEF Return, Accepted, Flushed, Rejected, Closed, countVars
  <2>. QED
    BY <1>5, <2>3 DEF Return, Leave
<1>6. CASE UNCHANGED multiVars
  BY <1>6 DEF multiVars, countVars
<1>. QED
  BY <1>1, <1>3, <1>4, <1>5, <1>6 DEF Next, WriteBatch, Flush, Close

\* Types, with the loop inside the members and the errors those of this call.
THEOREM TypeCorrect == Spec => []TypeOK
<1>1. Init => TypeInv
  BY MultiSinkAssumption DEF Init, TypeInv, TypeOK, Placed, Sinks, Ops, Call
<1>2. TypeInv /\ [Next]_multiVars => TypeInv'
  BY TypeStep
<1>3. TypeInv => TypeOK
  BY DEF TypeInv
<1>. QED
  BY <1>1, <1>2, <1>3, PTL DEF Spec

-----------------------------------------------------------------------------
(* Who gets what                                                           *)

\* A member heard an outcome of a call if it is in one of its entries.
LEMMA InOutcomes ==
  ASSUME NEW m, NEW i, NEW x
  PROVE  x \in Outcomes(m, i)
           <=> \E k \in DOMAIN got[m] : got[m][k].call = i /\ got[m][k].outcome = x
BY DEF Outcomes

\* The member at hand adds one outcome to the call in progress; the other members and
\* the other calls keep theirs.
LEMMA ReachOutcomes ==
  ASSUME TypeInv, NEW outcome, Reach(outcome), NEW m \in Sinks, NEW i \in Nat
  PROVE  Outcomes(m, i)' = IF m = at /\ i = Len(calls) THEN Outcomes(m, i) \cup {outcome}
                                                        ELSE Outcomes(m, i)
<1>. DEFINE e == [call |-> Len(calls), outcome |-> outcome]
<1>1. got \in [Sinks -> Seq([call : Nat, outcome : {"ok", "error", "panic"}])]
  BY DEF TypeInv, TypeOK
<1>2. got' = [got EXCEPT ![at] = Append(got[at], e)] /\ at \in Sinks
  BY DEF Reach
<1>3. CASE m # at
  <2>1. got'[m] = got[m]
    BY <1>1, <1>2, <1>3
  <2>. QED
    BY <1>3, <2>1 DEF Outcomes
<1>4. CASE m = at
  <2>. DEFINE s == got[m]
              t == got'[m]
  <2>1. s \in Seq([call : Nat, outcome : {"ok", "error", "panic"}]) /\ t = Append(s, e)
    BY <1>1, <1>2, <1>4
  <2>2. /\ DOMAIN t = DOMAIN s \cup {Len(s) + 1}
        /\ \A k \in DOMAIN s : t[k] = s[k]
        /\ t[Len(s) + 1] = e
    BY <2>1
  <2>3. ASSUME NEW x
        PROVE  (\E k \in DOMAIN t : t[k].call = i /\ t[k].outcome = x)
                 <=> \/ \E k \in DOMAIN s : s[k].call = i /\ s[k].outcome = x
                     \/ i = Len(calls) /\ x = outcome
    <3>. HIDE DEF s, t
    <3>. QED
      BY <2>2
  <2>4. \A x : x \in Outcomes(m, i)'
                <=> \E k \in DOMAIN t : t[k].call = i /\ t[k].outcome = x
    BY DEF Outcomes
  <2>5. \A x : x \in Outcomes(m, i)
                <=> \E k \in DOMAIN s : s[k].call = i /\ s[k].outcome = x
    BY InOutcomes
  <2>. QED
    BY <1>4, <2>3, <2>4, <2>5
<1>. QED
  BY <1>3, <1>4

\* A step that reaches no member leaves all outcomes as they are.
LEMMA KeptOutcomes ==
  ASSUME UNCHANGED got
  PROVE  \A m, i : /\ Outcomes(m, i)' = Outcomes(m, i)
                   /\ PanickedBefore(m, i)' = PanickedBefore(m, i)
<1>1. ASSUME NEW m, NEW i PROVE Outcomes(m, i)' = Outcomes(m, i)
  BY DEF Outcomes
<1>2. ASSUME NEW m, NEW i PROVE PanickedBefore(m, i)' = PanickedBefore(m, i)
  BY <1>1 DEF PanickedBefore
<1>. QED
  BY <1>1, <1>2

\* A step that reaches a member keeps the order in which members hear of calls.
LEMMA ReachHeard ==
  ASSUME TypeInv, Heard, Current, NEW outcome, Reach(outcome), UNCHANGED calls
  PROVE  Heard'
<1>. DEFINE e == [call |-> Len(calls), outcome |-> outcome]
<1>1. got \in [Sinks -> Seq([call : Nat, outcome : {"ok", "error", "panic"}])]
  BY DEF TypeInv, TypeOK
<1>2. got' = [got EXCEPT ![at] = Append(got[at], e)] /\ at \in Sinks /\ op # "none"
  BY DEF Reach
<1>3. calls \in Seq(Call) /\ Len(calls) \in Nat /\ Len(calls) >= 1
  BY <1>2 DEF TypeInv, TypeOK, Placed
<1>4. \A k \in DOMAIN got[at] : got[at][k].call \in 1..Len(calls) - 1
  <2>1. Outcomes(at, Len(calls)) = {}
    BY <1>2, MultiSinkAssumption DEF Current, Sinks
  <2>2. \A k \in DOMAIN got[at] : got[at][k].call # Len(calls)
    BY <2>1 DEF Outcomes
  <2>. QED
    BY <1>2, <1>3, <2>2 DEF Heard
<1>5. SUFFICES ASSUME NEW m \in Sinks
      PROVE  /\ \A k \in DOMAIN got'[m] : got'[m][k].call \in 1..Len(calls)
             /\ \A j, k \in DOMAIN got'[m] : j < k => got'[m][j].call < got'[m][k].call
  BY DEF Heard, Sinks
<1>6. CASE m # at
  <2>1. got'[m] = got[m]
    BY <1>1, <1>2, <1>6
  <2>. QED
    BY <2>1 DEF Heard
<1>7. CASE m = at
  <2>. DEFINE s == got[m]
              t == got'[m]
  <2>1. s \in Seq([call : Nat, outcome : {"ok", "error", "panic"}]) /\ t = Append(s, e)
    BY <1>1, <1>2, <1>7
  <2>2. /\ DOMAIN s = 1..Len(s) /\ Len(s) \in Nat
        /\ DOMAIN t = 1..Len(s) + 1
        /\ \A k \in 1..Len(s) : t[k] = s[k]
        /\ t[Len(s) + 1].call = Len(calls)
    BY <2>1
  <2>3. /\ \A k \in 1..Len(s) : s[k].call \in 1..Len(calls) - 1
        /\ \A j, k \in 1..Len(s) : j < k => s[j].call < s[k].call
    BY <1>4, <1>7, <2>2 DEF Heard
  <2>. HIDE DEF s, t
  <2>4. \A k \in DOMAIN t : t[k].call \in 1..Len(calls)
    BY <1>3, <2>2, <2>3
  <2>5. \A j, k \in DOMAIN t : j < k => t[j].call < t[k].call
    BY <1>3, <2>2, <2>3
  <2>. QED
    BY <2>4, <2>5 DEF t
<1>. QED
  BY <1>6, <1>7

\* The invariant, one step at a time: a call begins, a member returns, a member
\* panics, the fan-out returns.
LEMMA StarveStep == ASSUME TypeInv, StarveInv, [Next]_multiVars PROVE StarveInv'
<1>. USE DEF StarveInv
<1>1. /\ calls \in Seq(Call) /\ Len(calls) \in Nat
      /\ at \in 1..Members + 1 /\ Members \in Nat
      /\ op # "none" => Len(calls) >= 1
      /\ op = "none" => at = 1
  BY MultiSinkAssumption DEF TypeInv, TypeOK, Placed
<1>2. ASSUME NEW o \in Ops, NEW b, Begin(o, b) PROVE StarveInv'
  <2>1. Len(calls') = Len(calls) + 1 /\ UNCHANGED <<at, got>> /\ op = "none" /\ op' # "none"
    BY <1>1, <1>2 DEF Begin, Ops
  <2>2. Heard'
    BY <1>1, <2>1 DEF Heard
  <2>3. \A m \in Sinks : Outcomes(m, Len(calls) + 1) = {}
    BY <1>1 DEF Heard, Outcomes
  <2>4. Current'
    <3>1. SUFFICES ASSUME NEW m \in Sinks
          PROVE  ~(m < at) /\ Outcomes(m, Len(calls))' = {}
      BY <2>1 DEF Current, Sinks
    <3>2. Outcomes(m, Len(calls))' = Outcomes(m, Len(calls) + 1)
      BY <2>1 DEF Outcomes
    <3>. QED
      BY <1>1, <2>1, <2>3, <3>2 DEF Sinks
  <2>5. Settled'
    <3>1. Finished' = Finished
      BY <1>1, <2>1 DEF Finished
    <3>. QED
      BY <2>1, <3>1, KeptOutcomes DEF Settled, Sinks
  <2>. QED
    BY <2>2, <2>4, <2>5
<1>3. ASSUME NEW outcome \in {"ok", "error"}, MemberReturns(outcome) PROVE StarveInv'
  <2>1. Reach(outcome) /\ at' = at + 1 /\ UNCHANGED <<op, calls>> /\ op # "none" /\ at \in Sinks
    BY <1>3 DEF MemberReturns, NextMember, Reach
  <2>2. Heard'
    BY <2>1, ReachHeard
  <2>3. Current'
    <3>1. SUFFICES ASSUME NEW m \in Sinks
          PROVE  IF m < at + 1
                   THEN Outcomes(m, Len(calls))' # {} /\ "panic" \notin Outcomes(m, Len(calls))'
                   ELSE Outcomes(m, Len(calls))' = {}
      BY <2>1 DEF Current, Sinks
    <3>2. Outcomes(m, Len(calls))' = IF m = at THEN Outcomes(m, Len(calls)) \cup {outcome}
                                               ELSE Outcomes(m, Len(calls))
      BY <1>1, <2>1, ReachOutcomes
    <3>3. m \in Int /\ at \in Int
      BY <1>1 DEF Sinks
    <3>. QED
      BY <2>1, <3>2, <3>3 DEF Current
  <2>4. Settled'
    <3>1. \A m \in Sinks, i \in Finished : Outcomes(m, i)' = Outcomes(m, i)
      BY <1>1, <2>1, ReachOutcomes DEF Finished
    <3>2. Finished' = Finished
      BY <2>1 DEF Finished
    <3>. QED
      BY <1>1, <3>1, <3>2 DEF Settled, PanickedBefore, Sinks
  <2>. QED
    BY <2>2, <2>3, <2>4
<1>4. CASE MemberPanics
  <2>1. Reach("panic") /\ op' = "none" /\ UNCHANGED calls /\ op # "none" /\ at \in Sinks
    BY <1>4 DEF MemberPanics, Leave, Reach
  <2>2. Heard'
    BY <2>1, ReachHeard
  <2>3. Current'
    BY <2>1 DEF Current
  <2>4. Settled'
    <3>1. Finished' = 1..Len(calls) /\ Finished = 1..Len(calls) - 1
      BY <2>1 DEF Finished
    <3>2. SUFFICES ASSUME NEW m \in Sinks, NEW i \in 1..Len(calls)
          PROVE  Outcomes(m, i)' = {} <=> \E j \in 1..m - 1 : "panic" \in Outcomes(j, i)'
      BY <3>1 DEF Settled, PanickedBefore, Sinks
    <3>3. /\ \A j \in Sinks : Outcomes(j, i)' = IF j = at /\ i = Len(calls)
                                               THEN Outcomes(j, i) \cup {"panic"} ELSE Outcomes(j, i)
          /\ \A j \in 1..m - 1 : j \in Sinks /\ j \in Int /\ j < m
          /\ m \in Int /\ at \in Int
      BY <1>1, <2>1, ReachOutcomes DEF Sinks
    <3>4. CASE i # Len(calls)
      <4>1. i \in Finished
        BY <1>1, <3>1, <3>4
      <4>. QED
        BY <3>3, <3>4, <4>1 DEF Settled, PanickedBefore
    <3>5. CASE i = Len(calls)
      <4>1. \A j \in Sinks : IF j < at THEN Outcomes(j, i) # {} /\ "panic" \notin Outcomes(j, i)
                                       ELSE Outcomes(j, i) = {}
        BY <2>1, <3>5 DEF Current
      <4>2. CASE m <= at
        BY <2>1, <3>3, <3>5, <4>1, <4>2
      <4>3. CASE m > at
        <5>1. at \in 1..m - 1
          BY <1>1, <3>3, <4>3
        <5>. QED
          BY <2>1, <3>3, <3>5, <4>1, <4>3, <5>1
      <4>. QED
        BY <3>3, <4>2, <4>3
    <3>. QED
      BY <3>4, <3>5
  <2>. QED
    BY <2>2, <2>3, <2>4
<1>5. CASE Return
  <2>1. op' = "none" /\ UNCHANGED <<calls, got>> /\ op # "none" /\ at > Members
    BY <1>5 DEF Return, Leave
  <2>2. Heard' /\ Current'
    BY <2>1 DEF Heard, Current
  <2>3. Settled'
    <3>1. Finished' = 1..Len(calls) /\ Finished = 1..Len(calls) - 1
      BY <2>1 DEF Finished
    <3>2. SUFFICES ASSUME NEW m \in Sinks, NEW i \in 1..Len(calls)
          PROVE  Outcomes(m, i) = {} <=> PanickedBefore(m, i)
      BY <2>1, <3>1, KeptOutcomes DEF Settled, Sinks
    <3>3. CASE i # Len(calls)
      BY <1>1, <3>1, <3>3 DEF Settled
    <3>4. CASE i = Len(calls)
      <4>1. \A j \in Sinks : Outcomes(j, i) # {} /\ "panic" \notin Outcomes(j, i)
        BY <1>1, <2>1, <3>4 DEF Current, Sinks
      <4>. QED
        BY <1>1, <4>1 DEF PanickedBefore, Sinks
    <3>. QED
      BY <3>3, <3>4
  <2>. QED
    BY <2>2, <2>3
<1>6. CASE UNCHANGED multiVars
  <2>1. UNCHANGED <<op, at, calls, got>>
    BY <1>6 DEF multiVars
  <2>2. Heard'
    BY <2>1 DEF Heard, Sinks
  <2>3. Current'
    <3>1. \A m \in Sinks : Outcomes(m, Len(calls))' = Outcomes(m, Len(calls))
      BY <2>1 DEF Outcomes
    <3>. QED
      BY <2>1, <3>1 DEF Current, Sinks
  <2>4. Settled'
    BY <2>1, KeptOutcomes DEF Settled, Finished, Sinks
  <2>. QED
    BY <2>2, <2>3, <2>4
<1>7. \A o : o \in {"write", "flush", "close"} => o \in Ops
  BY DEF Ops
<1>. QED
  BY <1>2, <1>3, <1>4, <1>5, <1>6, <1>7 DEF Next, WriteBatch, Flush, Close

\* Before the first call nobody has heard of any.
LEMMA StarveInit == Init => TypeInv /\ StarveInv
BY MultiSinkAssumption
   DEF Init, TypeInv, TypeOK, Placed, StarveInv, Heard, Current, Settled, Finished, Sinks, Ops, Call

\* A member gets every call of the writer, once and in order, except those in which a
\* member before it panicked: an error costs nobody a call (multi_sink.go:8).
THEOREM StarveCorrect == Spec => []OnlyPanicStarves
<1>1. Init => TypeInv /\ StarveInv
  BY StarveInit
<1>2. TypeInv /\ StarveInv /\ [Next]_multiVars => (TypeInv /\ StarveInv)'
  BY TypeStep, StarveStep
<1>3. StarveInv => OnlyPanicStarves
  BY DEF StarveInv, Heard, Settled, OnlyPanicStarves
<1>. QED
  BY <1>1, <1>2, <1>3, PTL DEF Spec

-----------------------------------------------------------------------------
(* Failures in the counters                                                *)

\* The calls the writer is back from, by what became of them.
PanickedCalls == {i \in Finished : \E m \in Sinks : "panic" \in Outcomes(m, i)}
ErredCalls == {i \in Finished : \E m \in Sinks : "error" \in Outcomes(m, i)} \ PanickedCalls
CloseCalls == {i \in Finished : calls[i].op = "close"}

\* The errors at hand are those of the call in progress, and nothing follows a Close.
CollectInv ==
  /\ op # "none" =>
       /\ calls[Len(calls)].op = op
       /\ errs = {m \in 1..(at - 1) : "error" \in Outcomes(m, Len(calls))}
  /\ op = "none" => errs = {}
  /\ \A i \in 1..(Len(calls) - 1) : calls[i].op # "close"

ShownInv ==
  /\ writeErrors = Cardinality(PanickedCalls) + Cardinality(ErredCalls \ CloseCalls)
  /\ closeErr = "error" <=> ErredCalls \cap CloseCalls # {}

\* A member that returns adds its error to the call's, and a call leaves none behind.
LEMMA CollectStep ==
  ASSUME TypeInv, StarveInv, CollectInv, [Next]_multiVars
  PROVE  CollectInv'
<1>1. /\ calls \in Seq(Call) /\ Len(calls) \in Nat
      /\ at \in 1..Members + 1 /\ Members \in Nat
      /\ op # "none" => Len(calls) >= 1
      /\ op = "none" => at = 1
  BY MultiSinkAssumption DEF TypeInv, TypeOK, Placed
<1>2. ASSUME NEW o \in Ops, NEW b \in Batches \cup {<<>>}, Begin(o, b), ~Closing PROVE CollectInv'
  <2>. DEFINE row == [op |-> o, batch |-> b]
  <2>1. calls' = Append(calls, row) /\ row \in Call /\ UNCHANGED <<at, errs, got>>
        /\ op = "none" /\ op' = o /\ o # "none"
    BY <1>2 DEF Begin, Call, Ops
  <2>2. /\ Len(calls') = Len(calls) + 1 /\ calls'[Len(calls) + 1] = row
        /\ \A i \in 1..Len(calls) : calls'[i] = calls[i]
    <3>. HIDE DEF row
    <3>. QED
      BY <1>1, <2>1, AppendProperties
  <2>3. \A i \in 1..Len(calls) : calls[i].op # "close"
    <3>1. Len(calls) > 0 => calls[Len(calls)].op # "close"
      BY <1>1, <1>2, EmptySeq DEF Closing
    <3>. QED
      BY <1>1, <3>1 DEF CollectInv
  <2>4. calls'[Len(calls')].op = op'
    BY <2>1, <2>2
  <2>5. errs = {} /\ 1..(at - 1) = {}
    BY <1>1, <2>1 DEF CollectInv
  <2>6. \A i \in 1..(Len(calls') - 1) : calls'[i].op # "close"
    BY <1>1, <2>2, <2>3
  <2>7. op' # "none" => errs' = {m \in 1..(at' - 1) : "error" \in Outcomes(m, Len(calls))'}
    BY <2>1, <2>5
  <2>. QED
    BY <2>1, <2>4, <2>6, <2>7 DEF CollectInv
<1>3. ASSUME NEW outcome \in {"ok", "error"}, MemberReturns(outcome) PROVE CollectInv'
  <2>1. /\ Reach(outcome) /\ at' = at + 1 /\ UNCHANGED <<op, calls>> /\ op # "none" /\ at \in Sinks
        /\ errs' = IF outcome = "error" THEN errs \cup {at} ELSE errs
    BY <1>3 DEF MemberReturns, NextMember, Reach, Collected
  <2>2. PICK n \in Nat, k \in Sinks : n = Len(calls) /\ k = at
    BY <1>1, <2>1
  <2>3. \A m \in Sinks : Outcomes(m, n)' = IF m = k THEN Outcomes(m, n) \cup {outcome} ELSE Outcomes(m, n)
    BY <2>1, <2>2, ReachOutcomes
  <2>4. Outcomes(k, n) = {}
    BY <1>1, <2>1, <2>2 DEF StarveInv, Current, Sinks
  <2>5. 1..(at' - 1) = 1..(k - 1) \cup {k} /\ 1..(k - 1) \subseteq Sinks /\ k \notin 1..(k - 1)
    BY <1>1, <2>1, <2>2 DEF Sinks
  <2>6. errs' = {m \in 1..(at' - 1) : "error" \in Outcomes(m, n)'}
    <3>1. errs = {m \in 1..(k - 1) : "error" \in Outcomes(m, n)}
      BY <2>1, <2>2 DEF CollectInv
    <3>2. \A m \in 1..(k - 1) : Outcomes(m, n)' = Outcomes(m, n)
      BY <2>3, <2>5
    <3>3. Outcomes(k, n)' = {outcome}
      BY <2>1, <2>3, <2>4
    <3>. QED
      BY <2>1, <2>2, <2>5, <3>1, <3>2, <3>3
  <2>. QED
    BY <2>1, <2>2, <2>6 DEF CollectInv
<1>4. CASE MemberPanics \/ Return
  BY <1>4 DEF MemberPanics, Return, Leave, CollectInv
<1>5. CASE UNCHANGED multiVars
  <2>1. UNCHANGED <<op, at, errs, calls, got>>
    BY <1>5 DEF multiVars
  <2>2. \A m : Outcomes(m, Len(calls))' = Outcomes(m, Len(calls))
    BY <2>1 DEF Outcomes
  <2>. QED
    BY <2>1, <2>2 DEF CollectInv
<1>6. ASSUME Close PROVE ~Closing
  BY <1>6 DEF Close, Closing
<1>. QED
  BY <1>2, <1>3, <1>4, <1>5, <1>6 DEF Next, WriteBatch, Flush, Close, Ops

\* A step that finishes no call shows nothing new.
LEMMA ShownKept ==
  ASSUME TypeInv, ShownInv, Finished' = Finished, UNCHANGED <<writeErrors, closeErr>>,
         \A i \in Finished : calls'[i] = calls[i],
         \A m \in Sinks, i \in Finished : Outcomes(m, i)' = Outcomes(m, i)
  PROVE  ShownInv'
<1>1. PanickedCalls' = PanickedCalls
  BY DEF PanickedCalls, Sinks
<1>2. ErredCalls' = ErredCalls
  BY <1>1 DEF ErredCalls, Sinks
<1>3. CloseCalls' = CloseCalls
  BY DEF CloseCalls
<1>. QED
  BY <1>1, <1>2, <1>3 DEF ShownInv

\* A step of the writer or of the loop counts the failure of the call it ends, if any.
LEMMA ShownStep ==
  ASSUME TypeInv, StarveInv, CollectInv, ShownInv, [Next]_multiVars
  PROVE  ShownInv'
<1>1. /\ calls \in Seq(Call) /\ Len(calls) \in Nat
      /\ at \in 1..Members + 1 /\ Members \in Nat
      /\ op # "none" => Len(calls) >= 1
      /\ writeErrors \in Nat
  BY MultiSinkAssumption DEF TypeInv, TypeOK, Placed
<1>f. /\ IsFiniteSet(PanickedCalls) /\ IsFiniteSet(ErredCalls) /\ IsFiniteSet(CloseCalls)
  <2>1. IsFiniteSet(Finished)
    BY <1>1, FS_Interval DEF Finished
  <2>2. PanickedCalls \subseteq Finished /\ ErredCalls \subseteq Finished /\ CloseCalls \subseteq Finished
    BY DEF PanickedCalls, ErredCalls, CloseCalls
  <2>. QED
    BY <2>1, <2>2, FS_Subset
<1>2. ASSUME NEW o \in Ops, NEW b \in Batches \cup {<<>>}, Begin(o, b) PROVE ShownInv'
  <2>. DEFINE row == [op |-> o, batch |-> b]
  <2>1. /\ calls' = Append(calls, row) /\ row \in Call /\ UNCHANGED <<got, writeErrors, closeErr>>
        /\ op = "none" /\ op' # "none"
    BY <1>2 DEF Begin, Call, Ops, countVars
  <2>2. Len(calls') = Len(calls) + 1 /\ \A i \in 1..Len(calls) : calls'[i] = calls[i]
    <3>. HIDE DEF row
    <3>. QED
      BY <1>1, <2>1, AppendProperties
  <2>3. Finished' = Finished /\ Finished = 1..Len(calls)
    BY <1>1, <2>1, <2>2 DEF Finished
  <2>. QED
    BY <2>1, <2>2, <2>3, KeptOutcomes, ShownKept
<1>3. ASSUME NEW outcome \in {"ok", "error"}, MemberReturns(outcome) PROVE ShownInv'
  <2>1. /\ Reach(outcome) /\ UNCHANGED <<op, calls, writeErrors, closeErr>> /\ op # "none"
    BY <1>3 DEF MemberReturns, Reach, countVars
  <2>2. Finished' = Finished /\ Finished = 1..(Len(calls) - 1)
    BY <2>1 DEF Finished
  <2>3. \A m \in Sinks, i \in Finished : Outcomes(m, i)' = Outcomes(m, i)
    BY <1>1, <2>1, <2>2, ReachOutcomes
  <2>. QED
    BY <2>1, <2>2, <2>3, ShownKept
\* What the end of call n makes of the sets.
<1>4. ASSUME NEW n \in Nat, n = Len(calls), op # "none", op' = "none", UNCHANGED calls
      PROVE  /\ Finished' = Finished \cup {n} /\ n \notin Finished
             /\ n \notin PanickedCalls /\ n \notin ErredCalls /\ n \notin CloseCalls
             /\ CloseCalls = {}
             /\ CloseCalls' = IF op = "close" THEN {n} ELSE {}
  <2>1. Finished' = 1..n /\ Finished = 1..(n - 1) /\ n >= 1
    BY <1>1, <1>4 DEF Finished
  <2>2. Finished' = Finished \cup {n} /\ n \notin Finished
    BY <2>1
  <2>3. CloseCalls = {} /\ calls[n].op = op
    BY <1>4, <2>1 DEF CloseCalls, CollectInv
  <2>. QED
    BY <1>4, <2>2, <2>3 DEF PanickedCalls, ErredCalls, CloseCalls
<1>5. CASE MemberPanics
  <2>1. /\ Reach("panic") /\ op' = "none" /\ UNCHANGED <<calls, closeErr>> /\ op # "none" /\ at \in Sinks
        /\ writeErrors' = writeErrors + 1
    BY <1>5 DEF MemberPanics, Leave, Reach, PanicCount
  <2>2. PICK n \in Nat, k \in Sinks : n = Len(calls) /\ k = at
    BY <1>1, <2>1
  <2>3. /\ Finished' = Finished \cup {n} /\ n \notin Finished
        /\ n \notin PanickedCalls /\ n \notin ErredCalls
        /\ CloseCalls = {} /\ CloseCalls' \subseteq {n}
    BY <1>4, <2>1, <2>2
  <2>4. /\ \A m \in Sinks, i \in Finished : Outcomes(m, i)' = Outcomes(m, i)
        /\ "panic" \in Outcomes(k, n)'
    <3>1. Finished \subseteq Nat
      BY <1>1 DEF Finished
    <3>2. \A m \in Sinks, i \in Nat : Outcomes(m, i)' =
            IF m = k /\ i = n THEN Outcomes(m, i) \cup {"panic"} ELSE Outcomes(m, i)
      BY <2>1, <2>2, ReachOutcomes
    <3>. QED
      BY <2>1, <2>3, <3>1, <3>2
  <2>5. PanickedCalls' = PanickedCalls \cup {n}
    BY <2>1, <2>3, <2>4 DEF PanickedCalls, Sinks
  <2>6. ErredCalls' = ErredCalls
    BY <2>3, <2>4, <2>5 DEF ErredCalls, Sinks
  <2>7. Cardinality(PanickedCalls') = Cardinality(PanickedCalls) + 1
    BY <1>f, <2>3, <2>5, FS_AddElement
  <2>8. ErredCalls' \ CloseCalls' = ErredCalls \ CloseCalls /\ ErredCalls' \cap CloseCalls' = {}
    BY <2>3, <2>6
  <2>9. ErredCalls \cap CloseCalls = {}
    BY <2>3
  <2>10. Cardinality(PanickedCalls) \in Nat /\ Cardinality(ErredCalls \ CloseCalls) \in Nat
    BY <1>f, FS_Difference, FS_CardinalityType
  <2>11. writeErrors' = Cardinality(PanickedCalls') + Cardinality(ErredCalls' \ CloseCalls')
    <3>1. Cardinality(ErredCalls' \ CloseCalls') = Cardinality(ErredCalls \ CloseCalls)
      BY <2>8
    <3>2. writeErrors = Cardinality(PanickedCalls) + Cardinality(ErredCalls \ CloseCalls)
      BY DEF ShownInv
    <3>. QED
      BY <2>1, <2>7, <2>10, <3>1, <3>2
  <2>. QED
    BY <2>1, <2>8, <2>9, <2>11 DEF ShownInv
<1>6. CASE Return
  <2>1. /\ op' = "none" /\ UNCHANGED <<calls, got>> /\ op # "none" /\ at > Members
        /\ Accepted \/ Flushed \/ Rejected \/ Closed
    BY <1>6 DEF Return, Leave
  <2>2. PICK n \in Nat : n = Len(calls)
    BY <1>1
  <2>3. /\ Finished' = Finished \cup {n} /\ n \notin Finished
        /\ n \notin PanickedCalls /\ n \notin ErredCalls
        /\ CloseCalls = {} /\ CloseCalls' = IF op = "close" THEN {n} ELSE {}
    BY <1>4, <2>1, <2>2
  <2>4. 1..(at - 1) = Sinks
    BY <1>1, <2>1 DEF Sinks
  <2>5. /\ \A m \in Sinks : "panic" \notin Outcomes(m, n)
        /\ (\E m \in Sinks : "error" \in Outcomes(m, n)) <=> errs # {}
    <3>1. \A m \in Sinks : "panic" \notin Outcomes(m, n)
      BY <1>1, <2>1, <2>2 DEF StarveInv, Current, Sinks
    <3>2. errs = {m \in Sinks : "error" \in Outcomes(m, n)}
      BY <2>1, <2>2, <2>4 DEF CollectInv
    <3>. QED
      BY <3>1, <3>2
  <2>6. \A m, i : Outcomes(m, i)' = Outcomes(m, i)
    BY <2>1, KeptOutcomes
  <2>7. PanickedCalls' = PanickedCalls
    BY <2>3, <2>5, <2>6 DEF PanickedCalls, Sinks
  <2>8. ErredCalls' = IF errs = {} THEN ErredCalls ELSE ErredCalls \cup {n}
    <3>1. \A i : i \in ErredCalls' <=>
            i \in Finished' /\ i \notin PanickedCalls' /\ \E m \in Sinks : "error" \in Outcomes(m, i)
      BY <2>6 DEF ErredCalls, Sinks
    <3>2. \A i : i \in ErredCalls <=>
            i \in Finished /\ i \notin PanickedCalls /\ \E m \in Sinks : "error" \in Outcomes(m, i)
      BY DEF ErredCalls
    <3>. QED
      BY <2>3, <2>5, <2>7, <3>1, <3>2
  <2>9. /\ Cardinality(PanickedCalls) \in Nat /\ Cardinality(ErredCalls) \in Nat
        /\ errs # {} => Cardinality(ErredCalls') = Cardinality(ErredCalls) + 1
    BY <1>f, <2>3, <2>8, FS_AddElement, FS_CardinalityType
  <2>10. ErredCalls \ CloseCalls = ErredCalls /\ ErredCalls \cap CloseCalls = {} /\ closeErr # "error"
    BY <2>3 DEF ShownInv
  <2>11. CASE op = "close"
    <3>1. CloseCalls' = {n} /\ writeErrors' = writeErrors
          /\ closeErr' = IF errs = {} THEN "nil" ELSE "error"
      BY <2>1, <2>3, <2>11 DEF Accepted, Flushed, Rejected, Closed
    <3>2. ErredCalls' \ CloseCalls' = ErredCalls
      BY <2>3, <2>8, <3>1
    <3>3. ErredCalls' \cap CloseCalls' # {} <=> errs # {}
      BY <2>3, <2>8, <3>1
    <3>. QED
      BY <2>7, <2>10, <3>1, <3>2, <3>3 DEF ShownInv
  <2>12. CASE op # "close"
    <3>1. CloseCalls' = {} /\ UNCHANGED closeErr
          /\ writeErrors' = IF errs = {} THEN writeErrors ELSE writeErrors + 1
      BY <2>1, <2>3, <2>12 DEF Accepted, Flushed, Rejected, Closed, countVars
    <3>2. ErredCalls' \ CloseCalls' = ErredCalls' /\ ErredCalls' \cap CloseCalls' = {}
      BY <3>1
    <3>3. writeErrors = Cardinality(PanickedCalls) + Cardinality(ErredCalls)
      BY <2>10 DEF ShownInv
    <3>4. Cardinality(ErredCalls') = Cardinality(ErredCalls) + (IF errs = {} THEN 0 ELSE 1)
      BY <2>8, <2>9
    <3>5. writeErrors' = Cardinality(PanickedCalls') + Cardinality(ErredCalls')
      BY <2>7, <2>9, <3>1, <3>3, <3>4
    <3>. QED
      BY <2>10, <3>1, <3>2, <3>5 DEF ShownInv
  <2>. QED
    BY <2>11, <2>12
<1>7. CASE UNCHANGED multiVars
  <2>1. UNCHANGED <<op, calls, got, writeErrors, closeErr>>
    BY <1>7 DEF multiVars, countVars
  <2>. QED
    BY <2>1, KeptOutcomes, ShownKept DEF Finished
<1>. QED
  BY <1>2, <1>3, <1>5, <1>6, <1>7 DEF Next, WriteBatch, Flush, Close, Ops

\* Every call in which a member failed shows once, in Stats.WriteErrors or in the error of
\* Close (stats.go:35-40, writer.go:103-106), whichever members fail and in what way.
THEOREM FailuresCorrect == Spec => []FailuresShowOnce
<1>1. Init => CollectInv /\ ShownInv
  <2>. SUFFICES ASSUME Init PROVE CollectInv /\ ShownInv
    OBVIOUS
  <2>1. Finished = {}
    BY DEF Init, Finished
  <2>2. PanickedCalls = {} /\ ErredCalls = {} /\ CloseCalls = {}
    BY <2>1 DEF PanickedCalls, ErredCalls, CloseCalls
  <2>3. ErredCalls \ CloseCalls = {}
    BY <2>2
  <2>. QED
    BY <2>2, <2>3, FS_EmptySet DEF Init, CollectInv, ShownInv
<1>2. Init => TypeInv /\ StarveInv
  BY StarveInit
<1>3. TypeInv /\ StarveInv /\ CollectInv /\ ShownInv /\ [Next]_multiVars
        => (TypeInv /\ StarveInv /\ CollectInv /\ ShownInv)'
  BY TypeStep, StarveStep, CollectStep, ShownStep
<1>4. ShownInv => FailuresShowOnce
  BY DEF ShownInv, FailuresShowOnce, PanickedCalls, ErredCalls, CloseCalls
<1>. QED
  BY <1>1, <1>2, <1>3, <1>4, PTL DEF Spec

-----------------------------------------------------------------------------
(* Events counted as written                                               *)

\* The finished writes that every member accepted.
AcceptedWrites == {i \in Writes : \A m \in Sinks : Outcomes(m, i) = {"ok"}}
WrittenInv == written = EventsOf(AcceptedWrites)

\* EventsOf is a sum over the calls it is given.
LEMMA EventsSum ==
  ASSUME TypeInv, NEW C, C \subseteq 1..Len(calls)
  PROVE  /\ EventsOf(C) = SumOf([i \in C |-> Len(calls[i].batch)])
         /\ [i \in C |-> Len(calls[i].batch)] \in [C -> Int]
         /\ IsFiniteSet(C)
<1>1. calls \in Seq(Call) /\ Len(calls) \in Nat
  BY DEF TypeInv, TypeOK
<1>2. \A i \in 1..Len(calls) : Len(calls[i].batch) \in Nat
  <2>1. Len(<<>>) = 0
    OBVIOUS
  <2>. QED
    BY <1>1, <2>1, ElementOfSeq, MultiSinkAssumption DEF Call
<1>3. IsFiniteSet(C)
  <2>1. IsFiniteSet(1..Len(calls))
    BY <1>1, FS_Interval
  <2>. QED
    BY <2>1, FS_Subset
<1>4. EventsOf(C) = SumOf([i \in C |-> Len(calls[i].batch)])
  BY DEF EventsOf, SumOf, FoldFunction, FoldFunctionOnSet, MapThenFoldSet
<1>5. [i \in C |-> Len(calls[i].batch)] \in [C -> Int]
  BY <1>2
<1>. QED
  BY <1>3, <1>4, <1>5

\* One call more.
LEMMA EventsAdd ==
  ASSUME TypeInv, NEW C, C \subseteq 1..Len(calls), NEW n \in 1..Len(calls), n \notin C
  PROVE  EventsOf(C \cup {n}) = EventsOf(C) + Len(calls[n].batch)
<1>. DEFINE D == C \cup {n}
            f == [i \in D |-> Len(calls[i].batch)]
            g == [i \in C |-> Len(calls[i].batch)]
<1>1. /\ EventsOf(D) = SumOf(f) /\ f \in [D -> Int] /\ IsFiniteSet(D)
      /\ EventsOf(C) = SumOf(g) /\ g \in [C -> Int] /\ IsFiniteSet(C)
  BY EventsSum
<1>2. \A i \in C : f[i] = g[i]
  OBVIOUS
<1>3. D = C \cup {n} /\ n \in D /\ f[n] = Len(calls[n].batch)
  OBVIOUS
<1>. HIDE DEF f, g, D
<1>4. SumOf(f) = f[n] + SumOf(g)
  BY <1>1, <1>2, <1>3, SumAdd
<1>5. SumOf(g) \in Int /\ f[n] \in Int
  <2>1. SumOf(g) \in Int
    BY <1>1, SumType
  <2>. QED
    BY <1>1, <1>3, <2>1
<1>6. EventsOf(D) = EventsOf(C) + Len(calls[n].batch)
  BY <1>1, <1>3, <1>4, <1>5
<1>. QED
  BY <1>6 DEF D

\* A step that finishes no call, or one that not every member accepted.
LEMMA WrittenKept ==
  ASSUME TypeInv, WrittenInv, AcceptedWrites' = AcceptedWrites, UNCHANGED written,
         \A i \in 1..Len(calls) : calls'[i] = calls[i]
  PROVE  WrittenInv'
<1>1. PICK C : C = AcceptedWrites
  OBVIOUS
<1>2. C \subseteq 1..Len(calls)
  <2>1. Finished \subseteq 1..Len(calls)
    BY DEF Finished, TypeInv, TypeOK
  <2>. QED
    BY <1>1, <2>1 DEF AcceptedWrites, Writes
<1>3. [i \in C |-> Len(calls'[i].batch)] = [i \in C |-> Len(calls[i].batch)]
  BY <1>2
<1>4. EventsOf(C)' = EventsOf(C)
  <2>1. EventsOf(C) = SumOf([i \in C |-> Len(calls[i].batch)])
    BY DEF EventsOf, SumOf, FoldFunction, FoldFunctionOnSet, MapThenFoldSet
  <2>2. EventsOf(C)' = SumOf([i \in C |-> Len(calls'[i].batch)])
    BY DEF EventsOf, SumOf, FoldFunction, FoldFunctionOnSet, MapThenFoldSet
  <2>. QED
    BY <1>3, <2>1, <2>2
<1>. QED
  BY <1>1, <1>4 DEF WrittenInv

\* The writer counts the events of the call it returns from when every member accepted
\* them.
LEMMA WrittenStep ==
  ASSUME TypeInv, StarveInv, CollectInv, WrittenInv, [Next]_multiVars
  PROVE  WrittenInv'
<1>1. /\ calls \in Seq(Call) /\ Len(calls) \in Nat
      /\ at \in 1..Members + 1 /\ Members \in Nat
      /\ op # "none" => Len(calls) >= 1
      /\ got \in [Sinks -> Seq([call : Nat, outcome : {"ok", "error", "panic"}])]
  BY MultiSinkAssumption DEF TypeInv, TypeOK, Placed
<1>2. ASSUME Finished' = Finished, UNCHANGED written,
             \A i \in 1..Len(calls) : calls'[i] = calls[i],
             \A m \in Sinks, i \in Finished : Outcomes(m, i)' = Outcomes(m, i)
      PROVE  WrittenInv'
  <2>1. Finished \subseteq 1..Len(calls)
    BY <1>1 DEF Finished
  <2>2. AcceptedWrites' = AcceptedWrites
    BY <1>2, <2>1 DEF AcceptedWrites, Writes, Sinks
  <2>. QED
    BY <1>2, <2>2, WrittenKept
<1>3. ASSUME NEW o \in Ops, NEW b \in Batches \cup {<<>>}, Begin(o, b) PROVE WrittenInv'
  <2>. DEFINE row == [op |-> o, batch |-> b]
  <2>1. /\ calls' = Append(calls, row) /\ row \in Call /\ UNCHANGED <<got, written>>
        /\ op = "none" /\ op' # "none"
    BY <1>3 DEF Begin, Call, Ops, countVars
  <2>2. Len(calls') = Len(calls) + 1 /\ \A i \in 1..Len(calls) : calls'[i] = calls[i]
    <3>. HIDE DEF row
    <3>. QED
      BY <1>1, <2>1, AppendProperties
  <2>3. Finished' = Finished
    BY <1>1, <2>1, <2>2 DEF Finished
  <2>. QED
    BY <1>2, <2>1, <2>2, <2>3, KeptOutcomes
<1>4. ASSUME NEW outcome \in {"ok", "error"}, MemberReturns(outcome) PROVE WrittenInv'
  <2>1. Reach(outcome) /\ UNCHANGED <<op, calls, written>> /\ op # "none"
    BY <1>4 DEF MemberReturns, Reach, countVars
  <2>2. Finished' = Finished /\ Finished = 1..(Len(calls) - 1)
    BY <2>1 DEF Finished
  <2>3. \A m \in Sinks, i \in Finished : Outcomes(m, i)' = Outcomes(m, i)
    BY <1>1, <2>1, <2>2, ReachOutcomes
  <2>. QED
    BY <1>2, <2>1, <2>2, <2>3
<1>5. CASE MemberPanics
  <2>1. Reach("panic") /\ op' = "none" /\ UNCHANGED <<calls, written>> /\ op # "none" /\ at \in Sinks
    BY <1>5 DEF MemberPanics, Leave, Reach
  <2>2. PICK n \in Nat, k \in Sinks : n = Len(calls) /\ k = at
    BY <1>1, <2>1
  <2>3. Finished' = 1..n /\ Finished = 1..(n - 1) /\ n >= 1
    BY <1>1, <2>1, <2>2 DEF Finished
  <2>4. \A m \in Sinks, i \in Nat : Outcomes(m, i)' =
          IF m = k /\ i = n THEN Outcomes(m, i) \cup {"panic"} ELSE Outcomes(m, i)
    BY <2>1, <2>2, ReachOutcomes
  <2>5. Finished' = Finished \cup {n} /\ Finished \subseteq Nat /\ n \notin Finished
    BY <2>3
  <2>6. "panic" \in Outcomes(k, n)' /\ \A m \in Sinks, i \in Finished : Outcomes(m, i)' = Outcomes(m, i)
    BY <2>4, <2>5
  <2>7. AcceptedWrites' = AcceptedWrites
    <3>1. \A i : i \in AcceptedWrites' <=>
            i \in Finished' /\ calls[i].op = "write" /\ \A m \in Sinks : Outcomes(m, i)' = {"ok"}
      BY <2>1 DEF AcceptedWrites, Writes, Sinks
    <3>2. \A i : i \in AcceptedWrites <=>
            i \in Finished /\ calls[i].op = "write" /\ \A m \in Sinks : Outcomes(m, i) = {"ok"}
      BY DEF AcceptedWrites, Writes
    <3>3. n \notin AcceptedWrites'
      BY <2>6, <3>1
    <3>4. ASSUME NEW i PROVE i \in AcceptedWrites' <=> i \in AcceptedWrites
      <4>1. CASE i \in Finished
        BY <2>5, <2>6, <3>1, <3>2, <4>1
      <4>2. CASE i \notin Finished
        BY <2>5, <3>1, <3>2, <3>3, <4>2
      <4>. QED
        BY <4>1, <4>2
    <3>. QED
      BY <3>4
  <2>. QED
    BY <2>1, <2>7, WrittenKept
<1>6. CASE Return
  <2>1. /\ op' = "none" /\ UNCHANGED <<calls, got>> /\ op # "none" /\ at > Members
        /\ Accepted \/ Flushed \/ Rejected \/ Closed
    BY <1>6 DEF Return, Leave
  <2>2. PICK n \in Nat : n = Len(calls)
    BY <1>1
  <2>3. /\ Finished' = Finished \cup {n} /\ n \notin Finished /\ Finished \subseteq 1..Len(calls)
        /\ n \in 1..Len(calls)
    BY <1>1, <2>1, <2>2 DEF Finished
  <2>4. calls[n].op = op /\ errs = {m \in 1..(at - 1) : "error" \in Outcomes(m, n)}
    BY <2>1, <2>2 DEF CollectInv
  <2>5. 1..(at - 1) = Sinks /\ \A m \in Sinks : m < at
    BY <1>1, <2>1 DEF Sinks
  <2>6. \A m \in Sinks : Outcomes(m, n) # {} /\ "panic" \notin Outcomes(m, n)
    BY <2>1, <2>2, <2>5 DEF StarveInv, Current
  <2>7. \A m \in Sinks : Outcomes(m, n) \subseteq {"ok", "error", "panic"}
    <3>1. ASSUME NEW m \in Sinks, NEW j \in DOMAIN got[m] PROVE got[m][j].outcome \in {"ok", "error", "panic"}
      <4>1. got[m] \in Seq([call : Nat, outcome : {"ok", "error", "panic"}])
        BY <1>1
      <4>2. j \in 1..Len(got[m])
        BY <4>1, LenProperties
      <4>3. got[m][j] \in [call : Nat, outcome : {"ok", "error", "panic"}]
        BY <4>1, <4>2, ElementOfSeq
      <4>. QED
        BY <4>3
    <3>. QED
      BY <3>1 DEF Outcomes
  <2>8. (\A m \in Sinks : Outcomes(m, n) = {"ok"}) <=> errs = {}
    <3>1. (\A m \in Sinks : Outcomes(m, n) = {"ok"}) <=> \A m \in Sinks : "error" \notin Outcomes(m, n)
      BY <2>6, <2>7
    <3>. QED
      BY <2>4, <2>5, <3>1
  <2>9. \A m, i : Outcomes(m, i)' = Outcomes(m, i)
    BY <2>1, KeptOutcomes
  <2>10. \A i : i \in AcceptedWrites' <=>
           i \in Finished' /\ calls[i].op = "write" /\ \A m \in Sinks : Outcomes(m, i) = {"ok"}
    BY <2>1, <2>9 DEF AcceptedWrites, Writes, Sinks
  <2>11. \A i : i \in AcceptedWrites <=>
           i \in Finished /\ calls[i].op = "write" /\ \A m \in Sinks : Outcomes(m, i) = {"ok"}
    BY DEF AcceptedWrites, Writes
  <2>12. CASE op = "write" /\ errs = {}
    <3>1. written' = written + Len(calls[n].batch)
      BY <2>1, <2>2, <2>12 DEF Accepted, Flushed, Rejected, Closed
    <3>2. AcceptedWrites' = AcceptedWrites \cup {n} /\ n \notin AcceptedWrites
      BY <2>3, <2>4, <2>8, <2>10, <2>11, <2>12
    <3>3. PICK C : C = AcceptedWrites
      OBVIOUS
    <3>4. C \subseteq 1..Len(calls)
      BY <2>3, <2>11, <3>3
    <3>5. EventsOf(C \cup {n}) = EventsOf(C) + Len(calls[n].batch)
      BY <2>3, <3>2, <3>3, <3>4, EventsAdd
    <3>6. EventsOf(C \cup {n})' = EventsOf(C \cup {n})
      BY <2>1 DEF EventsOf, FoldFunction, FoldFunctionOnSet, MapThenFoldSet
    <3>. QED
      BY <3>1, <3>2, <3>3, <3>5, <3>6 DEF WrittenInv
  <2>13. CASE ~(op = "write" /\ errs = {})
    <3>1. UNCHANGED written
      BY <2>1, <2>13 DEF Accepted, Flushed, Rejected, Closed, countVars
    <3>2. n \notin AcceptedWrites'
      BY <2>4, <2>8, <2>10, <2>13
    <3>3. AcceptedWrites' = AcceptedWrites
      BY <2>3, <2>10, <2>11, <3>2
    <3>. QED
      BY <2>1, <3>1, <3>3, WrittenKept
  <2>. QED
    BY <2>12, <2>13
<1>7. CASE UNCHANGED multiVars
  <2>1. UNCHANGED <<op, calls, got, written>>
    BY <1>7 DEF multiVars, countVars
  <2>. QED
    BY <1>2, <2>1, KeptOutcomes DEF Finished
<1>. QED
  BY <1>3, <1>4, <1>5, <1>6, <1>7 DEF Next, WriteBatch, Flush, Close, Ops

\* Stats.Written is the number of events in the batches that every member accepted
\* (stats.go:20, multi_sink.go:27-35): an event is counted neither before the last member
\* took it nor when one of them failed.
THEOREM WrittenCorrect == Spec => []WrittenMeansEveryone
<1>1. Init => CollectInv /\ WrittenInv
  <2>. SUFFICES ASSUME Init PROVE CollectInv /\ WrittenInv
    OBVIOUS
  <2>1. Finished = {}
    BY DEF Init, Finished
  <2>2. PICK C : C = AcceptedWrites /\ C = {}
    BY <2>1 DEF AcceptedWrites, Writes
  <2>3. TypeInv
    BY StarveInit
  <2>. DEFINE f == [i \in C |-> Len(calls[i].batch)]
  <2>4. EventsOf(C) = SumOf(f) /\ f \in [C -> Int] /\ IsFiniteSet(C)
    BY <2>2, <2>3, EventsSum
  <2>. HIDE DEF f
  <2>5. EventsOf(C) = 0
    BY <2>2, <2>4, SumType
  <2>. QED
    BY <2>2, <2>5 DEF Init, CollectInv, WrittenInv
<1>2. Init => TypeInv /\ StarveInv
  BY StarveInit
<1>3. TypeInv /\ StarveInv /\ CollectInv /\ WrittenInv /\ [Next]_multiVars
        => (TypeInv /\ StarveInv /\ CollectInv /\ WrittenInv)'
  BY TypeStep, StarveStep, CollectStep, WrittenStep
<1>4. WrittenInv => WrittenMeansEveryone
  BY DEF WrittenInv, WrittenMeansEveryone, AcceptedWrites
<1>. QED
  BY <1>1, <1>2, <1>3, <1>4, PTL DEF Spec

-----------------------------------------------------------------------------
(* The composition                                                         *)

\* Whatever the log sink does among the members, the fan-out around it takes the steps
\* MultiSink describes: the log sink returns nil or panics, or is still in its loop.
LEMMA FanoutStep == ASSUME [FanoutNext]_vars PROVE [Next]_multiVars
<1>1. ASSUME NEW b \in Batches, Deliver(b) PROVE Next
  BY <1>1 DEF Deliver, Next
<1>2. CASE FlushAll \/ CloseAll \/ ReturnAll
  BY <1>2 DEF FlushAll, CloseAll, ReturnAll, Next
<1>3. ASSUME NEW outcome \in {"ok", "error"}, OtherReturns(outcome) PROVE Next
  BY <1>3 DEF OtherReturns, Next
<1>4. CASE OtherPanics \/ SlogPanics
  BY <1>4 DEF OtherPanics, SlogPanics, Next
<1>5. CASE SlogEvent
  BY <1>5 DEF SlogEvent
<1>6. CASE SlogReturns \/ SlogFlush \/ SlogClose
  BY <1>6 DEF SlogReturns, SlogFlush, SlogClose, Next
<1>7. CASE UNCHANGED vars
  BY <1>7 DEF vars
<1>. QED
  BY <1>1, <1>2, <1>3, <1>4, <1>5, <1>6, <1>7 DEF FanoutNext

\* So the composition is a fan-out.
THEOREM FanoutImplements == FanoutSpec => Spec
<1>1. FanoutInit => Init
  BY DEF FanoutInit
<1>2. [FanoutNext]_vars => [Next]_multiVars
  BY FanoutStep
<1>. QED
  BY <1>1, <1>2, PTL DEF FanoutSpec, Spec

\* So the promise to the members holds with the log sink among them.
THEOREM FanoutStarveCorrect == FanoutSpec => []OnlyPanicStarves
BY StarveCorrect, FanoutImplements, PTL

\* And so do the counters.
THEOREM FanoutFailuresCorrect == FanoutSpec => []FailuresShowOnce
BY FailuresCorrect, FanoutImplements, PTL

\* And so does Stats.Written.
THEOREM FanoutWrittenCorrect == FanoutSpec => []WrittenMeansEveryone
BY WrittenCorrect, FanoutImplements, PTL

-----------------------------------------------------------------------------
(* The log sink                                                            *)

Ended == Logger!Ended
Recorded == {records[i].span : i \in DOMAIN records}

\* The spans that end at these places of a batch.
EndsIn(b, D) == {b[k].span : k \in {j \in D : b[j].kind = "end"}}

\* The spans that end in a batch of which the log sink made this outcome.
Took(outcome) == {i \in 1..Len(calls) : calls[i].op = "write" /\ outcome \in Outcomes(Slog, i)}
EndsTook(outcome) == EndsOf(Took(outcome))

SlogTurn == op = "write" /\ at = Slog

\* The spans whose end its loop has come to in the batch it is in.
InHand == IF SlogTurn THEN EndsIn(Batch, 1..read) ELSE {}

\* Where in the delivered stream the log sink is.
Place == IF op = "write" /\ at <= Slog THEN Len(delivered) - Len(Batch) + read
                                       ELSE Len(delivered)

\* The batch in hand is the tail of what was delivered, and the loop is inside it.
StreamInv ==
  /\ delivered \in Seq(Events) /\ InOrder(delivered)
  /\ op # "none" => calls[Len(calls)].op = op
  /\ op = "write" =>
       /\ Batch \in Seq(Events) /\ Len(Batch) <= Len(delivered)
       /\ \A k \in 1..Len(Batch) : delivered[Len(delivered) - Len(Batch) + k] = Batch[k]
       /\ read \in 0..Len(Batch)
  /\ read = 0 \/ SlogTurn

\* A span whose end the log sink handled has its end in the part it is past.
HeardInv ==
  /\ heard \in Seq(Range(heard))
  /\ \A s \in Ended : \E j \in 1..Place : delivered[j].span = s /\ delivered[j].kind = "end"

\* The map holds what is open, and its cap holds whether or not a span's end arrives.
OpenInv ==
  /\ IsFiniteSet(DOMAIN open)
  /\ Cardinality(DOMAIN open) <= MaxOpen
  /\ DOMAIN open \cap Ended \subseteq panicked

\* Records are those of the ends handled, and each of them can be traced to a batch that
\* the log sink took, to one in which its logger panicked, or to the one it is in.
LogInv ==
  /\ records \in Seq(Range(records))
  /\ \A i, j \in DOMAIN records : records[i].span = records[j].span => i = j
  /\ Ended \ panicked \subseteq Recorded /\ Recorded \subseteq Ended
  /\ EndsTook("ok") \cup InHand \subseteq Recorded
  /\ Recorded \subseteq EndsTook("ok") \cup EndsTook("panic") \cup InHand

\* What Append does to a sequence of anything.
LEMMA Appended ==
  ASSUME NEW s, s \in Seq(Range(s)), NEW x
  PROVE  /\ Append(s, x) \in Seq(Range(Append(s, x)))
         /\ DOMAIN Append(s, x) = DOMAIN s \cup {Len(s) + 1} /\ Len(s) + 1 \notin DOMAIN s
         /\ \A k \in DOMAIN s : Append(s, x)[k] = s[k]
         /\ Append(s, x)[Len(s) + 1] = x
<1>. DEFINE S == Range(s) \cup {x}
            t == Append(s, x)
<1>1. s \in Seq(S)
  <2>1. Len(s) \in Nat /\ s \in [1..Len(s) -> Range(s)] /\ Range(s) \subseteq S
    OBVIOUS
  <2>2. s \in [1..Len(s) -> S]
    BY <2>1
  <2>. QED
    BY <2>1, <2>2, SeqDef
<1>2. t \in Seq(S) /\ Len(t) = Len(s) + 1 /\ Len(s) \in Nat
  BY <1>1
<1>3. /\ DOMAIN s = 1..Len(s) /\ DOMAIN t = 1..Len(s) + 1
      /\ \A k \in 1..Len(s) : t[k] = s[k]
      /\ t[Len(s) + 1] = x
  BY <1>1
<1>4. t \in Seq(Range(t))
  <2>. HIDE DEF t
  <2>1. Len(t) \in Nat /\ t \in [1..Len(t) -> S]
    BY <1>2
  <2>2. t \in [1..Len(t) -> Range(t)]
    BY <2>1 DEF Range
  <2>. QED
    BY <2>1, <2>2, SeqDef
<1>. QED
  BY <1>2, <1>3, <1>4

\* An event handled ends its span if it is an end.
LEMMA HearEvent ==
  ASSUME heard \in Seq(Range(heard)), NEW e, heard' = Append(heard, e)
  PROVE  /\ heard' \in Seq(Range(heard'))
         /\ Ended' = Ended \cup {s \in {e.span} : e.kind = "end"}
<1>1. /\ heard' \in Seq(Range(heard'))
      /\ DOMAIN heard' = DOMAIN heard \cup {Len(heard) + 1} /\ Len(heard) + 1 \notin DOMAIN heard
      /\ \A k \in DOMAIN heard : heard'[k] = heard[k]
      /\ heard'[Len(heard) + 1] = e
  BY Appended
<1>2. \A s : s \in Ended <=> \E j \in DOMAIN heard : heard[j].kind = "end" /\ heard[j].span = s
  BY DEF Ended, Logger!Ended
<1>3. \A s : s \in Ended' <=> \E j \in DOMAIN heard' : heard'[j].kind = "end" /\ heard'[j].span = s
  BY DEF Ended, Logger!Ended
<1>. QED
  BY <1>1, <1>2, <1>3

\* A record more.
LEMMA AddRecord ==
  ASSUME records \in Seq(Range(records)), NEW r, records' = Append(records, r),
         \A i, j \in DOMAIN records : records[i].span = records[j].span => i = j,
         r.span \notin Recorded
  PROVE  /\ records' \in Seq(Range(records'))
         /\ \A i, j \in DOMAIN records' : records'[i].span = records'[j].span => i = j
         /\ Recorded' = Recorded \cup {r.span}
<1>1. /\ records' \in Seq(Range(records'))
      /\ DOMAIN records' = DOMAIN records \cup {Len(records) + 1}
      /\ Len(records) + 1 \notin DOMAIN records
      /\ \A k \in DOMAIN records : records'[k] = records[k]
      /\ records'[Len(records) + 1] = r
  BY Appended
<1>2. \A s : s \in Recorded <=> \E j \in DOMAIN records : records[j].span = s
  BY DEF Recorded
<1>3. \A s : s \in Recorded' <=> \E j \in DOMAIN records' : records'[j].span = s
  BY DEF Recorded
<1>4. \A i, j \in DOMAIN records' : records'[i].span = records'[j].span => i = j
  BY <1>1, <1>2
<1>. QED
  BY <1>1, <1>2, <1>3, <1>4

\* A call that begins has reached nobody.
LEMMA TookBegin ==
  ASSUME TypeInv, Heard, NEW o, NEW b, Begin(o, b)
  PROVE  \A x : EndsTook(x)' = EndsTook(x)
<1>. SUFFICES ASSUME NEW x PROVE EndsTook(x)' = EndsTook(x)
  OBVIOUS
<1>1. /\ calls \in Seq(Call) /\ Len(calls) \in Nat
      /\ Len(calls') = Len(calls) + 1
      /\ \A i \in 1..Len(calls) : calls'[i] = calls[i]
      /\ Slog \in Sinks
  BY FanoutAssumption DEF Begin, TypeInv, TypeOK
<1>2. \A i : Outcomes(Slog, i)' = Outcomes(Slog, i)
  BY DEF Begin, Outcomes
<1>3. Outcomes(Slog, Len(calls) + 1) = {}
  BY <1>1 DEF Heard, Outcomes
<1>4. Took(x)' = Took(x)
  BY <1>1, <1>2, <1>3 DEF Took
<1>5. \A i \in Took(x) : calls'[i].batch = calls[i].batch
  BY <1>1 DEF Took
<1>. QED
  BY <1>4, <1>5 DEF EndsTook, EndsOf

\* A step that reaches no member leaves what the log sink took as it is.
LEMMA TookKept == ASSUME UNCHANGED <<calls, got>> PROVE \A x : EndsTook(x)' = EndsTook(x)
<1>. SUFFICES ASSUME NEW x PROVE EndsTook(x)' = EndsTook(x)
  OBVIOUS
<1>1. Took(x)' = Took(x)
  BY KeptOutcomes DEF Took
<1>. QED
  BY <1>1 DEF EndsTook, EndsOf

\* A member's turn adds to it if it is the log sink's, on a batch.
LEMMA TookReach ==
  ASSUME TypeInv, StreamInv, NEW outcome, Reach(outcome), UNCHANGED calls
  PROVE  \A x : EndsTook(x)' = EndsTook(x) \cup (IF SlogTurn /\ x = outcome
                                                 THEN EndsIn(Batch, DOMAIN Batch) ELSE {})
<1>. SUFFICES ASSUME NEW x
     PROVE  EndsTook(x)' = EndsTook(x) \cup (IF SlogTurn /\ x = outcome
                                            THEN EndsIn(Batch, DOMAIN Batch) ELSE {})
  OBVIOUS
<1>1. /\ Len(calls) \in Nat /\ Len(calls) >= 1
      /\ calls[Len(calls)].op = op
      /\ Slog \in Sinks
  BY FanoutAssumption, EmptySeq, LenProperties DEF Reach, StreamInv, TypeInv, TypeOK, Placed
<1>2. \A i \in 1..Len(calls) : Outcomes(Slog, i)' = IF Slog = at /\ i = Len(calls)
                                                    THEN Outcomes(Slog, i) \cup {outcome}
                                                    ELSE Outcomes(Slog, i)
  BY <1>1, ReachOutcomes
<1>3. Took(x)' = Took(x) \cup {i \in {Len(calls)} : SlogTurn /\ x = outcome}
  BY <1>1, <1>2 DEF Took, SlogTurn
<1>. DEFINE E(i) == EndsIn(calls[i].batch, DOMAIN calls[i].batch)
<1>4. EndsTook(x) = UNION {E(i) : i \in Took(x)} /\ EndsTook(x)' = UNION {E(i) : i \in Took(x)'}
  BY DEF EndsTook, EndsOf, EndsIn
<1>5. E(Len(calls)) = EndsIn(Batch, DOMAIN Batch)
  BY DEF Batch
<1>. HIDE DEF E
<1>6. CASE SlogTurn /\ x = outcome
  <2>1. Took(x)' = Took(x) \cup {Len(calls)}
    BY <1>3, <1>6
  <2>. QED
    BY <1>4, <1>5, <1>6, <2>1
<1>7. CASE ~(SlogTurn /\ x = outcome)
  <2>1. Took(x)' = Took(x)
    BY <1>3, <1>7
  <2>2. EndsTook(x)' = EndsTook(x)
    BY <1>4, <2>1
  <2>. QED
    BY <1>7, <2>2
<1>. QED
  BY <1>6, <1>7

\* The batch in hand stays the tail of what was delivered.
LEMMA StreamStep == ASSUME TypeInv, StreamInv, [FanoutNext]_vars PROVE StreamInv'
<1>1. calls \in Seq(Call) /\ Len(calls) \in Nat /\ at \in Nat /\ Slog \in Sinks
  BY FanoutAssumption, MultiSinkAssumption DEF TypeInv, TypeOK, Sinks
<1>2. ASSUME NEW o \in Ops, NEW b, Begin(o, b)
      PROVE  /\ op = "none" /\ op' = o /\ calls'[Len(calls')].op = o /\ Batch' = b
             /\ read = 0
  BY <1>1, <1>2 DEF Begin, Batch, StreamInv, SlogTurn, Ops
<1>3. ASSUME NEW b \in Batches, Deliver(b) PROVE StreamInv'
  <2>1. Begin("write", b) /\ read' = read /\ delivered' = delivered \o b /\ InOrder(delivered')
    BY <1>3 DEF Deliver, WriteBatch, logVars
  <2>2. op' = "write" /\ calls'[Len(calls')].op = "write" /\ Batch' = b /\ read' = 0
    BY <1>2, <2>1 DEF Ops
  <2>3. b \in Seq(Events) /\ delivered \in Seq(Events)
    BY FanoutAssumption DEF StreamInv
  <2>4. /\ delivered' \in Seq(Events) /\ Len(b) <= Len(delivered') /\ Len(b) \in Nat
        /\ Len(delivered') - Len(b) = Len(delivered)
        /\ \A k \in 1..Len(b) : delivered'[Len(delivered) + k] = b[k]
    BY <2>1, <2>3
  <2>. QED
    BY <2>1, <2>2, <2>3, <2>4 DEF StreamInv
<1>4. CASE FlushAll \/ CloseAll
  <2>1. PICK o \in {"flush", "close"} : Begin(o, <<>>)
    BY <1>4 DEF FlushAll, CloseAll, Flush, Close
  <2>2. o \in Ops /\ UNCHANGED <<read, delivered>>
    BY <1>4 DEF FlushAll, CloseAll, logVars, Ops
  <2>3. op' = o /\ calls'[Len(calls')].op = o /\ read' = 0
    BY <1>2, <2>1, <2>2
  <2>. QED
    BY <2>2, <2>3 DEF StreamInv
<1>5. ASSUME UNCHANGED <<calls, delivered>>, op' \in {op, "none"},
             read' = 0 \/ (SlogTurn /\ UNCHANGED <<op, at>> /\ read' \in 1..Len(Batch))
      PROVE  StreamInv'
  <2>1. Batch' = Batch
    BY <1>5 DEF Batch
  <2>2. op' # "none" => op' = op /\ calls'[Len(calls')].op = op'
    BY <1>5 DEF StreamInv
  <2>3. op' = "write" => read' \in 0..Len(Batch)
    <3>1. op' = "write" => Len(Batch) \in Nat
      BY <2>2 DEF StreamInv
    <3>. QED
      BY <1>5, <3>1
  <2>4. read' = 0 \/ SlogTurn'
    BY <1>5 DEF SlogTurn
  <2>. QED
    BY <1>5, <2>1, <2>2, <2>3, <2>4 DEF StreamInv
<1>6. ASSUME NEW outcome \in {"ok", "error"}, OtherReturns(outcome) PROVE StreamInv'
  <2>1. UNCHANGED <<op, calls, delivered, read>>
    BY <1>6 DEF OtherReturns, MemberReturns, logVars
  <2>2. read = 0
    BY <1>6 DEF OtherReturns, StreamInv, SlogTurn
  <2>. QED
    BY <1>5, <2>1, <2>2
<1>7. CASE OtherPanics
  BY <1>5, <1>7 DEF OtherPanics, MemberPanics, Leave, logVars, StreamInv, SlogTurn
<1>8. CASE SlogEvent
  <2>1. SlogTurn /\ read' = read + 1 /\ UNCHANGED <<op, at, calls, delivered>>
    BY <1>8 DEF SlogEvent, InLoop, SlogTurn, multiVars
  <2>2. read < Len(Batch) /\ read \in Nat /\ Len(Batch) \in Nat
    BY <1>8, <2>1 DEF SlogEvent, InLoop, StreamInv, SlogTurn
  <2>. QED
    BY <1>5, <2>1, <2>2
<1>9. CASE SlogPanics
  <2>1. UNCHANGED <<calls, delivered>> /\ op' = "none" /\ read' = 0
    BY <1>9 DEF SlogPanics, MemberPanics, Leave
  <2>. QED
    BY <1>5, <2>1
<1>10. CASE SlogReturns
  <2>1. UNCHANGED <<op, calls, delivered>> /\ read' = 0
    BY <1>10 DEF SlogReturns, MemberReturns
  <2>. QED
    BY <1>5, <2>1
<1>11. CASE SlogFlush \/ SlogClose
  BY <1>5, <1>11 DEF SlogFlush, SlogClose, MemberReturns, logVars, StreamInv, SlogTurn
<1>12. CASE ReturnAll
  <2>1. ~SlogTurn
    BY <1>1, <1>12, MultiSinkAssumption DEF ReturnAll, Return, SlogTurn, Sinks
  <2>. QED
    BY <1>5, <1>12, <2>1 DEF ReturnAll, Return, Leave, logVars, StreamInv
<1>13. CASE UNCHANGED vars
  <2>1. UNCHANGED <<op, at, calls, delivered, read>>
    BY <1>13 DEF vars, logVars, multiVars
  <2>2. Batch' = Batch
    BY <2>1 DEF Batch
  <2>. QED
    BY <2>1, <2>2 DEF StreamInv, SlogTurn
<1>. QED
  BY <1>3, <1>4, <1>6, <1>7, <1>8, <1>9, <1>10, <1>11, <1>12, <1>13 DEF FanoutNext

\* The log sink is somewhere in the delivered stream.
LEMMA PlaceInStream == ASSUME StreamInv PROVE Place \in 0..Len(delivered) /\ Len(delivered) \in Nat
<1>1. Len(delivered) \in Nat
  BY DEF StreamInv
<1>2. CASE op = "write" /\ at <= Slog
  <2>1. Len(Batch) \in Nat /\ Len(Batch) <= Len(delivered) /\ read \in 0..Len(Batch)
    BY <1>2 DEF StreamInv
  <2>. QED
    BY <1>1, <1>2, <2>1 DEF Place
<1>. QED
  BY <1>1, <1>2 DEF Place

\* The event in hand comes right after that place, and its span has not ended before.
LEMMA NextEvent ==
  ASSUME StreamInv, HeardInv, InLoop
  PROVE  /\ SlogTurn /\ read \in Nat /\ Len(Batch) \in Nat /\ read < Len(Batch)
         /\ Batch \in Seq(Events)
         /\ Place + 1 \in 1..Len(delivered) /\ delivered[Place + 1] = Event
         /\ Event.span \notin Ended
<1>1. SlogTurn /\ op = "write" /\ Place = Len(delivered) - Len(Batch) + read
  <2>1. at <= Slog
    BY FanoutAssumption, MultiSinkAssumption DEF InLoop, Sinks
  <2>. QED
    BY <2>1 DEF InLoop, SlogTurn, Place
<1>2. /\ read \in Nat /\ Len(Batch) \in Nat /\ read < Len(Batch) /\ Batch \in Seq(Events)
      /\ Len(delivered) \in Nat /\ Len(Batch) <= Len(delivered)
      /\ \A k \in 1..Len(Batch) : delivered[Len(delivered) - Len(Batch) + k] = Batch[k]
  BY <1>1 DEF StreamInv, InLoop
<1>3. Place + 1 = Len(delivered) - Len(Batch) + (read + 1) /\ read + 1 \in 1..Len(Batch)
  BY <1>1, <1>2
<1>4. Place + 1 \in 1..Len(delivered) /\ Place \in Nat /\ delivered[Place + 1] = Event
  <2>1. delivered[Len(delivered) - Len(Batch) + (read + 1)] = Batch[read + 1]
    BY <1>2, <1>3
  <2>2. Len(delivered) - Len(Batch) + (read + 1) \in 1..Len(delivered)
    BY <1>2, <1>3
  <2>3. Place \in Nat
    BY <1>1, <1>2
  <2>. QED
    BY <1>3, <2>1, <2>2, <2>3 DEF Event
<1>5. Event.span \notin Ended
  <2>1. SUFFICES ASSUME NEW j \in 1..Place, delivered[j].span = Event.span,
                        delivered[j].kind = "end"
        PROVE  FALSE
    BY DEF HeardInv
  <2>2. j \in DOMAIN delivered /\ Place + 1 \in DOMAIN delivered /\ j < Place + 1
    BY <1>4 DEF StreamInv
  <2>. QED
    BY <1>4, <2>1, <2>2 DEF StreamInv, InOrder
<1>. QED
  BY <1>1, <1>2, <1>4, <1>5

\* A step that does not handle an event takes the log sink no further back, and leaves what
\* it heard and logged alone; Close empties the map.
LEMMA QuietStep ==
  ASSUME TypeInv, StreamInv, [FanoutNext]_vars, ~SlogEvent, ~SlogPanics
  PROVE  /\ UNCHANGED <<records, heard, crowded, panicked>>
         /\ open' \in {open, [s \in {} |-> <<>>]}
         /\ \A j \in 1..Place : j \in 1..Place' /\ delivered'[j] = delivered[j]
<1>1. Slog \in Nat /\ at \in Nat /\ Slog >= 1 /\ Slog <= Members /\ Members \in Nat
  BY FanoutAssumption, MultiSinkAssumption DEF TypeInv, TypeOK, Sinks
<1>2. Place \in 0..Len(delivered) /\ Len(delivered) \in Nat
  BY PlaceInStream
<1>3. UNCHANGED <<records, heard, crowded, panicked>> /\ open' \in {open, [s \in {} |-> <<>>]}
  BY DEF FanoutNext, Deliver, FlushAll, CloseAll, OtherReturns, OtherPanics, SlogReturns,
         SlogFlush, SlogClose, ReturnAll, Logger!Close, vars, logVars, slogVars
<1>. SUFFICES \A j \in 1..Place : j \in 1..Place' /\ delivered'[j] = delivered[j]
  BY <1>3
<1>4. ASSUME NEW b \in Batches, Deliver(b)
      PROVE  \A j \in 1..Place : j \in 1..Place' /\ delivered'[j] = delivered[j]
  <2>1. /\ Begin("write", b) /\ delivered' = delivered \o b /\ UNCHANGED read
        /\ op = "none" /\ op' = "write" /\ UNCHANGED at
        /\ calls' = Append(calls, [op |-> "write", batch |-> b])
    BY <1>4 DEF Deliver, WriteBatch, logVars, Begin
  <2>2. Batch' = b /\ calls \in Seq(Call)
    BY <2>1 DEF Batch, TypeInv, TypeOK
  <2>3. b \in Seq(Events) /\ delivered \in Seq(Events) /\ read = 0 /\ at = 1
    BY <2>1, FanoutAssumption DEF StreamInv, SlogTurn, TypeInv, Placed
  <2>4. /\ Len(delivered') = Len(delivered) + Len(b) /\ Len(b) \in Nat
        /\ \A j \in 1..Len(delivered) : delivered'[j] = delivered[j]
    BY <2>1, <2>3
  <2>5. Place' = Len(delivered')  - Len(b) + 0
    BY <1>1, <2>1, <2>2, <2>3 DEF Place
  <2>. QED
    BY <1>2, <2>4, <2>5
<1>5. ASSUME UNCHANGED delivered, Place' \in {Place, Len(delivered)}
      PROVE  \A j \in 1..Place : j \in 1..Place' /\ delivered'[j] = delivered[j]
  BY <1>2, <1>5
<1>6. ASSUME UNCHANGED delivered, op' # "write" PROVE Place' \in {Place, Len(delivered)}
  BY <1>6 DEF Place
<1>7. ASSUME UNCHANGED <<delivered, calls, read>>, op' = op,
             UNCHANGED at \/ (at # Slog /\ at' = at + 1)
      PROVE  Place' \in {Place, Len(delivered)}
  <2>1. Batch' = Batch
    BY <1>7 DEF Batch
  <2>2. at' \in Nat /\ (at <= Slog <=> at' <= Slog)
    BY <1>1, <1>7
  <2>. QED
    BY <1>7, <2>1, <2>2 DEF Place
<1>8. CASE FlushAll \/ CloseAll
  <2>1. UNCHANGED delivered /\ op' \in {"flush", "close"}
    BY <1>8 DEF FlushAll, CloseAll, Flush, Close, Begin
  <2>2. op' # "write"
    BY <2>1
  <2>. QED
    BY <1>5, <1>6, <2>1, <2>2
<1>9. ASSUME NEW outcome \in {"ok", "error"}, OtherReturns(outcome)
      PROVE  \A j \in 1..Place : j \in 1..Place' /\ delivered'[j] = delivered[j]
  <2>1. UNCHANGED <<delivered, calls, read>> /\ op' = op /\ at # Slog /\ at' = at + 1
    BY <1>9 DEF OtherReturns, MemberReturns, NextMember, logVars
  <2>. QED
    BY <1>5, <1>7, <2>1
<1>10. CASE OtherPanics \/ ReturnAll
  <2>1. UNCHANGED delivered /\ op' = "none"
    BY <1>10 DEF OtherPanics, MemberPanics, ReturnAll, Return, Leave
  <2>2. op' # "write"
    BY <2>1
  <2>. QED
    BY <1>5, <1>6, <2>1, <2>2
<1>11. CASE SlogReturns
  <2>1. UNCHANGED delivered /\ at' = Slog + 1
    BY <1>11 DEF SlogReturns, MemberReturns, NextMember
  <2>2. Place' \in {Place, Len(delivered)}
    BY <1>1, <2>1 DEF Place
  <2>. QED
    BY <1>5, <2>1, <2>2
<1>12. CASE SlogFlush \/ SlogClose
  <2>1. UNCHANGED delivered /\ op' \in {"flush", "close"}
    BY <1>12 DEF SlogFlush, SlogClose, MemberReturns
  <2>2. op' # "write"
    BY <2>1
  <2>. QED
    BY <1>5, <1>6, <2>1, <2>2
<1>13. CASE UNCHANGED vars
  <2>1. UNCHANGED <<delivered, calls, read, op, at>>
    BY <1>13 DEF vars, logVars, multiVars
  <2>. QED
    BY <1>5, <1>7, <2>1
<1>. QED
  BY <1>4, <1>8, <1>9, <1>10, <1>11, <1>12, <1>13 DEF FanoutNext

\* What the log sink heard was delivered, up to where it is.
LEMMA HeardStep == ASSUME TypeInv, StreamInv, HeardInv, [FanoutNext]_vars PROVE HeardInv'
<1>1. CASE SlogEvent \/ SlogPanics
  <2>1. PICK e : e = Event
    OBVIOUS
  <2>2. InLoop /\ heard' = Append(heard, e)
    BY <1>1, <2>1 DEF SlogEvent, SlogPanics, Logger!Track, Logger!TrackNew, Logger!Crowd,
                      Logger!Emit, Logger!LoggerPanics, Logger!Hear
  <2>3. heard' \in Seq(Range(heard')) /\ Ended' = Ended \cup {s \in {e.span} : e.kind = "end"}
    BY <2>2, HearEvent DEF HeardInv
  <2>4. Place \in 0..Len(delivered) /\ Place + 1 \in 1..Len(delivered) /\ delivered[Place + 1] = e
    BY <2>1, <2>2, NextEvent, PlaceInStream
  <2>5. UNCHANGED delivered /\ Place' \in Place + 1..Len(delivered)
    <3>1. CASE SlogEvent
      <4>1. UNCHANGED <<op, at, calls, delivered>> /\ read' = read + 1
        BY <3>1 DEF SlogEvent, multiVars
      <4>2. /\ op = "write" /\ at <= Slog
            /\ read \in Nat /\ Len(Batch) \in Nat /\ Len(delivered) \in Nat
        <5>1. at \in Nat /\ op = "write" /\ at = Slog
          BY <2>2, FanoutAssumption, MultiSinkAssumption DEF InLoop, Sinks
        <5>. QED
          BY <2>2, <5>1, NextEvent, PlaceInStream
      <4>3. Batch' = Batch
        BY <4>1 DEF Batch
      <4>4. Place' = Place + 1
        BY <4>1, <4>2, <4>3 DEF Place
      <4>. QED
        BY <2>4, <4>1, <4>4
    <3>2. CASE SlogPanics
      <4>1. UNCHANGED delivered /\ Place' = Len(delivered)
        BY <3>2 DEF SlogPanics, MemberPanics, Leave, Place
      <4>. QED
        BY <2>4, <4>1
    <3>. QED
      BY <1>1, <3>1, <3>2
  <2>6. ASSUME NEW s \in Ended'
        PROVE  \E j \in 1..Place' : delivered[j].span = s /\ delivered[j].kind = "end"
    <3>1. CASE s \in Ended
      <4>1. PICK j \in 1..Place : delivered[j].span = s /\ delivered[j].kind = "end"
        BY <3>1 DEF HeardInv
      <4>2. j \in 1..Place'
        BY <2>4, <2>5
      <4>. QED
        BY <4>1, <4>2
    <3>2. CASE s = e.span /\ e.kind = "end"
      <4>1. Place + 1 \in 1..Place'
        BY <2>4, <2>5
      <4>. QED
        BY <2>4, <3>2, <4>1
    <3>. QED
      BY <2>3, <3>1, <3>2
  <2>. QED
    BY <2>3, <2>5, <2>6 DEF HeardInv
<1>2. CASE ~SlogEvent /\ ~SlogPanics
  <2>1. UNCHANGED heard /\ \A j \in 1..Place : j \in 1..Place' /\ delivered'[j] = delivered[j]
    BY <1>2, QuietStep
  <2>2. Ended' = Ended
    BY <2>1 DEF Ended, Logger!Ended
  <2>. QED
    BY <2>1, <2>2 DEF HeardInv
<1>. QED
  BY <1>1, <1>2

\* The log sink counts as this module does.
LEMMA SameCardinality == \A S : Logger!Cardinality(S) = Cardinality(S)
BY DEF Logger!Cardinality, Cardinality

\* A span enters the map below the cap and before its end, and leaves it at its end.
LEMMA OpenStep ==
  ASSUME TypeInv, StreamInv, HeardInv, OpenInv, [FanoutNext]_vars
  PROVE  OpenInv'
<1>1. CASE SlogEvent \/ SlogPanics
  <2>1. PICK e : e = Event
    OBVIOUS
  <2>2. InLoop /\ e.span \notin Ended
    BY <1>1, <2>1, NextEvent DEF SlogEvent, SlogPanics
  <2>3. ASSUME heard' = Append(heard, e)
        PROVE  Ended' = Ended \cup {s \in {e.span} : e.kind = "end"}
    BY <2>3, HearEvent DEF HeardInv
  <2>4. CASE SlogEvent /\ Logger!Track(e)
    <3>1. Ended' = Ended
      BY <2>3, <2>4 DEF Logger!Track, Logger!Hear
    <3>2. DOMAIN open' = DOMAIN open /\ UNCHANGED panicked
      BY <2>4 DEF Logger!Track
    <3>. QED
      BY <3>1, <3>2 DEF OpenInv
  <2>5. CASE SlogEvent /\ Logger!TrackNew(e)
    <3>1. Ended' = Ended
      BY <2>3, <2>5 DEF Logger!TrackNew, Logger!Hear
    <3>2. DOMAIN open' = DOMAIN open \cup {e.span} /\ UNCHANGED panicked
      BY <2>5 DEF Logger!TrackNew
    <3>3. e.span \notin DOMAIN open /\ ~(Cardinality(DOMAIN open) >= MaxOpen)
      BY <2>5, SameCardinality DEF Logger!TrackNew, Logger!AtCap
    <3>4. /\ IsFiniteSet(DOMAIN open \cup {e.span})
          /\ Cardinality(DOMAIN open \cup {e.span}) = Cardinality(DOMAIN open) + 1
          /\ Cardinality(DOMAIN open) \in Nat
      BY <3>3, FS_AddElement, FS_CardinalityType DEF OpenInv
    <3>5. Cardinality(DOMAIN open \cup {e.span}) <= MaxOpen
      BY <3>3, <3>4, FanoutAssumption
    <3>. QED
      BY <2>2, <3>1, <3>2, <3>4, <3>5 DEF OpenInv
  <2>6. CASE SlogEvent /\ Logger!Crowd(e)
    <3>1. Ended' = Ended
      BY <2>3, <2>6 DEF Logger!Crowd, Logger!Hear
    <3>2. UNCHANGED <<open, panicked>>
      BY <2>6 DEF Logger!Crowd
    <3>. QED
      BY <3>1, <3>2 DEF OpenInv
  <2>7. CASE SlogEvent /\ Logger!Emit(e)
    <3>1. Ended' = Ended \cup {e.span}
      BY <2>3, <2>7 DEF Logger!Emit, Logger!Hear
    <3>2. DOMAIN open' = DOMAIN open \ {e.span} /\ UNCHANGED panicked
      BY <2>7 DEF Logger!Emit, Logger!Closed
    <3>3. /\ IsFiniteSet(DOMAIN open \ {e.span})
          /\ Cardinality(DOMAIN open \ {e.span}) <= Cardinality(DOMAIN open)
          /\ Cardinality(DOMAIN open) \in Nat
          /\ Cardinality(DOMAIN open \ {e.span}) \in Nat
      BY FS_Subset, FS_CardinalityType DEF OpenInv
    <3>4. Cardinality(DOMAIN open \ {e.span}) <= MaxOpen
      BY <3>3, FanoutAssumption DEF OpenInv
    <3>. QED
      BY <3>1, <3>2, <3>3, <3>4 DEF OpenInv
  <2>8. CASE SlogPanics
    <3>1. Logger!LoggerPanics(e)
      BY <2>1, <2>8 DEF SlogPanics
    <3>2. Ended' = Ended \cup {e.span}
      BY <2>3, <3>1 DEF Logger!LoggerPanics, Logger!Hear
    <3>3. UNCHANGED open /\ panicked' = panicked \cup {e.span}
      BY <3>1 DEF Logger!LoggerPanics
    <3>. QED
      BY <3>2, <3>3 DEF OpenInv
  <2>. QED
    BY <1>1, <2>1, <2>4, <2>5, <2>6, <2>7, <2>8 DEF SlogEvent
<1>2. CASE ~SlogEvent /\ ~SlogPanics
  <2>1. UNCHANGED <<heard, panicked>> /\ open' \in {open, [s \in {} |-> <<>>]}
    BY <1>2, QuietStep
  <2>2. Ended' = Ended
    BY <2>1 DEF Ended, Logger!Ended
  <2>3. DOMAIN [s \in {} |-> <<>>] = {}
    OBVIOUS
  <2>. QED
    BY <2>1, <2>2, <2>3, FS_EmptySet, FanoutAssumption DEF OpenInv
<1>. QED
  BY <1>1, <1>2

\* A step that does not handle an event moves spans at most from the batch in hand to
\* those the log sink took.
LEMMA QuietTook ==
  ASSUME TypeInv, Heard, StreamInv, [FanoutNext]_vars, ~SlogEvent, ~SlogPanics
  PROVE  /\ EndsTook("ok")' \cup InHand' = EndsTook("ok") \cup InHand
         /\ EndsTook("panic")' = EndsTook("panic")
<1>1. at \in Nat /\ Slog \in Nat /\ Members \in Nat /\ Slog <= Members
  BY FanoutAssumption, MultiSinkAssumption DEF TypeInv, TypeOK, Sinks
<1>2. ~SlogTurn => read = 0 /\ InHand = {}
  BY DEF StreamInv, InHand
<1>3. read' = 0 \/ ~SlogTurn' => InHand' = {}
  BY DEF InHand, EndsIn
<1>4. ASSUME NEW o, NEW b, Begin(o, b), UNCHANGED read
      PROVE  /\ EndsTook("ok")' \cup InHand' = EndsTook("ok") \cup InHand
             /\ EndsTook("panic")' = EndsTook("panic")
  <2>1. ~SlogTurn
    BY <1>4 DEF Begin, SlogTurn
  <2>. QED
    BY <1>2, <1>3, <1>4, <2>1, TookBegin
<1>5. ASSUME NEW outcome, Reach(outcome), UNCHANGED calls, ~SlogTurn, read' = 0
      PROVE  /\ EndsTook("ok")' \cup InHand' = EndsTook("ok") \cup InHand
             /\ EndsTook("panic")' = EndsTook("panic")
  BY <1>2, <1>3, <1>5, TookReach
<1>6. ASSUME NEW b \in Batches, Deliver(b)
      PROVE  /\ EndsTook("ok")' \cup InHand' = EndsTook("ok") \cup InHand
             /\ EndsTook("panic")' = EndsTook("panic")
  BY <1>4, <1>6 DEF Deliver, WriteBatch, logVars
<1>7. CASE FlushAll \/ CloseAll
  BY <1>4, <1>7 DEF FlushAll, CloseAll, Flush, Close, logVars
<1>8. ASSUME NEW outcome \in {"ok", "error"}, OtherReturns(outcome)
      PROVE  /\ EndsTook("ok")' \cup InHand' = EndsTook("ok") \cup InHand
             /\ EndsTook("panic")' = EndsTook("panic")
  <2>1. Reach(outcome) /\ UNCHANGED <<calls, read>> /\ ~SlogTurn
    BY <1>8 DEF OtherReturns, MemberReturns, logVars, SlogTurn
  <2>. QED
    BY <1>2, <1>5, <2>1
<1>9. CASE OtherPanics
  <2>1. Reach("panic") /\ UNCHANGED <<calls, read>> /\ ~SlogTurn
    BY <1>9 DEF OtherPanics, MemberPanics, Leave, logVars, SlogTurn
  <2>. QED
    BY <1>2, <1>5, <2>1
<1>10. CASE SlogReturns
  <2>1. /\ SlogTurn /\ read = Len(Batch) /\ read' = 0 /\ UNCHANGED calls
        /\ Reach("ok")
    BY <1>10 DEF SlogReturns, MemberReturns, SlogTurn
  <2>2. InHand = EndsIn(Batch, DOMAIN Batch)
    <3>1. DOMAIN Batch = 1..read
      BY <2>1 DEF StreamInv, SlogTurn
    <3>. QED
      BY <2>1, <3>1 DEF InHand
  <2>3. \A x : EndsTook(x)' = EndsTook(x) \cup (IF SlogTurn /\ x = "ok"
                                               THEN EndsIn(Batch, DOMAIN Batch) ELSE {})
    BY <2>1, TookReach
  <2>4. /\ EndsTook("ok")' = EndsTook("ok") \cup EndsIn(Batch, DOMAIN Batch)
        /\ EndsTook("panic")' = EndsTook("panic")
    BY <2>1, <2>3
  <2>. QED
    BY <1>3, <2>1, <2>2, <2>4
<1>11. CASE SlogFlush \/ SlogClose
  <2>1. Reach("ok") /\ UNCHANGED <<calls, read>> /\ ~SlogTurn
    BY <1>11 DEF SlogFlush, SlogClose, MemberReturns, logVars, SlogTurn
  <2>. QED
    BY <1>2, <1>5, <2>1
<1>12. CASE ReturnAll
  <2>1. ~SlogTurn /\ UNCHANGED <<calls, got>> /\ op' = "none"
    BY <1>1, <1>12 DEF ReturnAll, Return, Leave, SlogTurn
  <2>2. ~SlogTurn'
    BY <2>1 DEF SlogTurn
  <2>. QED
    BY <1>2, <1>3, <2>1, <2>2, TookKept
<1>13. CASE UNCHANGED vars
  <2>1. UNCHANGED <<op, at, calls, got, read>>
    BY <1>13 DEF vars, logVars, multiVars
  <2>2. InHand' = InHand
    BY <2>1 DEF InHand, SlogTurn, Batch
  <2>. QED
    BY <2>1, <2>2, TookKept
<1>. QED
  BY <1>6, <1>7, <1>8, <1>9, <1>10, <1>11, <1>12, <1>13 DEF FanoutNext

\* A record is added at an end, and only there.
LEMMA LogStep ==
  ASSUME TypeInv, Heard, StreamInv, HeardInv, LogInv, [FanoutNext]_vars
  PROVE  LogInv'
<1>1. CASE SlogEvent \/ SlogPanics
  <2>1. PICK e : e = Event
    OBVIOUS
  <2>2. /\ SlogTurn /\ read \in Nat /\ read < Len(Batch) /\ Len(Batch) \in Nat
        /\ Batch \in Seq(Events)
        /\ e = Batch[read + 1] /\ e.span \notin Ended /\ e.span \notin Recorded
    BY <1>1, <2>1, NextEvent DEF SlogEvent, SlogPanics, Event, LogInv
  <2>3. ASSUME heard' = Append(heard, e)
        PROVE  Ended' = Ended \cup {s \in {e.span} : e.kind = "end"}
    BY <2>3, HearEvent DEF HeardInv
  <2>4. EndsIn(Batch, 1..(read + 1)) = EndsIn(Batch, 1..read) \cup {s \in {e.span} : e.kind = "end"}
    <3>1. 1..(read + 1) = 1..read \cup {read + 1}
      BY <2>2
    <3>. QED
      BY <2>2, <3>1 DEF EndsIn
  <2>5. InHand = EndsIn(Batch, 1..read)
    BY <2>2 DEF InHand
  <2>6. CASE SlogEvent
    <3>1. UNCHANGED <<op, at, calls, got>> /\ read' = read + 1
      BY <2>6 DEF SlogEvent, multiVars
    <3>2. InHand' = InHand \cup {s \in {e.span} : e.kind = "end"}
      BY <2>2, <2>4, <2>5, <3>1 DEF InHand, SlogTurn, Batch
    <3>3. EndsTook("ok")' = EndsTook("ok") /\ EndsTook("panic")' = EndsTook("panic")
      BY <3>1, TookKept
    <3>4. CASE Logger!Track(e) \/ Logger!TrackNew(e) \/ Logger!Crowd(e)
      <4>1. e.kind # "end" /\ heard' = Append(heard, e) /\ UNCHANGED <<records, panicked>>
        BY <3>4 DEF Logger!Track, Logger!TrackNew, Logger!Crowd, Logger!Hear
      <4>2. Ended' = Ended /\ InHand' = InHand
        BY <2>3, <3>2, <4>1
      <4>3. Recorded' = Recorded
        BY <4>1 DEF Recorded
      <4>. QED
        BY <3>3, <4>1, <4>2, <4>3 DEF LogInv
    <3>5. CASE Logger!Emit(e)
      <4>1. /\ e.kind = "end" /\ heard' = Append(heard, e) /\ UNCHANGED panicked
            /\ records' = Append(records, Logger!Record(e))
        BY <3>5 DEF Logger!Emit, Logger!Hear, Logger!Logged
      <4>2. Ended' = Ended \cup {e.span} /\ InHand' = InHand \cup {e.span}
        BY <2>3, <3>2, <4>1
      <4>3. PICK r : r = Logger!Record(e)
        OBVIOUS
      <4>4. r.span = e.span
        BY <4>3 DEF Logger!Record
      <4>5. /\ records' \in Seq(Range(records'))
            /\ \A i, j \in DOMAIN records' : records'[i].span = records'[j].span => i = j
            /\ Recorded' = Recorded \cup {e.span}
        BY <2>2, <4>1, <4>3, <4>4, AddRecord DEF LogInv
      <4>. QED
        BY <3>3, <4>1, <4>2, <4>5 DEF LogInv
    <3>. QED
      BY <2>1, <2>6, <3>4, <3>5 DEF SlogEvent
  <2>7. CASE SlogPanics
    <3>1. Logger!LoggerPanics(e) /\ Reach("panic") /\ UNCHANGED calls /\ op' = "none"
      BY <2>1, <2>7 DEF SlogPanics, MemberPanics, Leave
    <3>2. /\ e.kind = "end" /\ heard' = Append(heard, e) /\ panicked' = panicked \cup {e.span}
          /\ records' = records \/ records' = Append(records, Logger!Record(e))
      BY <3>1 DEF Logger!LoggerPanics, Logger!Hear, Logger!Logged
    <3>3. Ended' = Ended \cup {e.span} /\ InHand' = {}
      BY <2>3, <3>1, <3>2 DEF InHand, SlogTurn
    <3>4. EndsTook("ok")' = EndsTook("ok")
          /\ EndsTook("panic")' = EndsTook("panic") \cup EndsIn(Batch, DOMAIN Batch)
      <4>1. \A x : EndsTook(x)' = EndsTook(x) \cup (IF SlogTurn /\ x = "panic"
                                                   THEN EndsIn(Batch, DOMAIN Batch) ELSE {})
        BY <3>1, TookReach
      <4>. QED
        BY <2>2, <4>1
    <3>5. InHand \cup {e.span} \subseteq EndsIn(Batch, DOMAIN Batch)
      <4>1. 1..(read + 1) \subseteq DOMAIN Batch
        BY <2>2
      <4>2. EndsIn(Batch, 1..(read + 1)) \subseteq EndsIn(Batch, DOMAIN Batch)
        BY <4>1 DEF EndsIn
      <4>. QED
        BY <2>4, <2>5, <3>2, <4>2
    <3>6. /\ records' \in Seq(Range(records'))
          /\ \A i, j \in DOMAIN records' : records'[i].span = records'[j].span => i = j
          /\ Recorded' \in {Recorded, Recorded \cup {e.span}}
      <4>1. CASE records' = records
        BY <4>1 DEF LogInv, Recorded
      <4>2. CASE records' = Append(records, Logger!Record(e))
        <5>1. PICK r : r = Logger!Record(e)
          OBVIOUS
        <5>2. r.span = e.span
          BY <5>1 DEF Logger!Record
        <5>. QED
          BY <2>2, <4>2, <5>1, <5>2, AddRecord DEF LogInv
      <4>. QED
        BY <3>2, <4>1, <4>2
    <3>. QED
      BY <3>2, <3>3, <3>4, <3>5, <3>6 DEF LogInv
  <2>. QED
    BY <1>1, <2>6, <2>7
<1>2. CASE ~SlogEvent /\ ~SlogPanics
  <2>1. UNCHANGED <<records, heard, panicked>>
    BY <1>2, QuietStep
  <2>2. Ended' = Ended /\ Recorded' = Recorded
    BY <2>1 DEF Ended, Logger!Ended, Recorded
  <2>3. /\ EndsTook("ok")' \cup InHand' = EndsTook("ok") \cup InHand
        /\ EndsTook("panic")' = EndsTook("panic")
    BY <1>2, QuietTook
  <2>. QED
    BY <2>1, <2>2, <2>3 DEF LogInv
<1>. QED
  BY <1>1, <1>2

-----------------------------------------------------------------------------
(* The attributes of a record                                              *)

\* One attribute more in a merge (slog_sink.go:117-129).
MergeStep(m, a) ==
  IF \E i \in DOMAIN m : m[i].key = a.key
    THEN [i \in DOMAIN m |-> IF m[i].key = a.key THEN a ELSE m[i]]
    ELSE Append(m, a)

\* It keeps a sequence of attributes one.
LEMMA MergeStepType ==
  ASSUME NEW X, NEW m \in Seq(X), NEW a \in X
  PROVE  MergeStep(m, a) \in Seq(X)
<1>. DEFINE n == Len(m)
            g == [i \in 1..n |-> IF m[i].key = a.key THEN a ELSE m[i]]
<1>1. n \in Nat /\ DOMAIN m = 1..n /\ \A i \in 1..n : m[i] \in X
  BY LenProperties, ElementOfSeq
<1>2. g \in Seq(X)
  <2>1. g \in [1..n -> X]
    BY <1>1
  <2>. HIDE DEF g, n
  <2>. QED
    BY <1>1, <2>1, SeqDef
<1>3. Append(m, a) \in Seq(X)
  BY AppendProperties
<1>. QED
  BY <1>1, <1>2, <1>3 DEF MergeStep

\* mergeLastWins takes the attributes one after the other.
LEMMA MergeRun ==
  ASSUME NEW X, NEW w \in Seq(X)
  PROVE  \E r : /\ r[0] = <<>> /\ Logger!mergeLastWins(w) = r[Len(w)]
                /\ \A k \in 1..Len(w) : r[k] = MergeStep(r[k - 1], w[k])
<1>. DEFINE n == Len(w)
            V == Seq(X)
            step == [kv \in (1..n) \X V |-> MergeStep(kv[2], w[kv[1]])]
            IsFold(iter) == iter = [U \in SUBSET (1..n) |->
                              IF U = {} THEN <<>>
                              ELSE MergeStep(iter[U \ {Max(U)}], w[Max(U)])]
            fold == CHOOSE iter : IsFold(iter)
<1>1. n \in Nat /\ DOMAIN w = 1..n /\ \A k \in 1..n : w[k] \in X
  BY LenProperties, ElementOfSeq
<1>2. PICK some \in LeftFolds(n, V, <<>>, step) : TRUE
  <2>1. \A k \in 1..n, v \in V : MergeStep(v, w[k]) \in V
    BY <1>1, MergeStepType
  <2>2. step \in [(1..n) \X V -> V] /\ <<>> \in V
    <3>1. <<>> \in V
      BY EmptySeq
    <3>. HIDE DEF V
    <3>. QED
      BY <2>1, <3>1
  <2>. HIDE DEF step, V, n
  <2>. QED
    BY <1>1, <2>2, LeftFoldExists
<1>3. \A U \in SUBSET (1..n) : U # {} => Max(U) \in 1..n /\ U \ {Max(U)} \in SUBSET (1..n)
  <2>1. ASSUME NEW U \in SUBSET (1..n), U # {} PROVE Max(U) \in U
    <3>1. IsFiniteSet(1..n) /\ (1..n) \in SUBSET Nat
      BY <1>1, FS_Interval
    <3>2. IsFiniteSet(U) /\ U \in SUBSET Nat
      BY <3>1, FS_Subset
    <3>. QED
      BY <2>1, <3>2, MaxOf
  <2>. QED
    BY <2>1
<1>4. IsFold(some)
  <2>. HIDE DEF V, n
  <2>1. /\ some \in [SUBSET (1..n) -> V]
        /\ \A U \in SUBSET (1..n) :
             some[U] = IF U = {} THEN <<>> ELSE step[<<Max(U), some[U \ {Max(U)}]>>]
    BY <1>2 DEF LeftFolds
  <2>2. \A U \in SUBSET (1..n) :
             some[U] = IF U = {} THEN <<>>
                       ELSE MergeStep(some[U \ {Max(U)}], w[Max(U)])
    BY <1>3, <2>1
  <2>. QED
    BY <2>1, <2>2
<1>5. IsFold(fold)
  <2>. HIDE DEF IsFold
  <2>. QED
    BY <1>4
<1>6. Logger!mergeLastWins(w) = fold[1..n]
  BY <1>1 DEF Logger!mergeLastWins, Logger!FoldLeft, Logger!MapThenFoldSet, Logger!Max, Max, MergeStep
<1>. HIDE DEF fold
<1>. DEFINE r == [k \in 0..n |-> fold[1..k]]
<1>7. fold[{}] = <<>> /\ \A U \in SUBSET (1..n) : U # {} =>
        fold[U] = MergeStep(fold[U \ {Max(U)}], w[Max(U)])
  <2>. HIDE DEF n
  <2>1. \A U \in SUBSET (1..n) : fold[U] = IF U = {} THEN <<>>
          ELSE MergeStep(fold[U \ {Max(U)}], w[Max(U)])
    BY <1>5
  <2>. QED
    BY <2>1
<1>8. r[0] = <<>>
  <2>1. 1..0 = {}
    OBVIOUS
  <2>. QED
    BY <1>1, <1>7, <2>1
<1>9. ASSUME NEW k \in 1..n PROVE r[k] = MergeStep(r[k - 1], w[k])
  <2>. HIDE DEF n
  <2>1. n \in Nat
    BY <1>1
  <2>2. k \in Nat \ {0} /\ k - 1 \in 0..n /\ k \in 0..n /\ k \in 1..k
    BY <2>1
  <2>3. (1..k) \in SUBSET (1..n)
    BY <2>1
  <2>4. Max(1..k) = k /\ (1..k) \ {k} = 1..(k - 1)
    BY <2>2, MaxOfPrefix
  <2>5. fold[1..k] = MergeStep(fold[1..(k - 1)], w[k])
    BY <1>7, <2>2, <2>3, <2>4
  <2>. QED
    BY <2>2, <2>5
<1>10. r[n] = fold[1..n]
  BY <1>1
<1>. HIDE DEF r
<1>. QED
  BY <1>6, <1>8, <1>9, <1>10

\* A merge of the first k attributes: each key once, with its last value, in the order of
\* the keys' first appearance.
Merged(m, w, k) ==
  /\ \A i, j \in DOMAIN m : m[i].key = m[j].key => i = j
  /\ \A i \in DOMAIN m : \E l \in 1..k :
       w[l] = m[i] /\ \A f \in 1..k : w[f].key = m[i].key => f <= l
  /\ \A l \in 1..k : \E i \in DOMAIN m : m[i].key = w[l].key
  /\ \A i, j \in DOMAIN m : i < j =>
       \E l \in 1..k : w[l].key = m[i].key /\ \A f \in 1..k : w[f].key = m[j].key => l < f

\* One attribute more.
LEMMA MergedStep ==
  ASSUME NEW X, NEW m \in Seq(X), NEW w, NEW k \in Nat, Merged(m, w, k),
         NEW a \in X, a = w[k + 1], NEW p, p = MergeStep(m, a)
  PROVE  Merged(p, w, k + 1)
<1>. DEFINE n == Len(m)
            h == k + 1
<1>1. n \in Nat /\ DOMAIN m = 1..n
  BY LenProperties
<1>2. h \in Nat /\ h \in 1..h /\ \A l \in 1..k : l \in 1..h /\ l < h
  OBVIOUS
<1>3. \A l \in 1..h : l \in 1..k \/ l = h
  OBVIOUS
<1>4. /\ \A i, j \in 1..n : m[i].key = m[j].key => i = j
      /\ \A i \in 1..n : \E l \in 1..k :
           w[l] = m[i] /\ \A f \in 1..k : w[f].key = m[i].key => f <= l
      /\ \A l \in 1..k : \E i \in 1..n : m[i].key = w[l].key
      /\ \A i, j \in 1..n : i < j =>
           \E l \in 1..k : w[l].key = m[i].key /\ \A f \in 1..k : w[f].key = m[j].key => l < f
  <2>. HIDE DEF n, h
  <2>1. DOMAIN m = 1..n
    BY <1>1
  <2>2. \A i, j \in 1..n : m[i].key = m[j].key => i = j
    BY <2>1, Zenon DEF Merged
  <2>3. \A i \in 1..n : \E l \in 1..k :
           w[l] = m[i] /\ \A f \in 1..k : w[f].key = m[i].key => f <= l
    BY <2>1, Zenon DEF Merged
  <2>4. \A l \in 1..k : \E i \in 1..n : m[i].key = w[l].key
    BY <2>1, Zenon DEF Merged
  <2>5. \A i, j \in 1..n : i < j =>
           \E l \in 1..k : w[l].key = m[i].key /\ \A f \in 1..k : w[f].key = m[j].key => l < f
    <3>1. \A i, j \in DOMAIN m : i < j =>
           \E l \in 1..k : w[l].key = m[i].key /\ \A f \in 1..k : w[f].key = m[j].key => l < f
      BY DEF Merged
    <3>2. ASSUME NEW i \in 1..n, NEW j \in 1..n, i < j
          PROVE  \E l \in 1..k : w[l].key = m[i].key /\ \A f \in 1..k : w[f].key = m[j].key => l < f
      <4>1. i \in DOMAIN m /\ j \in DOMAIN m
        BY <2>1
      <4>. QED
        BY <3>1, <3>2, <4>1, Zenon
    <3>. QED
      BY <3>2
  <2>. QED
    BY <2>2, <2>3, <2>4, <2>5
<1>. HIDE DEF n, h
<1>5. a = w[h]
  BY DEF h
<1>6. CASE \E i \in 1..n : m[i].key = a.key
  <2>1. DOMAIN p = 1..n /\ \A i \in 1..n : p[i] = IF m[i].key = a.key THEN a ELSE m[i]
    BY <1>1, <1>6 DEF MergeStep
  <2>2. \A i \in 1..n : p[i].key = m[i].key
    BY <2>1
  <2>3. \A i, j \in DOMAIN p : p[i].key = p[j].key => i = j
    <3>1. ASSUME NEW i \in 1..n, NEW j \in 1..n, p[i].key = p[j].key PROVE i = j
      <4>1. p[i].key = m[i].key /\ p[j].key = m[j].key
        BY <2>2
      <4>2. m[i].key = m[j].key
        BY <3>1, <4>1
      <4>. QED
        BY <1>4, <4>2
    <3>. QED
      BY <2>1, <3>1
  <2>4. ASSUME NEW i \in DOMAIN p
        PROVE  \E l \in 1..h : w[l] = p[i] /\ \A f \in 1..h : w[f].key = p[i].key => f <= l
    <3>1. CASE m[i].key = a.key
      <4>1. w[h] = p[i]
        BY <1>5, <2>1, <2>4, <3>1
      <4>2. \A f \in 1..h : f <= h
        BY <1>2
      <4>. QED
        BY <1>2, <4>1, <4>2
    <3>2. CASE m[i].key # a.key
      <4>1. PICK l \in 1..k : w[l] = m[i] /\ \A f \in 1..k : w[f].key = m[i].key => f <= l
        BY <1>4, <2>1, <2>4
      <4>2. w[l] = p[i] /\ p[i].key = m[i].key /\ w[h].key # p[i].key
        BY <1>5, <2>1, <2>2, <2>4, <3>2, <4>1
      <4>3. \A f \in 1..h : w[f].key = p[i].key => f <= l
        BY <1>3, <4>1, <4>2
      <4>. QED
        BY <1>2, <4>2, <4>3
    <3>. QED
      BY <3>1, <3>2
  <2>5. ASSUME NEW l \in 1..h PROVE \E i \in DOMAIN p : p[i].key = w[l].key
    <3>1. CASE l \in 1..k
      <4>1. PICK i \in 1..n : m[i].key = w[l].key
        BY <1>4, <3>1
      <4>. QED
        BY <2>1, <2>2, <4>1
    <3>2. CASE l = h
      BY <1>5, <1>6, <2>1, <2>2, <3>2
    <3>. QED
      BY <1>3, <3>1, <3>2
  <2>6. ASSUME NEW i \in DOMAIN p, NEW j \in DOMAIN p, i < j
        PROVE  \E l \in 1..h : w[l].key = p[i].key /\ \A f \in 1..h : w[f].key = p[j].key => l < f
    <3>0. i \in 1..n /\ j \in 1..n
      BY <2>1, <2>6
    <3>1. PICK l \in 1..k : w[l].key = m[i].key /\ \A f \in 1..k : w[f].key = m[j].key => l < f
      <4>1. \E l \in 1..k : w[l].key = m[i].key /\ \A f \in 1..k : w[f].key = m[j].key => l < f
        BY <1>4, <2>6, <3>0, Zenon
      <4>. QED
        BY <4>1
    <3>2. w[l].key = p[i].key /\ p[j].key = m[j].key
      BY <2>1, <2>2, <2>6, <3>1
    <3>3. \A f \in 1..h : w[f].key = p[j].key => l < f
      BY <1>2, <1>3, <3>1, <3>2
    <3>. QED
      BY <1>2, <3>2, <3>3
  <2>. QED
    BY <2>3, <2>4, <2>5, <2>6 DEF Merged, h
<1>7. CASE ~\E i \in 1..n : m[i].key = a.key
  <2>1. p = Append(m, a)
    BY <1>1, <1>7 DEF MergeStep
  <2>. DEFINE q == n + 1
  <2>2. DOMAIN p = 1..q /\ (\A i \in 1..n : p[i] = m[i]) /\ p[q] = a
    BY <2>1, AppendProperties, LenProperties DEF n
  <2>3. q \in 1..q /\ (\A i \in 1..q : i \in 1..n \/ i = q) /\ \A i \in 1..n : i \in 1..q /\ i < q
    BY <1>1
  <2>. HIDE DEF q
  <2>4. \A l \in 1..k : w[l].key # a.key
    BY <1>4, <1>7
  <2>5. \A i, j \in DOMAIN p : p[i].key = p[j].key => i = j
    <3>1. ASSUME NEW i \in 1..n, NEW j \in 1..n, p[i].key = p[j].key PROVE i = j
      <4>1. m[i].key = m[j].key
        BY <2>2, <3>1
      <4>. QED
        BY <1>4, <4>1
    <3>2. \A i \in 1..n : p[i].key # p[q].key
      BY <1>7, <2>2
    <3>. QED
      BY <2>2, <2>3, <3>1, <3>2
  <2>6. ASSUME NEW i \in DOMAIN p
        PROVE  \E l \in 1..h : w[l] = p[i] /\ \A f \in 1..h : w[f].key = p[i].key => f <= l
    <3>1. CASE i = q
      <4>1. w[h] = p[i]
        BY <1>5, <2>2, <3>1
      <4>2. \A f \in 1..h : f <= h
        BY <1>2
      <4>. QED
        BY <1>2, <4>1, <4>2
    <3>2. CASE i \in 1..n
      <4>1. PICK l \in 1..k : w[l] = m[i] /\ \A f \in 1..k : w[f].key = m[i].key => f <= l
        BY <1>4, <3>2
      <4>2. w[l] = p[i] /\ p[i].key = m[i].key /\ w[h].key # p[i].key
        BY <1>5, <1>7, <2>2, <3>2, <4>1
      <4>3. \A f \in 1..h : w[f].key = p[i].key => f <= l
        BY <1>3, <4>1, <4>2
      <4>. QED
        BY <1>2, <4>2, <4>3
    <3>. QED
      BY <2>2, <2>3, <2>6, <3>1, <3>2
  <2>7. ASSUME NEW l \in 1..h PROVE \E i \in DOMAIN p : p[i].key = w[l].key
    <3>1. CASE l \in 1..k
      <4>1. PICK i \in 1..n : m[i].key = w[l].key
        BY <1>4, <3>1
      <4>. QED
        BY <2>2, <2>3, <4>1
    <3>2. CASE l = h
      BY <1>5, <2>2, <2>3, <3>2
    <3>. QED
      BY <1>3, <3>1, <3>2
  <2>8. ASSUME NEW i \in DOMAIN p, NEW j \in DOMAIN p, i < j
        PROVE  \E l \in 1..h : w[l].key = p[i].key /\ \A f \in 1..h : w[f].key = p[j].key => l < f
    <3>1. i \in 1..n /\ p[i] = m[i]
      <4>1. i \in Int /\ j \in Int /\ q \in Int /\ j <= q
        BY <1>1, <2>2 DEF q
      <4>2. i # q
        BY <2>8, <4>1
      <4>. QED
        BY <2>2, <2>3, <2>8, <4>2
    <3>2. CASE j \in 1..n
      <4>1. PICK l \in 1..k : w[l].key = m[i].key /\ \A f \in 1..k : w[f].key = m[j].key => l < f
        BY <1>4, <2>8, <3>1, <3>2
      <4>2. w[l].key = p[i].key /\ p[j].key = m[j].key
        BY <2>2, <3>1, <3>2, <4>1
      <4>3. \A f \in 1..h : w[f].key = p[j].key => l < f
        BY <1>2, <1>3, <4>1, <4>2
      <4>. QED
        BY <1>2, <4>2, <4>3
    <3>3. CASE j = q
      <4>1. PICK l \in 1..k : w[l] = m[i]
        BY <1>4, <3>1
      <4>2. w[l].key = p[i].key
        BY <3>1, <4>1
      <4>3. \A f \in 1..h : w[f].key = p[j].key => l < f
        BY <1>2, <1>3, <2>2, <2>4, <3>3, <4>1
      <4>. QED
        BY <1>2, <4>2, <4>3
    <3>. QED
      BY <2>2, <2>3, <2>8, <3>2, <3>3
  <2>. QED
    BY <2>5, <2>6, <2>7, <2>8 DEF Merged, h
<1>. QED
  BY <1>6, <1>7

\* So mergeLastWins merges all of them.
LEMMA MergeCorrect ==
  ASSUME NEW X, NEW w \in Seq(X)
  PROVE  Merged(Logger!mergeLastWins(w), w, Len(w)) /\ Logger!mergeLastWins(w) \in Seq(X)
<1>1. PICK r : /\ r[0] = <<>> /\ Logger!mergeLastWins(w) = r[Len(w)]
               /\ \A k \in 1..Len(w) : r[k] = MergeStep(r[k - 1], w[k])
  BY MergeRun
<1>. DEFINE n == Len(w)
            T == {k \in Nat : k <= n => r[k] \in Seq(X) /\ Merged(r[k], w, k)}
<1>2. n \in Nat /\ \A k \in 1..n : w[k] \in X
  BY LenProperties, ElementOfSeq
<1>. HIDE DEF n
<1>3. 0 \in T
  <2>1. r[0] = <<>> /\ <<>> \in Seq(X)
    BY <1>1, EmptySeq
  <2>2. DOMAIN r[0] = {} /\ 1..0 = {}
    BY <2>1
  <2>3. Merged(r[0], w, 0)
    BY <2>2 DEF Merged
  <2>. QED
    BY <2>1, <2>3
<1>4. ASSUME NEW k \in Nat, k \in T PROVE k + 1 \in T
  <2>1. ASSUME k + 1 <= n PROVE r[k + 1] \in Seq(X) /\ Merged(r[k + 1], w, k + 1)
    <3>1. k <= n /\ k + 1 \in 1..n /\ (k + 1) - 1 = k
      BY <1>2, <2>1
    <3>2. PICK m : m = r[k]
      OBVIOUS
    <3>3. PICK a : a = w[k + 1]
      OBVIOUS
    <3>4. PICK p : p = MergeStep(m, a)
      OBVIOUS
    <3>5. m \in Seq(X) /\ Merged(m, w, k) /\ a \in X
      BY <1>2, <1>4, <3>1, <3>2, <3>3
    <3>6. p = r[k + 1]
      <4>1. r[k + 1] = MergeStep(r[(k + 1) - 1], w[k + 1])
        BY <1>1, <3>1 DEF n
      <4>. QED
        BY <3>1, <3>2, <3>3, <3>4, <4>1
    <3>7. p \in Seq(X)
      BY <3>4, <3>5, MergeStepType
    <3>8. Merged(p, w, k + 1)
      BY <3>3, <3>4, <3>5, MergedStep
    <3>. QED
      BY <3>6, <3>7, <3>8
  <2>2. k + 1 \in Nat
    OBVIOUS
  <2>. QED
    BY <2>1, <2>2
<1>5. \A k \in Nat : k \in T
  <2>. HIDE DEF T
  <2>. QED
    BY <1>3, <1>4, NatInductionSet
<1>6. r[n] \in Seq(X) /\ Merged(r[n], w, n)
  BY <1>2, <1>5
<1>. QED
  BY <1>1, <1>6 DEF n

\* The last attribute of a key.
LEMMA LastIs ==
  ASSUME NEW X, NEW h \in Seq(X), NEW k, NEW l \in DOMAIN h, h[l].key = k,
         \A f \in DOMAIN h : h[f].key = k => f <= l
  PROVE  Logger!LastOf(h, k) = h[l]
<1>. DEFINE Fits(i) == h[i].key = k /\ \A j \in DOMAIN h : h[j].key = k => j <= i
            c == CHOOSE i \in DOMAIN h : Fits(i)
<1>1. DOMAIN h \in SUBSET Int
  <2>1. DOMAIN h = 1..Len(h) /\ Len(h) \in Nat
    BY LenProperties
  <2>. QED
    BY <2>1
<1>2. c \in DOMAIN h /\ Fits(c)
  BY Zenon
<1>3. c <= l /\ l <= c
  BY <1>2
<1>4. c = l
  <2>1. c \in Int /\ l \in Int
    BY <1>1, <1>2
  <2>. QED
    BY <1>3, <2>1
<1>. QED
  BY <1>4 DEF Logger!LastOf

\* The first attribute of a key.
LEMMA FirstIs ==
  ASSUME NEW X, NEW h \in Seq(X), NEW k, NEW l \in DOMAIN h, h[l].key = k
  PROVE  /\ Logger!FirstAt(h, k) \in DOMAIN h /\ h[Logger!FirstAt(h, k)].key = k
         /\ \A f \in DOMAIN h : h[f].key = k => Logger!FirstAt(h, k) <= f
<1>. DEFINE Fits(i) == h[i].key = k /\ \A j \in DOMAIN h : h[j].key = k => i <= j
            B == {i \in DOMAIN h : h[i].key = k}
<1>1. B \in SUBSET Nat /\ B # {}
  <2>1. DOMAIN h = 1..Len(h) /\ Len(h) \in Nat
    BY LenProperties
  <2>. QED
    BY <2>1
<1>2. \E i \in DOMAIN h : Fits(i)
  <2>1. \E n \in B : \A m \in B : n <= m
    <3>. HIDE DEF B
    <3>. QED
      BY <1>1, LeastOf
  <2>. QED
    BY <2>1
<1>3. PICK c : c = CHOOSE i \in DOMAIN h : Fits(i)
  OBVIOUS
<1>4. c \in DOMAIN h /\ Fits(c)
  BY <1>2, <1>3, Zenon
<1>5. Logger!FirstAt(h, k) = c
  BY <1>3 DEF Logger!FirstAt
<1>. QED
  BY <1>4, <1>5

\* Merging the tail of what was handed keeps each key's last value; merging all of it keeps
\* every key, in the order of their first appearance.
LEMMA MergeFaithful ==
  ASSUME NEW X, NEW pre \in Seq(X), NEW w \in Seq(X), NEW h, h = pre \o w,
         NEW attrs, attrs = Logger!mergeLastWins(w), NEW whole, whole => pre = <<>>
  PROVE  Logger!Merges(attrs, h, whole)
<1>. DEFINE n == Len(w)
            d == Len(pre)
<1>1. Merged(attrs, w, n) /\ attrs \in Seq(X)
  BY MergeCorrect
<1>2. /\ n \in Nat /\ d \in Nat /\ DOMAIN w = 1..n
      /\ h \in Seq(X) /\ DOMAIN h = 1..(d + n)
      /\ \A l \in 1..n : h[d + l] = w[l]
  <2>1. n \in Nat /\ d \in Nat /\ DOMAIN w = 1..n
    BY LenProperties
  <2>2. h \in Seq(X) /\ Len(h) = d + n
    BY ConcatProperties
  <2>3. DOMAIN h = 1..(d + n)
    BY <2>2, LenProperties
  <2>4. ASSUME NEW l \in 1..n PROVE h[d + l] = w[l]
    <3>1. d + l \in 1..(Len(pre) + Len(w)) /\ ~(d + l <= Len(pre)) /\ (d + l) - Len(pre) = l
      BY <2>1
    <3>2. (pre \o w)[d + l] = IF d + l <= Len(pre) THEN pre[d + l] ELSE w[(d + l) - Len(pre)]
      BY <3>1, ConcatProperties
    <3>. QED
      BY <3>1, <3>2
  <2>. QED
    BY <2>1, <2>2, <2>3, <2>4
<1>. HIDE DEF n, d
<1>3. /\ \A i, j \in DOMAIN attrs : attrs[i].key = attrs[j].key => i = j
      /\ \A i \in DOMAIN attrs : \E l \in 1..n :
           w[l] = attrs[i] /\ \A f \in 1..n : w[f].key = attrs[i].key => f <= l
      /\ \A l \in 1..n : \E i \in DOMAIN attrs : attrs[i].key = w[l].key
  BY <1>1 DEF Merged
<1>4. \A i, j \in DOMAIN attrs : i < j =>
        \E l \in 1..n : w[l].key = attrs[i].key /\ \A f \in 1..n : w[f].key = attrs[j].key => l < f
  BY <1>1 DEF Merged
<1>5. ASSUME NEW i \in DOMAIN attrs PROVE attrs[i] = Logger!LastOf(h, attrs[i].key)
  <2>1. PICK l \in 1..n : w[l] = attrs[i] /\ \A f \in 1..n : w[f].key = attrs[i].key => f <= l
    BY <1>3
  <2>2. d + l \in DOMAIN h /\ h[d + l] = attrs[i]
    BY <1>2, <2>1
  <2>3. ASSUME NEW f \in DOMAIN h, h[f].key = attrs[i].key PROVE f <= d + l
    <3>1. CASE f <= d
      BY <1>2, <2>3, <3>1
    <3>2. CASE f > d
      <4>1. f - d \in 1..n /\ f = d + (f - d)
        <5>1. f \in 1..(d + n)
          BY <1>2, <2>3
        <5>. QED
          BY <1>2, <3>2, <5>1
      <4>2. w[f - d].key = attrs[i].key
        BY <1>2, <2>3, <4>1
      <4>3. f - d <= l
        BY <2>1, <4>1, <4>2
      <4>. QED
        BY <1>2, <4>1, <4>3
    <3>. QED
      BY <1>2, <2>3, <3>1, <3>2
  <2>4. PICK k : k = attrs[i].key
    OBVIOUS
  <2>5. PICK p : p = d + l
    OBVIOUS
  <2>6. Logger!LastOf(h, k) = h[p]
    <3>1. p \in DOMAIN h /\ h[p].key = k /\ \A f \in DOMAIN h : h[f].key = k => f <= p
      BY <2>2, <2>3, <2>4, <2>5
    <3>. QED
      BY <1>2, <3>1, LastIs
  <2>. QED
    BY <2>2, <2>4, <2>5, <2>6
<1>6. ASSUME whole
      PROVE  /\ Logger!KeysOf(attrs) = Logger!KeysOf(h)
             /\ \A i, j \in DOMAIN attrs :
                  i < j => Logger!FirstAt(h, attrs[i].key) < Logger!FirstAt(h, attrs[j].key)
  <2>1. h = w
    BY <1>6, ConcatEmptySeq
  <2>2. Logger!KeysOf(attrs) = Logger!KeysOf(w)
    <3>1. ASSUME NEW i \in DOMAIN attrs PROVE \E l \in DOMAIN w : w[l].key = attrs[i].key
      <4>1. PICK l \in 1..n : w[l] = attrs[i]
        BY <1>3
      <4>. QED
        BY <1>2, <4>1
    <3>2. ASSUME NEW l \in DOMAIN w PROVE \E i \in DOMAIN attrs : attrs[i].key = w[l].key
      <4>1. l \in 1..n
        BY <1>2
      <4>. QED
        BY <1>3, <4>1
    <3>3. \A x : x \in Logger!KeysOf(attrs) <=> \E i \in DOMAIN attrs : x = attrs[i].key
      BY DEF Logger!KeysOf
    <3>4. \A x : x \in Logger!KeysOf(w) <=> \E l \in DOMAIN w : x = w[l].key
      BY DEF Logger!KeysOf
    <3>5. ASSUME NEW i \in DOMAIN attrs PROVE attrs[i].key \in Logger!KeysOf(w)
      <4>1. PICK l \in DOMAIN w : w[l].key = attrs[i].key
        BY <3>1
      <4>. QED
        BY <3>4, <4>1
    <3>6. ASSUME NEW l \in DOMAIN w PROVE w[l].key \in Logger!KeysOf(attrs)
      <4>1. PICK i \in DOMAIN attrs : attrs[i].key = w[l].key
        BY <3>2
      <4>. QED
        BY <3>3, <4>1
    <3>7. Logger!KeysOf(attrs) \subseteq Logger!KeysOf(w)
      BY <3>3, <3>5
    <3>8. Logger!KeysOf(w) \subseteq Logger!KeysOf(attrs)
      BY <3>4, <3>6
    <3>. QED
      BY <3>7, <3>8
  <2>3. ASSUME NEW i \in DOMAIN attrs, NEW j \in DOMAIN attrs, i < j
        PROVE  Logger!FirstAt(w, attrs[i].key) < Logger!FirstAt(w, attrs[j].key)
    <3>1. PICK a : a = attrs[i].key
      OBVIOUS
    <3>2. PICK b : b = attrs[j].key
      OBVIOUS
    <3>3. PICK l \in 1..n : w[l].key = a /\ \A f \in 1..n : w[f].key = b => l < f
      <4>1. \E l \in 1..n : w[l].key = attrs[i].key /\ \A f \in 1..n : w[f].key = attrs[j].key => l < f
        BY <1>4, <2>3
      <4>. QED
        BY <3>1, <3>2, <4>1
    <3>4. PICK q \in 1..n : w[q].key = b
      BY <1>3, <3>2
    <3>5. PICK x : x = Logger!FirstAt(w, a)
      OBVIOUS
    <3>6. PICK y : y = Logger!FirstAt(w, b)
      OBVIOUS
    <3>7. l \in DOMAIN w /\ q \in DOMAIN w
      BY <1>2
    <3>8. x \in DOMAIN w /\ \A f \in DOMAIN w : w[f].key = a => x <= f
      BY <3>3, <3>5, <3>7, FirstIs
    <3>9. y \in DOMAIN w /\ w[y].key = b
      BY <3>4, <3>6, <3>7, FirstIs
    <3>10. x <= l /\ l < y
      BY <1>2, <3>3, <3>7, <3>8, <3>9
    <3>11. x \in Int /\ l \in Int /\ y \in Int
      BY <1>2, <3>8, <3>9
    <3>. QED
      BY <3>1, <3>2, <3>5, <3>6, <3>10, <3>11
  <2>. QED
    BY <2>1, <2>2, <2>3
<1>. QED
  BY <1>3, <1>5, <1>6 DEF Logger!Merges

\* A record without attributes, of a span of which nothing is known to be lost.
LEMMA EmptyFaithful ==
  ASSUME NEW h, NEW whole, whole => h = <<>>
  PROVE  Logger!Merges(<<>>, h, whole)
<1>1. DOMAIN <<>> = {}
  OBVIOUS
<1>2. Logger!KeysOf(<<>>) = {}
  BY <1>1 DEF Logger!KeysOf
<1>. QED
  BY <1>1, <1>2 DEF Logger!Merges

-----------------------------------------------------------------------------
(* What was handed to the log sink                                         *)

\* The attributes there are.
AnyAttr == UNION {Range(e.attrs) : e \in Events}

\* The attributes of an event are among them.
LEMMA EventAttrs == \A e \in Events : e.attrs \in Seq(AnyAttr)
<1>. SUFFICES ASSUME NEW e \in Events PROVE e.attrs \in Seq(AnyAttr)
  OBVIOUS
<1>1. PICK w : w = e.attrs
  OBVIOUS
<1>2. w \in Seq(Range(w)) /\ Range(w) \subseteq AnyAttr
  BY <1>1, FanoutAssumption DEF AnyAttr
<1>3. Len(w) \in Nat /\ w \in [1..Len(w) -> Range(w)]
  BY <1>2
<1>4. w \in [1..Len(w) -> AnyAttr]
  BY <1>2, <1>3
<1>5. w \in Seq(AnyAttr)
  BY <1>3, <1>4, SeqDef
<1>. QED
  BY <1>1, <1>5

\* What an event hands for a span, and what the events handled handed, one by one.
Part(s, e) == IF e.span = s THEN e.attrs ELSE <<>>
Parts(s) == [i \in DOMAIN heard |-> Part(s, heard[i])]

\* What was handed for a span is made of its events' attributes.
LEMMA HandedIs ==
  ASSUME heard \in Seq(Events), NEW s
  PROVE  /\ Parts(s) \in Seq(Seq(AnyAttr)) /\ Logger!Handed(s) = FlattenSeq(Parts(s))
         /\ Logger!Handed(s) \in Seq(AnyAttr)
<1>. DEFINE S == Seq(AnyAttr)
            n == Len(heard)
<1>1. n \in Nat /\ DOMAIN heard = 1..n /\ \A i \in 1..n : heard[i] \in Events
  BY LenProperties, ElementOfSeq
<1>2. \A i \in 1..n : Part(s, heard[i]) \in S
  BY <1>1, EventAttrs, EmptySeq DEF Part
<1>3. Parts(s) \in [1..n -> S]
  <2>. HIDE DEF S, n
  <2>. QED
    BY <1>1, <1>2 DEF Parts
<1>4. Parts(s) \in Seq(S)
  <2>. HIDE DEF S, n
  <2>. QED
    BY <1>1, <1>3, SeqDef
<1>5. Logger!Handed(s) = FlattenSeq(Parts(s))
  BY DEF Logger!Handed, Parts, Part, Logger!FlattenSeq, FlattenSeq
<1>6. FlattenSeq(Parts(s)) \in Seq(AnyAttr)
  BY <1>4, FlattenType
<1>. QED
  BY <1>4, <1>5, <1>6

\* An event handled adds its attributes to what was handed for its span.
LEMMA HandedMore ==
  ASSUME heard \in Seq(Events), NEW e \in Events, heard' = Append(heard, e)
  PROVE  \A s : Logger!Handed(s)' = Logger!Handed(s) \o Part(s, e)
<1>1. heard' \in Seq(Events)
  BY AppendProperties
<1>. SUFFICES ASSUME NEW CONSTANT s PROVE Logger!Handed(s)' = Logger!Handed(s) \o Part(s, e)
  OBVIOUS
<1>2. PICK p : p = Parts(s)
  OBVIOUS
<1>3. p \in Seq(Seq(AnyAttr)) /\ Logger!Handed(s) = FlattenSeq(p)
  BY <1>2, HandedIs
<1>4. PICK c : c = Part(s, e)
  OBVIOUS
<1>5. c \in Seq(AnyAttr)
  BY <1>4, EventAttrs, EmptySeq DEF Part
<1>6. FlattenSeq(Append(p, c)) = FlattenSeq(p) \o c
  BY <1>3, <1>5, FlattenAppend
<1>7. Parts(s)' = Append(p, c)
  <2>. DEFINE n == Len(heard)
  <2>1. /\ n \in Nat /\ DOMAIN heard = 1..n /\ DOMAIN heard' = 1..(n + 1)
        /\ \A i \in 1..n : heard'[i] = heard[i]
        /\ heard'[n + 1] = e
    BY AppendProperties, LenProperties
  <2>2. DOMAIN p = 1..n
    BY <1>2, <2>1 DEF Parts
  <2>3. Len(p) = n
    BY <1>3, <2>1, <2>2, LenProperties
  <2>9. PICK q : q = Append(p, c)
    OBVIOUS
  <2>4. /\ q = [i \in 1..(n + 1) |-> q[i]]
        /\ \A i \in 1..n : q[i] = p[i]
        /\ q[n + 1] = c
    <3>. DEFINE S == Seq(AnyAttr)
    <3>1. p \in Seq(S) /\ c \in S
      BY <1>3, <1>5
    <3>. HIDE DEF S, n
    <3>2. q \in Seq(S) /\ Len(q) = n + 1 /\ \A i \in 1..n : q[i] = p[i]
      BY <2>3, <2>9, <3>1, AppendProperties
    <3>3. q[n + 1] = c
      BY <2>3, <2>9, <3>1, AppendProperties
    <3>4. q = [i \in 1..(n + 1) |-> q[i]]
      BY <2>1, <3>2
    <3>. QED
      BY <3>2, <3>3, <3>4
  <2>5. \A i \in 1..n : p[i] = Part(s, heard[i])
    BY <1>2, <2>1 DEF Parts
  <2>6. \A i \in 1..(n + 1) : q[i] = Part(s, heard'[i])
    <3>1. ASSUME NEW i \in 1..n PROVE q[i] = Part(s, heard'[i])
      <4>1. q[i] = p[i] /\ heard'[i] = heard[i] /\ p[i] = Part(s, heard[i])
        BY <2>1, <2>4, <2>5
      <4>. QED
        BY <4>1
    <3>2. q[n + 1] = Part(s, heard'[n + 1])
      <4>1. q[n + 1] = c /\ heard'[n + 1] = e
        BY <2>1, <2>4
      <4>. QED
        BY <1>4, <4>1
    <3>3. \A i \in 1..(n + 1) : i \in 1..n \/ i = n + 1
      BY <2>1
    <3>. QED
      BY <3>1, <3>2, <3>3
  <2>7. Parts(s)' = [i \in 1..(n + 1) |-> Part(s, heard'[i])]
    BY <2>1 DEF Parts, Part
  <2>. HIDE DEF n
  <2>8. Parts(s)' = q
    BY <2>4, <2>6, <2>7
  <2>. QED
    BY <2>8, <2>9
<1>8. Logger!Handed(s)' = FlattenSeq(Parts(s)')
  BY DEF Logger!Handed, Parts, Part, Logger!FlattenSeq, FlattenSeq
<1>. QED
  BY <1>3, <1>4, <1>6, <1>7, <1>8

-----------------------------------------------------------------------------
(* The records, step by step                                               *)

\* A record made for the end e of H: the span's own attributes, then a merge of those handed.
Made(H, r, h, whole) ==
  \E e \in H, m \in Seq(AnyAttr) :
    /\ e.kind = "end" /\ e.span = r.span
    /\ r.attrs = Logger!Fixed(e) \o m
    /\ Logger!Merges(m, h, whole)

\* The end is not forgotten.
LEMMA MadeStays ==
  ASSUME NEW H, NEW G, H \subseteq G, NEW r, NEW h, NEW whole, Made(H, r, h, whole)
  PROVE  Made(G, r, h, whole)
BY DEF Made

\* An event handled joins those handled.
LEMMA HeardGrows ==
  ASSUME heard \in Seq(Events), NEW e \in Events, heard' = Append(heard, e)
  PROVE  Range(heard) \subseteq Range(heard') /\ e \in Range(heard')
<1>1. /\ Len(heard) \in Nat /\ DOMAIN heard = 1..Len(heard)
      /\ DOMAIN heard' = 1..(Len(heard) + 1)
      /\ \A i \in 1..Len(heard) : heard'[i] = heard[i]
      /\ heard'[Len(heard) + 1] = e
  BY AppendProperties, LenProperties
<1>2. DOMAIN heard \subseteq DOMAIN heard' /\ Len(heard) + 1 \in DOMAIN heard'
  BY <1>1
<1>. QED
  BY <1>1, <1>2 DEF Range

\* What the map holds for a span is the tail of what was handed for it, and all of it while
\* the map had room; a span that is neither in the map nor over has had nothing handed, until
\* Close empties the map.
RecordInv ==
  /\ heard \in Seq(Events)
  /\ \A s \in DOMAIN open :
       /\ open[s] \in Seq(AnyAttr)
       /\ \E pre \in Seq(AnyAttr) :
            Logger!Handed(s) = pre \o open[s] /\ (s \notin crowded => pre = <<>>)
  /\ ~Closing => \A s : s \notin DOMAIN open /\ s \notin crowded /\ s \notin Ended =>
                   Logger!Handed(s) = <<>>
  /\ \A n \in DOMAIN records : \E s, h :
       /\ s = records[n].span /\ h = Logger!Handed(s)
       /\ Made(Range(heard), records[n], h, s \notin crowded)

\* Nothing is handled once the writer has called Close.
LEMMA NotClosing == ASSUME StreamInv, SlogTurn PROVE ~Closing
BY DEF StreamInv, SlogTurn, Closing

\* An event that is not an end goes into the map, or finds it full.
LEMMA TakeStep ==
  ASSUME StreamInv, RecordInv, LogInv, SlogTurn, NEW e \in Events, e.span \notin Ended,
         Logger!Track(e) \/ Logger!TrackNew(e) \/ Logger!Crowd(e)
  PROVE  RecordInv'
<1>1. heard' = Append(heard, e) /\ UNCHANGED records /\ e.kind # "end"
  BY DEF Logger!Track, Logger!TrackNew, Logger!Crowd, Logger!Hear
<1>2. heard \in Seq(Events) /\ heard' \in Seq(Events)
  BY <1>1, AppendProperties DEF RecordInv
<1>3. \A s : Logger!Handed(s)' = Logger!Handed(s) \o Part(s, e)
  BY <1>1, <1>2, HandedMore
<1>4. \A s : Logger!Handed(s) \in Seq(AnyAttr)
  BY <1>2, HandedIs
<1>5. \A s : s # e.span => Logger!Handed(s)' = Logger!Handed(s)
  <2>1. ASSUME NEW CONSTANT s, s # e.span PROVE Logger!Handed(s)' = Logger!Handed(s)
    <3>1. Part(s, e) = <<>>
      BY <2>1 DEF Part
    <3>2. Logger!Handed(s) \o <<>> = Logger!Handed(s)
      BY <1>4, ConcatEmptySeq
    <3>. QED
      BY <1>3, <3>1, <3>2
  <2>. QED
    BY <2>1
<1>6. PICK x : x = e.span
  OBVIOUS
<1>7. PICK h : h = Logger!Handed(x)
  OBVIOUS
<1>8. PICK w : w = e.attrs
  OBVIOUS
<1>9. h \in Seq(AnyAttr) /\ w \in Seq(AnyAttr)
  BY <1>4, <1>7, <1>8, EventAttrs
<1>10. Logger!Handed(x)' = h \o w
  <2>1. Part(x, e) = w
    BY <1>6, <1>8 DEF Part
  <2>. QED
    BY <1>3, <1>7, <2>1
<1>11. Ended' = Ended
  <2>1. heard \in Seq(Range(heard))
    BY <1>2 DEF Range
  <2>. QED
    BY <1>1, <2>1, HearEvent
<1>12. ~Closing
  BY NotClosing
<1>13. ASSUME crowded' = crowded \/ crowded' = crowded \cup {x}
       PROVE  \A n \in DOMAIN records' : \E s, g :
                /\ s = records'[n].span /\ g = Logger!Handed(s)'
                /\ Made(Range(heard'), records'[n], g, s \notin crowded')
  <2>. SUFFICES ASSUME NEW CONSTANT n, n \in DOMAIN records
       PROVE  \E s, g : /\ s = records[n].span /\ g = Logger!Handed(s)'
                        /\ Made(Range(heard'), records[n], g, s \notin crowded')
    BY <1>1
  <2>1. PICK s, g : /\ s = records[n].span /\ g = Logger!Handed(s)
                    /\ Made(Range(heard), records[n], g, s \notin crowded)
    BY DEF RecordInv
  <2>2. s \in Ended
    BY <2>1 DEF LogInv, Recorded
  <2>3. s # x
    BY <1>6, <2>2
  <2>4. (s \notin crowded') = (s \notin crowded) /\ g = Logger!Handed(s)'
    BY <1>5, <1>6, <1>13, <2>1, <2>3
  <2>5. Range(heard) \subseteq Range(heard')
    BY <1>1, <1>2, HeardGrows
  <2>6. Made(Range(heard'), records[n], g, s \notin crowded')
    BY <2>1, <2>4, <2>5, MadeStays
  <2>. QED
    BY <2>1, <2>4, <2>6
<1>14. CASE Logger!Track(e)
  <2>1. /\ x \in DOMAIN open /\ open' = [open EXCEPT ![x] = @ \o w] /\ crowded' = crowded
    BY <1>6, <1>8, <1>14 DEF Logger!Track
  <2>2. ASSUME NEW CONSTANT s, s \in DOMAIN open'
        PROVE  /\ open'[s] \in Seq(AnyAttr)
               /\ \E pre \in Seq(AnyAttr) :
                    Logger!Handed(s)' = pre \o open'[s] /\ (s \notin crowded' => pre = <<>>)
    <3>1. s \in DOMAIN open
      BY <2>1, <2>2
    <3>2. PICK o : o = open[s]
      OBVIOUS
    <3>3. PICK pre \in Seq(AnyAttr) : Logger!Handed(s) = pre \o o /\ (s \notin crowded => pre = <<>>)
      BY <3>1, <3>2 DEF RecordInv
    <3>4. o \in Seq(AnyAttr)
      BY <3>1, <3>2 DEF RecordInv
    <3>5. CASE s = x
      <4>1. open'[s] = o \o w
        BY <2>1, <3>2, <3>5
      <4>2. o \o w \in Seq(AnyAttr) /\ (pre \o o) \o w = pre \o (o \o w)
        BY <1>9, <3>4, ConcatProperties, ConcatAssociative
      <4>3. Logger!Handed(s)' = (pre \o o) \o w
        BY <1>7, <1>10, <3>3, <3>5
      <4>. QED
        BY <2>1, <3>3, <4>1, <4>2, <4>3
    <3>6. CASE s # x
      <4>1. open'[s] = o
        BY <2>1, <3>1, <3>2, <3>6
      <4>2. Logger!Handed(s)' = Logger!Handed(s)
        BY <1>5, <1>6, <3>6
      <4>. QED
        BY <2>1, <3>3, <3>4, <4>1, <4>2
    <3>. QED
      BY <3>5, <3>6
  <2>3. ASSUME NEW CONSTANT s, s \notin DOMAIN open' /\ s \notin crowded' /\ s \notin Ended'
        PROVE  Logger!Handed(s)' = <<>>
    <3>1. s \notin DOMAIN open /\ s # x
      BY <2>1, <2>3
    <3>2. Logger!Handed(s) = <<>>
      BY <1>11, <1>12, <2>1, <2>3, <3>1 DEF RecordInv
    <3>. QED
      BY <1>5, <1>6, <3>1, <3>2
  <2>. QED
    BY <1>2, <1>13, <2>1, <2>2, <2>3 DEF RecordInv
<1>15. CASE Logger!TrackNew(e)
  <2>1. /\ x \notin DOMAIN open /\ crowded' = crowded
        /\ open' = [r \in DOMAIN open \cup {x} |-> IF r = x THEN w ELSE open[r]]
    BY <1>6, <1>8, <1>15 DEF Logger!TrackNew
  <2>2. ASSUME NEW CONSTANT s, s \in DOMAIN open'
        PROVE  /\ open'[s] \in Seq(AnyAttr)
               /\ \E pre \in Seq(AnyAttr) :
                    Logger!Handed(s)' = pre \o open'[s] /\ (s \notin crowded' => pre = <<>>)
    <3>1. CASE s = x
      <4>1. open'[s] = w
        BY <2>1, <3>1
      <4>2. s \notin crowded => h = <<>>
        BY <1>6, <1>7, <1>12, <2>1, <3>1 DEF RecordInv
      <4>3. Logger!Handed(s)' = h \o w
        BY <1>10, <3>1
      <4>. QED
        BY <1>9, <2>1, <4>1, <4>2, <4>3
    <3>2. CASE s # x
      <4>1. s \in DOMAIN open /\ open'[s] = open[s]
        BY <2>1, <2>2, <3>2
      <4>2. Logger!Handed(s)' = Logger!Handed(s)
        BY <1>5, <1>6, <3>2
      <4>3. PICK pre \in Seq(AnyAttr) :
              Logger!Handed(s) = pre \o open[s] /\ (s \notin crowded => pre = <<>>)
        BY <4>1 DEF RecordInv
      <4>4. open[s] \in Seq(AnyAttr)
        BY <4>1 DEF RecordInv
      <4>. QED
        BY <2>1, <4>1, <4>2, <4>3, <4>4
    <3>. QED
      BY <3>1, <3>2
  <2>3. ASSUME NEW CONSTANT s, s \notin DOMAIN open' /\ s \notin crowded' /\ s \notin Ended'
        PROVE  Logger!Handed(s)' = <<>>
    <3>1. s \notin DOMAIN open /\ s # x
      BY <2>1, <2>3
    <3>2. Logger!Handed(s) = <<>>
      BY <1>11, <1>12, <2>1, <2>3, <3>1 DEF RecordInv
    <3>. QED
      BY <1>5, <1>6, <3>1, <3>2
  <2>. QED
    BY <1>2, <1>13, <2>1, <2>2, <2>3 DEF RecordInv
<1>16. CASE Logger!Crowd(e)
  <2>1. x \notin DOMAIN open /\ crowded' = crowded \cup {x} /\ open' = open
    BY <1>6, <1>16 DEF Logger!Crowd
  <2>2. ASSUME NEW CONSTANT s, s \in DOMAIN open'
        PROVE  /\ open'[s] \in Seq(AnyAttr)
               /\ \E pre \in Seq(AnyAttr) :
                    Logger!Handed(s)' = pre \o open'[s] /\ (s \notin crowded' => pre = <<>>)
    <3>1. s \in DOMAIN open /\ s # x /\ open'[s] = open[s]
      BY <2>1, <2>2
    <3>2. Logger!Handed(s)' = Logger!Handed(s)
      BY <1>5, <1>6, <3>1
    <3>3. PICK pre \in Seq(AnyAttr) :
            Logger!Handed(s) = pre \o open[s] /\ (s \notin crowded => pre = <<>>)
      BY <3>1 DEF RecordInv
    <3>4. open[s] \in Seq(AnyAttr)
      BY <3>1 DEF RecordInv
    <3>. QED
      BY <2>1, <3>1, <3>2, <3>3, <3>4
  <2>3. ASSUME NEW CONSTANT s, s \notin DOMAIN open' /\ s \notin crowded' /\ s \notin Ended'
        PROVE  Logger!Handed(s)' = <<>>
    <3>1. s \notin DOMAIN open /\ s # x /\ s \notin crowded
      BY <2>1, <2>3
    <3>2. Logger!Handed(s) = <<>>
      BY <1>11, <1>12, <2>3, <3>1 DEF RecordInv
    <3>. QED
      BY <1>5, <1>6, <3>1, <3>2
  <2>. QED
    BY <1>2, <1>13, <2>1, <2>2, <2>3 DEF RecordInv
<1>. QED
  BY <1>14, <1>15, <1>16

\* An end hands no attributes; its record, if the logger gets one, is faithful.
LEMMA EndStep ==
  ASSUME StreamInv, RecordInv, LogInv, SlogTurn, NEW e \in Events, e.span \notin Ended,
         Logger!Emit(e) \/ Logger!LoggerPanics(e)
  PROVE  RecordInv'
<1>1. /\ heard' = Append(heard, e) /\ UNCHANGED crowded /\ e.kind = "end"
      /\ records' \in {records, Logger!Logged(e)}
      /\ open' \in {open, Logger!Closed(e.span)}
  BY DEF Logger!Emit, Logger!LoggerPanics, Logger!Hear
<1>2. heard \in Seq(Events) /\ heard' \in Seq(Events)
  BY <1>1, AppendProperties DEF RecordInv
<1>3. \A s : Logger!Handed(s)' = Logger!Handed(s)
  <2>1. ASSUME NEW CONSTANT s PROVE Logger!Handed(s)' = Logger!Handed(s)
    <3>1. Part(s, e) = <<>>
      BY <1>1, FanoutAssumption DEF Part
    <3>2. Logger!Handed(s) \o <<>> = Logger!Handed(s)
      BY <1>2, HandedIs, ConcatEmptySeq
    <3>3. Logger!Handed(s)' = Logger!Handed(s) \o Part(s, e)
      BY <1>1, <1>2, HandedMore
    <3>. QED
      BY <3>1, <3>2, <3>3
  <2>. QED
    BY <2>1
<1>4. PICK x : x = e.span
  OBVIOUS
<1>5. Ended' = Ended \cup {x}
  <2>1. heard \in Seq(Range(heard))
    BY <1>2 DEF Range
  <2>2. Ended' = Ended \cup {s \in {e.span} : e.kind = "end"}
    BY <1>1, <2>1, HearEvent
  <2>. QED
    BY <1>1, <1>4, <2>2
<1>6. ~Closing
  BY NotClosing
<1>7. PICK attrs : attrs = IF x \in DOMAIN open THEN Logger!mergeLastWins(open[x]) ELSE <<>>
  OBVIOUS
<1>8. attrs \in Seq(AnyAttr) /\ Logger!Merges(attrs, Logger!Handed(x), x \notin crowded)
  <2>1. CASE x \in DOMAIN open
    <3>1. PICK o : o = open[x]
      OBVIOUS
    <3>2. PICK pre \in Seq(AnyAttr) : Logger!Handed(x) = pre \o o /\ (x \notin crowded => pre = <<>>)
      BY <2>1, <3>1 DEF RecordInv
    <3>3. o \in Seq(AnyAttr)
      BY <2>1, <3>1 DEF RecordInv
    <3>4. attrs = Logger!mergeLastWins(o)
      BY <1>7, <2>1, <3>1
    <3>5. attrs \in Seq(AnyAttr)
      BY <3>3, <3>4, MergeCorrect
    <3>. QED
      BY <3>2, <3>3, <3>4, <3>5, MergeFaithful
  <2>2. CASE x \notin DOMAIN open
    <3>1. x \notin crowded => Logger!Handed(x) = <<>>
      BY <1>4, <1>6, <2>2 DEF RecordInv
    <3>2. Logger!Merges(<<>>, Logger!Handed(x), x \notin crowded)
      BY <3>1, EmptyFaithful
    <3>. QED
      BY <1>7, <2>2, <3>2, EmptySeq
  <2>. QED
    BY <2>1, <2>2
<1>12. Range(heard) \subseteq Range(heard') /\ e \in Range(heard')
  BY <1>1, <1>2, HeardGrows
<1>9. \A n \in DOMAIN records' : \E s, h :
         /\ s = records'[n].span /\ h = Logger!Handed(s)'
         /\ Made(Range(heard'), records'[n], h, s \notin crowded')
  <2>1. ASSUME NEW CONSTANT n, n \in DOMAIN records
        PROVE  \E s, h : /\ s = records[n].span /\ h = Logger!Handed(s)'
                         /\ Made(Range(heard'), records[n], h, s \notin crowded')
    <3>1. PICK s, h : /\ s = records[n].span /\ h = Logger!Handed(s)
                      /\ Made(Range(heard), records[n], h, s \notin crowded)
      BY <2>1 DEF RecordInv
    <3>2. h = Logger!Handed(s)' /\ (s \notin crowded') = (s \notin crowded)
      BY <1>1, <1>3, <3>1
    <3>3. Made(Range(heard'), records[n], h, s \notin crowded')
      BY <1>12, <3>1, <3>2, MadeStays
    <3>. QED
      BY <3>1, <3>2, <3>3
  <2>2. CASE records' = records
    BY <2>1, <2>2
  <2>3. CASE records' = Logger!Logged(e)
    <3>1. PICK r : r = [span |-> x, attrs |-> Logger!Fixed(e) \o attrs]
      OBVIOUS
    <3>2. records' = Append(records, r)
      BY <1>4, <1>7, <2>3, <3>1 DEF Logger!Logged, Logger!Record
    <3>3. /\ DOMAIN records' = DOMAIN records \cup {Len(records) + 1}
          /\ \A k \in DOMAIN records : records'[k] = records[k]
          /\ records'[Len(records) + 1] = r
      BY <3>2, Appended DEF LogInv
    <3>4. \E s, h : /\ s = r.span /\ h = Logger!Handed(s)'
                    /\ Made(Range(heard'), r, h, s \notin crowded')
      <4>1. r.span = x /\ r.attrs = Logger!Fixed(e) \o attrs
        BY <3>1
      <4>2. PICK h : h = Logger!Handed(x)
        OBVIOUS
      <4>3. h = Logger!Handed(x)' /\ (x \notin crowded') = (x \notin crowded)
        BY <1>1, <1>3, <4>2
      <4>4. Logger!Merges(attrs, h, x \notin crowded')
        BY <1>8, <4>2, <4>3
      <4>5. Made(Range(heard'), r, h, x \notin crowded')
        BY <1>1, <1>4, <1>8, <1>12, <4>1, <4>4 DEF Made
      <4>. QED
        BY <4>1, <4>3, <4>5
    <3>5. ASSUME NEW CONSTANT n, n \in DOMAIN records
          PROVE  \E s, h : /\ s = records'[n].span /\ h = Logger!Handed(s)'
                           /\ Made(Range(heard'), records'[n], h, s \notin crowded')
      <4>1. records'[n] = records[n]
        BY <3>3, <3>5
      <4>. QED
        BY <2>1, <3>5, <4>1
    <3>. QED
      BY <3>3, <3>4, <3>5
  <2>. QED
    BY <1>1, <2>2, <2>3
<1>10. ASSUME NEW CONSTANT s, s \in DOMAIN open'
       PROVE  /\ open'[s] \in Seq(AnyAttr)
              /\ \E pre \in Seq(AnyAttr) :
                   Logger!Handed(s)' = pre \o open'[s] /\ (s \notin crowded' => pre = <<>>)
  <2>1. s \in DOMAIN open /\ open'[s] = open[s]
    BY <1>1, <1>10 DEF Logger!Closed
  <2>2. Logger!Handed(s)' = Logger!Handed(s)
    BY <1>3
  <2>. QED
    BY <1>1, <2>1, <2>2 DEF RecordInv
<1>11. ASSUME NEW CONSTANT s, s \notin DOMAIN open' /\ s \notin crowded' /\ s \notin Ended'
       PROVE  Logger!Handed(s)' = <<>>
  <2>1. s \notin DOMAIN open
    BY <1>1, <1>4, <1>5, <1>11 DEF Logger!Closed
  <2>2. Logger!Handed(s) = <<>>
    BY <1>1, <1>5, <1>6, <1>11, <2>1 DEF RecordInv
  <2>. QED
    BY <1>3, <2>2
<1>. QED
  BY <1>2, <1>9, <1>10, <1>11 DEF RecordInv

\* The other steps hand nothing over; only Close takes spans out of the map.
LEMMA RecordStep ==
  ASSUME TypeInv, StreamInv, HeardInv, LogInv, RecordInv, [FanoutNext]_vars
  PROVE  RecordInv'
<1>1. CASE SlogEvent \/ SlogPanics
  <2>1. PICK e : e = Event
    OBVIOUS
  <2>2. InLoop /\ \/ Logger!Track(e) \/ Logger!TrackNew(e) \/ Logger!Crowd(e)
                  \/ Logger!Emit(e) \/ Logger!LoggerPanics(e)
    BY <1>1, <2>1 DEF SlogEvent, SlogPanics
  <2>3. SlogTurn /\ e.span \notin Ended /\ e \in Events
    <3>1. /\ SlogTurn /\ read \in Nat /\ Len(Batch) \in Nat /\ read < Len(Batch)
          /\ Batch \in Seq(Events) /\ Event.span \notin Ended
      BY <2>2, NextEvent
    <3>2. Batch[read + 1] \in Events
      <4>1. read + 1 \in 1..Len(Batch)
        BY <3>1
      <4>. QED
        BY <3>1, <4>1, ElementOfSeq
    <3>. QED
      BY <2>1, <3>1, <3>2 DEF Event
  <2>. QED
    BY <2>2, <2>3, TakeStep, EndStep
<1>2. CASE ~SlogEvent /\ ~SlogPanics
  <2>1. UNCHANGED <<records, heard, crowded>> /\ open' \in {open, [s \in {} |-> <<>>]}
    BY <1>2, QuietStep
  <2>2. /\ Closing => Closing'
        /\ open' # open => Closing'
    <3>1. \A b : WriteBatch(b) \/ Flush \/ Close => ~Closing
      BY DEF WriteBatch, Flush, Close, Closing
    <3>2. CASE UNCHANGED calls
      <4>1. Closing' = Closing
        BY <3>2 DEF Closing
      <4>2. open' # open => SlogClose
        BY <1>2 DEF FanoutNext, Deliver, FlushAll, CloseAll, OtherReturns, OtherPanics,
                    SlogReturns, SlogFlush, ReturnAll, vars, logVars, slogVars
      <4>3. SlogClose => Closing
        BY DEF SlogClose, StreamInv, TypeInv, Placed, Closing
      <4>. QED
        BY <4>1, <4>2, <4>3
    <3>3. CASE calls' # calls
      <4>1. (\E b \in Batches : Deliver(b)) \/ FlushAll \/ CloseAll
        BY <1>2, <3>3 DEF FanoutNext, OtherReturns, OtherPanics, SlogReturns, SlogFlush,
                          SlogClose, MemberReturns, MemberPanics, ReturnAll, Return, Leave,
                          vars, multiVars
      <4>2. ~Closing /\ open' = open
        BY <3>1, <4>1 DEF Deliver, FlushAll, CloseAll, logVars, slogVars
      <4>. QED
        BY <4>2
    <3>. QED
      BY <3>2, <3>3
  <2>3. \A s : Logger!Handed(s)' = Logger!Handed(s)
    BY <2>1 DEF Logger!Handed
  <2>4. Ended' = Ended
    BY <2>1 DEF Ended, Logger!Ended
  <2>5. \A n \in DOMAIN records' : \E s, h :
          /\ s = records'[n].span /\ h = Logger!Handed(s)'
          /\ Made(Range(heard'), records'[n], h, s \notin crowded')
    BY <2>1, <2>3 DEF RecordInv
  <2>6. CASE open' = open
    BY <2>1, <2>2, <2>3, <2>4, <2>5, <2>6 DEF RecordInv
  <2>7. CASE open' # open
    <3>1. DOMAIN open' = {}
      BY <2>1, <2>7
    <3>2. Closing' /\ heard' \in Seq(Events)
      BY <2>1, <2>2, <2>7 DEF RecordInv
    <3>. QED
      BY <2>5, <3>1, <3>2 DEF RecordInv
  <2>. QED
    BY <2>6, <2>7
<1>. QED
  BY <1>1, <1>2

\* Without its prefix a sequence is the rest.
LEMMA RestIs ==
  ASSUME NEW X, NEW own \in Seq(X), NEW m \in Seq(X)
  PROVE  SubSeq(own \o m, Len(own) + 1, Len(own \o m)) = m
<1>. DEFINE w == own \o m
            k == Len(own)
            r == SubSeq(w, k + 1, Len(w))
<1>1. k \in Nat /\ Len(m) \in Nat /\ w \in Seq(X) /\ Len(w) = k + Len(m)
  BY LenProperties, ConcatProperties
<1>2. \A i \in 1..Len(m) : w[k + i] = m[i]
  <2>. SUFFICES ASSUME NEW i \in 1..Len(m) PROVE w[k + i] = m[i]
    OBVIOUS
  <2>1. k + i \in 1..(Len(own) + Len(m)) /\ ~(k + i <= Len(own)) /\ (k + i) - Len(own) = i
    BY <1>1
  <2>. QED
    BY <2>1, ConcatProperties
<1>. HIDE DEF w
<1>3. r \in Seq(X) /\ Len(r) = Len(m) /\ \A i \in 1..Len(m) : r[i] = w[k + i]
  BY <1>1
<1>. QED
  BY <1>1, <1>2, <1>3, SeqEqual DEF w

\* The attributes emit puts first are four or five.
LEMMA FixedSeq == ASSUME NEW e PROVE \E F : Logger!Fixed(e) \in Seq(F)
<1>. DEFINE S == {Logger!Field("span_id", e.span), Logger!Field("trace_id", e.trace),
                  Logger!Field("duration", e.duration), Logger!Field("status", e.status),
                  Logger!Field("error", e.error)}
<1>1. PICK F : F = S
  OBVIOUS
<1>2. /\ Logger!Field("span_id", e.span) \in F /\ Logger!Field("trace_id", e.trace) \in F
      /\ Logger!Field("duration", e.duration) \in F /\ Logger!Field("status", e.status) \in F
      /\ Logger!Field("error", e.error) \in F
  BY <1>1
<1>3. <<Logger!Field("span_id", e.span), Logger!Field("trace_id", e.trace),
        Logger!Field("duration", e.duration), Logger!Field("status", e.status)>> \in Seq(F)
  BY <1>2
<1>4. (IF e.error = "" THEN <<>> ELSE <<Logger!Field("error", e.error)>>) \in Seq(F)
  <2>1. <<Logger!Field("error", e.error)>> \in Seq(F)
    BY <1>2
  <2>2. <<>> \in Seq(F)
    BY EmptySeq
  <2>. QED
    BY <2>1, <2>2, Zenon
<1>. QED
  BY <1>3, <1>4, ConcatProperties DEF Logger!Fixed

\* So every record is faithful.
LEMMA RecordHolds == RecordInv => RecordFaithful
<1>. SUFFICES ASSUME RecordInv, NEW n \in DOMAIN records
     PROVE  \E i \in DOMAIN heard :
              LET own == Logger!Fixed(heard[i])
                  line == records[n].attrs
                  rest == SubSeq(line, Len(own) + 1, Len(line))
                  s == records[n].span
              IN  /\ heard[i].kind = "end" /\ heard[i].span = s
                  /\ line = own \o rest
                  /\ Logger!Merges(rest, Logger!Handed(s), s \notin crowded)
  BY DEF RecordFaithful, Logger!RecordFaithful
<1>1. PICK s, h : /\ s = records[n].span /\ h = Logger!Handed(s)
                  /\ Made(Range(heard), records[n], h, s \notin crowded)
  BY DEF RecordInv
<1>2. PICK e \in Range(heard), m \in Seq(AnyAttr) :
        /\ e.kind = "end" /\ e.span = s
        /\ records[n].attrs = Logger!Fixed(e) \o m
        /\ Logger!Merges(m, h, s \notin crowded)
  BY <1>1 DEF Made
<1>3. PICK i \in DOMAIN heard : heard[i] = e
  BY <1>2 DEF Range
<1>4. PICK own : own = Logger!Fixed(e)
  OBVIOUS
<1>5. SubSeq(own \o m, Len(own) + 1, Len(own \o m)) = m
  <2>1. PICK F : own \in Seq(F)
    BY <1>4, FixedSeq
  <2>2. PICK X : X = F \cup AnyAttr
    OBVIOUS
  <2>3. own \in Seq(X) /\ m \in Seq(X)
    BY <1>2, <2>1, <2>2
  <2>. QED
    BY <2>3, RestIs
<1>. QED
  BY <1>1, <1>2, <1>3, <1>4, <1>5

\* At the start nothing was handed and nothing is logged.
LEMMA RecordInit == FanoutInit => RecordInv
<1>. SUFFICES ASSUME FanoutInit PROVE RecordInv
  OBVIOUS
<1>1. heard = <<>> /\ records = <<>> /\ DOMAIN open = {}
  BY DEF FanoutInit, Logger!Init
<1>2. heard \in Seq(Events) /\ DOMAIN records = {}
  BY <1>1, EmptySeq
<1>3. \A s : Logger!Handed(s) = <<>>
  <2>1. ASSUME NEW CONSTANT s PROVE Logger!Handed(s) = <<>>
    <3>1. PICK p : p = Parts(s)
      OBVIOUS
    <3>2. p \in Seq(Seq(AnyAttr)) /\ Logger!Handed(s) = FlattenSeq(p)
      BY <1>2, <3>1, HandedIs
    <3>3. p = <<>>
      <4>1. DOMAIN p = {}
        BY <1>1, <3>1 DEF Parts
      <4>. QED
        BY <3>2, <4>1, EmptySeq, LenProperties
    <3>. QED
      BY <3>2, <3>3, FlattenType
  <2>. QED
    BY <2>1
<1>. QED
  BY <1>1, <1>2, <1>3 DEF RecordInv

-----------------------------------------------------------------------------
(* Together                                                                *)

AllInv == TypeInv /\ StarveInv /\ StreamInv /\ HeardInv /\ OpenInv /\ LogInv /\ RecordInv

\* All of it together, from the start and over every step.
LEMMA AllHolds == FanoutSpec => []AllInv
<1>1. FanoutInit => AllInv
  <2>. SUFFICES ASSUME FanoutInit PROVE AllInv
    OBVIOUS
  <2>1. /\ calls = <<>> /\ op = "none" /\ at = 1 /\ delivered = <<>> /\ read = 0
        /\ heard = <<>> /\ records = <<>> /\ open = [s \in {} |-> <<>>] /\ panicked = {}
    BY DEF FanoutInit, Init, Logger!Init
  <2>2. TypeInv /\ StarveInv
    BY StarveInit DEF FanoutInit
  <2>3. StreamInv
    BY <2>1 DEF StreamInv, InOrder
  <2>4. Ended = {} /\ Recorded = {}
    BY <2>1 DEF Ended, Logger!Ended, Recorded
  <2>5. InHand = {} /\ EndsTook("ok") = {} /\ EndsTook("panic") = {}
    <3>1. \A x : Took(x) = {}
      BY <2>1 DEF Took
    <3>. QED
      BY <2>1, <3>1 DEF InHand, SlogTurn, EndsTook, EndsOf
  <2>6. HeardInv /\ OpenInv /\ LogInv
    <3>1. <<>> \in Seq(Range(<<>>)) /\ DOMAIN <<>> = {}
      OBVIOUS
    <3>2. DOMAIN open = {}
      BY <2>1
    <3>3. OpenInv
      BY <2>4, <3>2, FS_EmptySet, FanoutAssumption DEF OpenInv
    <3>. QED
      BY <2>1, <2>4, <2>5, <3>1, <3>3 DEF HeardInv, LogInv
  <2>7. RecordInv
    BY RecordInit
  <2>. QED
    BY <2>2, <2>3, <2>6, <2>7 DEF AllInv
<1>2. ASSUME AllInv, [FanoutNext]_vars PROVE AllInv'
  <2>. USE <1>2 DEF AllInv
  <2>1. TypeInv' /\ StarveInv'
    BY FanoutStep, TypeStep, StarveStep
  <2>2. StreamInv'
    BY StreamStep
  <2>3. HeardInv'
    BY HeardStep
  <2>4. OpenInv'
    BY OpenStep
  <2>5. LogInv'
    BY LogStep DEF StarveInv
  <2>6. RecordInv'
    BY RecordStep
  <2>. QED
    BY <2>1, <2>2, <2>3, <2>4, <2>5, <2>6
<1>. QED
  BY <1>1, <1>2, PTL DEF FanoutSpec

\* The map of the log sink stays within its cap and keeps no span whose end was handled,
\* unless the logger panicked on it, whatever is lost on the way (slog_sink.go:29-36).
THEOREM OpenCorrect == FanoutSpec => []OpenIsBounded
<1>1. AllInv => OpenIsBounded
  BY SameCardinality DEF AllInv, OpenInv, OpenIsBounded, Logger!OpenIsBounded, Ended
<1>. QED
  BY <1>1, AllHolds, PTL

\* Between the writer's calls the log holds one record for each end in a batch the log sink
\* took, and no other but in a batch on which its logger panicked (slog_sink.go:86-88).
THEOREM LogCorrect == FanoutSpec => []LogFollowsDelivery
<1>1. AllInv => LogFollowsDelivery
  <2>. SUFFICES ASSUME AllInv, op = "none" PROVE LogFollowsDelivery
    BY DEF LogFollowsDelivery
  <2>1. \A x : {i \in Writes : x \in Outcomes(Slog, i)} = Took(x)
    BY DEF Writes, Finished, Took
  <2>2. InHand = {}
    BY DEF InHand, SlogTurn
  <2>3. Logger!OneRecordPerEnd
    BY DEF AllInv, LogInv, Ended, Recorded, Logger!OneRecordPerEnd
  <2>. QED
    BY <2>1, <2>2, <2>3 DEF LogFollowsDelivery, AllInv, LogInv, Recorded, EndsTook
<1>. QED
  BY <1>1, AllHolds, PTL

\* A record is the attributes of a handled end and, after them, a merge of the user's: each
\* user key once, with the last value handed for it, and every user key in the order of
\* their first appearance unless the map was full in the span's life; whatever is lost, and
\* whatever the other members do (slog_sink.go:90-98, 114-116).
THEOREM RecordCorrect == FanoutSpec => []RecordFaithful
<1>1. AllInv => RecordFaithful
  BY RecordHolds DEF AllInv
<1>. QED
  BY <1>1, AllHolds, PTL
=============================================================================
