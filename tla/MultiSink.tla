----------------------------- MODULE MultiSink ------------------------------
(***************************************************************************)
(* A tracer whose sink is MultiSink(1, ..., Members): the writer's calls   *)
(* (writer.go) and the fan-out that passes each of them to every member in *)
(* order (multi_sink.go).  A member returns nil or an error, or panics.    *)
(* Errors are joined; a panic unwinds the fan-out to the writer, whose     *)
(* recoverSinkPanic contains it.                                           *)
(***************************************************************************)
EXTENDS Integers, Sequences, FiniteSets, Functions

CONSTANTS
  Members,    \* how many sinks are fanned out to, nil entries dropped
  Batches,    \* the batches the writer may deliver
  MaxCalls,   \* bound: WriteBatch and Flush calls before the last Flush and Close
  MaxFaults   \* bound: member calls that fail

ASSUME MultiSinkAssumption ==
  /\ Members \in Nat
  /\ MaxCalls \in Nat
  /\ MaxFaults \in Nat
  /\ \A b \in Batches : Len(b) \in Nat

Sinks == 1..Members
Ops == {"write", "flush", "close"}
Call == [op : Ops, batch : Batches \cup {<<>>}]

VARIABLES
  op,           \* the call the fan-out is in, or "none"
  at,           \* the member it has reached; past Members the loop is over
  errs,         \* the members whose error it has collected
  written,      \* Stats.Written
  writeErrors,  \* Stats.WriteErrors
  closeErr,     \* the tracer's closeErr
  calls,        \* history: the calls of the writer
  got           \* history: member -> the calls that reached it, and how each went

countVars == <<written, writeErrors, closeErr>>
multiVars == <<op, at, errs, countVars, calls, got>>

Init ==
  /\ op = "none"
  /\ at = 1
  /\ errs = {}
  /\ written = 0
  /\ writeErrors = 0
  /\ closeErr = "nil"
  /\ calls = <<>>
  /\ got = [m \in Sinks |-> <<>>]

-----------------------------------------------------------------------------
(* Seeded faults, used by mutation checks only                             *)

FailFast(outcome) == IF outcome = "error" THEN Members + 1 ELSE at + 1
LastErrorOnly(outcome) == IF outcome = "error" THEN {at} ELSE {}
PanicUncounted == 0

-----------------------------------------------------------------------------
(* The writer calls the fan-out                                            *)

Begin(o, b) ==
  /\ op = "none"
  /\ op' = o
  /\ calls' = Append(calls, [op |-> o, batch |-> b])
  /\ UNCHANGED <<at, errs, countVars, got>>

Closing == calls # <<>> /\ calls[Len(calls)].op = "close"

WriteBatch(b) == ~Closing /\ Len(calls) < MaxCalls /\ Begin("write", b)
Flush == ~Closing /\ Len(calls) <= MaxCalls /\ Begin("flush", <<>>)

\* The writer closes the sink right after its last Flush, and returns.
Close ==
  /\ calls # <<>> /\ calls[Len(calls)].op = "flush"
  /\ Begin("close", <<>>)

-----------------------------------------------------------------------------
(* The loop over the members                                               *)

NextMember(outcome) == at + 1
Collected(outcome) == IF outcome = "error" THEN errs \cup {at} ELSE errs

Failed == {k \in Sinks \X (1..Len(calls)) :
             k[2] \in DOMAIN got[k[1]] /\ got[k[1]][k[2]].outcome # "ok"}

Reach(outcome) ==
  /\ op # "none"
  /\ at \in Sinks
  /\ outcome # "ok" => Cardinality(Failed) < MaxFaults
  /\ got' = [got EXCEPT ![at] = Append(@, [call |-> Len(calls), outcome |-> outcome])]

MemberReturns(outcome) ==
  /\ Reach(outcome)
  /\ at' = NextMember(outcome)
  /\ errs' = Collected(outcome)
  /\ UNCHANGED <<op, countVars, calls>>

PanicCount == 1

Leave ==
  /\ op' = "none"
  /\ at' = 1
  /\ errs' = {}
  /\ UNCHANGED calls

\* The panic takes the rest of the loop and the collected errors with it.
MemberPanics ==
  /\ Reach("panic")
  /\ writeErrors' = writeErrors + PanicCount
  /\ Leave
  /\ UNCHANGED <<written, closeErr>>

-----------------------------------------------------------------------------
(* The joined error is back in the writer                                  *)

Accepted ==
  /\ op = "write" /\ errs = {}
  /\ written' = written + Len(calls[Len(calls)].batch)
  /\ UNCHANGED <<writeErrors, closeErr>>

Flushed ==
  /\ op = "flush" /\ errs = {}
  /\ UNCHANGED countVars

Rejected ==
  /\ op \in {"write", "flush"} /\ errs # {}
  /\ writeErrors' = writeErrors + 1
  /\ UNCHANGED <<written, closeErr>>

Closed ==
  /\ op = "close"
  /\ closeErr' = IF errs = {} THEN "nil" ELSE "error"
  /\ UNCHANGED <<written, writeErrors>>

Return ==
  /\ op # "none" /\ at > Members
  /\ Accepted \/ Flushed \/ Rejected \/ Closed
  /\ Leave
  /\ UNCHANGED got

Next ==
  \/ \E b \in Batches : WriteBatch(b)
  \/ Flush
  \/ Close
  \/ \E outcome \in {"ok", "error"} : MemberReturns(outcome)
  \/ MemberPanics
  \/ Return

Spec == Init /\ [][Next]_multiVars

-----------------------------------------------------------------------------
(* Properties                                                              *)

\* Every variable holds a value of its Go type, the loop stays in the members, and
\* the errors collected are this call's.
TypeOK ==
  /\ op \in Ops \cup {"none"}
  /\ at \in 1..Members + 1
  /\ errs \subseteq 1..at - 1
  /\ written \in Nat /\ writeErrors \in Nat
  /\ closeErr \in {"nil", "error"}
  /\ calls \in Seq(Call)
  /\ got \in [Sinks -> Seq([call : Nat, outcome : {"ok", "error", "panic"}])]

\* The calls the writer is back from.
Finished == 1..(IF op = "none" THEN Len(calls) ELSE Len(calls) - 1)

Outcomes(m, i) == {got[m][k].outcome : k \in {j \in DOMAIN got[m] : got[m][j].call = i}}
PanickedBefore(m, i) == \E j \in 1..m - 1 : "panic" \in Outcomes(j, i)

\* A member gets every call of the writer, once and in the writer's order, except
\* the calls in which a member listed before it panicked: an error of one member
\* never costs another a call (multi_sink.go:8).
OnlyPanicStarves ==
  \A m \in Sinks :
    /\ \A j, k \in DOMAIN got[m] : j < k => got[m][j].call < got[m][k].call
    /\ \A i \in Finished : Outcomes(m, i) = {} <=> PanickedBefore(m, i)

EventsOf(C) == FoldFunction(LAMBDA x, y : x + y, 0, [i \in C |-> Len(calls[i].batch)])
Writes == {i \in Finished : calls[i].op = "write"}

\* Stats.Written counts an event once every member has accepted it and not before
\* (stats.go:20, "accepted by the sink"): no member accepted less.
WrittenMeansEveryone ==
  written = EventsOf({i \in Writes : \A m \in Sinks : Outcomes(m, i) = {"ok"}})

\* Every call of the fan-out in which a member failed shows exactly once: in
\* Stats.WriteErrors, or, when Close failed without a panic, in the tracer's
\* closeErr (stats.go:35-40, writer.go:103-106).
FailuresShowOnce ==
  LET panicked == {i \in Finished : \E m \in Sinks : "panic" \in Outcomes(m, i)}
      failed == {i \in Finished : \E m \in Sinks : "error" \in Outcomes(m, i)} \ panicked
      closes == {i \in Finished : calls[i].op = "close"}
  IN  /\ writeErrors = Cardinality(panicked) + Cardinality(failed \ closes)
      /\ closeErr = "error" <=> failed \cap closes # {}

\* "One failure never starves the rest" (docs/SPEC.md:82), a panic being "one failed
\* delivery" too (writer.go:77-78): every member gets every call of the writer.
NoMemberStarves == \A m \in Sinks, i \in Finished : Outcomes(m, i) # {}
=============================================================================
