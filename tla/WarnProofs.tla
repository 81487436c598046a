----------------------------- MODULE WarnProofs -----------------------------
(***************************************************************************)
(* What holds of the rate limit for every number of callers, however long  *)
(* the run.  Everything rests on one fact about the atomic: lastWarn is    *)
(* the second of the last swap won, and a caller's loaded value the second *)
(* of the last swap won when it loaded.                                    *)
(***************************************************************************)
EXTENDS Warn, TLAPS, SequenceTheorems

\* The second swapped in last when n swaps were won; the atomic starts at 0.
SecondAfter(n) == IF n = 0 THEN 0 ELSE swaps[n]

\* Values have their types; a second is never 0, which stands for no warning yet.
WarnTypes ==
  /\ clock \in Nat \ {0}
  /\ pc \in [Callers -> {"idle", "load", "swap", "log"}]
  /\ now \in [Callers -> Nat]
  /\ last \in [Callers -> Nat]
  /\ seen \in [Callers -> Nat]
  /\ swaps \in Seq(Nat \ {0})
  /\ \A c \in Callers : pc[c] # "idle" => now[c] # 0

\* What the atomic holds, and what a caller about to swap knows of it.
Witnessed(c) == seen[c] <= Len(swaps) /\ last[c] = SecondAfter(seen[c])
WarnInv ==
  /\ WarnTypes
  /\ lastWarn = SecondAfter(Len(swaps))
  /\ \A c \in Callers : pc[c] = "swap" => Witnessed(c)
  /\ NeverTwiceInARow

\* The invariant holds before anyone warned.
LEMMA WarnInit == Init => WarnInv
<1>. SUFFICES ASSUME Init PROVE WarnInv
  OBVIOUS
<1>1. <<>> \in Seq(Nat \ {0}) /\ Len(<<>>) = 0
  BY EmptySeq
<1>. QED
  BY <1>1 DEF Init, WarnInv, WarnTypes, SecondAfter, NeverTwiceInARow

\* Every step keeps it: a winner saw an atomic that differs from its own second.
LEMMA WarnStep == WarnInv /\ [Next]_vars => WarnInv'
<1>. SUFFICES ASSUME WarnInv, [Next]_vars PROVE WarnInv'
  OBVIOUS
<1>. USE DEF WarnInv, WarnTypes
<1>t. Len(swaps) \in Nat
  BY LenProperties
<1>1. CASE Tick
  BY <1>1 DEF Tick, Witnessed, SecondAfter, NeverTwiceInARow
<1>2. ASSUME NEW c \in Callers, ReadClock(c) PROVE WarnInv'
  BY <1>2 DEF ReadClock, Witnessed, SecondAfter, NeverTwiceInARow
<1>3. ASSUME NEW c \in Callers, Load(c) PROVE WarnInv'
  <2>1. lastWarn \in Nat
    BY <1>t, ElementOfSeq DEF SecondAfter
  <2>. QED
    BY <1>3, <1>t, <2>1 DEF Load, Witnessed, SecondAfter, NeverTwiceInARow
<1>4. ASSUME NEW c \in Callers, Quiet(c) \/ Log(c) PROVE WarnInv'
  BY <1>4 DEF Quiet, Log, Witnessed, SecondAfter, NeverTwiceInARow
<1>5. ASSUME NEW c \in Callers, Win(c) PROVE WarnInv'
  <2>. DEFINE n == Len(swaps)
  <2>1. now[c] \in Nat \ {0} /\ now[c] # lastWarn /\ swaps' = Append(swaps, now[c])
    BY <1>5 DEF Win, SameSecond, Unmoved
  <2>2. /\ swaps' \in Seq(Nat \ {0}) /\ Len(swaps') = n + 1
        /\ \A i \in 1..n : swaps'[i] = swaps[i]
        /\ swaps'[n + 1] = now[c]
    BY <2>1, AppendProperties
  <2>3. \A m \in 0..n : SecondAfter(m)' = SecondAfter(m)
    BY <1>t, <2>2 DEF SecondAfter
  <2>4. /\ lastWarn' = SecondAfter(Len(swaps))'
        /\ \A d \in Callers : pc'[d] = "swap" => Witnessed(d)'
    BY <1>5, <1>t, <2>2, <2>3 DEF Win, Witnessed, SecondAfter
  <2>5. NeverTwiceInARow'
    BY <1>t, <2>1, <2>2 DEF NeverTwiceInARow, SecondAfter
  <2>. QED
    BY <1>5, <2>2, <2>4, <2>5 DEF Win
<1>6. CASE UNCHANGED vars
  BY <1>6 DEF vars, Witnessed, SecondAfter, NeverTwiceInARow
<1>. QED
  BY <1>1, <1>2, <1>3, <1>4, <1>5, <1>6 DEF Next

\* Every reachable state satisfies the invariant.
LEMMA WarnHolds == Spec => []WarnInv
BY WarnInit, WarnStep, PTL DEF Spec

\* For any number of callers racing into a second: two swaps in a row never come from
\* the same second (tracer.go:377-386).
THEOREM NeverTwiceCorrect == Spec => []NeverTwiceInARow
<1>1. WarnInv => NeverTwiceInARow
  BY DEF WarnInv
<1>. QED
  BY WarnHolds, <1>1, PTL

\* A complaint is only lost to one that went out: in the caller's own second, or since
\* the caller loaded the atomic (tracer.go:380).
THEOREM QuietCorrect == Spec => QuietOnlyIfSomeoneSpoke
<1>. DEFINE Spoke(c) == \/ seen[c] > 0 /\ swaps[seen[c]] = now[c]
                        \/ Len(swaps) > seen[c]
            Excused == \A c \in Callers : pc[c] = "swap" /\ pc'[c] = "idle" => Spoke(c)
<1>1. ASSUME WarnInv, [Next]_vars PROVE [Excused]_vars
  <2>1. SUFFICES ASSUME Next, NEW c \in Callers, pc[c] = "swap", pc'[c] = "idle" PROVE Spoke(c)
    BY <1>1
  <2>2. Quiet(c)
    BY <1>1, <2>1 DEF Next, Tick, ReadClock, Load, Win, Log, Quiet, WarnInv, WarnTypes
  <2>3. /\ Witnessed(c) /\ now[c] # 0 /\ lastWarn = SecondAfter(Len(swaps))
        /\ seen[c] \in Nat /\ Len(swaps) \in Nat
    BY <1>1, <2>1, LenProperties DEF WarnInv, WarnTypes
  <2>. QED
    BY <2>2, <2>3 DEF Quiet, SameSecond, Unmoved, Witnessed, SecondAfter
<1>. QED
  BY WarnHolds, <1>1, PTL DEF Spec, QuietOnlyIfSomeoneSpoke
=============================================================================
