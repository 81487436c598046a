-------------------------------- MODULE Warn --------------------------------
(***************************************************************************)
(* The rate limit of the tracer's complaints (tracer.go:372-395): any      *)
(* number of goroutines, the writer and callers whose guard recovered, ask *)
(* to warn.  Each reads the clock, loads lastWarn and tries to swap it;    *)
(* the winner logs.  The clock is in seconds and moves at any moment.      *)
(***************************************************************************)
EXTENDS Integers, Sequences

CONSTANTS
  Callers,   \* goroutines that warn
  MaxClock,  \* bound: seconds the run lasts
  MaxSwaps   \* bound: swaps won before the last callers start

ASSUME WarnAssumption == MaxClock \in Nat \ {0} /\ MaxSwaps \in Nat

VARIABLES
  clock,     \* time.Now().Unix()
  lastWarn,  \* the atomic
  pc,        \* caller -> "idle", "load", "swap" or "log"
  now,       \* caller -> the second it read
  last,      \* caller -> the lastWarn it loaded
  seen,      \* history: caller -> swaps won when it loaded
  swaps,     \* history: the seconds the winners swapped in
  logged     \* history: the seconds stamped on the warnings, as they are logged

vars == <<clock, lastWarn, pc, now, last, seen, swaps, logged>>

Init ==
  /\ clock = 1
  /\ lastWarn = 0
  /\ pc = [c \in Callers |-> "idle"]
  /\ now = [c \in Callers |-> 0]
  /\ last = [c \in Callers |-> 0]
  /\ seen = [c \in Callers |-> 0]
  /\ swaps = <<>>
  /\ logged = <<>>

-----------------------------------------------------------------------------
(* Seeded faults, used by mutation checks only                             *)

SwapBlindly(c) == TRUE                 \* a Store in place of the CompareAndSwap
QuietWhenBehind(c) == now[c] <= last[c] + 1   \* one complaint every other second

-----------------------------------------------------------------------------
Tick ==
  /\ clock < MaxClock
  /\ clock' = clock + 1
  /\ UNCHANGED <<lastWarn, pc, now, last, seen, swaps, logged>>

ReadClock(c) ==
  /\ pc[c] = "idle"
  /\ Len(swaps) < MaxSwaps
  /\ now' = [now EXCEPT ![c] = clock]
  /\ pc' = [pc EXCEPT ![c] = "load"]
  /\ UNCHANGED <<clock, lastWarn, last, seen, swaps, logged>>

Load(c) ==
  /\ pc[c] = "load"
  /\ last' = [last EXCEPT ![c] = lastWarn]
  /\ seen' = [seen EXCEPT ![c] = Len(swaps)]
  /\ pc' = [pc EXCEPT ![c] = "swap"]
  /\ UNCHANGED <<clock, lastWarn, now, swaps, logged>>

SameSecond(c) == now[c] = last[c]
Unmoved(c) == lastWarn = last[c]

\* Somebody already warned in this second, or swapped first: stay quiet.
Quiet(c) ==
  /\ pc[c] = "swap"
  /\ SameSecond(c) \/ ~Unmoved(c)
  /\ pc' = [pc EXCEPT ![c] = "idle"]
  /\ UNCHANGED <<clock, lastWarn, now, last, seen, swaps, logged>>

Win(c) ==
  /\ pc[c] = "swap"
  /\ ~SameSecond(c)
  /\ Unmoved(c)
  /\ lastWarn' = now[c]
  /\ swaps' = Append(swaps, now[c])
  /\ pc' = [pc EXCEPT ![c] = "log"]
  /\ UNCHANGED <<clock, now, last, seen, logged>>

\* The logger is user code; warn swallows its panic.
Log(c) ==
  /\ pc[c] = "log"
  /\ logged' = Append(logged, now[c])
  /\ pc' = [pc EXCEPT ![c] = "idle"]
  /\ UNCHANGED <<clock, lastWarn, now, last, seen, swaps>>

Next == Tick \/ \E c \in Callers : ReadClock(c) \/ Load(c) \/ Quiet(c) \/ Win(c) \/ Log(c)
Spec == Init /\ [][Next]_vars

-----------------------------------------------------------------------------
(* Properties                                                              *)

\* Two swaps in a row never come from the same second, however the racers into a
\* new second interleave: of those that loaded the same value one wins
\* (tracer.go:377-386).
NeverTwiceInARow == \A i \in 1..Len(swaps) - 1 : swaps[i] # swaps[i + 1]

\* Losing a complaint is fine because somebody else's went out (tracer.go:380): a
\* caller stays quiet only if the last winner's second was its own, or another
\* caller won since it loaded.
QuietOnlyIfSomeoneSpoke ==
  [][\A c \in Callers : pc[c] = "swap" /\ pc'[c] = "idle" =>
       \/ seen[c] > 0 /\ swaps[seen[c]] = now[c]
       \/ Len(swaps) > seen[c]]_vars

\* tracer.go:372 and 377: at most one warning per wall-clock second.
AtMostOncePerSecond == \A i, j \in 1..Len(logged) : i # j => logged[i] # logged[j]
=============================================================================
