----------------------------- MODULE SpanStream -----------------------------
(***************************************************************************)
(* What a tracer promises its callers, with no channel, no writer and no   *)
(* locks: each public call takes effect at one instant, and the stream of  *)
(* events carries some of what happened, in the order it took effect.      *)
(* Tracer implements this specification.                                   *)
(***************************************************************************)
EXTENDS Integers, Sequences

CONSTANTS SpanIds, Failures

VARIABLES
  known,     \* the spans callers hold
  finished,  \* the spans whose End took effect
  lineage,   \* span -> parent ID, 0 for a root or an unknown span
  verdict,   \* span -> status
  out        \* the events made visible to the sink, in order

vars == <<known, finished, lineage, verdict, out>>

Init ==
  /\ known = {}
  /\ finished = {}
  /\ lineage = [s \in SpanIds |-> 0]
  /\ verdict = [s \in SpanIds |-> "ok"]
  /\ out = <<>>

Record(kind, s, q, v) == [kind |-> kind, span |-> s, parent |-> q, status |-> v]

\* An event is made visible or lost; it is never delayed past its call.
MaybeEmit(e) == out' \in {out, Append(out, e)}

Start(s, q) ==
  /\ s \notin known
  /\ known' = known \cup {s}
  /\ lineage' = [lineage EXCEPT ![s] = q]
  /\ MaybeEmit(Record("start", s, q, "ok"))
  /\ UNCHANGED <<finished, verdict>>

SetAttrs(s) ==
  /\ s \notin finished
  /\ MaybeEmit(Record("attrs", s, 0, "ok"))
  /\ UNCHANGED <<known, finished, lineage, verdict>>

Fail(s, v) ==
  /\ s \notin finished
  /\ verdict' = [verdict EXCEPT ![s] = v]
  /\ UNCHANGED <<known, finished, lineage, out>>

End(s) ==
  /\ s \notin finished
  /\ finished' = finished \cup {s}
  /\ MaybeEmit(Record("end", s, lineage[s], verdict[s]))
  /\ UNCHANGED <<known, lineage, verdict>>

Next ==
  \/ \E s \in SpanIds, q \in known \cup {0} : Start(s, q)
  \/ \E s \in known : SetAttrs(s) \/ End(s) \/ (\E v \in Failures : Fail(s, v))

Spec == Init /\ [][Next]_vars
=============================================================================
