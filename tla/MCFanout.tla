------------------------------ MODULE MCFanout ------------------------------
(***************************************************************************)
(* Fanout on a small instance: batches of two events or one end, of two    *)
(* spans.                                                                  *)
(***************************************************************************)
EXTENDS Fanout

CONSTANTS s1, s2   \* spans

Attr(k, v) == [key |-> k, val |-> v]
StartWith(s, attrs) == [kind |-> "start", span |-> s, attrs |-> attrs]
AttrsWith(s, attrs) == [kind |-> "attrs", span |-> s, attrs |-> attrs]

\* s1 is the root and ends well, its child s2 fails.
EndOf(s) ==
  [kind |-> "end", span |-> s, attrs |-> <<>>, trace |-> s1, duration |-> "1ms",
   status |-> IF s = s1 THEN "ok" ELSE "error", error |-> IF s = s1 THEN "" ELSE "timeout"]

\* A duplicate key within one event, across events, and a second key before the first,
\* which is also one of the log sink's own.
MCEvents == UNION {{StartWith(s, <<Attr("a", "1"), Attr("a", "2")>>),
                    AttrsWith(s, <<Attr("status", "1"), Attr("a", "3")>>),
                    EndOf(s)} : s \in {s1, s2}}

MCBatches == {<<EndOf(s)>> : s \in {s1, s2}} \cup {<<e, f>> : e, f \in MCEvents}
=============================================================================
