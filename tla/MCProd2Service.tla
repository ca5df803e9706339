--------------------------- MODULE MCProd2Service ---------------------------
(* Two queries, the second of the current day.                             *)
EXTENDS Prod2Service

CONSTANTS q1, q2, a, b, c, d

MCOrder == <<q1, q2>>
MCListings == {[q \in Queries |-> IF q = q1 THEN <<a, b>> ELSE <<c>>]}

Calm == [cycles |-> 1, edits |-> 0, denials |-> 0, outages |-> 0, errors |-> 0,
         pauses |-> 0, doubts |-> 0, deaths |-> 0, stops |-> 0]

Trouble == DOMAIN Calm \ {"cycles"}
With(t, u) == [[Calm EXCEPT ![t] = @ + 1] EXCEPT ![u] = @ + 1]

\* Two troubles in one cycle, or one failed attempt in each of two cycles.
MCBounds ==
    {With("errors", t) : t \in Trouble}
    \cup {With("denials", t) : t \in {"denials", "pauses", "doubts", "deaths"}}
    \cup {With("edits", t) : t \in {"edits", "denials", "deaths"}}
    \cup {[With("errors", "errors") EXCEPT !.cycles = 2]}
=============================================================================
