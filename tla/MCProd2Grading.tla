--------------------------- MODULE MCProd2Grading ---------------------------
(* Two convocatorias.  Each bound is spent on one kind of trouble, so that *)
(* the kinds meet pairwise and not all at once.                            *)
EXTENDS Prod2Grading

CONSTANTS c1, c2

Calm == [convs |-> {c1}, stored |-> {}, generic |-> {}, queue |-> FALSE,
         asks |-> 0, closes |-> 0, tries |-> 0, crashes |-> 0, refusals |-> 0, defers |-> 0, locks |-> 0, hurries |-> 0]
Manual == [Calm EXCEPT !.asks = 2]
Mixed  == [Calm EXCEPT !.queue = TRUE, !.asks = 1]

MCBounds ==
    {[Manual EXCEPT !.crashes = 1],
     [Manual EXCEPT !.crashes = 2, !.refusals = 1, !.stored = {c1}],
     [Manual EXCEPT !.crashes = 1, !.refusals = 1, !.tries = 1, !.asks = 1],
     [Manual EXCEPT !.crashes = 1, !.locks = 1, !.tries = 1, !.asks = 1],
     [Manual EXCEPT !.closes = 1, !.hurries = 1, !.defers = 1],
     [Mixed EXCEPT !.locks = 1],
     [Mixed EXCEPT !.asks = 0, !.crashes = 1, !.refusals = 2],
     [Mixed EXCEPT !.asks = 0, !.closes = 1, !.hurries = 1, !.defers = 1],
     [Manual EXCEPT !.generic = {c1}],
     [Mixed EXCEPT !.asks = 0, !.closes = 1, !.convs = {c1, c2}, !.stored = {c2}, !.generic = {c2}],
     [Mixed EXCEPT !.asks = 0, !.convs = {c1, c2}]}
=============================================================================
