---------------------------- MODULE KeywordSweep ----------------------------
(***************************************************************************)
(* The discovery pass of a PROD2 child: its threads page through the       *)
(* queries of the cycle (keyword_sweep.py), keep every page in a private   *)
(* cache, offer every row to the queue under the cap of candidates, and    *)
(* confirm the first page in a new session before a query is complete      *)
(* (run_sweeps and settle_current_day of run_prod2_selected.py).           *)
(*                                                                         *)
(* The source keeps changing.  A session of the portal works with the      *)
(* total of its first answer: a later page need not carry a count.         *)
(***************************************************************************)
EXTENDS Integers, FiniteSetsExt, SequencesExt

CONSTANTS
    Order,          \* the queries, in the order of planned_queries
    Today,          \* those of the current day, which may be tolerated
    Ids,            \* convocatorias
    PageSize,
    SearchWorkers,
    MaxCandidates,  \* max_candidates, the cap of one attempt
    Repeats,        \* CURRENT_DAY_RETRIES
    Bounds          \* how often the world interferes; see left

Queries == ToSet(Order)

ASSUME SweepAssumption ==
    /\ IsInjective(Order) /\ Today \subseteq Queries
    /\ {PageSize, SearchWorkers, MaxCandidates} \subseteq Nat \ {0} /\ Repeats \in Nat

VARIABLES
    listing,    \* the source: what each query lists now
    pages,      \* the cached pages of the latest attempt of each query
    complete,   \* the queries with a completion file of their pass
    sweep,      \* the thread of each query: [at, rest, first, repeats, result]
    staged,     \* the Redis queue: none, queued, pending or done
    added,      \* seen of RunLimits: candidates staged by this attempt
    child,      \* the phase of the child
    stop,       \* STOP
    egress,     \* EGRESS_DOWN
    block,      \* the shared pause of the portal is open
    steady,     \* truth: listed without a break since the attempt's first page
    changes,    \* truth: changes of the listing since then
    left        \* bounds: what may still happen

source == <<listing, steady, changes>>
cache == <<pages, complete>>
queue == <<staged, added>>
switches == <<stop, egress, block>>

Spend(what) == left[what] > 0 /\ left' = [left EXCEPT ![what] = @ - 1]

PageCount(total) == Max({1, (total + PageSize - 1) \div PageSize})

\* The rows of a page of n rows in all, and how many they must be.
RowsOn(q, n) == SubSeq(listing[q], (n - 1) * PageSize + 1, Min({n * PageSize, Len(listing[q])}))
Expected(total, n) == Max({0, Min({PageSize, total - (n - 1) * PageSize})})

FirstPage(q) == [total |-> Len(listing[q]), rows |-> RowsOn(q, 1)]
NoPage == [total |-> -1, rows |-> <<>>]

\* All rows of the cached pages, in order.
Captured(q) == FlattenSeq([n \in DOMAIN pages[q] |-> pages[q][n].rows])

Unstarted == [at |-> "waiting", rest |-> <<>>, first |-> NoPage, repeats |-> 0, result |-> "none"]

\* stop_requested of the sweeps.
Halted == stop \/ added >= MaxCandidates

Sweeping(q) == child = "sweeping" /\ sweep[q].at \notin {"waiting", "over"}

\* What a thread does once it has no row left to offer: a complete query is
\* over, a replayed one is searched, a fresh one goes on with its next page.
AfterRows(q, s) ==
    IF s.rest # <<>> THEN "offer"
    ELSE IF q \in complete THEN "settle"
    ELSE IF s.first = NoPage THEN "search" ELSE "read"

Go(q, s) == sweep' = [sweep EXCEPT ![q] = [s EXCEPT !.at = AfterRows(q, s)]]
End(q, why) ==
    sweep' = [sweep EXCEPT ![q] = [Unstarted EXCEPT !.at = "settle", !.repeats = sweep[q].repeats,
                                                    !.result = why]]

-----------------------------------------------------------------------------
(* One pass over a query                                                   *)

\* Faulty variant: cached pages were offered when they were read.
ReplayNothing(q, repeats) ==
    Go(q, [Unstarted EXCEPT !.repeats = repeats, !.result = "complete"])

\* run_window: the cached pages are offered again first.
Replay(q, repeats) ==
    Go(q, [Unstarted EXCEPT !.rest = Captured(q), !.repeats = repeats, !.result = "complete"])

\* Faulty variant: after a stop the queries that wait are not taken any more.
BeginSweepUnlessHalted(q) ==
    /\ child = "sweeping" /\ sweep[q].at = "waiting" /\ ~Halted
    /\ \A i, j \in DOMAIN Order : i < j /\ Order[j] = q => sweep[Order[i]].at # "waiting"
    /\ Cardinality({p \in Queries : Sweeping(p)}) < SearchWorkers
    /\ Replay(q, 0)
    /\ UNCHANGED <<source, cache, queue, child, switches, left>>

\* The threads take the queries in order; none starts after a stop.
BeginSweep(q) ==
    /\ child = "sweeping" /\ sweep[q].at = "waiting"
    /\ \A i, j \in DOMAIN Order : i < j /\ Order[j] = q => sweep[Order[i]].at # "waiting"
    /\ Cardinality({p \in Queries : Sweeping(p)}) < SearchWorkers
    /\ IF Halted
       THEN sweep' = [sweep EXCEPT ![q].at = "over", ![q].result = "stopped"]
       ELSE Replay(q, 0)
    /\ UNCHANGED <<source, cache, queue, child, switches, left>>

\* offer: before each row the thread looks whether it must stop.
CheckRow(q) ==
    /\ Sweeping(q) /\ sweep[q].at = "offer"
    /\ IF Halted THEN End(q, "stopped") ELSE sweep' = [sweep EXCEPT ![q].at = "emit"]
    /\ UNCHANGED <<source, cache, queue, child, switches, left>>

\* RunLimits.stage: at the cap the row is refused, also when another thread
\* has reached it since the check.
EmitRow(q) ==
    /\ Sweeping(q) /\ sweep[q].at = "emit"
    /\ LET s == sweep[q]  id == Head(s.rest) IN
       /\ IF added < MaxCandidates /\ staged[id] = "none"
          THEN staged' = [staged EXCEPT ![id] = "queued"] /\ added' = added + 1
          ELSE UNCHANGED queue
       /\ Go(q, [s EXCEPT !.rest = Tail(@)])
    /\ UNCHANGED <<source, cache, child, switches, left>>

\* A page is asked of the portal: the first ones of a session always are.
Asking(q) ==
    /\ Sweeping(q)
    /\ \/ sweep[q].at = "search"
       \/ sweep[q].at = "read" /\ pages[q] # <<>>

StopSweep(q) ==
    /\ Sweeping(q) /\ sweep[q].at \in {"search", "read"} /\ Halted
    /\ End(q, "stopped")
    /\ UNCHANGED <<source, cache, queue, child, switches, left>>

\* The first page of a new session.  If it is not the cached one, a new
\* attempt begins with no pages.
Search(q) ==
    /\ Asking(q) /\ sweep[q].at = "search" /\ ~Halted /\ ~block
    /\ sweep' = [sweep EXCEPT ![q].at = "read", ![q].first = FirstPage(q)]
    /\ IF pages[q] # <<>> /\ pages[q][1] = FirstPage(q)
       THEN UNCHANGED <<pages, steady, changes>>
       ELSE /\ pages' = [pages EXCEPT ![q] = <<>>]
            /\ steady' = [steady EXCEPT ![q] = ToSet(listing[q])]
            /\ changes' = [changes EXCEPT ![q] = 0]
    /\ UNCHANGED <<listing, complete, queue, child, switches, left>>

\* The next page of the session is written, then offered.  It must have the
\* rows that the session's total calls for, none of them seen before.
ReadPage(q) ==
    /\ Sweeping(q) /\ sweep[q].at = "read" /\ ~Halted
    /\ LET s == sweep[q]
           n == Len(pages[q]) + 1
           rows == IF n = 1 THEN s.first.rows ELSE RowsOn(q, n) IN
       /\ n <= PageCount(s.first.total) /\ (n = 1 \/ ~block)
       /\ IF Len(rows) = Expected(s.first.total, n) /\ ToSet(rows) \cap ToSet(Captured(q)) = {}
          THEN /\ pages' = [pages EXCEPT ![q] = Append(@, [total |-> s.first.total, rows |-> rows])]
               /\ Go(q, [s EXCEPT !.rest = rows])
          ELSE End(q, "error") /\ UNCHANGED pages
    /\ UNCHANGED <<source, complete, queue, child, switches, left>>

\* A later page that does carry a count shows that the listing has changed.
CountDiffers(q) ==
    /\ Asking(q) /\ sweep[q].at = "read" /\ ~Halted /\ ~block
    /\ Len(pages[q]) < PageCount(sweep[q].first.total)
    /\ Len(listing[q]) # sweep[q].first.total
    /\ End(q, "error")
    /\ UNCHANGED <<source, cache, queue, child, switches, left>>

AllRead(q) == Asking(q) /\ sweep[q].at = "read" /\ Len(pages[q]) = PageCount(sweep[q].first.total)

\* Faulty variant: the rows of the first page are compared, not its total.
VerifyRows(q) ==
    /\ AllRead(q) /\ ~Halted /\ ~block
    /\ IF FirstPage(q).rows = sweep[q].first.rows
       THEN complete' = complete \cup {q} /\ End(q, "complete")
       ELSE End(q, "changed") /\ UNCHANGED complete
    /\ UNCHANGED <<source, pages, queue, child, switches, left>>

\* A new session must show the same first page before the pass is complete.
Verify(q) ==
    /\ AllRead(q) /\ ~Halted /\ ~block
    /\ IF FirstPage(q) = sweep[q].first
       THEN complete' = complete \cup {q} /\ End(q, "complete")
       ELSE End(q, "changed") /\ UNCHANGED complete
    /\ UNCHANGED <<source, pages, queue, child, switches, left>>

-----------------------------------------------------------------------------
(* What can go wrong with a request                                        *)

\* A 403 or 429: the hook stops the child and opens the shared pause.
Denied(q) ==
    /\ Asking(q) /\ ~Halted /\ ~block /\ Spend("denials")
    /\ stop' = TRUE /\ block' = TRUE
    /\ End(q, "denied")
    /\ UNCHANGED <<source, cache, queue, child, egress>>

\* shared_turn: a pause that another process opened counts as the 403 it stands for.
TurnedAway(q) ==
    /\ Asking(q) /\ ~Halted /\ block
    /\ stop' = TRUE
    /\ End(q, "denied")
    /\ UNCHANGED <<source, cache, queue, child, egress, block, left>>

\* The proxy fails: no denial, and the whole child stops.
Outage(q) ==
    /\ Asking(q) /\ ~Halted /\ Spend("outages")
    /\ stop' = TRUE /\ egress' = TRUE
    /\ End(q, "outage")
    /\ UNCHANGED <<source, cache, queue, child, block>>

\* Any other failure leaves the query partial.
Error(q) ==
    /\ Asking(q) /\ ~Halted /\ Spend("errors")
    /\ End(q, "error")
    /\ UNCHANGED <<source, cache, queue, child, switches>>

-----------------------------------------------------------------------------
(* The end of a query                                                      *)

\* current_day_unstable
Unstable(q) == q \in Today /\ sweep[q].result = "changed"

\* The current day changes while it is read: the pass is repeated.
Repeat(q) ==
    /\ Sweeping(q) /\ sweep[q].at = "settle"
    /\ Unstable(q) /\ sweep[q].repeats < Repeats /\ ~Halted
    /\ Replay(q, sweep[q].repeats + 1)
    /\ UNCHANGED <<source, cache, queue, child, switches, left>>

\* ... and what remains unstable is tolerated.
Settle(q) ==
    /\ Sweeping(q) /\ sweep[q].at = "settle"
    /\ ~(Unstable(q) /\ sweep[q].repeats < Repeats /\ ~Halted)
    /\ sweep' = [sweep EXCEPT ![q] = [Unstarted EXCEPT !.at = "over",
                    !.result = IF Unstable(q) /\ ~stop THEN "tolerated" ELSE sweep[q].result]]
    /\ UNCHANGED <<source, cache, queue, child, switches, left>>

SweepStep ==
    \E q \in Queries :
        \/ BeginSweep(q) \/ CheckRow(q) \/ EmitRow(q) \/ StopSweep(q) \/ Search(q)
        \/ ReadPage(q) \/ CountDiffers(q) \/ Verify(q) \/ TurnedAway(q) \/ Repeat(q) \/ Settle(q)

SweepTrouble == \E q \in Queries : Denied(q) \/ Outage(q) \/ Error(q)

-----------------------------------------------------------------------------
(* The portal                                                              *)

Relist(q, rows) ==
    /\ listing' = [listing EXCEPT ![q] = rows]
    /\ steady' = [steady EXCEPT ![q] = @ \cap ToSet(rows)]
    /\ changes' = [changes EXCEPT ![q] = Min({@ + 1, 2})]
    /\ UNCHANGED <<cache, sweep, queue, child, switches>>

\* A convocatoria appears anywhere in the list, or leaves it.
Change(q) ==
    /\ q \notin complete /\ Spend("edits")
    /\ \/ \E id \in Ids \ UNION {ToSet(listing[p]) : p \in Queries}, i \in 1..(Len(listing[q]) + 1) :
            Relist(q, InsertAt(listing[q], i, id))
       \/ \E i \in DOMAIN listing[q] : Relist(q, RemoveAt(listing[q], i))

\* Another process meets a denial; the pause ends by itself.
BlockOpens ==
    /\ ~block /\ Spend("pauses") /\ block' = TRUE
    /\ UNCHANGED <<source, cache, sweep, queue, child, stop, egress>>

BlockEnds ==
    /\ block /\ block' = FALSE
    /\ UNCHANGED <<source, cache, sweep, queue, child, stop, egress, left>>

=============================================================================
