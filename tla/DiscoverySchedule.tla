------------------------- MODULE DiscoverySchedule -------------------------
(***************************************************************************)
(* The search of the PROD6 coordinator (prod6/runtime.py with              *)
(* jobs/poll_prod6_profile.py).  A lap over every stream (an object and a  *)
(* segment) is split over cycles by a request limit, by the source's       *)
(* denials and by restarts; its cursor, the end of the last lap and the    *)
(* pause after a 403/429 live in state.json.                               *)
(*                                                                         *)
(* A cycle:  BeginCycle -> CheckEgress -> BeginSweep -> Request* ->        *)
(* EndSweep -> [OpenBlock -> WriteBlock] -> Resume -> Process -> FreeIO -> *)
(* EndCycle.  Time is what it changes: a pause runs or is over, the end of *)
(* a lap is fresh or old.                                                  *)
(***************************************************************************)
EXTENDS Integers, FiniteSets, Sequences

CONSTANTS
    Streams,       \* the streams of all companies
    Lists,         \* the stream lists of the companies that may be active
    Pages,         \* how many result pages a stream has
    KeywordStreams,\* the streams over all of SEACE, read up to the limit
    SearchLimit,   \* --max-discovery-requests
    SourceLimit,   \* --max-source-requests, the budget of a cycle
    IoCost,        \* IO_REQUEST_COST: what a free IO job may ask
    MaxPages,      \* --max-pages (by default Limit)
    WorkerCounts,  \* --http-workers, one is chosen
    MaxStops,      \* bound: denials, failures and retries of the source
    MaxCrashes,    \* bound: deaths of the process
    MaxChanges,    \* bound: changes of the active companies
    None

Cursors == [next : 0..Cardinality(Streams), complete : BOOLEAN,
            count : 1..Cardinality(Streams), searched : 0..Cardinality(Streams)]

ASSUME ListsAssumption ==
    /\ IsFiniteSet(Streams) /\ Lists # {}
    /\ \A l \in Lists : /\ l \in Seq(Streams) /\ l # <<>>
                        /\ \A i, j \in 1..Len(l) : l[i] = l[j] => i = j

ASSUME PagesAssumption == Pages \in [Streams -> Nat \ {0}] /\ KeywordStreams \subseteq Streams
\* The start-up checks of run(): the limits are positive, and the one on the
\* search, not the smaller of the two, covers max-pages.
ASSUME LimitsAssumption ==
    /\ SearchLimit \in Nat \ {0} /\ SourceLimit \in Nat \ {0} /\ IoCost \in Nat \ {0}
    /\ MaxPages \in 1..SearchLimit

ASSUME WorkersAssumption == WorkerCounts \subseteq 1..4 /\ WorkerCounts # {}
ASSUME NoneAssumption == None \notin Cursors \cup [over : BOOLEAN]
ASSUME BoundsAssumption == MaxStops \in Nat /\ MaxCrashes \in Nat /\ MaxChanges \in Nat

VARIABLES
    disk,      \* state.json: cursor, end of the last lap, block
    mem,       \* the same three in the running process
    phase,     \* where the cycle is
    workers,   \* threads of a sweep
    list,      \* the stream list of the active companies
    sweep,     \* the running sweep
    pacer      \* the process-wide pacer of a cycle: breaker, requests used

\* Only to state properties.
VARIABLES
    lapRead,   \* streams read to the end in this lap
    steady,    \* the stream list has not changed in this lap
    heard,     \* the source answered a request since its last denial
    denial,    \* the last denial: unpaused until open_block, paused until the backoff passed
    alert,     \* the last alert about the source
    repeated,  \* an alert was sent twice in a row, no crash between them
    stops, crashes, changes

history == <<lapRead, steady, heard, denial, alert, repeated>>
bounds  == <<stops, crashes, changes>>
scheduleVars == <<disk, mem, phase, workers, list, sweep, pacer, history, bounds>>

Least(a, b) == IF a <= b THEN a ELSE b

\* What a sweep may ask for, retries apart: discovery_limit.
Limit == Least(SearchLimit, SourceLimit)

\* How many pages of a stream one pass reads.
PagesToRead(s) == Least(Pages[s], IF s \in KeywordStreams THEN Limit ELSE MaxPages)

-----------------------------------------------------------------------------
(* The cursor and the schedule                                             *)

LapPending(cursor) == IF cursor = None THEN FALSE ELSE ~cursor.complete

\* Index to start from (a changed stream list only shifts the rotation).
StreamStart(cursor) == IF cursor = None THEN 0 ELSE cursor.next

\* Faulty variant: a resumed lap starts over.
StreamsLeftWhole(cursor, all) == all

\* Streams a resumed lap still has to search; all of them in a new lap.
StreamsLeft(cursor, all) ==
    IF LapPending(cursor) /\ cursor.count > cursor.searched
    THEN Least(cursor.count - cursor.searched, all)
    ELSE all

\* The search is due first, while a lap is unfinished, and after the interval.
DiscoveryDue(m) == LapPending(m.cursor) \/ m.completed \in {"never", "old"}

\* The sweep's streams in order: from the start, around, at most what is left.
SweepOrder(streams, cursor) ==
    LET all   == Len(streams)
        start == StreamStart(cursor) % all
    IN  [i \in 1..StreamsLeft(cursor, all) |-> streams[((start + i - 1) % all) + 1]]

\* Faulty variant: the stream that was cut counts as searched.
CursorAfterSkipping(cursor, streams, order, n) ==
    LET all   == Len(streams)
        start == StreamStart(cursor) % all
        done  == n + 1 >= Len(order)
        seen  == IF LapPending(cursor) THEN cursor.searched ELSE 0
    IN  [next |-> (start + n + 1) % all, complete |-> done, count |-> all,
         searched |-> Least(seen + n + 1, Cardinality(Streams))]

\* The cursor after a sweep that finished its first n streams.
CursorAfter(cursor, streams, order, n) ==
    LET all   == Len(streams)
        start == StreamStart(cursor) % all
        done  == n = Len(order)
        seen  == IF LapPending(cursor) THEN cursor.searched ELSE 0
    IN  [next |-> IF done /\ n = all THEN 0 ELSE (start + n) % all,
         complete |-> done, count |-> all,
         searched |-> Least(seen + n, Cardinality(Streams))]  \* no list is longer

Running(block) == IF block = None THEN FALSE ELSE ~block.over

-----------------------------------------------------------------------------
(* Process and cycle                                                       *)

NoSweep == [streams |-> <<>>, order |-> <<>>, read |-> <<>>, stop |-> <<>>,
            requested |-> 0, held |-> {}]

\* Faulty variant: the block of the previous process is not loaded.
StartUnblocked ==
    /\ phase = "down"
    /\ phase' = "idle"
    /\ mem' = [disk EXCEPT !.block = None]
    /\ pacer' = [blocked |-> FALSE, used |-> 0]
    /\ UNCHANGED <<disk, workers, list, sweep, history, bounds>>

\* The process reads what the previous one left in state.json.
Start ==
    /\ phase = "down"
    /\ phase' = "idle"
    /\ mem' = disk
    /\ pacer' = [blocked |-> FALSE, used |-> 0]
    /\ UNCHANGED <<disk, workers, list, sweep, history, bounds>>

\* A pause that still runs keeps the breaker open; the schedule and the block
\* are published at once.
BeginCycle ==
    /\ phase = "idle"
    /\ pacer' = [blocked |-> Running(mem.block), used |-> 0]
    /\ disk' = mem
    /\ phase' = IF Running(mem.block) THEN "processing" ELSE "egress"
    /\ UNCHANGED <<mem, workers, list, sweep, history, bounds>>

CheckEgress ==
    /\ phase = "egress"
    /\ phase' = IF DiscoveryDue(mem) THEN "search" ELSE "swept"
    /\ UNCHANGED <<disk, mem, workers, list, sweep, pacer, history, bounds>>

\* No egress, or no active line: the cycle ends and the next one tries again.
EgressDown ==
    /\ phase = "egress" /\ stops < MaxStops
    /\ phase' = "idle"
    /\ stops' = stops + 1
    /\ UNCHANGED <<disk, mem, workers, list, sweep, pacer, history, crashes, changes>>

-----------------------------------------------------------------------------
(* One sweep.  A request goes to the first `workers` streams that have not *)
(* stopped: the executor hands the streams out in order.                   *)

Positions    == 1..Len(sweep.order)
Finished(i)  == sweep.read[i] = PagesToRead(sweep.order[i])
Over(i)      == Finished(i) \/ sweep.stop[i] # "none"
Active       == {i \in Positions : ~Over(i) /\ Cardinality({j \in 1..i : ~Over(j)}) <= workers}
FinishedHead == CHOOSE n \in 0..Len(sweep.order) :
                    /\ \A i \in 1..n : Finished(i)
                    /\ n < Len(sweep.order) => ~Finished(n + 1)

Stopped(kind) == \E i \in Positions : sweep.stop[i] = kind

\* One worker reads stream by stream and goes no further than a stop.
MayGoOn == phase = "sweep" /\ (workers = 1 => \A i \in Positions : sweep.stop[i] = "none")

Began(i) == sweep.read[i] > 0 \/ i \in sweep.held

\* An exception cancels the streams that did not begin and waits for the rest.
SweepIsOver ==
    phase = "sweep" /\ (\/ ~MayGoOn
                        \/ \A i \in Positions : Over(i)
                        \/ Stopped("failed") /\ \A i \in Positions : Began(i) => Over(i))

BeginSweep ==
    /\ phase = "search"
    /\ LET order == SweepOrder(list, mem.cursor)
       IN  sweep' = [streams |-> list, order |-> order,
                     read |-> [i \in 1..Len(order) |-> 0],
                     stop |-> [i \in 1..Len(order) |-> "none"], requested |-> 0, held |-> {}]
    /\ phase' = "sweep"
    /\ IF LapPending(mem.cursor)
       THEN UNCHANGED <<lapRead, steady>>
       ELSE lapRead' = {} /\ steady' = TRUE
    /\ UNCHANGED <<disk, mem, workers, list, pacer, heard, denial, alert, repeated, bounds>>

\* reserve(): a request counts against the limit once, before its first attempt.
\* `held` are the streams whose request waits for another attempt.
MayReserve(i) == i \in sweep.held \/ sweep.requested < Limit
Reserved(i)   == IF i \in sweep.held THEN sweep.requested ELSE sweep.requested + 1

\* The limit is asked before the breaker, and the breaker before the cycle's
\* budget: a refusal costs the stream its turn.
Refused(i) ==
    /\ MayGoOn /\ i \in Active
    /\ \/ ~MayReserve(i) /\ sweep' = [sweep EXCEPT !.stop[i] = "limit"]
       \/ /\ MayReserve(i) /\ pacer.blocked
          /\ sweep' = [sweep EXCEPT !.stop[i] = "blocked", !.requested = Reserved(i)]
       \/ /\ MayReserve(i) /\ ~pacer.blocked /\ pacer.used >= SourceLimit
          /\ sweep' = [sweep EXCEPT !.stop[i] = "budget", !.requested = Reserved(i)]
    /\ UNCHANGED <<disk, mem, phase, workers, list, pacer, history, bounds>>

\* acquire() lets an attempt through.
MayRequest(i) ==
    MayGoOn /\ i \in Active /\ MayReserve(i) /\ ~pacer.blocked /\ pacer.used < SourceLimit

ReadPage(i) ==
    /\ MayRequest(i)
    /\ sweep' = [sweep EXCEPT !.read[i] = @ + 1, !.requested = Reserved(i), !.held = @ \ {i}]
    /\ pacer' = [pacer EXCEPT !.used = @ + 1]
    /\ heard' = TRUE
    /\ UNCHANGED <<disk, mem, phase, workers, list, lapRead, steady, denial, alert, repeated, bounds>>

\* A temporary failure (a timeout, a 5xx): the client asks again.  Every attempt
\* counts against the cycle's budget.
Retried(i) ==
    /\ MayRequest(i) /\ stops < MaxStops
    /\ sweep' = [sweep EXCEPT !.requested = Reserved(i), !.held = @ \cup {i}]
    /\ pacer' = [pacer EXCEPT !.used = @ + 1]
    /\ stops' = stops + 1
    /\ UNCHANGED <<disk, mem, phase, workers, list, history, crashes, changes>>

\* A 403 or 429, of this process or from the shared gate (then the unit of the
\* budget is given back), opens the breaker for every thread.
Denied(i) ==
    /\ MayRequest(i) /\ stops < MaxStops
    /\ sweep' = [sweep EXCEPT !.stop[i] = "blocked", !.requested = Reserved(i)]
    /\ \E n \in {0, 1} : pacer' = [blocked |-> TRUE, used |-> pacer.used + n]
    /\ heard' = FALSE /\ denial' = "unpaused"
    /\ stops' = stops + 1
    /\ UNCHANGED <<disk, mem, phase, workers, list, lapRead, steady, alert, repeated, crashes, changes>>

\* The egress is lost, the shared gate does not answer (the unit is given back)
\* or the source fails for good.
Failed(i) ==
    /\ MayRequest(i) /\ stops < MaxStops
    /\ sweep' = [sweep EXCEPT !.stop[i] = "failed", !.requested = Reserved(i)]
    /\ \E n \in {0, 1} : pacer' = [pacer EXCEPT !.used = @ + n]
    /\ stops' = stops + 1
    /\ UNCHANGED <<disk, mem, phase, workers, list, history, crashes, changes>>

\* After a failure nothing of the sweep is kept, its transaction is rolled back
\* and the cycle ends (egress_backoff, source_backoff).
AbandonSweep ==
    /\ SweepIsOver /\ Stopped("failed")
    /\ phase' = "idle"
    /\ sweep' = NoSweep
    /\ UNCHANGED <<disk, mem, workers, list, pacer, history, bounds>>

\* The pages become decisions, and the cursor names the first unfinished stream.
\* A denial or a spent budget leaves the end of the last lap as it was.
EndSweep ==
    /\ SweepIsOver /\ ~Stopped("failed")
    /\ LET cursor == CursorAfter(mem.cursor, sweep.streams, sweep.order, FinishedHead)
       IN  /\ mem' = [mem EXCEPT !.cursor = cursor,
                      !.completed = IF cursor.complete /\ ~pacer.blocked /\ ~Stopped("budget")
                                    THEN "fresh" ELSE @]
           /\ phase' = IF pacer.blocked THEN "denied" ELSE "swept"
    /\ lapRead' = lapRead \cup {sweep.order[i] : i \in {j \in Positions : Finished(j)}}
    /\ sweep' = NoSweep
    /\ UNCHANGED <<disk, workers, list, pacer, steady, heard, denial, alert, repeated, bounds>>

-----------------------------------------------------------------------------
(* The pause after a denial, and what follows the search                   *)

Alert(kind) == alert' = kind /\ repeated' = (repeated \/ alert = kind)

\* Faulty variant: every denial after a probe alerts again.
OpenBlockAgain ==
    /\ phase = "denied"
    /\ phase' = "blocked"
    /\ denial' = "paused"
    /\ mem' = [mem EXCEPT !.block = [over |-> FALSE]]
    /\ Alert("blocked")
    /\ UNCHANGED <<disk, workers, list, sweep, pacer, lapRead, steady, heard, bounds>>

\* One alert per episode: a block that returns after a probe keeps its own.
OpenBlock ==
    /\ phase = "denied"
    /\ phase' = "blocked"
    /\ denial' = "paused"
    /\ mem' = [mem EXCEPT !.block = [over |-> FALSE]]
    /\ IF mem.block = None THEN Alert("blocked") ELSE UNCHANGED <<alert, repeated>>
    /\ UNCHANGED <<disk, workers, list, sweep, pacer, lapRead, steady, heard, bounds>>

\* open_block saves at once; the discovery record saved is still the old one.
WriteBlock ==
    /\ phase = "blocked"
    /\ disk' = [disk EXCEPT !.block = mem.block]
    /\ phase' = "processing"
    /\ UNCHANGED <<mem, workers, list, sweep, pacer, history, bounds>>

\* The probe after a pause got through.
BlockRecovered ==
    IF pacer.used > 0 /\ ~pacer.blocked /\ mem.block # None
    THEN mem' = [mem EXCEPT !.block = None] /\ Alert("recovered")
    ELSE UNCHANGED <<mem, alert, repeated>>

Resume ==
    /\ phase = "swept"
    /\ phase' = "processing"
    /\ BlockRecovered
    /\ UNCHANGED <<disk, workers, list, sweep, pacer, lapRead, steady, heard, denial, bounds>>

Process ==
    /\ phase = "processing"
    /\ phase' = "io"
    /\ disk' = mem
    /\ UNCHANGED <<mem, workers, list, sweep, pacer, history, bounds>>

\* io_allowed(): the breaker is closed and a job fits into the budget.
IOAllowed == ~pacer.blocked /\ pacer.used + IoCost <= SourceLimit

\* The free IO jobs of the cycle: none, answered, failed on the way, or denied.
FreeIO ==
    /\ phase = "io"
    /\ \/ phase' = "ending" /\ UNCHANGED <<pacer, heard, denial, stops>>
       \/ /\ IOAllowed
          /\ phase' = "ending"
          /\ \E n \in pacer.used + 1 .. SourceLimit : pacer' = [pacer EXCEPT !.used = n]
          /\ heard' = TRUE
          /\ UNCHANGED <<denial, stops>>
       \/ /\ IOAllowed /\ stops < MaxStops
          /\ phase' = "ending"
          /\ \E n \in pacer.used .. SourceLimit : pacer' = [pacer EXCEPT !.used = n]
          /\ stops' = stops + 1
          /\ UNCHANGED <<heard, denial>>
       \/ /\ IOAllowed /\ stops < MaxStops
          /\ phase' = "denied"
          /\ \E n \in pacer.used .. SourceLimit : pacer' = [blocked |-> TRUE, used |-> n]
          /\ heard' = FALSE /\ denial' = "unpaused"
          /\ stops' = stops + 1
    /\ UNCHANGED <<disk, mem, workers, list, sweep, lapRead, steady, alert, repeated, crashes, changes>>

\* A cycle without search: its first IO request was the probe.  Then wait.
EndCycle ==
    /\ phase = "ending"
    /\ phase' = "idle"
    /\ BlockRecovered
    /\ disk' = mem'
    /\ UNCHANGED <<workers, list, sweep, pacer, lapRead, steady, heard, denial, bounds>>

-----------------------------------------------------------------------------
(* Time, companies and deaths                                              *)

PauseEnds ==
    /\ Running(mem.block) \/ Running(disk.block) \/ denial = "paused"
    /\ mem' = [mem EXCEPT !.block = IF @ = None THEN None ELSE [over |-> TRUE]]
    /\ disk' = [disk EXCEPT !.block = IF @ = None THEN None ELSE [over |-> TRUE]]
    /\ denial' = IF denial = "paused" THEN "none" ELSE denial
    /\ UNCHANGED <<phase, workers, list, sweep, pacer, lapRead, steady, heard, alert, repeated, bounds>>

Aged(m) == [m EXCEPT !.completed = IF @ = "fresh" THEN "old" ELSE @]

\* The interval after the last complete lap; a stamp on disk is never younger.
IntervalPasses ==
    /\ mem.completed = "fresh" \/ disk.completed = "fresh"
    /\ mem' = Aged(mem) /\ disk' = Aged(disk)
    /\ UNCHANGED <<phase, workers, list, sweep, pacer, history, bounds>>

\* An extra company is paused or resumed in the database.
CompaniesChange ==
    /\ changes < MaxChanges
    /\ changes' = changes + 1
    /\ \E other \in Lists \ {list} : list' = other
    /\ steady' = FALSE
    /\ UNCHANGED <<disk, mem, phase, workers, sweep, pacer, lapRead, heard, denial,
                   alert, repeated, stops, crashes>>

\* Only state.json survives.  What the dead process announced and had not yet
\* saved may be announced again.
Crash ==
    /\ phase # "down" /\ crashes < MaxCrashes
    /\ crashes' = crashes + 1
    /\ phase' = "down"
    /\ sweep' = NoSweep
    /\ mem' = disk
    /\ denial' = IF phase \in {"sweep", "denied", "blocked"} /\ pacer.blocked THEN "none" ELSE denial
    /\ alert' = IF (mem.block = None) = (disk.block = None) THEN alert ELSE "unknown"
    /\ UNCHANGED <<disk, workers, list, pacer, lapRead, steady, heard, repeated, stops, changes>>

-----------------------------------------------------------------------------

ScheduleInit ==
    /\ disk = [cursor |-> None, completed |-> "never", block |-> None]
    /\ mem = disk
    /\ phase = "down"
    /\ workers \in WorkerCounts
    /\ list \in Lists
    /\ sweep = NoSweep
    /\ pacer = [blocked |-> FALSE, used |-> 0]
    /\ lapRead = {} /\ steady = TRUE /\ heard = TRUE /\ denial = "none"
    /\ alert = "recovered" /\ repeated = FALSE
    /\ stops = 0 /\ crashes = 0 /\ changes = 0

SweepStep ==
    \E i \in Positions : Refused(i) \/ ReadPage(i) \/ Retried(i) \/ Denied(i) \/ Failed(i)

CycleStep ==
    \/ Start \/ BeginCycle \/ CheckEgress \/ EgressDown
    \/ BeginSweep \/ SweepStep \/ EndSweep \/ AbandonSweep
    \/ OpenBlock \/ WriteBlock \/ Resume \/ Process \/ FreeIO \/ EndCycle

ScheduleNext == CycleStep \/ PauseEnds \/ IntervalPasses \/ CompaniesChange \/ Crash

\* The service manager restarts the process, the loop goes on, and time passes.
Fairness == WF_scheduleVars(CycleStep) /\ WF_scheduleVars(PauseEnds) /\ WF_scheduleVars(IntervalPasses)

ScheduleSpec == ScheduleInit /\ [][ScheduleNext]_scheduleVars /\ Fairness

-----------------------------------------------------------------------------
(* Properties                                                              *)

StateRecords == [cursor : Cursors \cup {None}, completed : {"never", "fresh", "old"},
                 block : [over : BOOLEAN] \cup {None}]

\* Types of all variables.
ScheduleTypeOK ==
    /\ disk \in StateRecords /\ mem \in StateRecords
    /\ phase \in {"down", "idle", "egress", "search", "sweep", "swept", "denied", "blocked",
                  "processing", "io", "ending"}
    /\ workers \in WorkerCounts /\ list \in Lists
    /\ sweep.requested \in 0..Limit
    /\ pacer \in [blocked : BOOLEAN, used : 0..SourceLimit]
    /\ lapRead \subseteq Streams
    /\ denial \in {"none", "unpaused", "paused"}
    /\ alert \in {"recovered", "blocked", "unknown"}

\* A lap that is declared complete has read every stream of the list to its
\* end, over however many cycles, denials and restarts, if the list stayed.
\* (A stream with more pages than PagesToRead is read up to that page.)
LapIsWhole ==
    [][EndSweep /\ mem'.cursor.complete /\ steady
         => {list[i] : i \in 1..Len(list)} \subseteq lapRead']_scheduleVars

\* "The next cycle, even after a restart, starts in that stream and goes
\* around, so that no stream is left out for ever" (worker-runbook.md:465):
\* with one worker, a list that does not shrink within a lap, and no stream that
\* is to be read further than a sweep can go, the search is always due again and
\* each lap ends.  (run() refuses max-pages above max-discovery-requests "or a
\* stream could never finish", runtime.py:746, but accepts it above
\* max-source-requests, where a stream never finishes.)
LapComplete == IF mem.cursor = None THEN FALSE ELSE phase # "sweep" /\ mem.cursor.complete
ListKept == LapPending(mem.cursor) => Len(list) >= mem.cursor.count

PagesFit == \A s \in Streams : PagesToRead(s) <= Limit

LapsGoOn ==
    workers = 1 /\ PagesFit /\ []ListKept => /\ []<>(phase = "sweep")
                                 /\ (phase = "sweep") ~> LapComplete

\* "PROD6 answered 403/429: no PROD6 request until the backoff passes"
\* (runtime.py:842).  From open_block until then nothing is asked of PROD6, by
\* this process or by one that was started later: a request would be heard, denied
\* or fail.  And no later cycle begins while a denial has not been followed by a
\* pause.  The latter for one worker: with more, the denial of one stream is lost
\* when another stream of the sweep fails, because the exception ends the cycle.
PauseIsKept ==
    /\ [](workers = 1 /\ phase = "idle" => denial # "unpaused")
    /\ [][denial = "paused" => heard' = heard /\ stops' = stops]_scheduleVars

\* One alert per episode and one recovery: they alternate unless the process
\* died between an alert and its record.
AlertsAlternate == ~repeated

\* "One pass can always finish a stream" (runtime.py:1158): a sweep that only
\* the request limit stopped has finished its first stream.
LimitOnly == \A i \in Positions : sweep.stop[i] \notin {"blocked", "budget"}
SweepsAdvance == [][EndSweep /\ LimitOnly => FinishedHead > 0]_scheduleVars
=============================================================================
