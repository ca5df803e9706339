------------------------------ MODULE SeaceGate ------------------------------
(***************************************************************************)
(* How requests leave for SEACE through the one Peruvian address that all  *)
(* processes share: the Redis gate (seace/shared_gate.py, and the same     *)
(* protocol in seaceSharedGate.ts), the pacer of a PROD6 cycle with its    *)
(* budget and breaker (seace/pacing.py), the hooks of a PROD2 run, which   *)
(* are the same steps with no budget and STOP for a breaker, and the       *)
(* egress of the web (seaceEgress.ts), of which one lane is modelled.      *)
(*                                                                         *)
(* A request is one HTTP attempt, so a retry is another request.  Time is  *)
(* discrete and passes freely: a timer fires at its instant or later, and  *)
(* an answer of Redis or of SEACE takes any time.  Every call to Redis may *)
(* fail.  A behaviour is one PROD6 cycle (begin_cycle is part of Init) and *)
(* is shorter than the hour of the web's cap and the day after which an    *)
(* unused turn key expires.                                                *)
(***************************************************************************)
EXTENDS Integers, FiniteSets

CONSTANTS
    WorkerRequests,   \* requests of the worker processes
    WebRequests,      \* requests of the web process
    Workers,          \* the worker processes
    ProcessOf,        \* ProcessOf[r]: the worker process of request r
    Budget,           \* Budget[p]: requests of its cycle, _max
    SharedInterval,   \* SEACE_SHARED_MIN_INTERVAL_SECONDS
    BlockTime,        \* SEACE_SHARED_BLOCK_SECONDS, and the web's own pause
    WorkerInterval,   \* PROD6_MIN_REQUEST_INTERVAL_SECONDS
    WebInterval,      \* WEB_SEACE_MIN_INTERVAL_SECONDS
    WebMaxWait,       \* WEB_SEACE_MAX_WAIT_SECONDS
    WebCap,           \* WEB_SEACE_MAX_REQUESTS_PER_HOUR
    MaxTime           \* bound on the length of a behaviour

Requests == WorkerRequests \cup WebRequests

ASSUME GateAssumption ==
    /\ IsFiniteSet(WorkerRequests) /\ IsFiniteSet(WebRequests)
    /\ WorkerRequests \cap WebRequests = {}
    /\ ProcessOf \in [WorkerRequests -> Workers]
    /\ Budget \in [Workers -> Nat]
    /\ SharedInterval \in Nat /\ WorkerInterval \in Nat /\ WebInterval \in Nat
    /\ BlockTime \in Nat \ {0}
    /\ WebMaxWait \in Nat /\ WebCap \in Nat /\ MaxTime \in Nat

VARIABLES
    now,          \* the clock
    nextSlot,     \* Redis: the next free turn
    block,        \* Redis: the instants [from, until) of the last shared block
    localSlot,    \* the next free turn of each worker process and of the web
    used,         \* used[p]: the budget units taken
    tripped,      \* tripped[p]: the breaker of p (STOP in PROD2) is open
    blockedUntil, \* the web's own pause
    pc,           \* pc[r]: the step of request r
    due,          \* due[r]: the instant its timer was set for
    tries,        \* tries[r]: rounds of shared_gate.acquire that found a block
    sent          \* the requests that left for SEACE

redis    == <<nextSlot, block>>
breakers == <<used, tripped, blockedUntil>>
request  == <<pc, due, tries, sent>>
vars     == <<now, redis, localSlot, breakers, request>>

Web == "web"

Later(a, b) == IF a > b THEN a ELSE b

BlockOpen == now < block.until

Goto(r, step) == pc' = [pc EXCEPT ![r] = step]

\* The request ends without leaving.
Refuse(r) ==
    /\ Goto(r, "refused")
    /\ due' = [due EXCEPT ![r] = 0]
    /\ tries' = [tries EXCEPT ![r] = 0]
    /\ UNCHANGED sent

Leave(r) == Goto(r, "sent") /\ sent' = sent \cup {r} /\ UNCHANGED <<due, tries>>

\* RESERVE_SCRIPT: one atomic turn for request r.
Turn == Later(now, nextSlot)

TakeTurn(r) ==
    /\ nextSlot' = Turn + SharedInterval
    /\ due' = [due EXCEPT ![r] = Turn]
    /\ UNCHANGED block

\* The turn was taken, and the reply of Redis came too late or not at all.
LoseTurn ==
    /\ ~BlockOpen
    /\ nextSlot' = Turn + SharedInterval
    /\ UNCHANGED block

-----------------------------------------------------------------------------
(* A worker: SourcePacer.acquire around shared_gate.acquire                *)

Refund(r) == used' = [used EXCEPT ![ProcessOf[r]] = @ - 1]
Trip(r)   == tripped' = [tripped EXCEPT ![ProcessOf[r]] = TRUE]

\* Redis failed, or three rounds were inconsistent: fail closed.
Unavailable(r) == Refuse(r) /\ Refund(r) /\ UNCHANGED tripped

\* Faulty variant: the refused request keeps its budget unit.
SourceIsBlockedUnrefunded(r) ==
    /\ Refuse(r) /\ Trip(r)
    /\ UNCHANGED <<redis, used>>

\* SharedSourceBlocked: the process's own breaker opens too.
SourceIsBlocked(r) ==
    /\ Refuse(r) /\ Trip(r) /\ Refund(r)
    /\ UNCHANGED redis

\* The local turn, under the pacer's lock.
AcquireLocal(r) ==
    LET p == ProcessOf[r]
        slot == Later(now, localSlot[p])
    IN  /\ pc[r] = "new"
        /\ IF tripped[p] \/ used[p] >= Budget[p]
           THEN Refuse(r) /\ UNCHANGED <<localSlot, used>>
           ELSE /\ used' = [used EXCEPT ![p] = @ + 1]
                /\ localSlot' = [localSlot EXCEPT ![p] = slot + WorkerInterval]
                /\ due' = [due EXCEPT ![r] = slot]
                /\ Goto(r, "reserve")
                /\ UNCHANGED <<tries, sent>>
        /\ UNCHANGED <<now, redis, tripped, blockedUntil>>

\* Faulty variant: with Redis down the request goes on without a turn.
ReserveOpen(r) ==
    /\ pc[r] = "reserve" /\ now >= due[r]
    /\ \/ Goto(r, "checked") /\ UNCHANGED <<redis, due, used, tripped>>
       \/ BlockOpen /\ Goto(r, "blocked") /\ UNCHANGED <<redis, due, used, tripped>>
       \/ ~BlockOpen /\ TakeTurn(r)
          /\ Goto(r, IF Turn = now THEN "checked" ELSE "wait")
          /\ UNCHANGED <<used, tripped>>
    /\ UNCHANGED <<now, localSlot, blockedUntil, tries, sent>>

\* The shared turn; an immediate one is not checked again.
Reserve(r) ==
    /\ pc[r] = "reserve" /\ now >= due[r]
    /\ \/ Unavailable(r) /\ (UNCHANGED redis \/ LoseTurn)
       \/ /\ BlockOpen
          /\ Goto(r, "blocked")
          /\ UNCHANGED <<redis, due, tries, sent, used, tripped>>
       \/ /\ ~BlockOpen
          /\ TakeTurn(r)
          /\ Goto(r, IF Turn = now THEN "checked" ELSE "wait")
          /\ UNCHANGED <<tries, sent, used, tripped>>
    /\ UNCHANGED <<now, localSlot, blockedUntil>>

\* _refuse after the script saw a block: it may have ended meanwhile.
ReadBlock(r) ==
    /\ pc[r] = "blocked"
    /\ \/ Unavailable(r) /\ UNCHANGED redis
       \/ BlockOpen /\ SourceIsBlocked(r)
       \/ ~BlockOpen /\ tries[r] = 2 /\ Unavailable(r) /\ UNCHANGED redis
       \/ /\ ~BlockOpen /\ tries[r] < 2
          /\ tries' = [tries EXCEPT ![r] = @ + 1]
          /\ Goto(r, "reserve")
          /\ UNCHANGED <<redis, due, sent, used, tripped>>
    /\ UNCHANGED <<now, localSlot, blockedUntil>>

\* Faulty variant: a turn reserved before the block appeared is used.
WakeUpUnchecked(r) ==
    /\ pc[r] = "wait" /\ now >= due[r]
    /\ Goto(r, "checked")
    /\ UNCHANGED <<now, redis, localSlot, breakers, due, tries, sent>>

\* The turn came; a block that appeared while it was awaited refuses it.
WakeUp(r) ==
    /\ pc[r] = "wait" /\ now >= due[r]
    /\ \/ Unavailable(r) /\ UNCHANGED redis
       \/ BlockOpen /\ SourceIsBlocked(r)
       \/ /\ ~BlockOpen
          /\ Goto(r, "checked")
          /\ UNCHANGED <<redis, due, tries, sent, used, tripped>>
    /\ UNCHANGED <<now, localSlot, blockedUntil>>

\* Another thread may have been denied while this one waited.
LastCheck(r) ==
    /\ pc[r] = "checked"
    /\ IF tripped[ProcessOf[r]]
       THEN Refuse(r) /\ Refund(r)
       ELSE Leave(r) /\ UNCHANGED used
    /\ UNCHANGED <<now, redis, localSlot, tripped, blockedUntil>>

-----------------------------------------------------------------------------
(* The web: acquireSlot                                                    *)

WebDelay == Later(now, localSlot[Web]) - now

WebRecent == {r \in WebRequests : pc[r] \in {"wait", "sent", "denied", "over"}}

\* localSlot(): the pause, the hourly cap and the longest wait.
WebMayGo ==
    /\ blockedUntil <= now
    /\ Cardinality(WebRecent) < WebCap
    /\ WebDelay <= WebMaxWait

\* What the request still accepts to wait is fixed before Redis is asked; the
\* instant is kept in due.
WebLook(r) ==
    /\ pc[r] = "new"
    /\ IF WebMayGo
       THEN /\ Goto(r, "reserve")
            /\ due' = [due EXCEPT ![r] = WebMaxWait - WebDelay]
            /\ UNCHANGED <<tries, sent>>
       ELSE Refuse(r)
    /\ UNCHANGED <<now, redis, localSlot, breakers>>

\* reserveSharedSlot: a Redis failure, or a turn too far away, is a busy gate.
WebReserve(r) ==
    /\ pc[r] = "reserve"
    /\ \/ Refuse(r) /\ UNCHANGED redis
       \/ Refuse(r) /\ Turn - now <= due[r] /\ LoseTurn
       \/ /\ BlockOpen
          /\ Goto(r, "blocked")
          /\ UNCHANGED <<redis, due, tries, sent>>
       \/ /\ ~BlockOpen /\ Turn - now <= due[r]
          /\ TakeTurn(r)
          /\ Goto(r, "take")
          /\ UNCHANGED <<tries, sent>>
    /\ UNCHANGED <<now, localSlot, breakers>>

\* blockTtlMs: the web adopts what is left of the block.
WebReadBlock(r) ==
    /\ pc[r] = "blocked"
    /\ Refuse(r)
    /\ blockedUntil' \in {blockedUntil, Later(now, block.until)}
    /\ UNCHANGED <<now, redis, localSlot, used, tripped>>

\* Faulty variant: nothing is looked at again after the answer of Redis.
WebTakeUnchecked(r) ==
    /\ pc[r] = "take"
    /\ localSlot' = [localSlot EXCEPT ![Web] = now + WebDelay + WebInterval]
    /\ due' = [due EXCEPT ![r] = Later(localSlot[Web], due[r])]
    /\ Goto(r, "wait")
    /\ UNCHANGED <<now, redis, breakers, tries, sent>>

\* Another request may have taken the local turn meanwhile; the request waits
\* for the later of its two turns.  One Redis connection answers in order.
WebTake(r) ==
    /\ pc[r] = "take"
    /\ \A s \in WebRequests : pc[s] = "take" => due[r] <= due[s]
    /\ IF WebMayGo
       THEN /\ localSlot' = [localSlot EXCEPT ![Web] = now + WebDelay + WebInterval]
            /\ due' = [due EXCEPT ![r] = Later(localSlot[Web], due[r])]
            /\ Goto(r, "wait")
            /\ UNCHANGED <<tries, sent>>
       ELSE Refuse(r) /\ UNCHANGED localSlot
    /\ UNCHANGED <<now, redis, breakers>>

\* The timer fired: the web sends without looking at the block again.
WebSend(r) ==
    /\ pc[r] = "wait" /\ now >= due[r]
    /\ Leave(r)
    /\ UNCHANGED <<now, redis, localSlot, breakers>>

-----------------------------------------------------------------------------
(* The answer of SEACE, and time                                           *)

Answer(r) ==
    /\ pc[r] = "sent"
    /\ Goto(r, "over")
    /\ UNCHANGED <<now, redis, localSlot, breakers, due, tries, sent>>

\* 403 or 429: the process stops itself first, then tells the others.
Denial(r) ==
    /\ pc[r] = "sent"
    /\ Goto(r, "denied")
    /\ IF r \in WebRequests
       THEN blockedUntil' = now + BlockTime /\ UNCHANGED tripped
       ELSE Trip(r) /\ UNCHANGED blockedUntil
    /\ UNCHANGED <<now, redis, localSlot, used, due, tries, sent>>

\* SET NX PX, best effort: the first writer wins.
RecordBlock(r) ==
    /\ pc[r] = "denied"
    /\ Goto(r, "over")
    /\ block' \in {block, IF BlockOpen THEN block
                          ELSE [from |-> now, until |-> now + BlockTime]}
    /\ UNCHANGED <<now, nextSlot, localSlot, breakers, due, tries, sent>>

Tick ==
    /\ now < MaxTime
    /\ now' = now + 1
    /\ UNCHANGED <<redis, localSlot, breakers, request>>

-----------------------------------------------------------------------------

\* begin_cycle: nothing used; the breaker is open from the start while a pause
\* of an earlier cycle runs.
Init ==
    /\ now = 0
    /\ nextSlot = 0
    /\ block = [from |-> 0, until |-> 0]
    /\ localSlot = [p \in Workers \cup {Web} |-> 0]
    /\ used = [p \in Workers |-> 0]
    /\ tripped \in [Workers -> BOOLEAN]
    /\ blockedUntil = 0
    /\ pc = [r \in Requests |-> "new"]
    /\ due = [r \in Requests |-> 0]
    /\ tries = [r \in Requests |-> 0]
    /\ sent = {}

WorkerStep(r) ==
    \/ AcquireLocal(r) \/ Reserve(r) \/ ReadBlock(r) \/ WakeUp(r) \/ LastCheck(r)

WebStep(r) ==
    \/ WebLook(r) \/ WebReserve(r) \/ WebReadBlock(r) \/ WebTake(r) \/ WebSend(r)

Next ==
    \/ \E r \in WorkerRequests : WorkerStep(r)
    \/ \E r \in WebRequests : WebStep(r)
    \/ \E r \in Requests : Answer(r) \/ Denial(r) \/ RecordBlock(r)
    \/ Tick

Spec == Init /\ [][Next]_vars

-----------------------------------------------------------------------------
(* Properties                                                              *)

Steps == {"new", "reserve", "blocked", "take", "wait", "checked", "sent",
          "denied", "over", "refused"}

TypeOK ==
    /\ now \in 0..MaxTime
    /\ nextSlot \in Nat
    /\ block \in [from : Nat, until : Nat]
    /\ localSlot \in [Workers \cup {Web} -> Nat]
    /\ used \in [Workers -> Nat]
    /\ tripped \in [Workers -> BOOLEAN]
    /\ blockedUntil \in Nat
    /\ pc \in [Requests -> Steps]
    /\ due \in [Requests -> Nat]
    /\ tries \in [Requests -> 0..2]
    /\ sent \subseteq Requests

\* The budget of a cycle counts exactly the requests that left or still may:
\* every refusal gives its unit back, once.
BudgetIsExact ==
    \A p \in Workers :
        LET mine == {r \in WorkerRequests : ProcessOf[r] = p}
            held == {"reserve", "blocked", "wait", "checked", "sent", "denied", "over"}
        IN  /\ used[p] = Cardinality({r \in mine : pc[r] \in held})
            /\ Cardinality(sent \cap mine) <= Budget[p]

\* The web never has more requests in an hour than its cap, however many of
\* them waited for Redis at once.
WebCapIsKept == Cardinality(sent \cap WebRequests) <= WebCap

\* "gap between requests of all processes": however late timers and answers are,
\* the address never sends more than one request per shared interval on average
\* since the gate began, and the timers of two requests of workers were a shared
\* interval apart.  Not of the web's: a web request waits for the later of its
\* two turns and may let the shared one pass.
PaceIsKept ==
    /\ (Cardinality(sent) - 1) * SharedInterval <= now
    /\ \A r, s \in sent \cap WorkerRequests :
         r # s => due[r] - due[s] >= SharedInterval \/ due[s] - due[r] >= SharedInterval

\* "while it exists nobody sends": no request leaves while a block runs that
\* was there before the request's turn came.
StopsForBlock(R) ==
    \A r \in R : r \in sent' \ sent => ~(block.from < due[r] /\ BlockOpen)

WorkersStopForBlock == [][StopsForBlock(WorkerRequests)]_vars
=============================================================================
