---------------------------- MODULE EgressProofs ----------------------------
(***************************************************************************)
(* Proofs about what keeps the requests to the portals within their rules. *)
(*                                                                         *)
(* The way out to SEACE (SeaceGate), for any number of processes and       *)
(* requests and any intervals, caps and budgets: the pace of the address,  *)
(* the budget of a cycle, the cap of the web, and the stop for a block.    *)
(*                                                                         *)
(* The search of PROD6 that goes out there (DiscoverySchedule), for any    *)
(* companies, lists, pages and limits, and any number of denials,          *)
(* failures, deaths and changes: the laps, the pause after a denial, and   *)
(* its alerts.                                                             *)
(***************************************************************************)
EXTENDS SeaceGate, DiscoverySchedule, FiniteSetTheorems, TLAPS

-----------------------------------------------------------------------------
(* The way out: the inductive invariant                                    *)

Gone == {"sent", "denied", "over"}

\* `sent` is what the steps of the requests say, and a timer fires in time.
SentAreGone ==
    /\ \A r \in Requests : r \in sent <=> pc[r] \in Gone
    /\ \A r \in Requests : pc[r] \in Gone \cup {"checked"} => due[r] <= now

\* The requests of the workers that hold a unit of their budget.
Held == Gone \cup {"reserve", "blocked", "wait", "checked"}

Holding(p) == {r \in WorkerRequests : ProcessOf[r] = p /\ pc[r] \in Held}

BudgetIsHeld ==
    \A p \in Workers : used[p] = Cardinality(Holding(p)) /\ used[p] <= Budget[p]

\* A web request counts from the moment it waits.
WebIsCounted == Cardinality(WebRecent) <= WebCap

\* The requests that have a turn of the shared gate.
WithTurn == Gone \cup {"take", "wait", "checked"}

Turned == {r \in Requests : pc[r] \in WithTurn}

TurnedBy(x) == {r \in Turned : due[r] <= x}

\* The next turn is behind all that were given, and up to any instant there is
\* at most one per interval.
TurnsAreCounted ==
    /\ Cardinality(Turned) * SharedInterval <= nextSlot
    /\ \A x \in Nat : (Cardinality(TurnedBy(x)) - 1) * SharedInterval <= x

\* The turns of workers are an interval apart, and before the next one.
WorkerTurnsApart ==
    /\ \A r \in Turned \cap WorkerRequests : due[r] + SharedInterval <= nextSlot
    /\ \A r, s \in Turned \cap WorkerRequests :
         r # s => due[r] - due[s] >= SharedInterval \/ due[s] - due[r] >= SharedInterval

\* A request that passed the check goes before any block its turn did not see.
BlockWasSeen ==
    \A r \in Requests : pc[r] = "checked" => due[r] <= block.from \/ block.until <= now

IInv ==
    /\ TypeOK
    /\ SentAreGone
    /\ BudgetIsHeld
    /\ WebIsCounted
    /\ TurnsAreCounted
    /\ WorkerTurnsApart
    /\ BlockWasSeen

-----------------------------------------------------------------------------
(* Counting                                                                *)

LEMMA FiniteRequests ==
    /\ IsFiniteSet(Requests)
    /\ \A S \in SUBSET Requests : IsFiniteSet(S) /\ Cardinality(S) \in Nat
<1>1. IsFiniteSet(Requests)
  BY GateAssumption, FS_Union DEF Requests
<1> QED BY <1>1, FS_Subset, FS_CardinalityType

LEMMA SubsetCount ==
    ASSUME NEW S \in SUBSET Requests, NEW T \in SUBSET S
    PROVE  Cardinality(T) <= Cardinality(S)
BY FiniteRequests, FS_Subset

LEMMA AddCount ==
    ASSUME NEW S \in SUBSET Requests, NEW r \in Requests \ S
    PROVE  Cardinality(S \cup {r}) = Cardinality(S) + 1
BY FiniteRequests, FS_AddElement

LEMMA RemoveCount ==
    ASSUME NEW S \in SUBSET Requests, NEW r \in S
    PROVE  Cardinality(S \ {r}) = Cardinality(S) - 1
BY FiniteRequests, FS_RemoveElement

\* Multiples of an interval.
LEMMA Multiples ==
    ASSUME NEW i \in Nat, NEW m \in Int, NEW n \in Int, m <= n
    PROVE  m * i <= n * i /\ m * i \in Int /\ (m + 1) * i = m * i + i
OBVIOUS

-----------------------------------------------------------------------------
(* What the steps do to the requests                                       *)

LEMMA ProcessFacts == ASSUME NEW r \in WorkerRequests PROVE r \in Requests /\ ProcessOf[r] \in Workers
BY GateAssumption DEF Requests

LEMMA NumberFacts ==
    /\ SharedInterval \in Nat /\ WorkerInterval \in Nat /\ WebInterval \in Nat
    /\ BlockTime \in Nat /\ WebMaxWait \in Nat /\ WebCap \in Nat /\ MaxTime \in Nat
    /\ TypeOK => now \in Nat
BY GateAssumption DEF TypeOK

LEMMA InitIInv == Init => IInv
<1> SUFFICES ASSUME Init PROVE IInv
  OBVIOUS
<1>1. TypeOK
  BY GateAssumption DEF Init, TypeOK, Steps
<1>2. SentAreGone /\ WorkerTurnsApart /\ BlockWasSeen
  BY DEF Init, SentAreGone, Gone, WorkerTurnsApart, Turned, WithTurn, BlockWasSeen
<1>3. \A p \in Workers : Holding(p) = {}
  BY ProcessFacts DEF Init, Holding, Held, Gone
<1>4. WebRecent = {} /\ Turned = {} /\ \A x \in Nat : TurnedBy(x) = {}
  BY DEF Init, WebRecent, Turned, TurnedBy, WithTurn, Gone, Requests
<1>5. Cardinality({}) = 0
  BY FS_EmptySet
<1>6. BudgetIsHeld
  <2> SUFFICES ASSUME NEW p \in Workers
               PROVE  used[p] = Cardinality(Holding(p)) /\ used[p] <= Budget[p]
    BY DEF BudgetIsHeld
  <2>1. Cardinality(Holding(p)) = 0
    BY <1>3, <1>5
  <2> QED BY <2>1, GateAssumption DEF Init
<1>7. WebIsCounted
  BY <1>4, <1>5, GateAssumption DEF WebIsCounted
<1>8. TurnsAreCounted
  <2>1. 0 * SharedInterval = 0 /\ \A x \in Nat : (0 - 1) * SharedInterval <= x
    BY GateAssumption
  <2>2. Cardinality(Turned) = 0 /\ \A x \in Nat : Cardinality(TurnedBy(x)) = 0
    BY <1>4, <1>5
  <2>3. nextSlot = 0
    BY DEF Init
  <2> QED BY <2>1, <2>2, <2>3 DEF TurnsAreCounted
<1> QED BY <1>1, <1>2, <1>6, <1>7, <1>8 DEF IInv

\* One request makes one step.
LEMMA HoldingMoves ==
    ASSUME TypeOK, NEW r \in Requests, NEW step, Goto(r, step), NEW p \in Workers
    PROVE  Holding(p)' = IF r \in WorkerRequests /\ ProcessOf[r] = p
                         THEN IF step \in Held THEN Holding(p) \cup {r} ELSE Holding(p) \ {r}
                         ELSE Holding(p)
BY DEF TypeOK, Goto, Holding, Requests

LEMMA TurnedMoves ==
    ASSUME TypeOK, NEW r \in Requests, NEW step, Goto(r, step)
    PROVE  Turned' = IF step \in WithTurn THEN Turned \cup {r} ELSE Turned \ {r}
BY DEF TypeOK, Goto, Turned

\* A request that holds a unit can give it back.
LEMMA UnitIsThere ==
    ASSUME IInv, NEW r \in WorkerRequests, pc[r] \in Held
    PROVE  used[ProcessOf[r]] - 1 \in Nat
<1> DEFINE p == ProcessOf[r]
<1>1. p \in Workers /\ r \in Requests
  BY ProcessFacts
<1>2. {r} \in SUBSET Holding(p) /\ Holding(p) \in SUBSET Requests
  BY <1>1 DEF Holding, Requests
<1>3. Cardinality({r}) = 1
  BY FS_Singleton
<1>4. 1 <= Cardinality(Holding(p)) /\ Cardinality(Holding(p)) \in Nat
  BY <1>2, <1>3, SubsetCount, FiniteRequests
<1>5. used[p] = Cardinality(Holding(p))
  BY <1>1 DEF IInv, BudgetIsHeld
<1> QED BY <1>4, <1>5

-----------------------------------------------------------------------------
(* Every step keeps the invariant                                          *)

LEMMA TripIsTyped ==
    ASSUME tripped \in [Workers -> BOOLEAN], NEW p, tripped' = [tripped EXCEPT ![p] = TRUE]
    PROVE  tripped' \in [Workers -> BOOLEAN]
OBVIOUS

\* Each variable keeps its type; no budget goes below zero.
LEMMA TypeKept == ASSUME IInv, [Next]_vars PROVE TypeOK'
<1> USE NumberFacts DEF IInv, TypeOK, Steps, Goto, Refuse, Leave, redis, breakers, request, Turn, Later
<1>1. ASSUME NEW r \in WorkerRequests, WorkerStep(r) PROVE TypeOK'
  <2>0. r \in Requests /\ ProcessOf[r] \in Workers
    BY ProcessFacts
  <2>a. pc[r] \in Held => used[ProcessOf[r]] - 1 \in Nat
    BY UnitIsThere
  <2>1. CASE AcquireLocal(r)
    BY <2>0, <2>1 DEF AcquireLocal
  <2>2. CASE Reserve(r)
    BY <2>0, <2>a, <2>2 DEF Reserve, Unavailable, Refund, LoseTurn, TakeTurn, Held
  <2>3. CASE ReadBlock(r)
    <3>1. used[ProcessOf[r]] - 1 \in Nat
      BY <2>a, <2>3 DEF ReadBlock, Held
    <3>2. CASE UNCHANGED tripped
      BY <2>0, <2>3, <3>1, <3>2 DEF ReadBlock, Unavailable, SourceIsBlocked, Refund
    <3>3. CASE SourceIsBlocked(r)
      <4>1. tripped' \in [Workers -> BOOLEAN]
        BY <3>3, TripIsTyped DEF SourceIsBlocked, Trip
      <4>2. Refuse(r) /\ Refund(r) /\ UNCHANGED <<now, redis, localSlot, blockedUntil>>
        BY <2>3, <3>3 DEF ReadBlock, SourceIsBlocked
      <4> QED BY <2>0, <3>1, <4>1, <4>2 DEF Refund
    <3> QED BY <2>3, <3>2, <3>3 DEF ReadBlock, Unavailable
  <2>4. CASE WakeUp(r)
    <3>1. used[ProcessOf[r]] - 1 \in Nat
      BY <2>a, <2>4 DEF WakeUp, Held
    <3>2. CASE UNCHANGED tripped
      BY <2>0, <2>4, <3>1, <3>2 DEF WakeUp, Unavailable, SourceIsBlocked, Refund
    <3>3. CASE SourceIsBlocked(r)
      <4>1. tripped' \in [Workers -> BOOLEAN]
        BY <3>3, TripIsTyped DEF SourceIsBlocked, Trip
      <4>2. Refuse(r) /\ Refund(r) /\ UNCHANGED <<now, redis, localSlot, blockedUntil>>
        BY <2>4, <3>3 DEF WakeUp, SourceIsBlocked
      <4> QED BY <2>0, <3>1, <4>1, <4>2 DEF Refund
    <3> QED BY <2>4, <3>2, <3>3 DEF WakeUp, Unavailable
  <2>5. CASE LastCheck(r)
    BY <2>0, <2>a, <2>5 DEF LastCheck, Refund, Held
  <2> QED BY <1>1, <2>1, <2>2, <2>3, <2>4, <2>5 DEF WorkerStep
<1>2. ASSUME NEW r \in WebRequests, WebStep(r) PROVE TypeOK'
  <2>0. r \in Requests /\ Web \in Workers \cup {Web}
    BY DEF Requests
  <2>1. CASE WebLook(r)
    BY <2>0, <2>1 DEF WebLook, WebMayGo, WebDelay
  <2>2. CASE WebReserve(r)
    BY <2>0, <2>2 DEF WebReserve, LoseTurn, TakeTurn
  <2>3. CASE WebReadBlock(r)
    BY <2>0, <2>3 DEF WebReadBlock
  <2>4. CASE WebTake(r)
    BY <2>0, <2>4 DEF WebTake, WebDelay
  <2>5. CASE WebSend(r)
    BY <2>0, <2>5 DEF WebSend
  <2> QED BY <1>2, <2>1, <2>2, <2>3, <2>4, <2>5 DEF WebStep
<1>3. ASSUME NEW r \in Requests, Answer(r) \/ Denial(r) \/ RecordBlock(r) PROVE TypeOK'
  <2>1. CASE Answer(r)
    BY <1>3, <2>1 DEF Answer
  <2>2. CASE Denial(r)
    <3>1. tripped' \in [Workers -> BOOLEAN]
      BY <2>2, TripIsTyped DEF Denial, Trip
    <3> QED BY <1>3, <2>2, <3>1 DEF Denial
  <2>3. CASE RecordBlock(r)
    BY <1>3, <2>3 DEF RecordBlock
  <2> QED BY <1>3, <2>1, <2>2, <2>3
<1>4. CASE Tick
  BY <1>4 DEF Tick
<1>5. CASE UNCHANGED vars
  BY <1>5 DEF vars
<1> QED BY <1>1, <1>2, <1>3, <1>4, <1>5 DEF Next

\* A request leaves at its instant or later, and only then.
LEMMA SentKept == ASSUME IInv, [Next]_vars PROVE SentAreGone'
<1> USE NumberFacts DEF IInv, TypeOK, SentAreGone, Gone, Goto, Refuse, Leave, redis, breakers, request
<1>1. ASSUME NEW r \in WorkerRequests, WorkerStep(r) PROVE SentAreGone'
  <2>0. r \in Requests
    BY DEF Requests
  <2>1. CASE AcquireLocal(r)
    BY <2>0, <2>1 DEF AcquireLocal
  <2>2. CASE Reserve(r)
    BY <2>0, <2>2 DEF Reserve, Unavailable, TakeTurn, Turn, Later
  <2>3. CASE ReadBlock(r)
    BY <2>0, <2>3 DEF ReadBlock, Unavailable, SourceIsBlocked
  <2>4. CASE WakeUp(r)
    BY <2>0, <2>4 DEF WakeUp, Unavailable, SourceIsBlocked
  <2>5. CASE LastCheck(r)
    BY <2>0, <2>5 DEF LastCheck
  <2> QED BY <1>1, <2>1, <2>2, <2>3, <2>4, <2>5 DEF WorkerStep
<1>2. ASSUME NEW r \in WebRequests, WebStep(r) PROVE SentAreGone'
  <2>0. r \in Requests
    BY DEF Requests
  <2>1. CASE WebLook(r)
    BY <2>0, <2>1 DEF WebLook
  <2>2. CASE WebReserve(r)
    BY <2>0, <2>2 DEF WebReserve, TakeTurn
  <2>3. CASE WebReadBlock(r)
    BY <2>0, <2>3 DEF WebReadBlock
  <2>4. CASE WebTake(r)
    BY <2>0, <2>4 DEF WebTake
  <2>5. CASE WebSend(r)
    BY <2>0, <2>5 DEF WebSend
  <2> QED BY <1>2, <2>1, <2>2, <2>3, <2>4, <2>5 DEF WebStep
<1>3. ASSUME NEW r \in Requests, Answer(r) \/ Denial(r) \/ RecordBlock(r) PROVE SentAreGone'
  BY <1>3 DEF Answer, Denial, RecordBlock
<1>4. CASE Tick
  BY <1>4 DEF Tick
<1>5. CASE UNCHANGED vars
  BY <1>5 DEF vars
<1> QED BY <1>1, <1>2, <1>3, <1>4, <1>5 DEF Next

\* A request that passed the check was checked after its turn came, and a block
\* that begins later begins after that turn.
LEMMA BlockKept == ASSUME IInv, [Next]_vars PROVE BlockWasSeen'
<1> USE NumberFacts DEF IInv, TypeOK, BlockWasSeen, SentAreGone, Gone, Goto, Refuse, Leave, BlockOpen,
            redis, breakers, request
<1>1. ASSUME NEW r \in WorkerRequests, WorkerStep(r) PROVE BlockWasSeen'
  <2>0. r \in Requests
    BY DEF Requests
  <2>1. CASE AcquireLocal(r)
    BY <2>0, <2>1 DEF AcquireLocal
  <2>2. CASE Reserve(r)
    BY <2>0, <2>2 DEF Reserve, Unavailable, TakeTurn, LoseTurn
  <2>3. CASE ReadBlock(r)
    BY <2>0, <2>3 DEF ReadBlock, Unavailable, SourceIsBlocked
  <2>4. CASE WakeUp(r)
    BY <2>0, <2>4 DEF WakeUp, Unavailable, SourceIsBlocked
  <2>5. CASE LastCheck(r)
    BY <2>0, <2>5 DEF LastCheck
  <2> QED BY <1>1, <2>1, <2>2, <2>3, <2>4, <2>5 DEF WorkerStep
<1>2. ASSUME NEW r \in WebRequests, WebStep(r) PROVE BlockWasSeen'
  <2>0. r \in Requests
    BY DEF Requests
  <2>1. CASE WebLook(r)
    BY <2>0, <2>1 DEF WebLook
  <2>2. CASE WebReserve(r)
    BY <2>0, <2>2 DEF WebReserve, TakeTurn, LoseTurn
  <2>3. CASE WebReadBlock(r)
    BY <2>0, <2>3 DEF WebReadBlock
  <2>4. CASE WebTake(r)
    BY <2>0, <2>4 DEF WebTake
  <2>5. CASE WebSend(r)
    BY <2>0, <2>5 DEF WebSend
  <2> QED BY <1>2, <2>1, <2>2, <2>3, <2>4, <2>5 DEF WebStep
<1>3. ASSUME NEW r \in Requests, Answer(r) \/ Denial(r) \/ RecordBlock(r) PROVE BlockWasSeen'
  BY <1>3 DEF Answer, Denial, RecordBlock
<1>4. CASE Tick
  BY <1>4 DEF Tick
<1>5. CASE UNCHANGED vars
  BY <1>5 DEF vars
<1> QED BY <1>1, <1>2, <1>3, <1>4, <1>5 DEF Next

\* What a request holds of its budget after its step.
LEMMA StepOfBudget ==
    ASSUME IInv, NEW r \in WorkerRequests, NEW step, Goto(r, step),
           used' = [used EXCEPT ![ProcessOf[r]] =
                       IF pc[r] \notin Held /\ step \in Held THEN @ + 1
                       ELSE IF pc[r] \in Held /\ step \notin Held THEN @ - 1 ELSE @],
           pc[r] \notin Held /\ step \in Held => used[ProcessOf[r]] < Budget[ProcessOf[r]]
    PROVE  BudgetIsHeld'
<1>0. r \in Requests /\ ProcessOf[r] \in Workers
  BY ProcessFacts
<1> SUFFICES ASSUME NEW p \in Workers
             PROVE  used'[p] = Cardinality(Holding(p)') /\ used'[p] <= Budget[p]
  BY DEF BudgetIsHeld
<1>1. Holding(p)' = IF ProcessOf[r] = p
                    THEN IF step \in Held THEN Holding(p) \cup {r} ELSE Holding(p) \ {r}
                    ELSE Holding(p)
  BY <1>0, HoldingMoves DEF IInv, Goto
<1>2. /\ used[p] = Cardinality(Holding(p)) /\ used[p] <= Budget[p]
      /\ used[p] \in Nat /\ Budget[p] \in Nat /\ used \in [Workers -> Nat]
  BY GateAssumption DEF IInv, BudgetIsHeld, TypeOK
<1>3. CASE ProcessOf[r] # p
  BY <1>0, <1>1, <1>2, <1>3
<1>4. CASE ProcessOf[r] = p
  <2>0. Holding(p) \in SUBSET Requests /\ (r \in Holding(p) <=> pc[r] \in Held)
    BY <1>4 DEF Holding, Requests
  <2>1. CASE pc[r] \notin Held /\ step \in Held
    <3>1. Cardinality(Holding(p)') = Cardinality(Holding(p)) + 1
      BY <1>0, <1>1, <1>4, <2>0, <2>1, AddCount
    <3> QED BY <1>2, <1>4, <2>1, <3>1
  <2>2. CASE pc[r] \in Held /\ step \notin Held
    <3>1. Cardinality(Holding(p)') = Cardinality(Holding(p)) - 1
      BY <1>1, <1>4, <2>0, <2>2, RemoveCount
    <3> QED BY <1>2, <1>4, <2>2, <3>1
  <2>3. CASE pc[r] \in Held <=> step \in Held
    <3>1. Holding(p)' = Holding(p)
      BY <1>1, <1>4, <2>0, <2>3
    <3> QED BY <1>2, <1>4, <2>3, <3>1
  <2> QED BY <2>1, <2>2, <2>3
<1> QED BY <1>3, <1>4
LEMMA UnitIsTaken ==
    ASSUME IInv, NEW r \in WorkerRequests, pc[r] \notin Held, Goto(r, "reserve"),
           used[ProcessOf[r]] < Budget[ProcessOf[r]],
           used' = [used EXCEPT ![ProcessOf[r]] = @ + 1]
    PROVE  BudgetIsHeld'
<1>1. "reserve" \in Held
  BY DEF Held
<1> QED BY <1>1, StepOfBudget

LEMMA UnitIsReturned ==
    ASSUME IInv, NEW r \in WorkerRequests, pc[r] \in Held, Goto(r, "refused"), Refund(r)
    PROVE  BudgetIsHeld'
<1>1. "refused" \notin Held
  BY DEF Held, Gone
<1> QED BY <1>1, StepOfBudget DEF Refund

LEMMA UnitIsKept ==
    ASSUME IInv, NEW r \in Requests, NEW step, Goto(r, step), UNCHANGED used,
           r \in WebRequests \/ (pc[r] \in Held <=> step \in Held)
    PROVE  BudgetIsHeld'
<1> SUFFICES ASSUME NEW p \in Workers PROVE Holding(p)' = Holding(p)
  BY DEF IInv, BudgetIsHeld
<1>1. WebRequests \cap WorkerRequests = {}
  BY GateAssumption
<1> QED BY <1>1, HoldingMoves DEF IInv, Goto, Holding

\* A refusal gives one unit back, and no other step takes or gives any.
LEMMA BudgetKept == ASSUME IInv, [Next]_vars PROVE BudgetIsHeld'
<1> USE DEF redis, breakers, request
<1>1. ASSUME NEW r \in WorkerRequests, WorkerStep(r) PROVE BudgetIsHeld'
  <2>0. r \in Requests /\ ProcessOf[r] \in Workers
    BY ProcessFacts
  <2>a. /\ {"reserve", "blocked", "wait", "checked", "sent"} \subseteq Held
        /\ "new" \notin Held /\ "refused" \notin Held
    BY DEF Held, Gone
  <2>1. CASE AcquireLocal(r)
    <3>0. /\ pc[r] = "new" /\ used[ProcessOf[r]] \in Nat /\ Budget[ProcessOf[r]] \in Nat
      BY <2>0, <2>1, GateAssumption DEF AcquireLocal, IInv, TypeOK
    <3>1. CASE Refuse(r) /\ UNCHANGED used
      BY <2>0, <2>a, <3>0, <3>1, UnitIsKept DEF Refuse
    <3>2. CASE ~(tripped[ProcessOf[r]] \/ used[ProcessOf[r]] >= Budget[ProcessOf[r]])
      BY <2>1, <2>a, <3>0, <3>2, UnitIsTaken DEF AcquireLocal
    <3> QED BY <2>1, <3>1, <3>2 DEF AcquireLocal
  <2>2. CASE Reserve(r)
    BY <2>0, <2>a, <2>2, UnitIsKept, UnitIsReturned DEF Reserve, Unavailable, Refuse
  <2>3. CASE ReadBlock(r)
    BY <2>0, <2>a, <2>3, UnitIsKept, UnitIsReturned DEF ReadBlock, Unavailable, SourceIsBlocked, Refuse
  <2>4. CASE WakeUp(r)
    BY <2>0, <2>a, <2>4, UnitIsKept, UnitIsReturned DEF WakeUp, Unavailable, SourceIsBlocked, Refuse
  <2>5. CASE LastCheck(r)
    BY <2>0, <2>a, <2>5, UnitIsKept, UnitIsReturned DEF LastCheck, Refuse, Leave
  <2> QED BY <1>1, <2>1, <2>2, <2>3, <2>4, <2>5 DEF WorkerStep
<1>2. ASSUME NEW r \in WebRequests, WebStep(r) PROVE BudgetIsHeld'
  <2>1. r \in Requests /\ UNCHANGED used /\ \E step \in Steps : Goto(r, step)
    BY <1>2 DEF Requests, Steps, WebStep, WebLook, WebReserve, WebReadBlock, WebTake, WebSend,
                Refuse, Leave
  <2> QED BY <2>1, UnitIsKept
<1>3. ASSUME NEW r \in Requests, Answer(r) \/ Denial(r) \/ RecordBlock(r) PROVE BudgetIsHeld'
  <2>1. {"sent", "denied", "over"} \subseteq Held
    BY DEF Held, Gone
  <2> QED BY <1>3, <2>1, UnitIsKept DEF Answer, Denial, RecordBlock
<1>4. CASE Tick \/ UNCHANGED vars
  <2>1. UNCHANGED <<used, pc>>
    BY <1>4 DEF Tick, vars
  <2> QED BY <2>1 DEF IInv, BudgetIsHeld, Holding
<1> QED BY <1>1, <1>2, <1>3, <1>4 DEF Next

\* Requests come to count for the web below its cap, one at a time.
LEMMA WebKept == ASSUME IInv, [Next]_vars PROVE WebIsCounted'
<1> USE DEF redis, breakers, request
<1>0. /\ WebRecent \in SUBSET Requests
      /\ Cardinality(WebRecent) \in Nat /\ Cardinality(WebRecent) <= WebCap /\ WebCap \in Nat
      /\ WebRequests \subseteq Requests /\ WorkerRequests \cap WebRequests = {}
  BY FiniteRequests, GateAssumption DEF IInv, WebIsCounted, WebRecent, Requests
<1>1. ASSUME WebRecent' \in SUBSET WebRecent PROVE WebIsCounted'
  <2>1. Cardinality(WebRecent') <= Cardinality(WebRecent) /\ Cardinality(WebRecent') \in Nat
    BY <1>0, <1>1, SubsetCount, FiniteRequests
  <2> QED BY <1>0, <2>1 DEF WebIsCounted
<1>2. ASSUME NEW r \in WorkerRequests, WorkerStep(r) PROVE WebIsCounted'
  <2>1. \E step \in Steps : Goto(r, step)
    BY <1>2 DEF Steps, WorkerStep, AcquireLocal, Reserve, ReadBlock, WakeUp, LastCheck,
                Unavailable, SourceIsBlocked, Refuse, Leave
  <2>2. WebRecent' = WebRecent
    BY <1>0, <2>1 DEF Goto, WebRecent, IInv, TypeOK
  <2> QED BY <1>1, <2>2
<1>3. ASSUME NEW r \in WebRequests, WebStep(r) PROVE WebIsCounted'
  <2>0. r \in Requests
    BY <1>0
  <2>1. CASE WebLook(r) \/ WebReserve(r) \/ WebReadBlock(r) \/ WebSend(r)
    <3>1. \E step \in Steps : Goto(r, step) /\ (step \in {"wait", "sent"} => pc[r] = "wait")
      BY <2>1 DEF WebLook, WebReserve, WebReadBlock, WebSend, Refuse, Leave, Steps
    <3>2. WebRecent' \in SUBSET WebRecent
      BY <1>0, <2>0, <2>1, <3>1
         DEF WebLook, WebReserve, WebReadBlock, WebSend, Refuse, Leave, Goto, WebRecent, IInv, TypeOK
    <3> QED BY <1>1, <3>2
  <2>2. CASE WebTake(r)
    <3>1. CASE WebMayGo
      <4>1. WebRecent' = WebRecent \cup {r} /\ r \notin WebRecent
        BY <1>0, <2>0, <2>2, <3>1 DEF WebTake, Goto, WebRecent, IInv, TypeOK
      <4>2. Cardinality(WebRecent') = Cardinality(WebRecent) + 1
        BY <1>0, <2>0, <4>1, AddCount
      <4>3. Cardinality(WebRecent) < WebCap
        BY <3>1 DEF WebMayGo
      <4> QED BY <1>0, <4>2, <4>3 DEF WebIsCounted
    <3>2. CASE ~WebMayGo
      <4>1. WebRecent' \in SUBSET WebRecent
        BY <1>0, <2>0, <2>2, <3>2 DEF WebTake, Refuse, Goto, WebRecent, IInv, TypeOK
      <4> QED BY <1>1, <4>1
    <3> QED BY <3>1, <3>2
  <2> QED BY <1>3, <2>1, <2>2 DEF WebStep
<1>4. ASSUME NEW r \in Requests, Answer(r) \/ Denial(r) \/ RecordBlock(r) PROVE WebIsCounted'
  <2>1. WebRecent' \in SUBSET WebRecent
    BY <1>0, <1>4 DEF Answer, Denial, RecordBlock, Goto, WebRecent, IInv, TypeOK
  <2> QED BY <1>1, <2>1
<1>5. CASE Tick \/ UNCHANGED vars
  <2>1. WebRecent' = WebRecent
    BY <1>5 DEF Tick, vars, WebRecent
  <2> QED BY <1>1, <2>1
<1> QED BY <1>2, <1>3, <1>4, <1>5 DEF Next

\* Requests give up turns, wait longer, and turns are lost.
LEMMA TurnsShrink ==
    ASSUME IInv, nextSlot' \in Nat, nextSlot <= nextSlot',
           due \in [Requests -> Nat], due' \in [Requests -> Nat], Turned' \in SUBSET Turned,
           \A q \in Turned' : due[q] <= due'[q] /\ (q \in WorkerRequests => due'[q] = due[q])
    PROVE  TurnsAreCounted' /\ WorkerTurnsApart'
<1>0. Turned \in SUBSET Requests /\ nextSlot \in Nat /\ SharedInterval \in Nat
  BY NumberFacts DEF Turned, IInv, TypeOK
<1>1. Cardinality(Turned') * SharedInterval <= nextSlot'
  <2>1. /\ Cardinality(Turned') <= Cardinality(Turned)
        /\ Cardinality(Turned') \in Nat /\ Cardinality(Turned) \in Nat
    BY <1>0, SubsetCount, FiniteRequests
  <2>2. /\ Cardinality(Turned') * SharedInterval <= Cardinality(Turned) * SharedInterval
        /\ Cardinality(Turned') * SharedInterval \in Int
        /\ Cardinality(Turned) * SharedInterval \in Int
    BY <1>0, <2>1, Multiples
  <2>3. Cardinality(Turned) * SharedInterval <= nextSlot
    BY DEF IInv, TurnsAreCounted
  <2> QED BY <1>0, <2>2, <2>3
<1>2. ASSUME NEW x \in Nat PROVE (Cardinality(TurnedBy(x)') - 1) * SharedInterval <= x
  <2>0. TurnedBy(x)' \in SUBSET TurnedBy(x) /\ TurnedBy(x) \in SUBSET Requests
    BY <1>0 DEF TurnedBy
  <2>1. /\ Cardinality(TurnedBy(x)') <= Cardinality(TurnedBy(x))
        /\ Cardinality(TurnedBy(x)') \in Nat /\ Cardinality(TurnedBy(x)) \in Nat
    BY <2>0, SubsetCount, FiniteRequests
  <2> DEFINE m == Cardinality(TurnedBy(x)') - 1
             n == Cardinality(TurnedBy(x)) - 1
  <2>2. m \in Int /\ n \in Int /\ m <= n
    BY <2>1
  <2>3. m * SharedInterval <= n * SharedInterval
        /\ m * SharedInterval \in Int /\ n * SharedInterval \in Int
    <3> HIDE DEF m, n
    <3> QED BY <1>0, <2>2, Multiples
  <2>4. n * SharedInterval <= x
    BY DEF IInv, TurnsAreCounted
  <2> QED BY <2>3, <2>4
<1>3. WorkerTurnsApart'
  BY <1>0 DEF IInv, WorkerTurnsApart
<1> QED BY <1>1, <1>2, <1>3 DEF TurnsAreCounted

\* One more request takes the next turn.
LEMMA TurnsGrow ==
    ASSUME IInv, NEW r \in Requests, r \notin Turned, NEW step \in WithTurn,
           Goto(r, step), TakeTurn(r)
    PROVE  TurnsAreCounted' /\ WorkerTurnsApart'
<1>0. /\ Turned \in SUBSET Requests /\ nextSlot \in Nat /\ SharedInterval \in Nat /\ now \in Nat
      /\ due \in [Requests -> Nat] /\ pc \in [Requests -> Steps]
  BY NumberFacts DEF Turned, IInv, TypeOK
<1>1. /\ Turn \in Nat /\ nextSlot <= Turn /\ nextSlot' = Turn + SharedInterval
      /\ due' = [due EXCEPT ![r] = Turn]
  BY <1>0 DEF TakeTurn, Turn, Later
<1>2. Turned' = Turned \cup {r}
  BY TurnedMoves DEF IInv, Goto
<1> DEFINE n == Cardinality(Turned)
<1>3. Cardinality(Turned') = n + 1 /\ n \in Nat
  BY <1>0, <1>2, AddCount, FiniteRequests
<1>4. n * SharedInterval <= nextSlot /\ n * SharedInterval \in Int
      /\ (n + 1) * SharedInterval = n * SharedInterval + SharedInterval
  <2>1. n * SharedInterval <= nextSlot
    BY DEF IInv, TurnsAreCounted
  <2> HIDE DEF n
  <2> QED BY <1>0, <1>3, <2>1, Multiples
<1>5. Cardinality(Turned') * SharedInterval <= nextSlot'
  <2> HIDE DEF n
  <2>1. (n + 1) * SharedInterval <= Turn + SharedInterval
    BY <1>0, <1>1, <1>4
  <2> QED BY <1>1, <1>3, <2>1
<1>6. ASSUME NEW x \in Nat PROVE (Cardinality(TurnedBy(x)') - 1) * SharedInterval <= x
  <2>0. TurnedBy(x) \in SUBSET Turned /\ r \notin TurnedBy(x)
    BY DEF TurnedBy
  <2>1. CASE Turn <= x
    <3>1. TurnedBy(x)' = TurnedBy(x) \cup {r}
      BY <1>0, <1>1, <1>2, <2>1 DEF TurnedBy
    <3>2. Cardinality(TurnedBy(x)') = Cardinality(TurnedBy(x)) + 1
          /\ Cardinality(TurnedBy(x)) \in Nat /\ Cardinality(TurnedBy(x)) <= n
      BY <1>0, <2>0, <3>1, AddCount, SubsetCount, FiniteRequests
    <3> DEFINE m == Cardinality(TurnedBy(x))
    <3>3. m * SharedInterval <= n * SharedInterval /\ m * SharedInterval \in Int
      <4> HIDE DEF m, n
      <4>1. m \in Nat /\ m <= n
        BY <3>2 DEF m
      <4> QED BY <1>0, <1>3, <4>1, Multiples
    <3>4. Cardinality(TurnedBy(x)') - 1 = m
      BY <3>2
    <3> HIDE DEF m, n
    <3> QED BY <1>0, <1>1, <1>4, <2>1, <3>3, <3>4
  <2>2. CASE ~(Turn <= x)
    <3>1. TurnedBy(x)' = TurnedBy(x)
      BY <1>0, <1>1, <1>2, <2>2 DEF TurnedBy
    <3> QED BY <3>1 DEF IInv, TurnsAreCounted
  <2> QED BY <2>1, <2>2
<1>7. WorkerTurnsApart'
  BY <1>0, <1>1, <1>2 DEF IInv, WorkerTurnsApart
<1> QED BY <1>5, <1>6, <1>7 DEF TurnsAreCounted

\* The shared turns: one is taken, lost or given up, and a timer of the web may
\* be set to a later instant than its turn.
LEMMA TurnsKept == ASSUME IInv, [Next]_vars PROVE TurnsAreCounted' /\ WorkerTurnsApart'
<1> DEFINE Goal == TurnsAreCounted' /\ WorkerTurnsApart'
<1>0. /\ nextSlot \in Nat /\ due \in [Requests -> Nat] /\ pc \in [Requests -> Steps]
      /\ SharedInterval \in Nat /\ now \in Nat
      /\ nextSlot' \in Nat /\ due' \in [Requests -> Nat] /\ pc' \in [Requests -> Steps]
      /\ WorkerRequests \subseteq Requests /\ WebRequests \subseteq Requests
      /\ WorkerRequests \cap WebRequests = {}
  BY NumberFacts, TypeKept, GateAssumption DEF IInv, TypeOK, Requests
<1>a. ASSUME nextSlot <= nextSlot', Turned' \in SUBSET Turned, \A q \in Turned' : due'[q] = due[q]
      PROVE  Goal
  <2>1. \A q \in Turned' : due[q] <= due'[q] /\ (q \in WorkerRequests => due'[q] = due[q])
    BY <1>0, <1>a DEF Turned
  <2> QED BY <1>0, <1>a, <2>1, TurnsShrink
<1>1. ASSUME NEW r \in Requests, Refuse(r), UNCHANGED nextSlot \/ LoseTurn PROVE Goal
  <2>1. nextSlot <= nextSlot'
    BY <1>0, <1>1 DEF LoseTurn, Turn, Later
  <2>2. Turned' = Turned \ {r}
    BY <1>1, TurnedMoves DEF IInv, Refuse, Goto, WithTurn, Gone
  <2>3. \A q \in Turned' : due'[q] = due[q]
    BY <1>0, <1>1, <2>2 DEF Refuse
  <2> QED BY <1>a, <2>1, <2>2, <2>3
<1>2. ASSUME NEW r \in Requests, NEW step, Goto(r, step), UNCHANGED <<nextSlot, due>>,
             step \in WithTurn => pc[r] \in WithTurn
      PROVE  Goal
  <2>1. Turned' \in SUBSET Turned
    BY <1>2, TurnedMoves DEF IInv, Goto, Turned
  <2>2. \A q \in Turned' : due'[q] = due[q]
    BY <1>2
  <2> QED BY <1>0, <1>a, <1>2, <2>1, <2>2
<1>3. ASSUME NEW r \in Requests, pc[r] = "reserve", NEW step \in WithTurn, Goto(r, step), TakeTurn(r)
      PROVE  Goal
  <2>1. r \notin Turned
    BY <1>3 DEF Turned, WithTurn, Gone
  <2> QED BY <1>3, <2>1, TurnsGrow
<1>4. {"sent", "denied", "over", "take", "wait", "checked"} \subseteq WithTurn
  BY DEF WithTurn, Gone
<1>5. ASSUME NEW r \in Requests, pc[r] \notin WithTurn, NEW step, step \notin WithTurn, Goto(r, step),
             UNCHANGED nextSlot, \A q \in Requests \ {r} : due'[q] = due[q]
      PROVE  Goal
  <2>1. Turned' = Turned /\ r \notin Turned
    BY <1>5, TurnedMoves DEF IInv, Goto, Turned
  <2>2. \A q \in Turned' : due'[q] = due[q]
    BY <1>5, <2>1 DEF Turned
  <2> QED BY <1>0, <1>a, <1>5, <2>1, <2>2
<1>6. ASSUME NEW r \in WorkerRequests, WorkerStep(r) PROVE Goal
  <2>0. r \in Requests
    BY <1>0
  <2> USE DEF redis
  <2>1. CASE AcquireLocal(r)
    <3>1. CASE Refuse(r)
      BY <2>0, <2>1, <3>1, <1>1 DEF AcquireLocal
    <3>2. CASE Goto(r, "reserve") /\ \A q \in Requests \ {r} : due'[q] = due[q]
      BY <2>0, <2>1, <3>2, <1>5 DEF AcquireLocal, WithTurn, Gone
    <3> QED BY <1>0, <2>1, <3>1, <3>2 DEF AcquireLocal
  <2>2. CASE Reserve(r)
    <3>1. CASE Unavailable(r) /\ (UNCHANGED redis \/ LoseTurn)
      BY <2>0, <3>1, <1>1 DEF Unavailable
    <3>2. CASE Goto(r, "blocked") /\ UNCHANGED <<redis, due>>
      BY <2>0, <3>2, <1>2 DEF WithTurn, Gone
    <3>3. CASE TakeTurn(r) /\ Goto(r, IF Turn = now THEN "checked" ELSE "wait")
      BY <2>0, <2>2, <3>3, <1>3, <1>4 DEF Reserve
    <3> QED BY <2>2, <3>1, <3>2, <3>3 DEF Reserve
  <2>3. CASE ReadBlock(r)
    <3>1. CASE Refuse(r)
      BY <2>0, <2>3, <3>1, <1>1 DEF ReadBlock, Unavailable, SourceIsBlocked
    <3>2. CASE Goto(r, "reserve") /\ UNCHANGED <<redis, due>>
      BY <2>0, <3>2, <1>2 DEF WithTurn, Gone
    <3> QED BY <2>3, <3>1, <3>2 DEF ReadBlock, Unavailable, SourceIsBlocked
  <2>4. CASE WakeUp(r)
    <3>1. CASE Refuse(r)
      BY <2>0, <2>4, <3>1, <1>1 DEF WakeUp, Unavailable, SourceIsBlocked
    <3>2. CASE Goto(r, "checked") /\ UNCHANGED <<redis, due>>
      BY <2>0, <2>4, <3>2, <1>2, <1>4 DEF WakeUp
    <3> QED BY <2>4, <3>1, <3>2 DEF WakeUp, Unavailable, SourceIsBlocked
  <2>5. CASE LastCheck(r)
    <3>1. CASE Refuse(r)
      BY <2>0, <2>5, <3>1, <1>1 DEF LastCheck
    <3>2. CASE Leave(r)
      BY <2>0, <2>5, <3>2, <1>2, <1>4 DEF LastCheck, Leave
    <3> QED BY <2>5, <3>1, <3>2 DEF LastCheck
  <2> QED BY <1>6, <2>1, <2>2, <2>3, <2>4, <2>5 DEF WorkerStep
<1>7. ASSUME NEW r \in WebRequests, WebStep(r) PROVE Goal
  <2>0. r \in Requests /\ r \notin WorkerRequests
    BY <1>0
  <2> USE DEF redis
  <2>1. CASE WebLook(r)
    <3>1. CASE Refuse(r)
      BY <2>0, <2>1, <3>1, <1>1 DEF WebLook
    <3>2. CASE Goto(r, "reserve") /\ \A q \in Requests \ {r} : due'[q] = due[q]
      BY <2>0, <2>1, <3>2, <1>5 DEF WebLook, WithTurn, Gone
    <3> QED BY <1>0, <2>1, <3>1, <3>2 DEF WebLook
  <2>2. CASE WebReserve(r)
    <3>1. CASE Refuse(r)
      <4>1. ~Goto(r, "take")
        BY <1>0, <2>0, <3>1 DEF Refuse, Goto
      <4> QED BY <2>0, <2>2, <3>1, <4>1, <1>1 DEF WebReserve
    <3>2. CASE Goto(r, "blocked") /\ UNCHANGED <<redis, due>>
      BY <2>0, <3>2, <1>2 DEF WithTurn, Gone
    <3>3. CASE TakeTurn(r) /\ Goto(r, "take")
      BY <2>0, <2>2, <3>3, <1>3, <1>4 DEF WebReserve
    <3> QED BY <2>2, <3>1, <3>2, <3>3 DEF WebReserve
  <2>3. CASE WebReadBlock(r)
    BY <2>0, <2>3, <1>1 DEF WebReadBlock
  <2>4. CASE WebTake(r)
    <3>1. CASE Refuse(r)
      BY <2>0, <2>4, <3>1, <1>1 DEF WebTake
    <3>2. CASE Goto(r, "wait") /\ due' = [due EXCEPT ![r] = Later(localSlot[Web], due[r])]
      <4>1. Turned' = Turned
        BY <2>0, <2>4, <3>2, TurnedMoves DEF WebTake, IInv, Goto, Turned, WithTurn
      <4>2. due[r] <= due'[r]
        <5>1. localSlot[Web] \in Nat
          BY DEF IInv, TypeOK
        <5> QED BY <1>0, <2>0, <3>2, <5>1 DEF Later
      <4>3. \A q \in Turned' : due[q] <= due'[q] /\ (q \in WorkerRequests => due'[q] = due[q])
        BY <1>0, <2>0, <3>2, <4>2 DEF Turned
      <4>4. nextSlot' = nextSlot
        BY <2>4 DEF WebTake
      <4> QED BY <1>0, <4>1, <4>3, <4>4, TurnsShrink
    <3> QED BY <2>4, <3>1, <3>2 DEF WebTake
  <2>5. CASE WebSend(r)
    BY <2>0, <2>5, <1>2, <1>4 DEF WebSend, Leave
  <2> QED BY <1>7, <2>1, <2>2, <2>3, <2>4, <2>5 DEF WebStep
<1>8. ASSUME NEW r \in Requests, Answer(r) \/ Denial(r) \/ RecordBlock(r) PROVE Goal
  BY <1>2, <1>4, <1>8 DEF Answer, Denial, RecordBlock, redis
<1>9. CASE Tick \/ UNCHANGED vars
  <2>1. UNCHANGED <<pc, due, nextSlot>>
    BY <1>9 DEF Tick, vars, redis, request
  <2>2. Turned' = Turned
    BY <2>1 DEF Turned
  <2> QED BY <1>0, <1>a, <2>1, <2>2
<1> QED BY <1>6, <1>7, <1>8, <1>9 DEF Next

LEMMA NextKeepsIInv == IInv /\ [Next]_vars => IInv'
BY TypeKept, SentKept, BudgetKept, WebKept, TurnsKept, BlockKept DEF IInv

-----------------------------------------------------------------------------
(* The way out: the theorems                                               *)

\* The invariant holds in every reachable state, whatever Redis, SEACE and the
\* timers do.
THEOREM Invariance == Spec => []IInv
<1>1. Init => IInv
  BY InitIInv
<1>2. IInv /\ [Next]_vars => IInv'
  BY NextKeepsIInv
<1> QED BY <1>1, <1>2, PTL DEF Spec

\* Every variable has its type; no budget is ever below zero.
THEOREM TypeCorrectness == Spec => []TypeOK
<1>1. IInv => TypeOK
  BY DEF IInv
<1> QED BY <1>1, Invariance, PTL

\* A cycle has used exactly the units of the requests that left or still may,
\* and sends no more than its budget.
THEOREM BudgetIsAlwaysExact == Spec => []BudgetIsExact
<1>1. IInv => BudgetIsExact
  <2> SUFFICES ASSUME IInv PROVE BudgetIsExact
    OBVIOUS
  <2> SUFFICES ASSUME NEW p \in Workers
               PROVE  LET mine == {r \in WorkerRequests : ProcessOf[r] = p}
                          held == {"reserve", "blocked", "wait", "checked", "sent", "denied", "over"}
                      IN  /\ used[p] = Cardinality({r \in mine : pc[r] \in held})
                          /\ Cardinality(sent \cap mine) <= Budget[p]
    BY DEF BudgetIsExact
  <2> DEFINE mine == {r \in WorkerRequests : ProcessOf[r] = p}
             held == {"reserve", "blocked", "wait", "checked", "sent", "denied", "over"}
  <2>1. {r \in mine : pc[r] \in held} = Holding(p)
    BY DEF Holding, Held, Gone
  <2>2. used[p] = Cardinality(Holding(p)) /\ used[p] <= Budget[p] /\ used[p] \in Nat
    BY DEF IInv, BudgetIsHeld, TypeOK
  <2>3. sent \cap mine \in SUBSET Holding(p) /\ Holding(p) \in SUBSET Requests
    BY DEF IInv, SentAreGone, Holding, Held, Requests
  <2>4. Cardinality(sent \cap mine) <= Cardinality(Holding(p)) /\ Cardinality(sent \cap mine) \in Nat
    BY <2>3, SubsetCount, FiniteRequests
  <2>5. Cardinality(sent \cap mine) <= Budget[p]
    <3>1. Budget[p] \in Nat
      BY GateAssumption
    <3> QED BY <2>2, <2>4, <3>1
  <2> QED BY <2>1, <2>2, <2>5
<1> QED BY <1>1, Invariance, PTL

\* The web sends no more in an hour than its cap allows.
THEOREM WebCapIsAlwaysKept == Spec => []WebCapIsKept
<1>1. IInv => WebCapIsKept
  <2> SUFFICES ASSUME IInv PROVE WebCapIsKept
    OBVIOUS
  <2>1. sent \cap WebRequests \in SUBSET WebRecent /\ WebRecent \in SUBSET Requests
    BY DEF IInv, SentAreGone, Gone, WebRecent, Requests
  <2>2. /\ Cardinality(sent \cap WebRequests) <= Cardinality(WebRecent)
        /\ Cardinality(WebRecent) \in Nat /\ Cardinality(sent \cap WebRequests) \in Nat
    BY <2>1, SubsetCount, FiniteRequests
  <2>3. Cardinality(WebRecent) <= WebCap /\ WebCap \in Nat
    BY NumberFacts DEF IInv, WebIsCounted
  <2> QED BY <2>2, <2>3 DEF WebCapIsKept
<1> QED BY <1>1, Invariance, PTL

\* The address never sends faster than one request per shared interval since
\* the gate began, and the turns of workers are an interval apart.
THEOREM PaceIsAlwaysKept == Spec => []PaceIsKept
<1>1. IInv => PaceIsKept
  <2> SUFFICES ASSUME IInv PROVE PaceIsKept
    OBVIOUS
  <2>0. now \in Nat /\ SharedInterval \in Nat
    BY NumberFacts DEF IInv
  <2>1. sent \in SUBSET TurnedBy(now) /\ TurnedBy(now) \in SUBSET Turned /\ Turned \in SUBSET Requests
    BY DEF IInv, TypeOK, SentAreGone, TurnedBy, Turned, WithTurn
  <2> DEFINE m == Cardinality(sent) - 1
             n == Cardinality(TurnedBy(now)) - 1
  <2>2. m \in Int /\ n \in Int /\ m <= n
    <3>1. TurnedBy(now) \in SUBSET Requests
      BY <2>1
    <3> QED BY <2>1, <3>1, SubsetCount, FiniteRequests
  <2>3. n * SharedInterval <= now
    BY <2>0 DEF IInv, TurnsAreCounted
  <2>4. m * SharedInterval <= n * SharedInterval
        /\ m * SharedInterval \in Int /\ n * SharedInterval \in Int
    <3> HIDE DEF m, n
    <3> QED BY <2>0, <2>2, Multiples
  <2>5. m * SharedInterval <= now
    <3> HIDE DEF m, n
    <3> QED BY <2>0, <2>3, <2>4
  <2>6. \A r, s \in sent \cap WorkerRequests :
          r # s => due[r] - due[s] >= SharedInterval \/ due[s] - due[r] >= SharedInterval
    BY <2>1 DEF IInv, WorkerTurnsApart
  <2> QED BY <2>5, <2>6 DEF PaceIsKept
<1> QED BY <1>1, Invariance, PTL

\* No request of a worker leaves while a block runs that was there before its
\* turn came.
THEOREM WorkersAlwaysStopForBlock == Spec => WorkersStopForBlock
<1>1. IInv /\ [Next]_vars => StopsForBlock(WorkerRequests)
  <2> SUFFICES ASSUME IInv, [Next]_vars, NEW q \in WorkerRequests, q \in sent' \ sent
               PROVE  ~(block.from < due[q] /\ BlockOpen)
    BY DEF StopsForBlock
  <2>0. /\ now \in Nat /\ block.from \in Nat /\ block.until \in Nat
        /\ q \in Requests /\ due[q] \in Nat /\ q \notin WebRequests
    BY NumberFacts, GateAssumption DEF IInv, TypeOK, Requests
  <2>1. pc[q] = "checked"
    BY <2>0 DEF Next, WorkerStep, WebStep, AcquireLocal, Reserve, ReadBlock, WakeUp, LastCheck,
                Unavailable, SourceIsBlocked, Refuse, Leave, WebLook, WebReserve, WebReadBlock,
                WebTake, WebSend, Answer, Denial, RecordBlock, Tick, vars, request
  <2> QED BY <2>0, <2>1 DEF IInv, BlockWasSeen, BlockOpen
<1> QED BY <1>1, Invariance, PTL DEF Spec, WorkersStopForBlock

-----------------------------------------------------------------------------
(* The search: the inductive invariant                                     *)

Stops == {"none", "limit", "blocked", "budget", "failed"}

\* The running sweep is of a list of companies, from the cursor in memory.
SweepAgrees ==
    /\ sweep = [streams |-> sweep.streams, order |-> sweep.order, read |-> sweep.read,
                stop |-> sweep.stop, requested |-> sweep.requested, held |-> sweep.held]
    /\ phase = "sweep" =>
         /\ sweep.streams \in Lists
         /\ sweep.order = SweepOrder(sweep.streams, mem.cursor)
         /\ sweep.read \in [Positions -> Nat]
         /\ sweep.stop \in [Positions -> Stops]

\* What state.json holds: all of a dead process, and the cursor of a search
\* until its sweep is over.
SavedAgrees ==
    /\ phase = "down" => mem = disk
    /\ phase \in {"egress", "search", "sweep"} => mem.cursor = disk.cursor

\* A block is open exactly from its alert to the recovery.
AlertsAgree ==
    /\ alert = "blocked" => mem.block # None
    /\ alert = "recovered" => mem.block = None
    /\ ~repeated

\* While a pause runs nothing is searched, and the breaker is open.
PauseAgrees ==
    /\ phase = "denied" => pacer.blocked
    /\ Running(mem.block) =>
         \/ phase \in {"down", "idle"}
         \/ phase \in {"blocked", "processing", "io", "ending"} /\ pacer.blocked
    /\ denial = "paused" => Running(mem.block) /\ (phase # "blocked" => Running(disk.block))

\* With one worker a denial ends the sweep, and its pause follows.
DenialIsFollowed ==
    workers = 1 /\ denial = "unpaused" =>
        \/ phase = "denied"
        \/ /\ phase = "sweep" /\ pacer.blocked
           /\ \E i \in Positions : sweep.stop[i] = "blocked"
           /\ \A i \in Positions : sweep.stop[i] # "failed"

\* How far stream i of a list of n is ahead of the cursor.
Ahead(next, n, i) == IF next < i THEN i - 1 - next ELSE i - 1 - next + n

\* An unfinished lap over a list that stayed: every stream of the list was read
\* or is among the streams the cursor has left.
LapAgrees(cursor) ==
    steady /\ LapPending(cursor) =>
        /\ cursor.count = Len(list) /\ cursor.next < Len(list) /\ cursor.searched < Len(list)
        /\ \A i \in 1..Len(list) :
              list[i] \in lapRead \/ Ahead(cursor.next, Len(list), i) < Len(list) - cursor.searched

LapsAgree ==
    /\ LapAgrees(mem.cursor) /\ LapAgrees(disk.cursor)
    /\ phase = "sweep" /\ steady => sweep.streams = list

ScheduleInv ==
    /\ ScheduleTypeOK
    /\ SweepAgrees
    /\ SavedAgrees
    /\ AlertsAgree
    /\ PauseAgrees
    /\ DenialIsFollowed
    /\ LapsAgree

-----------------------------------------------------------------------------
(* Numbers and lists                                                       *)

\* The least-number principle, from the theorem that strict inclusion of finite
\* sets is well-founded.
LEMMA LeastNumber ==
    ASSUME NEW U \in SUBSET Nat, U # {}
    PROVE  \E n \in U : \A m \in U : n <= m
<1> DEFINE T == {1..n : n \in U}
<1>1. T \subseteq FiniteSubsetsOf(Nat) /\ T # {}
  <2>1. \A n \in U : 1..n \in SUBSET Nat /\ IsFiniteSet(1..n)
    BY FS_Interval
  <2> QED BY <2>1 DEF FiniteSubsetsOf
<1>2. PICK x \in T : \A y \in T : ~(<<y, x>> \in StrictSubsetOrdering(Nat))
  <2> HIDE DEF T
  <2> QED BY <1>1, FS_StrictSubsetOrderingWellFounded, WFMin
<1>3. PICK n \in U : x = 1..n
  OBVIOUS
<1>4. ASSUME NEW m \in U, m < n PROVE FALSE
  <2>1. 1..m \in T /\ 1..m \subseteq 1..n /\ n \in 1..n /\ n \notin 1..m
    BY <1>4
  <2>2. <<1..m, x>> \in StrictSubsetOrdering(Nat)
    BY <1>3, <2>1 DEF StrictSubsetOrdering
  <2> QED BY <1>2, <2>1, <2>2
<1>5. \A m \in U : n <= m
  BY <1>4
<1> QED BY <1>5

\* One turn around.
LEMMA Wrap ==
    ASSUME NEW m \in Nat \ {0}, NEW a \in 0..(m - 1), NEW b \in 0..(m - 1)
    PROVE  (a + b) % m = IF a + b < m THEN a + b ELSE a + b - m
OBVIOUS

LEMMA NoWrap ==
    ASSUME NEW m \in Nat \ {0}, NEW a \in 0..(m - 1)
    PROVE  a % m = a
OBVIOUS

LEMMA Remainder ==
    ASSUME NEW m \in Nat \ {0}, NEW a \in Nat
    PROVE  a % m \in 0..(m - 1)
OBVIOUS

\* No list is longer than the set of the streams.
LEMMA ListFacts ==
    ASSUME NEW l \in Lists
    PROVE  /\ l \in Seq(Streams) /\ Len(l) \in Nat \ {0}
           /\ Cardinality(Streams) \in Nat /\ Len(l) <= Cardinality(Streams)
<1>1. l \in Seq(Streams) /\ l # <<>> /\ \A i, j \in 1..Len(l) : l[i] = l[j] => i = j
  BY ListsAssumption
<1>2. Len(l) \in Nat \ {0}
  BY <1>1
<1>3. Cardinality(Streams) \in Nat
  BY ListsAssumption, FS_CardinalityType
<1>4. l \in Injection(1..Len(l), Streams)
  BY <1>1, <1>2 DEF Injection, IsInjective
<1>5. Cardinality(1..Len(l)) <= Cardinality(Streams)
  BY <1>4, ListsAssumption, FS_Injection
<1>6. Cardinality(1..Len(l)) = Len(l)
  BY <1>2, FS_Interval
<1> QED BY <1>1, <1>2, <1>3, <1>5, <1>6

-----------------------------------------------------------------------------
(* The cursor and the sweep                                                *)

LEMMA CursorTypes ==
    ASSUME NEW cursor \in Cursors \cup {None}
    PROVE  /\ StreamStart(cursor) \in Nat
           /\ LapPending(cursor) \in BOOLEAN
           /\ LapPending(cursor) => cursor.searched \in Nat /\ cursor.count \in Nat \ {0}
           /\ LapPending(cursor) => cursor \in Cursors
<1>1. Cardinality(Streams) \in Nat
  BY ListsAssumption, FS_CardinalityType
<1>2. CASE cursor = None
  BY <1>2 DEF StreamStart, LapPending
<1>3. CASE cursor \in Cursors /\ cursor # None
  <2>1. /\ cursor.next \in 0..Cardinality(Streams) /\ cursor.count \in 1..Cardinality(Streams)
        /\ cursor.searched \in 0..Cardinality(Streams) /\ cursor.complete \in BOOLEAN
    BY <1>3 DEF Cursors
  <2>2. cursor.next \in Nat /\ cursor.count \in Nat \ {0} /\ cursor.searched \in Nat
    BY <1>1, <2>1
  <2>3. LapPending(cursor) \in BOOLEAN
    BY <1>3, <2>1 DEF LapPending
  <2> QED BY <1>3, <2>2, <2>3 DEF StreamStart
<1> QED BY <1>2, <1>3

\* A sweep goes over at least one stream and none twice around.
LEMMA OrderFacts ==
    ASSUME NEW streams \in Lists, NEW cursor \in Cursors \cup {None}
    PROVE  LET all   == Len(streams)
               start == StreamStart(cursor) % all
               order == SweepOrder(streams, cursor)
           IN  /\ all \in Nat \ {0} /\ start \in 0..(all - 1)
               /\ order \in Seq(Streams) /\ Len(order) = StreamsLeft(cursor, all)
               /\ Len(order) \in 1..all
               /\ \A i \in 1..Len(order) : order[i] = streams[((start + i - 1) % all) + 1]
<1> DEFINE all   == Len(streams)
           start == StreamStart(cursor) % all
           order == SweepOrder(streams, cursor)
           left  == StreamsLeft(cursor, all)
<1>1. all \in Nat \ {0} /\ streams \in Seq(Streams)
  BY ListFacts
<1>2. start \in 0..(all - 1)
  <2>1. StreamStart(cursor) \in Nat
    BY CursorTypes
  <2> HIDE DEF all
  <2> QED BY <1>1, <2>1, Remainder
<1>3. left \in 1..all
  BY <1>1, CursorTypes DEF StreamsLeft, Least
<1>4. order = [i \in 1..left |-> streams[((start + i - 1) % all) + 1]]
  BY DEF SweepOrder
<1>5. \A i \in 1..left : ((start + i - 1) % all) + 1 \in 1..all
  <2> HIDE DEF all, left
  <2> SUFFICES ASSUME NEW i \in 1..left PROVE ((start + i - 1) % all) + 1 \in 1..all
    OBVIOUS
  <2>1. start + i - 1 \in Nat
    BY <1>2, <1>3, <1>1
  <2>2. (start + i - 1) % all \in 0..(all - 1)
    <3> HIDE DEF start
    <3> QED BY <1>1, <2>1, Remainder
  <2> QED BY <1>1, <2>2
<1>6. \A i \in 1..left : streams[((start + i - 1) % all) + 1] \in Streams
  BY <1>1, <1>5
<1>7. order \in Seq(Streams) /\ Len(order) = left
  <2> HIDE DEF left, start, all, order
  <2> QED BY <1>3, <1>1, <1>4, <1>6
<1> QED BY <1>1, <1>2, <1>3, <1>4, <1>7

\* The cursor after a sweep is a cursor.
LEMMA CursorAfterIsTyped ==
    ASSUME NEW streams \in Lists, NEW cursor \in Cursors \cup {None},
           NEW n \in 0..Len(SweepOrder(streams, cursor))
    PROVE  CursorAfter(cursor, streams, SweepOrder(streams, cursor), n) \in Cursors
<1> DEFINE all   == Len(streams)
           start == StreamStart(cursor) % all
           order == SweepOrder(streams, cursor)
           size  == Cardinality(Streams)
<1>1. all \in Nat \ {0} /\ all <= size /\ size \in Nat
  BY ListFacts
<1>2. start \in 0..(all - 1) /\ Len(order) \in 1..all
  BY OrderFacts
<1>3. (start + n) % all \in 0..size
  <2> HIDE DEF all, start, order, size
  <2>1. start + n \in Nat
    BY <1>1, <1>2 DEF order
  <2>2. (start + n) % all \in 0..(all - 1)
    BY <1>1, <2>1, Remainder
  <2> QED BY <1>1, <2>2
<1>4. all \in 1..size
  BY <1>1
<1> DEFINE seen == IF LapPending(cursor) THEN cursor.searched ELSE 0
<1>5. seen \in Nat
  BY CursorTypes
<1>6. Least(seen + n, size) \in 0..size
  <2> HIDE DEF seen, size
  <2> QED BY <1>1, <1>2, <1>5 DEF Least, order
<1>7. CursorAfter(cursor, streams, order, n)
        = [next |-> IF n = Len(order) /\ n = all THEN 0 ELSE (start + n) % all,
           complete |-> n = Len(order), count |-> all, searched |-> Least(seen + n, size)]
  BY DEF CursorAfter
<1>8. (n = Len(order)) \in BOOLEAN
  OBVIOUS
<1>9. 0 \in 0..size
  BY <1>1
<1> HIDE DEF all, start, order, size, seen
<1> QED BY <1>3, <1>4, <1>6, <1>7, <1>8, <1>9 DEF Cursors, order, size

\* What is finished from the first stream on.
LEMMA HeadFacts ==
    ASSUME Len(sweep.order) \in Nat
    PROVE  /\ FinishedHead \in 0..Len(sweep.order)
           /\ \A i \in 1..FinishedHead : Finished(i)
           /\ FinishedHead < Len(sweep.order) => ~Finished(FinishedHead + 1)
<1> DEFINE size == Len(sweep.order)
           IsHead(n) == /\ \A i \in 1..n : Finished(i)
                        /\ n < size => ~Finished(n + 1)
<1> SUFFICES \E n \in 0..size : IsHead(n)
  BY DEF FinishedHead
<1> DEFINE U == {i \in 1..size : ~Finished(i)}
<1>1. CASE U = {}
  BY <1>1
<1>2. CASE U # {}
  <2>0. U \in SUBSET Nat
    OBVIOUS
  <2>1. PICK m \in U : \A k \in U : m <= k
    <3> HIDE DEF U
    <3> QED BY <1>2, <2>0, LeastNumber
  <2>2. m \in 1..size /\ ~Finished(m) /\ m - 1 \in 0..size /\ m = (m - 1) + 1
    BY <2>1
  <2>3. \A i \in 1..(m - 1) : Finished(i)
    BY <2>1, <2>2
  <2>4. IsHead(m - 1)
    BY <2>2, <2>3
  <2> QED BY <2>2, <2>4
<1> QED BY <1>1, <1>2

-----------------------------------------------------------------------------
(* Every step keeps the invariant                                          *)

SweepIsRecord ==
    sweep = [streams |-> sweep.streams, order |-> sweep.order, read |-> sweep.read,
             stop |-> sweep.stop, requested |-> sweep.requested, held |-> sweep.held]

PacerRecords == [blocked : BOOLEAN, used : 0..SourceLimit]

LEMMA LimitFacts ==
    /\ Limit \in Nat \ {0} /\ SourceLimit \in Nat \ {0} /\ SearchLimit \in Nat \ {0}
    /\ Limit <= SourceLimit
BY LimitsAssumption DEF Limit, Least

\* What an update of one stream changes in the sweep.
LEMMA StopStream ==
    ASSUME SweepIsRecord, NEW i, NEW x, NEW n,
           sweep' = [sweep EXCEPT !.stop[i] = x, !.requested = n]
    PROVE  /\ SweepIsRecord' /\ sweep.requested' = n
           /\ sweep.streams' = sweep.streams /\ sweep.order' = sweep.order
           /\ sweep.read' = sweep.read /\ sweep.stop' = [sweep.stop EXCEPT ![i] = x]
BY DEF SweepIsRecord

LEMMA ReadStream ==
    ASSUME SweepIsRecord, NEW i, NEW n,
           sweep' = [sweep EXCEPT !.read[i] = @ + 1, !.requested = n, !.held = @ \ {i}]
    PROVE  /\ SweepIsRecord' /\ sweep.requested' = n
           /\ sweep.streams' = sweep.streams /\ sweep.order' = sweep.order
           /\ sweep.read' = [sweep.read EXCEPT ![i] = @ + 1] /\ sweep.stop' = sweep.stop
BY DEF SweepIsRecord

LEMMA HoldStream ==
    ASSUME SweepIsRecord, NEW i, NEW n,
           sweep' = [sweep EXCEPT !.requested = n, !.held = @ \cup {i}]
    PROVE  /\ SweepIsRecord' /\ sweep.requested' = n
           /\ sweep.streams' = sweep.streams /\ sweep.order' = sweep.order
           /\ sweep.read' = sweep.read /\ sweep.stop' = sweep.stop
BY DEF SweepIsRecord

\* A request is counted within the limit.
LEMMA ReservedFits ==
    ASSUME sweep.requested \in 0..Limit, NEW i, MayReserve(i)
    PROVE  Reserved(i) \in 0..Limit
BY LimitFacts DEF MayReserve, Reserved

LEMMA PacerIsTyped ==
    ASSUME pacer \in PacerRecords, NEW n \in 0..SourceLimit,
           pacer' \in {pacer, [pacer EXCEPT !.used = n], [blocked |-> TRUE, used |-> n]}
    PROVE  pacer' \in PacerRecords
<1>1. CASE pacer' = pacer
  BY <1>1
<1>2. CASE pacer' = [pacer EXCEPT !.used = n]
  BY <1>2 DEF PacerRecords
<1>3. CASE pacer' = [blocked |-> TRUE, used |-> n]
  BY <1>3 DEF PacerRecords
<1> QED BY <1>1, <1>2, <1>3

\* What a step of stream i leaves alone, and what it may change.
RequestKeeps(i) ==
    /\ phase = "sweep"
    /\ UNCHANGED <<disk, mem, phase, workers, list, alert, repeated, steady, lapRead>>
    /\ SweepIsRecord' /\ sweep.requested' \in 0..Limit
    /\ sweep.streams' = sweep.streams /\ sweep.order' = sweep.order
    /\ pacer' \in PacerRecords
    /\ sweep.stop' = sweep.stop \/ \E x \in Stops : sweep.stop' = [sweep.stop EXCEPT ![i] = x]
    /\ sweep.read' = sweep.read \/ sweep.read' = [sweep.read EXCEPT ![i] = @ + 1]

\* What the steps of a sweep change.
LEMMA RequestEffects ==
    ASSUME ScheduleInv, NEW i \in Positions,
           Refused(i) \/ ReadPage(i) \/ Retried(i) \/ Denied(i) \/ Failed(i)
    PROVE  RequestKeeps(i)
<1>0. SweepIsRecord /\ sweep.requested \in 0..Limit /\ pacer \in PacerRecords
  BY DEF ScheduleInv, SweepAgrees, SweepIsRecord, ScheduleTypeOK, PacerRecords
<1>a. phase = "sweep"
  BY DEF Refused, ReadPage, Retried, Denied, Failed, MayRequest, MayGoOn
<1>b. UNCHANGED <<disk, mem, phase, workers, list, alert, repeated, steady, lapRead>>
  BY DEF Refused, ReadPage, Retried, Denied, Failed, history
<1>c. MayRequest(i) => Reserved(i) \in 0..Limit /\ pacer.used < SourceLimit
  BY <1>0, ReservedFits DEF MayRequest
<1>d. /\ pacer.used \in 0..SourceLimit
      /\ pacer.used < SourceLimit => \A n \in {0, 1} : pacer.used + n \in 0..SourceLimit
  BY <1>0, LimitFacts DEF PacerRecords
<1>1. CASE Refused(i)
  <2>1. pacer' = pacer
    BY <1>1 DEF Refused
  <2>2. CASE sweep' = [sweep EXCEPT !.stop[i] = "limit"]
    <3>1. /\ SweepIsRecord' /\ sweep.requested' = sweep.requested
          /\ sweep.streams' = sweep.streams /\ sweep.order' = sweep.order
          /\ sweep.read' = sweep.read /\ sweep.stop' = [sweep.stop EXCEPT ![i] = "limit"]
      BY <1>0, <2>2 DEF SweepIsRecord
    <3> QED BY <1>0, <1>a, <1>b, <2>1, <3>1 DEF Stops, RequestKeeps
  <2>3. ASSUME NEW x \in Stops, MayReserve(i),
               sweep' = [sweep EXCEPT !.stop[i] = x, !.requested = Reserved(i)]
        PROVE  RequestKeeps(i)
    <3>1. /\ SweepIsRecord' /\ sweep.requested' = Reserved(i)
          /\ sweep.streams' = sweep.streams /\ sweep.order' = sweep.order
          /\ sweep.read' = sweep.read /\ sweep.stop' = [sweep.stop EXCEPT ![i] = x]
      BY <1>0, <2>3, StopStream
    <3>2. Reserved(i) \in 0..Limit
      BY <1>0, <2>3, ReservedFits
    <3> QED BY <1>0, <1>a, <1>b, <2>1, <3>1, <3>2 DEF RequestKeeps
  <2>4. "blocked" \in Stops /\ "budget" \in Stops
    BY DEF Stops
  <2>5. \/ sweep' = [sweep EXCEPT !.stop[i] = "limit"]
        \/ /\ MayReserve(i)
           /\ \E x \in Stops : sweep' = [sweep EXCEPT !.stop[i] = x, !.requested = Reserved(i)]
    BY <1>1, <2>4 DEF Refused
  <2> QED BY <2>2, <2>3, <2>5
<1>2. CASE ReadPage(i)
  <2>1. /\ sweep' = [sweep EXCEPT !.read[i] = @ + 1, !.requested = Reserved(i), !.held = @ \ {i}]
        /\ pacer' = [pacer EXCEPT !.used = @ + 1] /\ MayRequest(i)
    BY <1>2 DEF ReadPage
  <2>2. /\ SweepIsRecord' /\ sweep.requested' \in 0..Limit
        /\ sweep.streams' = sweep.streams /\ sweep.order' = sweep.order
        /\ sweep.read' = [sweep.read EXCEPT ![i] = @ + 1] /\ sweep.stop' = sweep.stop
    BY <1>0, <1>c, <2>1, ReadStream
  <2>3. pacer' \in PacerRecords
    BY <1>0, <1>c, <1>d, <2>1, PacerIsTyped
  <2> QED BY <1>a, <1>b, <2>2, <2>3 DEF RequestKeeps
<1>3. CASE Retried(i)
  <2>1. /\ sweep' = [sweep EXCEPT !.requested = Reserved(i), !.held = @ \cup {i}]
        /\ pacer' = [pacer EXCEPT !.used = @ + 1] /\ MayRequest(i)
    BY <1>3 DEF Retried
  <2>2. /\ SweepIsRecord' /\ sweep.requested' \in 0..Limit
        /\ sweep.streams' = sweep.streams /\ sweep.order' = sweep.order
        /\ sweep.read' = sweep.read /\ sweep.stop' = sweep.stop
    BY <1>0, <1>c, <2>1, HoldStream
  <2>3. pacer' \in PacerRecords
    BY <1>0, <1>c, <1>d, <2>1, PacerIsTyped
  <2> QED BY <1>a, <1>b, <2>2, <2>3 DEF RequestKeeps
<1>4. CASE Denied(i) \/ Failed(i)
  <2>1. /\ \E x \in {"blocked", "failed"} : sweep' = [sweep EXCEPT !.stop[i] = x, !.requested = Reserved(i)]
        /\ \E n \in {0, 1} : \/ pacer' = [pacer EXCEPT !.used = @ + n]
                            \/ pacer' = [blocked |-> TRUE, used |-> pacer.used + n]
        /\ MayRequest(i)
    BY <1>4 DEF Denied, Failed
  <2>2. PICK x \in {"blocked", "failed"} : sweep' = [sweep EXCEPT !.stop[i] = x, !.requested = Reserved(i)]
    BY <2>1
  <2>3. /\ SweepIsRecord' /\ sweep.requested' = Reserved(i)
        /\ sweep.streams' = sweep.streams /\ sweep.order' = sweep.order
        /\ sweep.read' = sweep.read /\ sweep.stop' = [sweep.stop EXCEPT ![i] = x]
    BY <1>0, <2>2, StopStream
  <2>4. pacer' \in PacerRecords
    BY <1>0, <1>c, <1>d, <2>1, PacerIsTyped
  <2>5. x \in Stops
    BY <2>2 DEF Stops
  <2> QED BY <1>a, <1>b, <1>c, <2>1, <2>3, <2>4, <2>5 DEF RequestKeeps
<1> QED BY <1>1, <1>2, <1>3, <1>4

LEMMA EndEffects ==
    ASSUME ScheduleInv, EndSweep
    PROVE  /\ phase = "sweep" /\ sweep' = NoSweep
           /\ phase' = IF pacer.blocked THEN "denied" ELSE "swept"
           /\ \E n \in 0..Len(sweep.order) :
                /\ n = FinishedHead
                /\ \A i \in 1..n : Finished(i)
                /\ mem'.cursor = CursorAfter(mem.cursor, sweep.streams, sweep.order, n)
           /\ mem'.cursor \in Cursors
           /\ mem' = [cursor |-> mem'.cursor, completed |-> mem'.completed, block |-> mem.block]
           /\ mem'.completed \in {"fresh", mem.completed}
           /\ lapRead' = lapRead \cup {sweep.order[i] : i \in {j \in Positions : Finished(j)}}
           /\ UNCHANGED <<disk, workers, list, pacer, steady, heard, denial, alert, repeated, bounds>>
<1>0. phase = "sweep" /\ sweep.streams \in Lists /\ sweep.order = SweepOrder(sweep.streams, mem.cursor)
  BY DEF EndSweep, SweepIsOver, ScheduleInv, SweepAgrees
<1>1. mem \in StateRecords /\ mem.cursor \in Cursors \cup {None}
  BY DEF ScheduleInv, ScheduleTypeOK, StateRecords
<1>2. Len(sweep.order) \in Nat
  BY <1>0, <1>1, OrderFacts
<1>3. FinishedHead \in 0..Len(sweep.order) /\ \A i \in 1..FinishedHead : Finished(i)
  BY <1>2, HeadFacts
<1> DEFINE cursor == CursorAfter(mem.cursor, sweep.streams, sweep.order, FinishedHead)
<1>4. cursor \in Cursors
  BY <1>0, <1>1, <1>3, CursorAfterIsTyped
<1>5. mem' = [mem EXCEPT !.cursor = cursor,
              !.completed = IF cursor.complete /\ ~pacer.blocked /\ ~Stopped("budget") THEN "fresh" ELSE @]
  BY DEF EndSweep
<1>6. /\ mem'.cursor = cursor /\ mem'.completed \in {"fresh", mem.completed}
      /\ mem' = [cursor |-> mem'.cursor, completed |-> mem'.completed, block |-> mem.block]
  <2> HIDE DEF cursor
  <2> QED BY <1>1, <1>5 DEF StateRecords
<1> HIDE DEF cursor
<1>7. /\ sweep' = NoSweep /\ phase' = IF pacer.blocked THEN "denied" ELSE "swept"
      /\ lapRead' = lapRead \cup {sweep.order[i] : i \in {j \in Positions : Finished(j)}}
      /\ UNCHANGED <<disk, workers, list, pacer, steady, heard, denial, alert, repeated, bounds>>
  BY DEF EndSweep
<1> QED BY <1>0, <1>3, <1>4, <1>6, <1>7 DEF cursor

LEMMA AbandonEffects ==
    ASSUME AbandonSweep
    PROVE  /\ phase = "sweep" /\ phase' = "idle" /\ sweep' = NoSweep
           /\ \E i \in Positions : sweep.stop[i] = "failed"
           /\ UNCHANGED <<disk, mem, workers, list, pacer, history, bounds>>
BY DEF AbandonSweep, SweepIsOver, Stopped

LEMMA BlocksAreNotNone ==
    /\ [over |-> FALSE] # None /\ [over |-> TRUE] # None
    /\ [over |-> FALSE].over = FALSE /\ [over |-> TRUE].over = TRUE
<1>1. [over |-> FALSE] \in [over : BOOLEAN] /\ [over |-> TRUE] \in [over : BOOLEAN]
  OBVIOUS
<1>2. None \notin [over : BOOLEAN]
  BY NoneAssumption
<1> QED BY <1>1, <1>2

\* Each variable keeps its type.
LEMMA ScheduleTypeKept == ASSUME ScheduleInv, [ScheduleNext]_scheduleVars PROVE ScheduleTypeOK'
<1> USE DEF ScheduleInv, ScheduleTypeOK, StateRecords, PacerRecords, history, bounds, Alert
<1>1. CASE Start
  BY <1>1, LimitFacts DEF Start
<1>2. CASE BeginCycle
  <2>1. Running(mem.block) \in BOOLEAN
    BY DEF Running
  <2> QED BY <1>2, <2>1, LimitFacts DEF BeginCycle
<1>3. CASE CheckEgress
  BY <1>3 DEF CheckEgress
<1>4. CASE EgressDown
  BY <1>4 DEF EgressDown
<1>5. CASE BeginSweep
  BY <1>5, LimitFacts DEF BeginSweep
<1>6. ASSUME NEW i \in Positions, Refused(i) \/ ReadPage(i) \/ Retried(i) \/ Denied(i) \/ Failed(i) PROVE ScheduleTypeOK'
  <2>1. denial' \in {"none", "unpaused", "paused"}
    BY <1>6 DEF Refused, ReadPage, Retried, Denied, Failed
  <2> QED BY <1>6, <2>1, RequestEffects DEF RequestKeeps
<1>7. CASE EndSweep
  <2>1. lapRead' \subseteq Streams
    <3>1. sweep.order \in Seq(Streams) /\ Len(sweep.order) \in Nat
      BY <1>7, EndEffects, OrderFacts DEF SweepAgrees
    <3>2. \A i \in Positions : sweep.order[i] \in Streams
      BY <3>1 DEF Positions
    <3> QED BY <1>7, <3>2, EndEffects
  <2> QED BY <1>7, <2>1, EndEffects, LimitFacts DEF NoSweep
<1>8. CASE AbandonSweep
  BY <1>8, AbandonEffects, LimitFacts DEF NoSweep
<1>9. CASE OpenBlock
  BY <1>9 DEF OpenBlock
<1>10. CASE WriteBlock
  BY <1>10 DEF WriteBlock
<1>11. CASE Resume
  BY <1>11 DEF Resume, BlockRecovered
<1>12. CASE Process
  BY <1>12 DEF Process
<1>13. CASE FreeIO
  <2>1. pacer' \in PacerRecords
    <3>0. pacer \in PacerRecords /\ pacer.used \in 0..SourceLimit
      BY DEF PacerRecords
    <3>1. \A n \in pacer.used..SourceLimit : n \in 0..SourceLimit
      BY <3>0, LimitFacts
    <3>2. \A n \in pacer.used + 1 .. SourceLimit : n \in pacer.used..SourceLimit
      BY <3>0, LimitFacts
    <3>3. \E n \in 0..SourceLimit :
             pacer' \in {pacer, [pacer EXCEPT !.used = n], [blocked |-> TRUE, used |-> n]}
      BY <1>13, <3>0, <3>1, <3>2 DEF FreeIO
    <3> QED BY <3>0, <3>3, PacerIsTyped
  <2> QED BY <1>13, <2>1 DEF FreeIO
<1>14. CASE EndCycle
  BY <1>14 DEF EndCycle, BlockRecovered
<1>15. CASE PauseEnds
  BY <1>15 DEF PauseEnds
<1>16. CASE IntervalPasses
  BY <1>16 DEF IntervalPasses, Aged
<1>17. CASE CompaniesChange
  BY <1>17 DEF CompaniesChange
<1>18. CASE Crash
  <2>1. alert' \in {"recovered", "blocked", "unknown"} /\ denial' \in {"none", "unpaused", "paused"}
    BY <1>18 DEF Crash
  <2> QED BY <1>18, <2>1, LimitFacts DEF Crash, NoSweep
<1>19. CASE UNCHANGED scheduleVars
  BY <1>19 DEF scheduleVars
<1> QED BY <1>1, <1>2, <1>3, <1>4, <1>5, <1>6, <1>7, <1>8, <1>9, <1>10, <1>11, <1>12, <1>13, <1>14, <1>15, <1>16,
   <1>17, <1>18, <1>19 DEF ScheduleNext, CycleStep, SweepStep

\* The sweep is of the list it began with, from the cursor in memory.
LEMMA SweepKept == ASSUME ScheduleInv, [ScheduleNext]_scheduleVars PROVE SweepAgrees'
<1> USE DEF ScheduleInv, ScheduleTypeOK, StateRecords, SweepAgrees, Stops, Positions, history, bounds
<1>1. CASE Start
  BY <1>1 DEF Start
<1>2. CASE BeginCycle
  BY <1>2 DEF BeginCycle
<1>3. CASE CheckEgress
  BY <1>3 DEF CheckEgress
<1>4. CASE EgressDown
  BY <1>4 DEF EgressDown
<1>5. CASE BeginSweep
  BY <1>5 DEF BeginSweep
<1>6. ASSUME NEW i \in Positions, Refused(i) \/ ReadPage(i) \/ Retried(i) \/ Denied(i) \/ Failed(i) PROVE SweepAgrees'
  <2>1. /\ SweepIsRecord' /\ sweep.streams' = sweep.streams /\ sweep.order' = sweep.order
        /\ phase' = phase /\ mem' = mem /\ phase = "sweep"
        /\ sweep.stop' = sweep.stop \/ \E x \in Stops : sweep.stop' = [sweep.stop EXCEPT ![i] = x]
        /\ sweep.read' = sweep.read \/ sweep.read' = [sweep.read EXCEPT ![i] = @ + 1]
    BY <1>6, RequestEffects DEF RequestKeeps
  <2>2. sweep.stop \in [Positions -> Stops] /\ sweep.read \in [Positions -> Nat]
    BY <2>1
  <2>3. sweep.stop' \in [Positions -> Stops]
    BY <1>6, <2>1, <2>2
  <2>4. sweep.read' \in [Positions -> Nat]
    <3>1. CASE sweep.read' = sweep.read
      BY <2>2, <3>1
    <3>2. CASE sweep.read' = [sweep.read EXCEPT ![i] = @ + 1]
      <4>1. sweep.read[i] + 1 \in Nat
        BY <1>6, <2>2
      <4> QED BY <2>2, <3>2, <4>1
    <3> QED BY <2>1, <3>1, <3>2
  <2> QED BY <2>1, <2>3, <2>4 DEF SweepIsRecord
<1>7. CASE EndSweep
  BY <1>7, EndEffects DEF NoSweep
<1>8. CASE AbandonSweep
  BY <1>8, AbandonEffects DEF NoSweep
<1>9. CASE OpenBlock
  BY <1>9 DEF OpenBlock
<1>10. CASE WriteBlock
  BY <1>10 DEF WriteBlock
<1>11. CASE Resume
  BY <1>11 DEF Resume, BlockRecovered
<1>12. CASE Process
  BY <1>12 DEF Process
<1>13. CASE FreeIO
  BY <1>13 DEF FreeIO, IOAllowed
<1>14. CASE EndCycle
  BY <1>14 DEF EndCycle, BlockRecovered
<1>15. CASE PauseEnds
  BY <1>15 DEF PauseEnds
<1>16. CASE IntervalPasses
  BY <1>16 DEF IntervalPasses, Aged
<1>17. CASE CompaniesChange
  BY <1>17 DEF CompaniesChange
<1>18. CASE Crash
  BY <1>18 DEF Crash, NoSweep
<1>19. CASE UNCHANGED scheduleVars
  BY <1>19 DEF scheduleVars
<1> QED BY <1>1, <1>2, <1>3, <1>4, <1>5, <1>6, <1>7, <1>8, <1>9, <1>10, <1>11, <1>12, <1>13, <1>14, <1>15, <1>16,
   <1>17, <1>18, <1>19 DEF ScheduleNext, CycleStep, SweepStep

\* What is on disk follows what is in memory.
LEMMA SavedKept == ASSUME ScheduleInv, [ScheduleNext]_scheduleVars PROVE SavedAgrees'
<1> USE DEF ScheduleInv, ScheduleTypeOK, StateRecords, SavedAgrees, history, bounds
<1>1. CASE Start
  BY <1>1 DEF Start
<1>2. CASE BeginCycle
  BY <1>2 DEF BeginCycle
<1>3. CASE CheckEgress
  BY <1>3 DEF CheckEgress
<1>4. CASE EgressDown
  BY <1>4 DEF EgressDown
<1>5. CASE BeginSweep
  BY <1>5 DEF BeginSweep
<1>6. ASSUME NEW i \in Positions, Refused(i) \/ ReadPage(i) \/ Retried(i) \/ Denied(i) \/ Failed(i) PROVE SavedAgrees'
  BY <1>6 DEF Refused, ReadPage, Retried, Denied, Failed, MayRequest, MayGoOn
<1>7. CASE EndSweep
  BY <1>7, EndEffects
<1>8. CASE AbandonSweep
  BY <1>8, AbandonEffects
<1>9. CASE OpenBlock
  BY <1>9 DEF OpenBlock
<1>10. CASE WriteBlock
  BY <1>10 DEF WriteBlock
<1>11. CASE Resume
  BY <1>11 DEF Resume, BlockRecovered
<1>12. CASE Process
  BY <1>12 DEF Process
<1>13. CASE FreeIO
  BY <1>13 DEF FreeIO, IOAllowed
<1>14. CASE EndCycle
  BY <1>14 DEF EndCycle, BlockRecovered
<1>15. CASE PauseEnds
  BY <1>15 DEF PauseEnds
<1>16. CASE IntervalPasses
  BY <1>16 DEF IntervalPasses, Aged
<1>17. CASE CompaniesChange
  BY <1>17 DEF CompaniesChange
<1>18. CASE Crash
  <2>1. mem' = disk' /\ phase' = "down"
    BY <1>18 DEF Crash
  <2> QED BY <2>1
<1>19. CASE UNCHANGED scheduleVars
  BY <1>19 DEF scheduleVars
<1> QED BY <1>1, <1>2, <1>3, <1>4, <1>5, <1>6, <1>7, <1>8, <1>9, <1>10, <1>11, <1>12, <1>13, <1>14, <1>15, <1>16,
   <1>17, <1>18, <1>19 DEF ScheduleNext, CycleStep, SweepStep

\* An alert opens an episode and a recovery closes it.
LEMMA AlertsKept == ASSUME ScheduleInv, [ScheduleNext]_scheduleVars PROVE AlertsAgree'
<1> USE BlocksAreNotNone DEF ScheduleInv, ScheduleTypeOK, StateRecords, SavedAgrees, AlertsAgree, history,
   bounds, Alert
<1>1. CASE Start
  BY <1>1 DEF Start
<1>2. CASE BeginCycle
  BY <1>2 DEF BeginCycle
<1>3. CASE CheckEgress
  BY <1>3 DEF CheckEgress
<1>4. CASE EgressDown
  BY <1>4 DEF EgressDown
<1>5. CASE BeginSweep
  BY <1>5 DEF BeginSweep
<1>6. ASSUME NEW i \in Positions, Refused(i) \/ ReadPage(i) \/ Retried(i) \/ Denied(i) \/ Failed(i) PROVE AlertsAgree'
  BY <1>6 DEF Refused, ReadPage, Retried, Denied, Failed, MayRequest, MayGoOn
<1>7. CASE EndSweep
  BY <1>7, EndEffects
<1>8. CASE AbandonSweep
  BY <1>8, AbandonEffects
<1>9. CASE OpenBlock
  BY <1>9 DEF OpenBlock
<1>10. CASE WriteBlock
  BY <1>10 DEF WriteBlock
<1>11. CASE Resume
  BY <1>11 DEF Resume, BlockRecovered
<1>12. CASE Process
  BY <1>12 DEF Process
<1>13. CASE FreeIO
  BY <1>13 DEF FreeIO, IOAllowed
<1>14. CASE EndCycle
  BY <1>14 DEF EndCycle, BlockRecovered
<1>15. CASE PauseEnds
  BY <1>15 DEF PauseEnds
<1>16. CASE IntervalPasses
  BY <1>16 DEF IntervalPasses, Aged
<1>17. CASE CompaniesChange
  BY <1>17 DEF CompaniesChange
<1>18. CASE Crash
  BY <1>18 DEF Crash
<1>19. CASE UNCHANGED scheduleVars
  BY <1>19 DEF scheduleVars
<1> QED BY <1>1, <1>2, <1>3, <1>4, <1>5, <1>6, <1>7, <1>8, <1>9, <1>10, <1>11, <1>12, <1>13, <1>14, <1>15, <1>16,
   <1>17, <1>18, <1>19 DEF ScheduleNext, CycleStep, SweepStep

\* The pause runs in memory, on disk and in the breaker.
LEMMA PauseKept == ASSUME ScheduleInv, [ScheduleNext]_scheduleVars PROVE PauseAgrees'
<1> USE BlocksAreNotNone DEF ScheduleInv, ScheduleTypeOK, StateRecords, SavedAgrees, PauseAgrees, Running,
   history, bounds
<1>1. CASE Start
  BY <1>1 DEF Start
<1>2. CASE BeginCycle
  BY <1>2 DEF BeginCycle
<1>3. CASE CheckEgress
  BY <1>3 DEF CheckEgress
<1>4. CASE EgressDown
  BY <1>4 DEF EgressDown
<1>5. CASE BeginSweep
  BY <1>5 DEF BeginSweep
<1>6. ASSUME NEW i \in Positions, Refused(i) \/ ReadPage(i) \/ Retried(i) \/ Denied(i) \/ Failed(i) PROVE PauseAgrees'
  BY <1>6 DEF Refused, ReadPage, Retried, Denied, Failed, MayRequest, MayGoOn
<1>7. CASE EndSweep
  BY <1>7, EndEffects
<1>8. CASE AbandonSweep
  BY <1>8, AbandonEffects
<1>9. CASE OpenBlock
  BY <1>9 DEF OpenBlock
<1>10. CASE WriteBlock
  BY <1>10 DEF WriteBlock
<1>11. CASE Resume
  BY <1>11 DEF Resume, BlockRecovered
<1>12. CASE Process
  BY <1>12 DEF Process
<1>13. CASE FreeIO
  BY <1>13 DEF FreeIO, IOAllowed
<1>14. CASE EndCycle
  BY <1>14 DEF EndCycle, BlockRecovered
<1>15. CASE PauseEnds
  BY <1>15 DEF PauseEnds
<1>16. CASE IntervalPasses
  BY <1>16 DEF IntervalPasses, Aged
<1>17. CASE CompaniesChange
  BY <1>17 DEF CompaniesChange
<1>18. CASE Crash
  BY <1>18 DEF Crash
<1>19. CASE UNCHANGED scheduleVars
  BY <1>19 DEF scheduleVars
<1> QED BY <1>1, <1>2, <1>3, <1>4, <1>5, <1>6, <1>7, <1>8, <1>9, <1>10, <1>11, <1>12, <1>13, <1>14, <1>15, <1>16,
   <1>17, <1>18, <1>19 DEF ScheduleNext, CycleStep, SweepStep

\* A worker that was denied goes to the pause.
LEMMA DenialKept == ASSUME ScheduleInv, [ScheduleNext]_scheduleVars PROVE DenialIsFollowed'
<1> USE DEF ScheduleInv, ScheduleTypeOK, StateRecords, SweepAgrees, SavedAgrees, DenialIsFollowed, PauseAgrees,
   Positions, history, bounds
<1>1. CASE Start
  BY <1>1 DEF Start
<1>2. CASE BeginCycle
  BY <1>2 DEF BeginCycle
<1>3. CASE CheckEgress
  BY <1>3 DEF CheckEgress
<1>4. CASE EgressDown
  BY <1>4 DEF EgressDown
<1>5. CASE BeginSweep
  BY <1>5 DEF BeginSweep
<1>6. ASSUME NEW i \in Positions, Refused(i) \/ ReadPage(i) \/ Retried(i) \/ Denied(i) \/ Failed(i) PROVE DenialIsFollowed'
  <2>0. /\ phase = "sweep" /\ UNCHANGED <<phase, workers>> /\ sweep.order' = sweep.order
        /\ (workers = 1 => \A j \in Positions : sweep.stop[j] = "none") /\ SweepIsRecord
        /\ sweep.stop \in [Positions -> Stops]
    BY <1>6, RequestEffects DEF RequestKeeps, Refused, ReadPage, Retried, Denied, Failed, MayRequest, MayGoOn, SweepIsRecord
  <2>1. CASE Denied(i)
    <3>1. sweep' = [sweep EXCEPT !.stop[i] = "blocked", !.requested = Reserved(i)] /\ pacer'.blocked
      BY <2>1 DEF Denied
    <3>2. sweep.stop' = [sweep.stop EXCEPT ![i] = "blocked"]
      BY <2>0, <3>1, StopStream
    <3>3. workers = 1 => \A j \in Positions : sweep.stop'[j] # "failed"
      BY <2>0, <3>2
    <3>4. i \in Positions /\ sweep.stop'[i] = "blocked"
      BY <1>6, <2>0, <3>2
    <3> QED BY <2>0, <3>1, <3>3, <3>4
  <2>2. CASE UNCHANGED denial
    <3>1. ~(workers = 1 /\ denial = "unpaused")
      BY <2>0
    <3> QED BY <2>0, <2>2, <3>1
  <2> QED BY <1>6, <2>1, <2>2 DEF Refused, ReadPage, Retried, Failed, history
<1>7. CASE EndSweep
  BY <1>7, EndEffects
<1>8. CASE AbandonSweep
  BY <1>8, AbandonEffects
<1>9. CASE OpenBlock
  BY <1>9 DEF OpenBlock
<1>10. CASE WriteBlock
  BY <1>10 DEF WriteBlock
<1>11. CASE Resume
  BY <1>11 DEF Resume, BlockRecovered
<1>12. CASE Process
  BY <1>12 DEF Process
<1>13. CASE FreeIO
  BY <1>13 DEF FreeIO, IOAllowed
<1>14. CASE EndCycle
  BY <1>14 DEF EndCycle, BlockRecovered
<1>15. CASE PauseEnds
  BY <1>15 DEF PauseEnds
<1>16. CASE IntervalPasses
  BY <1>16 DEF IntervalPasses, Aged
<1>17. CASE CompaniesChange
  BY <1>17 DEF CompaniesChange
<1>18. CASE Crash
  BY <1>18 DEF Crash
<1>19. CASE UNCHANGED scheduleVars
  BY <1>19 DEF scheduleVars
<1> QED BY <1>1, <1>2, <1>3, <1>4, <1>5, <1>6, <1>7, <1>8, <1>9, <1>10, <1>11, <1>12, <1>13, <1>14, <1>15, <1>16,
   <1>17, <1>18, <1>19 DEF ScheduleNext, CycleStep, SweepStep

\* A sweep takes the streams that are ahead of the cursor, in order.
LEMMA WindowMoves ==
    ASSUME NEW all \in Nat \ {0}, NEW start \in 0..(all - 1), NEW i \in 1..all, NEW n \in 0..(all - 1),
           NEW next, next = (start + n) % all
    PROVE  /\ Ahead(start, all, i) \in 0..(all - 1)
           /\ ((start + Ahead(start, all, i)) % all) + 1 = i
           /\ next \in 0..(all - 1)
           /\ Ahead(start, all, i) >= n => Ahead(next, all, i) = Ahead(start, all, i) - n
<1> DEFINE d == Ahead(start, all, i)
<1>1. d \in 0..(all - 1) /\ d = IF start < i THEN i - 1 - start ELSE i - 1 - start + all
  BY DEF Ahead
<1> HIDE DEF d
<1>2. (start + d) % all = IF start + d < all THEN start + d ELSE start + d - all
  BY <1>1, Wrap
<1>3. next = IF start + n < all THEN start + n ELSE start + n - all
  BY Wrap
<1>4. ((start + d) % all) + 1 = i
  BY <1>1, <1>2
<1>5. next \in 0..(all - 1)
  <2> QED BY <1>3
<1>6. d >= n => Ahead(next, all, i) = d - n
  BY <1>1, <1>3, <1>5 DEF Ahead
<1> QED BY <1>1, <1>4, <1>5, <1>6 DEF d

\* When a sweep of an unchanged list ends, every stream of the list was read in
\* this lap or is among those of the sweep after its finished first ones.
LEMMA SweepWindow ==
    ASSUME ScheduleInv, EndSweep, steady
    PROVE  LET all   == Len(list)
               start == StreamStart(mem.cursor) % all
               seen  == IF LapPending(mem.cursor) THEN mem.cursor.searched ELSE 0
           IN  /\ sweep.streams = list /\ all \in Nat \ {0} /\ start \in 0..(all - 1)
               /\ seen \in Nat /\ Len(sweep.order) = all - seen
               /\ \A i \in 1..all :
                    \/ list[i] \in lapRead'
                    \/ /\ Ahead(start, all, i) >= FinishedHead
                       /\ Ahead(start, all, i) < Len(sweep.order)
<1> DEFINE all   == Len(list)
           cur   == mem.cursor
           start == StreamStart(cur) % all
           seen  == IF LapPending(cur) THEN cur.searched ELSE 0
           order == sweep.order
<1>1. /\ phase = "sweep" /\ order = SweepOrder(sweep.streams, cur)
      /\ FinishedHead \in 0..Len(order) /\ \A i \in 1..FinishedHead : Finished(i)
      /\ lapRead' = lapRead \cup {order[i] : i \in {j \in Positions : Finished(j)}}
  <2>1. phase = "sweep" /\ order = SweepOrder(sweep.streams, cur)
    BY EndEffects DEF ScheduleInv, SweepAgrees
  <2>2. FinishedHead \in 0..Len(order) /\ \A i \in 1..FinishedHead : Finished(i)
    <3> HIDE DEF order
    <3> QED BY EndEffects DEF order
  <2>3. lapRead' = lapRead \cup {order[i] : i \in {j \in Positions : Finished(j)}}
    BY EndEffects
  <2> QED BY <2>1, <2>2, <2>3
<1>2. /\ sweep.streams = list /\ list \in Lists /\ LapAgrees(cur)
      /\ cur \in Cursors \cup {None}
  BY <1>1 DEF ScheduleInv, LapsAgree, ScheduleTypeOK, StateRecords
<1>3. /\ all \in Nat \ {0} /\ start \in 0..(all - 1)
      /\ Len(order) = StreamsLeft(cur, all) /\ Len(order) \in 1..all
      /\ \A i \in 1..Len(order) : order[i] = list[((start + i - 1) % all) + 1]
  BY <1>1, <1>2, OrderFacts
<1>4. seen \in Nat
  BY <1>2, CursorTypes
<1>5. /\ Len(order) = all - seen
      /\ \A i \in 1..all : list[i] \in lapRead \/ Ahead(start, all, i) < Len(order)
  <2>1. CASE LapPending(cur)
    <3>1. /\ cur.count = all /\ cur.next < all /\ cur.searched < all
          /\ \A i \in 1..all : list[i] \in lapRead \/ Ahead(cur.next, all, i) < all - cur.searched
      BY <1>2, <2>1 DEF LapAgrees
    <3>2. cur \in Cursors /\ cur # None /\ cur.searched \in Nat /\ cur.next \in Nat
      <4>1. cur \in Cursors /\ cur # None /\ cur.searched \in Nat
        BY <1>2, <2>1, CursorTypes DEF LapPending
      <4>2. StreamStart(cur) \in Nat /\ StreamStart(cur) = cur.next
        BY <1>2, <4>1, CursorTypes DEF StreamStart
      <4> QED BY <4>1, <4>2
    <3>3. StreamsLeft(cur, all) = all - cur.searched
      <4> HIDE DEF all, cur
      <4> QED BY <1>3, <2>1, <3>1, <3>2 DEF StreamsLeft, Least
    <3>4. start = cur.next
      <4>1. StreamStart(cur) = cur.next
        BY <3>2 DEF StreamStart
      <4>2. cur.next \in 0..(all - 1)
        BY <1>3, <3>1, <3>2
      <4>3. \A x \in 0..(all - 1) : x % all = x
        <5> HIDE DEF all
        <5> QED BY <1>3, NoWrap
      <4> QED BY <4>1, <4>2, <4>3
    <3> QED BY <1>3, <2>1, <3>1, <3>3, <3>4
  <2>2. CASE ~LapPending(cur)
    <3>1. StreamsLeft(cur, all) = all
      BY <2>2 DEF StreamsLeft
    <3>2. \A i \in 1..all : Ahead(start, all, i) < all
      <4> HIDE DEF all, start
      <4> QED BY <1>3 DEF Ahead
    <3> QED BY <1>3, <2>2, <3>1, <3>2
  <2> QED BY <2>1, <2>2
<1>6. ASSUME NEW i \in 1..all, Ahead(start, all, i) < FinishedHead
      PROVE  list[i] \in lapRead'
  <2> DEFINE d == Ahead(start, all, i)
  <2>1. d \in 0..(all - 1) /\ ((start + d) % all) + 1 = i
    <3>1. /\ 0 \in 0..(all - 1) /\ (start + 0) % all = (start + 0) % all
      BY <1>3
    <3> HIDE DEF all, start
    <3> QED BY <1>3, <3>1, WindowMoves
  <2>2. d + 1 \in 1..FinishedHead /\ d + 1 \in Positions /\ (start + (d + 1)) - 1 = start + d
    <3>1. d < FinishedHead /\ FinishedHead \in 0..Len(order) /\ Positions = 1..Len(order)
      BY <1>1, <1>6 DEF Positions
    <3> HIDE DEF d, start, all, order
    <3> QED BY <1>3, <2>1, <3>1
  <2>3. order[d + 1] = list[((start + (d + 1) - 1) % all) + 1]
    <3> HIDE DEF d, start, all
    <3> QED BY <1>3, <2>2 DEF Positions
  <2>4. order[d + 1] = list[i]
    <3> HIDE DEF d, start, all
    <3> QED BY <2>1, <2>2, <2>3
  <2>5. Finished(d + 1)
    BY <1>1, <2>2
  <2> HIDE DEF d
  <2> QED BY <1>1, <2>2, <2>4, <2>5
<1>7. \A i \in 1..all :
         \/ list[i] \in lapRead'
         \/ Ahead(start, all, i) >= FinishedHead /\ Ahead(start, all, i) < Len(order)
  <2> SUFFICES ASSUME NEW i \in 1..all
               PROVE \/ list[i] \in lapRead'
                     \/ Ahead(start, all, i) >= FinishedHead /\ Ahead(start, all, i) < Len(order)
    OBVIOUS
  <2>1. Ahead(start, all, i) \in Int /\ FinishedHead \in Int
    <3> HIDE DEF all, start
    <3> QED BY <1>1, <1>3 DEF Ahead
  <2>2. list[i] \in lapRead => list[i] \in lapRead'
    BY <1>1
  <2> HIDE DEF all, start
  <2> QED BY <1>5, <1>6, <2>1, <2>2
<1> HIDE DEF all, start, seen, order, cur
<1> QED BY <1>2, <1>3, <1>4, <1>5, <1>7 DEF all, start, seen, order, cur

LEMMA CompleteField ==
    ASSUME NEW r, NEW a, NEW b, NEW c, NEW d,
           r = [next |-> a, complete |-> b, count |-> c, searched |-> d]
    PROVE  r.complete = b
OBVIOUS

\* An unfinished lap misses no stream: the next sweep begins where this one ended.
LEMMA LapGoesOn ==
    ASSUME ScheduleInv, EndSweep
    PROVE  LapAgrees(mem.cursor)'
<1> SUFFICES ASSUME steady, LapPending(mem'.cursor)
             PROVE  /\ mem'.cursor.count = Len(list) /\ mem'.cursor.next < Len(list)
                    /\ mem'.cursor.searched < Len(list)
                    /\ \A i \in 1..Len(list) :
                         \/ list[i] \in lapRead'
                         \/ Ahead(mem'.cursor.next, Len(list), i) < Len(list) - mem'.cursor.searched
  BY EndEffects DEF LapAgrees
<1> DEFINE all   == Len(list)
           start == StreamStart(mem.cursor) % all
           seen  == IF LapPending(mem.cursor) THEN mem.cursor.searched ELSE 0
           n     == FinishedHead
           next  == (start + n) % all
           size  == Cardinality(Streams)
<1>1. /\ sweep.streams = list /\ all \in Nat \ {0} /\ start \in 0..(all - 1)
      /\ seen \in Nat /\ Len(sweep.order) = all - seen
      /\ \A i \in 1..all :
           \/ list[i] \in lapRead'
           \/ Ahead(start, all, i) >= n /\ Ahead(start, all, i) < Len(sweep.order)
  BY SweepWindow
<1>2. /\ mem'.cursor = CursorAfter(mem.cursor, sweep.streams, sweep.order, n)
      /\ n \in 0..Len(sweep.order)
  BY EndEffects
<1>3. mem'.cursor = [next |-> IF n = Len(sweep.order) /\ n = all THEN 0 ELSE next,
                     complete |-> n = Len(sweep.order), count |-> all,
                     searched |-> Least(seen + n, size)]
  BY <1>1, <1>2 DEF CursorAfter
<1>4. all <= size /\ size \in Nat
  <2>1. list \in Lists
    BY DEF ScheduleInv, ScheduleTypeOK
  <2> QED BY <2>1, ListFacts
<1>5. n # Len(sweep.order)
  <2>1. mem'.cursor \in Cursors
    BY EndEffects
  <2>2. mem'.cursor.complete = FALSE
    BY <2>1, NoneAssumption DEF LapPending, Cursors
  <2> HIDE DEF n, next, all, seen, size
  <2>3. mem'.cursor.complete = (n = Len(sweep.order))
    BY <1>3, CompleteField
  <2> QED BY <2>2, <2>3
<1>6. n \in 0..(all - 1) /\ seen + n < all /\ Least(seen + n, size) = seen + n
  <2> HIDE DEF n, all, seen, size
  <2> QED BY <1>1, <1>2, <1>4, <1>5 DEF Least
<1>7. mem'.cursor.count = all /\ mem'.cursor.next = next /\ mem'.cursor.searched = seen + n
  <2> HIDE DEF n, next, all, seen, size
  <2> QED BY <1>3, <1>5, <1>6
<1>8. next \in 0..(all - 1)
      /\ \A i \in 1..all : Ahead(start, all, i) >= n => Ahead(next, all, i) = Ahead(start, all, i) - n
  <2>1. 1 \in 1..all
    BY <1>1
  <2>2. next = (start + n) % all
    OBVIOUS
  <2> HIDE DEF n, all, start, next
  <2> QED BY <1>1, <1>6, <2>1, <2>2, WindowMoves
<1>9. ASSUME NEW i \in 1..all
      PROVE  list[i] \in lapRead' \/ Ahead(next, all, i) < all - (seen + n)
  <2>1. Ahead(start, all, i) \in Int
    <3> HIDE DEF all, start
    <3> QED BY <1>1 DEF Ahead
  <2> DEFINE d == Ahead(start, all, i)
             e == Ahead(next, all, i)
  <2>2. list[i] \in lapRead' \/ (d >= n /\ d < all - seen /\ e = d - n)
    BY <1>1, <1>8
  <2> HIDE DEF all, seen, n, next, d, e
  <2> QED BY <1>1, <1>6, <2>1, <2>2 DEF d, e
<1> HIDE DEF all, start, seen, n, next, size
<1>10. mem'.cursor.next < all /\ mem'.cursor.searched < all
  BY <1>1, <1>6, <1>7, <1>8
<1> QED BY <1>7, <1>9, <1>10 DEF all

\* What the history knows about the lap stays true of both cursors.
LEMMA LapsKept == ASSUME ScheduleInv, [ScheduleNext]_scheduleVars PROVE LapsAgree'
<1> USE DEF ScheduleInv, ScheduleTypeOK, StateRecords, SavedAgrees, LapsAgree, LapAgrees, history, bounds
<1>1. CASE Start
  BY <1>1 DEF Start
<1>2. CASE BeginCycle
  BY <1>2 DEF BeginCycle
<1>3. CASE CheckEgress
  BY <1>3 DEF CheckEgress
<1>4. CASE EgressDown
  BY <1>4 DEF EgressDown
<1>5. CASE BeginSweep
  <2>1. /\ UNCHANGED <<disk, mem, list>> /\ mem.cursor = disk.cursor
        /\ sweep'.streams = list
        /\ LapPending(mem.cursor) => UNCHANGED <<lapRead, steady>>
    BY <1>5 DEF BeginSweep
  <2> QED BY <2>1
<1>6. ASSUME NEW i \in Positions, Refused(i) \/ ReadPage(i) \/ Retried(i) \/ Denied(i) \/ Failed(i) PROVE LapsAgree'
  BY <1>6, RequestEffects DEF RequestKeeps
<1>7. CASE EndSweep
  <2>1. LapAgrees(mem.cursor)'
    BY <1>7, LapGoesOn
  <2>2. lapRead \subseteq lapRead' /\ UNCHANGED <<disk, list, steady>> /\ phase' # "sweep"
    BY <1>7, EndEffects
  <2>3. LapAgrees(disk.cursor)'
    BY <2>2
  <2> QED BY <2>1, <2>2, <2>3
<1>8. CASE AbandonSweep
  BY <1>8, AbandonEffects
<1>9. CASE OpenBlock
  BY <1>9 DEF OpenBlock
<1>10. CASE WriteBlock
  BY <1>10 DEF WriteBlock
<1>11. CASE Resume
  BY <1>11 DEF Resume, BlockRecovered
<1>12. CASE Process
  BY <1>12 DEF Process
<1>13. CASE FreeIO
  BY <1>13 DEF FreeIO, IOAllowed
<1>14. CASE EndCycle
  BY <1>14 DEF EndCycle, BlockRecovered
<1>15. CASE PauseEnds
  BY <1>15 DEF PauseEnds
<1>16. CASE IntervalPasses
  BY <1>16 DEF IntervalPasses, Aged
<1>17. CASE CompaniesChange
  BY <1>17 DEF CompaniesChange
<1>18. CASE Crash
  BY <1>18 DEF Crash
<1>19. CASE UNCHANGED scheduleVars
  BY <1>19 DEF scheduleVars
<1> QED BY <1>1, <1>2, <1>3, <1>4, <1>5, <1>6, <1>7, <1>8, <1>9, <1>10, <1>11, <1>12, <1>13, <1>14, <1>15, <1>16,
   <1>17, <1>18, <1>19 DEF ScheduleNext, CycleStep, SweepStep

LEMMA InitScheduleInv == ASSUME ScheduleInit PROVE ScheduleInv
<1> USE DEF ScheduleInit
<1>1. ScheduleTypeOK
  BY LimitFacts DEF ScheduleTypeOK, StateRecords, NoSweep
<1>2. SweepAgrees
  BY DEF SweepAgrees, NoSweep
<1>3. SavedAgrees /\ AlertsAgree /\ PauseAgrees /\ DenialIsFollowed
  BY DEF SavedAgrees, AlertsAgree, PauseAgrees, DenialIsFollowed, Running
<1>4. LapsAgree
  BY DEF LapsAgree, LapAgrees, LapPending
<1> QED BY <1>1, <1>2, <1>3, <1>4 DEF ScheduleInv

LEMMA NextKeepsScheduleInv == ASSUME ScheduleInv, [ScheduleNext]_scheduleVars PROVE ScheduleInv'
BY ScheduleTypeKept, SweepKept, SavedKept, AlertsKept, PauseKept, DenialKept, LapsKept DEF ScheduleInv

-----------------------------------------------------------------------------
(* The search: the theorems                                                *)

\* The inductive invariant holds in every reachable state.
THEOREM ScheduleInvariance == ScheduleSpec => []ScheduleInv
BY InitScheduleInv, NextKeepsScheduleInv, PTL DEF ScheduleSpec

\* Every variable keeps its type; in particular the cursor that is saved is one
\* that a search of any list of companies can start from.
THEOREM ScheduleTypeCorrectness == ScheduleSpec => []ScheduleTypeOK
<1>1. ScheduleInv => ScheduleTypeOK
  BY DEF ScheduleInv
<1> QED BY <1>1, ScheduleInvariance, PTL

\* One alert per episode of denials and one at its end, for a process that lives:
\* open_block and block_recovered never announce the same twice in a row.
THEOREM AlertsAlwaysAlternate == ScheduleSpec => []AlertsAlternate
<1>1. ScheduleInv => AlertsAlternate
  BY DEF ScheduleInv, AlertsAgree, AlertsAlternate
<1> QED BY <1>1, ScheduleInvariance, PTL

\* While a pause after a 403 or 429 runs, nothing is asked of PROD6, also by a
\* process started later; and with one worker no denial goes without its pause.
THEOREM PauseIsAlwaysKept == ScheduleSpec => PauseIsKept
<1>1. ScheduleInv => (workers = 1 /\ phase = "idle" => denial # "unpaused")
  BY DEF ScheduleInv, DenialIsFollowed
<1>2. ScheduleInv /\ [ScheduleNext]_scheduleVars => [denial = "paused" => heard' = heard /\ stops' = stops]_scheduleVars
  <2> SUFFICES ASSUME ScheduleInv, ScheduleNext, denial = "paused"
               PROVE  heard' = heard /\ stops' = stops
    OBVIOUS
  <2>1. /\ phase \in {"down", "idle", "blocked", "processing", "io", "ending"}
        /\ phase = "io" => pacer.blocked
    BY DEF ScheduleInv, PauseAgrees
  <2>2. CASE CycleStep
    <3>1. ~SweepStep
      BY <2>1 DEF SweepStep, Refused, ReadPage, Retried, Denied, Failed, MayRequest, MayGoOn
    <3>2. ~EndSweep /\ ~AbandonSweep
      BY <2>1 DEF EndSweep, AbandonSweep, SweepIsOver
    <3> QED BY <2>1, <2>2, <3>1, <3>2
            DEF CycleStep, Start, BeginCycle, CheckEgress, EgressDown, BeginSweep, OpenBlock, WriteBlock,
                Resume, Process, FreeIO, IOAllowed, EndCycle, history, bounds
  <2>3. CASE PauseEnds \/ IntervalPasses \/ CompaniesChange \/ Crash
    BY <2>3 DEF PauseEnds, IntervalPasses, CompaniesChange, Crash, history, bounds
  <2> QED BY <2>2, <2>3 DEF ScheduleNext
<1> QED BY <1>1, <1>2, ScheduleInvariance, PTL DEF ScheduleSpec, PauseIsKept

\* A lap that is declared complete has read every stream of a list that stayed,
\* wherever the request limit, denials, failures and deaths cut it.
THEOREM LapsAreWhole == ScheduleSpec => LapIsWhole
<1>1. ScheduleInv /\ [ScheduleNext]_scheduleVars =>
        [EndSweep /\ mem'.cursor.complete /\ steady
           => {list[i] : i \in 1..Len(list)} \subseteq lapRead']_scheduleVars
  <2> SUFFICES ASSUME ScheduleInv, EndSweep, mem'.cursor.complete, steady
               PROVE  {list[i] : i \in 1..Len(list)} \subseteq lapRead'
    OBVIOUS
  <2> DEFINE all   == Len(list)
             start == StreamStart(mem.cursor) % all
  <2>1. /\ sweep.streams = list /\ all \in Nat \ {0} /\ start \in 0..(all - 1)
        /\ \A i \in 1..all :
             \/ list[i] \in lapRead'
             \/ /\ Ahead(start, all, i) >= FinishedHead
                /\ Ahead(start, all, i) < Len(sweep.order)
    BY SweepWindow
  <2>2. /\ mem'.cursor = CursorAfter(mem.cursor, sweep.streams, sweep.order, FinishedHead)
        /\ FinishedHead \in 0..Len(sweep.order)
    BY EndEffects
  <2>3. mem'.cursor.complete = (FinishedHead = Len(sweep.order))
    <3>1. ASSUME NEW cursor, NEW streams, NEW order, NEW n
          PROVE  CursorAfter(cursor, streams, order, n).complete = (n = Len(order))
      BY DEF CursorAfter
    <3>2. CursorAfter(mem.cursor, sweep.streams, sweep.order, FinishedHead).complete
            = (FinishedHead = Len(sweep.order))
      BY <3>1
    <3> QED BY <2>2, <3>2
  <2>4. FinishedHead = Len(sweep.order)
    BY <2>3
  <2>5. \A i \in 1..all : Ahead(start, all, i) \in Int
    <3> HIDE DEF all, start
    <3> QED BY <2>1 DEF Ahead
  <2>6. \A i \in 1..all : list[i] \in lapRead'
    <3> HIDE DEF all, start
    <3> QED BY <2>1, <2>2, <2>4, <2>5
  <2> QED BY <2>6
<1> QED BY <1>1, ScheduleInvariance, PTL DEF ScheduleSpec, LapIsWhole
=============================================================================
