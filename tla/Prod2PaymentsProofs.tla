------------------------- MODULE Prod2PaymentsProofs -------------------------
(***************************************************************************)
(* Proofs about the paid calls of a PROD2 run, for any cases, plans, limits *)
(* and number of threads: the ceilings of a run hold over all its starts,  *)
(* and no purpose is paid for twice.                                       *)
(***************************************************************************)
EXTENDS Prod2Payments, FiniteSetTheorems, TLAPS

-----------------------------------------------------------------------------
(* The threads                                                             *)

InsidePCs == {"claim", "own", "issue", "start", "send", "sent", "answered",
              "complete", "release", "rename"}

Unassigned == {"gone", "idle"}             \* without a case
Unasked    == {"gone", "idle", "case", "ack"}   \* without a request

ThreadSet == [pc : PCs, case : Cases \cup {None}, i : Nat, req : Requests \cup {None},
              permit : {"none", "held", "used"}, token : Nat]

\* A thread works for the request of its case that its plan says, or for the
\* fallback of that request.
WellPlaced(x) ==
    /\ x \in ThreadSet
    /\ x.pc \notin Unassigned => x.case \in Cases
    /\ x.pc \notin Unasked => /\ x.i \in 1..Len(Plan[x.case])
                              /\ x.req \in Alternatives(Plan[x.case][x.i])
    /\ x.pc = "accepted" => x.i = 1 /\ Len(Plan[x.case]) > 1
    /\ x.pc = "reuse" => x.req = Plan[x.case][x.i]
    /\ x.permit # "none" => x.pc \in InsidePCs

ThreadsOK ==
    /\ DOMAIN thread = Threads
    /\ \A t \in Threads : WellPlaced(thread[t])

Fields(x, pc, case, i, req, permit, token) ==
    /\ x \in ThreadSet
    /\ x.pc = pc /\ x.case = case /\ x.i = i /\ x.req = req /\ x.permit = permit /\ x.token = token

-----------------------------------------------------------------------------
(* Facts about threads and plans                                           *)

LEMMA IdleFacts ==
    /\ Fields(Gone, "gone", None, 0, None, "none", 0)
    /\ Fields(Idle, "idle", None, 0, None, "none", 0)
    /\ \A c \in Cases :
         /\ Fields([Idle EXCEPT !.pc = "case", !.case = c], "case", c, 0, None, "none", 0)
         /\ Fields([Idle EXCEPT !.pc = "ack", !.case = c], "ack", c, 0, None, "none", 0)
<1>1. Gone = [pc |-> "gone", case |-> None, i |-> 0, req |-> None, permit |-> "none", token |-> 0]
  BY DEF Gone
<1>2. Fields(Gone, "gone", None, 0, None, "none", 0)
  BY <1>1 DEF Fields, ThreadSet, PCs
<1>3. Fields(Idle, "idle", None, 0, None, "none", 0)
  BY <1>2 DEF Fields, ThreadSet, PCs, Idle
<1>4. ASSUME NEW c \in Cases, NEW pc \in {"case", "ack"}
      PROVE  Fields([Idle EXCEPT !.pc = pc, !.case = c], pc, c, 0, None, "none", 0)
  BY <1>3 DEF Fields, ThreadSet, PCs
<1> QED BY <1>2, <1>3, <1>4

\* The requests of a plan, the first of them, and what comes after a selection.
LEMMA PlanFacts ==
    ASSUME NEW c \in Cases
    PROVE  /\ Len(Plan[c]) \in Nat /\ 1 \in 1..Len(Plan[c])
           /\ \A i \in 1..Len(Plan[c]) :
                /\ Plan[c][i] \in Requests /\ Plan[c][i] \in Alternatives(Plan[c][i])
                /\ Kind[Plan[c][i]] = "selector" => i + 1 \in 1..Len(Plan[c])
<1>1. Plan[c] \in Seq(Requests) /\ Plan[c] # <<>>
  BY PaymentsAssumption, PlansAssumption
<1>2. Len(Plan[c]) \in Nat /\ Len(Plan[c]) # 0 /\ \A i \in 1..Len(Plan[c]) : Plan[c][i] \in Requests
  BY <1>1
<1> QED BY <1>2, PlansAssumption DEF Alternatives

LEMMA AlternativesFacts ==
    ASSUME NEW r \in Requests, NEW q \in Alternatives(r)
    PROVE  /\ q \in Requests
           /\ q = r \/ (q = Backup[r] /\ Backup[r] # None /\ Kind[q] = "llm1" /\ Backup[q] = None)
           /\ Backup[q] # None => Backup[q] \in Alternatives(r)
BY PaymentsAssumption, PlansAssumption DEF Alternatives

LEMMA LeaveFacts ==
    ASSUME NEW x \in ThreadSet, NEW pc \in PCs, NEW y, NEW r \in Requests,
           y = [x EXCEPT !.pc = pc, !.permit = "none", !.token = 0]
    PROVE  /\ Fields(y, pc, x.case, x.i, x.req, "none", 0)
           /\ Fields([y EXCEPT !.req = r], pc, x.case, x.i, r, "none", 0)
<1>1. Fields(y, pc, x.case, x.i, x.req, "none", 0)
  BY DEF Fields, ThreadSet
<1>2. y \in ThreadSet
  BY <1>1 DEF Fields
<1>3. Fields([y EXCEPT !.req = r], y.pc, y.case, y.i, r, y.permit, y.token)
  BY <1>2 DEF Fields, ThreadSet
<1> QED BY <1>1, <1>3 DEF Fields

LEMMA OutsideFacts ==
    ASSUME NEW t \in Threads, ThreadsOK, NEW pc \in PCs, NEW r \in Requests
    PROVE  /\ Fields(Outside(t, pc), pc, thread[t].case, thread[t].i, thread[t].req, "none", 0)
           /\ Fields([Outside(t, pc) EXCEPT !.req = r], pc, thread[t].case, thread[t].i, r, "none", 0)
<1>1. thread[t] \in ThreadSet
  BY DEF ThreadsOK, WellPlaced
<1>2. Outside(t, pc) = [thread[t] EXCEPT !.pc = pc, !.permit = "none", !.token = 0]
  BY DEF Outside
<1> QED BY <1>1, <1>2, LeaveFacts

\* A case opened: its first request.
LEMMA WantFacts ==
    ASSUME NEW c \in Cases
    PROVE  Fields([Idle EXCEPT !.pc = "want", !.case = c, !.i = 1, !.req = Plan[c][1]],
                  "want", c, 1, Plan[c][1], "none", 0)
<1>1. Plan[c][1] \in Requests
  BY PlanFacts
<1>2. Idle \in ThreadSet /\ Idle.permit = "none" /\ Idle.token = 0
  BY IdleFacts DEF Fields
<1> QED BY <1>1, <1>2 DEF Fields, ThreadSet, PCs

-----------------------------------------------------------------------------
(* The steps of one thread                                                 *)

Moved(t, y) == thread' = [thread EXCEPT ![t] = y]

OthersStay(t) ==
    /\ DOMAIN thread' = Threads
    /\ \A u \in Threads \ {t} : thread'[u] = thread[u]

LEMMA MovedFacts ==
    ASSUME ThreadsOK, NEW t \in Threads, NEW y, Moved(t, y)
    PROVE  OthersStay(t) /\ thread'[t] = y
BY DEF Moved, OthersStay, ThreadsOK

LEMMA GotoFacts ==
    ASSUME ThreadsOK, NEW t \in Threads, NEW pc \in PCs, Goto(t, pc)
    PROVE  /\ OthersStay(t)
           /\ Fields(thread'[t], pc, thread[t].case, thread[t].i, thread[t].req, thread[t].permit, thread[t].token)
           /\ UNCHANGED limits
<1>1. thread[t] \in ThreadSet
  BY DEF ThreadsOK, WellPlaced
<1>2. Moved(t, [thread[t] EXCEPT !.pc = pc]) /\ UNCHANGED limits
  BY DEF Goto, Moved
<1>3. Fields([thread[t] EXCEPT !.pc = pc], pc, thread[t].case, thread[t].i, thread[t].req,
             thread[t].permit, thread[t].token)
  BY <1>1 DEF Fields, ThreadSet
<1> QED BY <1>2, <1>3, MovedFacts

LEMMA LeaveMoves ==
    ASSUME ThreadsOK, NEW t \in Threads, NEW y, Leave(t, y)
    PROVE  OthersStay(t) /\ thread'[t] = y
<1>1. Moved(t, y)
  BY DEF Leave, Moved
<1> QED BY <1>1, MovedFacts

\* A thread that goes on with its request is well placed.
LEMMA StaysPlaced ==
    ASSUME NEW x, WellPlaced(x), x.pc \notin Unasked, NEW y, NEW pc \in PCs, NEW permit, NEW token,
           Fields(y, pc, x.case, x.i, x.req, permit, token),
           pc \notin {"accepted", "reuse"}, permit # "none" => pc \in InsidePCs
    PROVE  WellPlaced(y)
BY DEF WellPlaced, Fields, Unasked, Unassigned

TokensOK == claims \in Nat /\ owner \in [Cases -> [Requests -> Nat]]

\* Asked: the thread has a request, and everything about it is typed.
LEMMA AskedFacts ==
    ASSUME ThreadsOK, NEW t \in Threads
    PROVE  /\ WellPlaced(thread[t]) /\ thread[t] \in ThreadSet
           /\ thread[t].pc \notin Unassigned => thread[t].case \in Cases
           /\ thread[t].pc \notin Unasked =>
                /\ thread[t].i \in 1..Len(Plan[thread[t].case])
                /\ thread[t].req \in Alternatives(Plan[thread[t].case][thread[t].i])
                /\ thread[t].req \in Requests
<1>1. WellPlaced(thread[t])
  BY DEF ThreadsOK
<1> QED BY <1>1, PlanFacts, AlternativesFacts DEF WellPlaced, Unasked, Unassigned

\* Entering the section.
LEMMA EnterFacts ==
    ASSUME ThreadsOK, NEW t \in Threads, EnterWithPermit(t)
    PROVE  /\ OthersStay(t)
           /\ Fields(thread'[t], "claim", thread[t].case, thread[t].i, thread[t].req, "held", thread[t].token)
<1>1. thread[t] \in ThreadSet /\ "claim" \in PCs
  BY DEF ThreadsOK, WellPlaced, PCs
<1>2. Moved(t, [thread[t] EXCEPT !.pc = "claim", !.permit = "held"])
  BY DEF EnterWithPermit, Moved, ThreadsOK
<1>3. Fields([thread[t] EXCEPT !.pc = "claim", !.permit = "held"], "claim", thread[t].case, thread[t].i,
             thread[t].req, "held", thread[t].token)
  BY <1>1 DEF Fields, ThreadSet
<1> QED BY <1>2, <1>3, MovedFacts

LEMMA IssueFacts ==
    ASSUME ThreadsOK, NEW t \in Threads, Issue(t)
    PROVE  /\ OthersStay(t)
           /\ Fields(thread'[t], "start", thread[t].case, thread[t].i, thread[t].req, "used", thread[t].token)
<1>1. thread[t] \in ThreadSet /\ "start" \in PCs
  BY DEF ThreadsOK, WellPlaced, PCs
<1>2. Moved(t, [thread[t] EXCEPT !.pc = "start", !.permit = "used"])
  BY DEF Issue, Moved, ThreadsOK
<1>3. Fields([thread[t] EXCEPT !.pc = "start", !.permit = "used"], "start", thread[t].case, thread[t].i,
             thread[t].req, "used", thread[t].token)
  BY <1>1 DEF Fields, ThreadSet
<1> QED BY <1>2, <1>3, MovedFacts

LEMMA ClaimFacts ==
    ASSUME ThreadsOK, TokensOK, NEW t \in Threads, Claim(t)
    PROVE  /\ OthersStay(t)
           /\ Fields(thread'[t], "own", thread[t].case, thread[t].i, thread[t].req, thread[t].permit, claims + 1)
<1>1. thread[t] \in ThreadSet /\ "own" \in PCs /\ claims + 1 \in Nat
  BY DEF ThreadsOK, WellPlaced, PCs, TokensOK
<1>2. Moved(t, [thread[t] EXCEPT !.pc = "own", !.token = claims + 1])
  BY DEF Claim, Moved, ThreadsOK
<1>3. Fields([thread[t] EXCEPT !.pc = "own", !.token = claims + 1], "own", thread[t].case, thread[t].i,
             thread[t].req, thread[t].permit, claims + 1)
  BY <1>1 DEF Fields, ThreadSet
<1> QED BY <1>2, <1>3, MovedFacts

\* A blocked claim: the thread completes the row with its old owner file, or fails.
LEMMA ClaimBlockedFacts ==
    ASSUME ThreadsOK, TokensOK, NEW t \in Threads, ClaimBlocked(t)
    PROVE  /\ OthersStay(t)
           /\ \/ /\ Fields(thread'[t], "complete", thread[t].case, thread[t].i, thread[t].req,
                           thread[t].permit, owner[thread[t].case][thread[t].req])
                 /\ owner[thread[t].case][thread[t].req] # 0
                 /\ response[thread[t].case][thread[t].req] # 0
                 /\ UNCHANGED limits
              \/ /\ Fields(thread'[t], "fail", thread[t].case, thread[t].i, thread[t].req, "none", 0)
                 /\ Leave(t, Outside(t, "fail"))
<1> DEFINE x == thread[t]
           n == owner[x.case][x.req]
<1>1. x \in ThreadSet /\ "complete" \in PCs /\ "fail" \in PCs /\ x.pc = "claim"
  BY DEF ThreadsOK, WellPlaced, PCs, ClaimBlocked
<1>2. x.case \in Cases /\ x.req \in Requests
  BY <1>1, AskedFacts DEF Unasked, Unassigned
<1>3. n \in Nat
  BY <1>2 DEF TokensOK
<1>4. \/ Moved(t, [x EXCEPT !.pc = "complete", !.token = n]) /\ UNCHANGED limits
         /\ n # 0 /\ response[x.case][x.req] # 0
      \/ Leave(t, Outside(t, "fail"))
  BY DEF ClaimBlocked, Moved, ThreadsOK
<1>5. Fields(Outside(t, "fail"), "fail", x.case, x.i, x.req, "none", 0)
  BY <1>1, <1>2, OutsideFacts
<1> HIDE DEF n
<1>6. Fields([x EXCEPT !.pc = "complete", !.token = n], "complete", x.case, x.i, x.req, x.permit, n)
  BY <1>1, <1>3 DEF Fields, ThreadSet
<1> QED BY <1>4, <1>5, <1>6, MovedFacts, LeaveMoves DEF n

LEMMA ProceedFacts ==
    ASSUME ThreadsOK, NEW t \in Threads, Proceed(t)
    PROVE  /\ OthersStay(t) /\ UNCHANGED limits
           /\ \/ \E pc \in {"fail", "finished"} :
                   Fields(thread'[t], pc, thread[t].case, thread[t].i, thread[t].req, thread[t].permit, thread[t].token)
              \/ /\ thread[t].i + 1 \in 1..Len(Plan[thread[t].case])
                 /\ LET r == Plan[thread[t].case][thread[t].i + 1]
                    IN  Fields(thread'[t], IF OfficialLinks /\ Kind[r] = "llm1" THEN "reuse" ELSE "want",
                               thread[t].case, thread[t].i + 1, r, thread[t].permit, thread[t].token)
<1> DEFINE x == thread[t]
           j == x.i + 1
           r == Plan[x.case][j]
           pc == IF OfficialLinks /\ Kind[r] = "llm1" THEN "reuse" ELSE "want"
<1>1. /\ x \in ThreadSet /\ x.pc \notin Unasked
      /\ x.pc = "accepted" \/ Kind[x.req] = "selector"
      /\ UNCHANGED limits
      /\ Goto(t, "fail") \/ Goto(t, "finished") \/ Moved(t, [x EXCEPT !.i = j, !.req = r, !.pc = pc])
  BY DEF Proceed, ThreadsOK, WellPlaced, Unasked, Goto, Moved
<1>2. /\ x.case \in Cases /\ x.i \in 1..Len(Plan[x.case]) /\ x.req \in Alternatives(Plan[x.case][x.i])
      /\ x.pc = "accepted" => x.i = 1 /\ Len(Plan[x.case]) > 1
  BY <1>1, AskedFacts DEF WellPlaced, Unasked, Unassigned
<1>3. j \in 1..Len(Plan[x.case])
  <2>1. CASE x.pc = "accepted"
    BY <1>2, <2>1, PlanFacts
  <2>2. CASE Kind[x.req] = "selector"
    <3>1. Plan[x.case][x.i] \in Requests
      BY <1>2, PlanFacts
    <3>2. x.req = Plan[x.case][x.i]
      BY <1>2, <2>2, <3>1, AlternativesFacts
    <3> QED BY <1>2, <2>2, <3>2, PlanFacts
  <2> QED BY <1>1, <2>1, <2>2
<1>4. r \in Requests /\ j \in Nat /\ pc \in PCs /\ "fail" \in PCs /\ "finished" \in PCs
  BY <1>2, <1>3, PlanFacts DEF PCs
<1> HIDE DEF pc, r
<1>5. Fields([x EXCEPT !.i = j, !.req = r, !.pc = pc], pc, x.case, j, r, x.permit, x.token)
  BY <1>1, <1>4 DEF Fields, ThreadSet
<1>6. ASSUME NEW q \in {"fail", "finished"}, Goto(t, q)
      PROVE  OthersStay(t) /\ Fields(thread'[t], q, x.case, x.i, x.req, x.permit, x.token)
  BY <1>4, <1>6, GotoFacts
<1>7. CASE Goto(t, "fail") \/ Goto(t, "finished")
  BY <1>1, <1>6, <1>7
<1>8. CASE Moved(t, [x EXCEPT !.i = j, !.req = r, !.pc = pc])
  <2>1. OthersStay(t) /\ Fields(thread'[t], pc, x.case, j, r, x.permit, x.token)
    BY <1>5, <1>8, MovedFacts
  <2> QED BY <1>1, <1>3, <2>1 DEF pc, r
<1> QED BY <1>1, <1>7, <1>8

LEMMA GotoPlaced ==
    ASSUME ThreadsOK, NEW t \in Threads, NEW pc \in PCs, Goto(t, pc), thread[t].pc \notin Unasked,
           pc \notin {"accepted", "reuse"}, pc \in InsidePCs \/ thread[t].permit = "none"
    PROVE  OthersStay(t) /\ WellPlaced(thread'[t])
BY GotoFacts, AskedFacts, StaysPlaced

LEMMA LeavePlaced ==
    ASSUME ThreadsOK, NEW t \in Threads, NEW pc \in PCs, Leave(t, Outside(t, pc)), thread[t].pc \notin Unasked,
           pc \notin {"accepted", "reuse"}
    PROVE  OthersStay(t) /\ WellPlaced(thread'[t])
BY LeaveMoves, OutsideFacts, AskedFacts, StaysPlaced

LEMMA SetPlaced ==
    ASSUME ThreadsOK, NEW t \in Threads, NEW y, Moved(t, y),
           \/ y \in {Gone, Idle}
           \/ \E c \in Cases, pc \in {"case", "ack"} : y = [Idle EXCEPT !.pc = pc, !.case = c]
           \/ \E c \in Cases : y = [Idle EXCEPT !.pc = "want", !.case = c, !.i = 1, !.req = Plan[c][1]]
    PROVE  OthersStay(t) /\ WellPlaced(thread'[t])
<1>1. OthersStay(t) /\ thread'[t] = y
  BY MovedFacts
<1>2. CASE y \in {Gone, Idle}
  BY <1>1, <1>2, IdleFacts DEF WellPlaced, Fields, Unasked, Unassigned
<1>3. ASSUME NEW c \in Cases, NEW pc \in {"case", "ack"}, y = [Idle EXCEPT !.pc = pc, !.case = c]
      PROVE  WellPlaced(y)
  <2>1. Fields(y, pc, c, 0, None, "none", 0)
    BY <1>3, IdleFacts
  <2> QED BY <2>1 DEF WellPlaced, Fields, Unasked, Unassigned
<1>4. ASSUME NEW c \in Cases, y = [Idle EXCEPT !.pc = "want", !.case = c, !.i = 1, !.req = Plan[c][1]]
      PROVE  WellPlaced(y)
  <2>1. Fields(y, "want", c, 1, Plan[c][1], "none", 0) /\ 1 \in 1..Len(Plan[c])
        /\ Plan[c][1] \in Alternatives(Plan[c][1])
    BY <1>4, WantFacts, PlanFacts
  <2> QED BY <2>1 DEF WellPlaced, Fields
<1> QED BY <1>1, <1>2, <1>3, <1>4

\* Every step of a thread leaves the others alone and the thread well placed.
LEMMA StepPlaced ==
    ASSUME ThreadsOK, TokensOK, NEW t \in Threads, Step(t)
    PROVE  OthersStay(t) /\ WellPlaced(thread'[t]) /\ thread[t].pc # "gone"
<1> DEFINE x == thread[t]
           Good == OthersStay(t) /\ WellPlaced(thread'[t]) /\ x.pc # "gone"
<1> SUFFICES Good
  OBVIOUS
<1>0. /\ WellPlaced(x) /\ x \in ThreadSet
      /\ x.pc \notin Unassigned => x.case \in Cases
      /\ x.pc \notin Unasked => x.req \in Requests
      /\ x.permit # "none" => x.pc \in InsidePCs
      /\ Idle.pc = "idle"
  BY AskedFacts, IdleFacts DEF WellPlaced, Fields
<1>1. CASE TakeCase(t) \/ Quit(t) \/ OpenCase(t) \/ Ack(t) \/ LeavePending(t) \/ EgressFails(t)
  <2>1. PICK y : /\ Moved(t, y) /\ x.pc # "gone"
                 /\ \/ y \in {Gone, Idle}
                    \/ \E c \in Cases, pc \in {"case", "ack"} : y = [Idle EXCEPT !.pc = pc, !.case = c]
                    \/ \E c \in Cases : y = [Idle EXCEPT !.pc = "want", !.case = c, !.i = 1, !.req = Plan[c][1]]
    <3>1. CASE TakeCase(t)
      BY <1>0, <3>1 DEF TakeCase, Moved
    <3>2. CASE Quit(t) \/ Ack(t) \/ LeavePending(t) \/ EgressFails(t)
      BY <1>0, <3>2 DEF Quit, Ack, LeavePending, EgressFails, Moved
    <3>3. CASE OpenCase(t)
      <4>1. x.pc = "case" /\ x.case \in Cases
        BY <1>0, <3>3 DEF OpenCase, Unassigned
      <4>2. \/ Moved(t, [Idle EXCEPT !.pc = "ack", !.case = x.case]) \/ Moved(t, Gone)
            \/ Moved(t, [Idle EXCEPT !.pc = "want", !.case = x.case, !.i = 1, !.req = Plan[x.case][1]])
        BY <3>3 DEF OpenCase, Moved
      <4> QED BY <4>1, <4>2
    <3> QED BY <1>1, <3>1, <3>2, <3>3
  <2> QED BY <2>1, SetPlaced
<1>2. CASE Review(t) \/ Reject(t) \/ Finish(t)
  <2>1. /\ Moved(t, [Idle EXCEPT !.pc = "ack", !.case = x.case])
        /\ x.pc \in {"fail", "rejected", "finished"}
    BY <1>2 DEF Review, Reject, Finish, WriteOutcome, Moved
  <2>2. x.case \in Cases
    BY <1>0, <2>1 DEF Unassigned
  <2> QED BY <2>1, <2>2, SetPlaced
<1>3. CASE EnterWithPermit(t)
  <2>1. x.pc = "slot"
    BY <1>3 DEF EnterWithPermit, MayEnter
  <2> QED BY <1>0, <1>3, <2>1, EnterFacts, StaysPlaced DEF Unasked, InsidePCs, PCs
<1>4. CASE TakeLock(t) \/ EnterWithoutPermit(t)
  <2>1. x.pc \in {"want", "slot"} /\ \E pc \in {"slot", "claim", "fail"} : Goto(t, pc)
    BY <1>4 DEF TakeLock, EnterWithoutPermit, MayEnter
  <2>2. x.permit = "none" /\ x.pc \notin Unasked /\ {"slot", "claim", "fail"} \subseteq PCs
    BY <1>0, <2>1 DEF InsidePCs, Unasked, PCs
  <2> QED BY <2>1, <2>2, GotoPlaced
<1>5. CASE Claim(t)
  <2>1. x.pc = "claim"
    BY <1>5 DEF Claim
  <2> QED BY <1>0, <1>5, <2>1, ClaimFacts, StaysPlaced DEF Unasked, InsidePCs, PCs
<1>6. CASE ClaimBlocked(t)
  <2>1. x.pc = "claim" /\ x.pc \notin Unasked /\ {"complete", "fail"} \subseteq PCs /\ "complete" \in InsidePCs
    BY <1>6 DEF ClaimBlocked, Unasked, PCs, InsidePCs
  <2>2. CASE Leave(t, Outside(t, "fail"))
    BY <2>1, <2>2, LeavePlaced
  <2>3. CASE Fields(thread'[t], "complete", x.case, x.i, x.req, x.permit, owner[x.case][x.req])
    <3>1. WellPlaced(thread'[t])
      BY <1>0, <2>1, <2>3, StaysPlaced
    <3> QED BY <1>6, <2>1, <3>1, ClaimBlockedFacts
  <2> QED BY <1>6, <2>2, <2>3, ClaimBlockedFacts
<1>7. CASE ClaimCached(t) \/ Break(t)
  <2>1. /\ x.pc \in InsidePCs
        /\ Leave(t, Outside(t, "paid")) \/ Leave(t, Outside(t, "fail"))
    BY <1>7 DEF ClaimCached, Break, InsidePCs
  <2> QED BY <2>1, LeavePlaced DEF Unasked, InsidePCs, PCs
<1>8. CASE WriteOwner(t) \/ WriteStarted(t) \/ Send(t) \/ Answer(t) \/ ProviderRejects(t) \/ WriteResponse(t)
           \/ Complete(t) \/ Release(t)
  <2>1. /\ x.pc \in InsidePCs
        /\ (\E pc \in InsidePCs : Goto(t, pc)) \/ (\E pc \in {"paid", "fail"} : Leave(t, Outside(t, pc)))
    BY <1>8 DEF WriteOwner, WriteStarted, Send, Answer, ProviderRejects, WriteResponse, Complete,
       Release, InsidePCs
  <2> QED BY <2>1, GotoPlaced, LeavePlaced DEF Unasked, InsidePCs, PCs
<1>9. CASE Issue(t)
  <2>1. x.pc = "issue"
    BY <1>9 DEF Issue
  <2> QED BY <1>0, <1>9, <2>1, IssueFacts, StaysPlaced DEF Unasked, InsidePCs, PCs
<1>10. CASE Rename(t)
  <2>1. x.pc = "rename" /\ x.pc \notin Unasked /\ {"want", "fail"} \subseteq PCs
    BY <1>10 DEF Rename, Unasked, PCs
  <2>2. CASE Leave(t, Outside(t, "fail"))
    BY <2>1, <2>2, LeavePlaced
  <2>3. CASE Backup[x.req] # None /\ Leave(t, [Outside(t, "want") EXCEPT !.req = Backup[x.req]])
    <3>1. x.i \in 1..Len(Plan[x.case]) /\ x.case \in Cases /\ x.req \in Alternatives(Plan[x.case][x.i])
          /\ Plan[x.case][x.i] \in Requests
      BY <2>1, AskedFacts, PlanFacts DEF Unasked, Unassigned
    <3>2. Backup[x.req] \in Alternatives(Plan[x.case][x.i]) /\ Backup[x.req] \in Requests
      BY <2>3, <3>1, AlternativesFacts DEF Alternatives
    <3>3. OthersStay(t) /\ Fields(thread'[t], "want", x.case, x.i, Backup[x.req], "none", 0)
      BY <2>1, <2>3, <3>2, LeaveMoves, OutsideFacts
    <3>4. WellPlaced(thread'[t])
      BY <3>1, <3>2, <3>3 DEF WellPlaced, Fields
    <3> QED BY <2>1, <3>3, <3>4
  <2> QED BY <1>10, <2>2, <2>3 DEF Rename
<1>11. CASE RejectBelow(t) \/ Reuse(t) \/ Persist(t)
  <2>1. /\ x.pc \in {"paid", "reuse", "persist"}
        /\ \E pc \in {"rejected", "fail", "want", "persist", "finished"} : Goto(t, pc)
    BY <1>11 DEF RejectBelow, Reuse, Persist, AfterReuse
  <2>2. x.permit = "none" /\ x.pc \notin Unasked
    BY <1>0, <2>1 DEF InsidePCs, Unasked
  <2> QED BY <2>1, <2>2, GotoPlaced DEF PCs
<1>12. CASE Admit(t)
  <2>1. /\ x.pc = "paid" /\ x.i = 1 /\ Len(Plan[x.case]) > 1
        /\ Goto(t, "accepted") \/ Goto(t, "fail") \/ Moved(t, Gone)
    BY <1>12 DEF Admit, Moved
  <2>2. CASE Moved(t, Gone)
    BY <2>1, <2>2, SetPlaced
  <2>3. CASE Goto(t, "accepted")
    <3>1. OthersStay(t) /\ Fields(thread'[t], "accepted", x.case, x.i, x.req, x.permit, x.token)
      BY <2>3, GotoFacts DEF PCs
    <3>2. x.permit = "none"
      BY <1>0, <2>1 DEF InsidePCs
    <3>3. WellPlaced(thread'[t])
      BY <1>0, <2>1, <3>1, <3>2 DEF WellPlaced, Fields, Unasked, Unassigned
    <3> QED BY <2>1, <3>1, <3>3
  <2>4. CASE Goto(t, "fail")
    <3>1. x.permit = "none" /\ x.pc \notin Unasked /\ "fail" \in PCs
      BY <1>0, <2>1 DEF InsidePCs, Unasked, PCs
    <3> QED BY <2>1, <2>4, <3>1, GotoPlaced
  <2> QED BY <2>1, <2>2, <2>3, <2>4
<1>13. CASE Proceed(t)
  <2>1. x.pc \in {"accepted", "paid"}
    BY <1>13 DEF Proceed
  <2>2. x.permit = "none" /\ x.case \in Cases /\ x.pc \notin Unasked
    BY <1>0, <2>1 DEF InsidePCs, Unasked, Unassigned
  <2>3. OthersStay(t)
    BY <1>13, ProceedFacts
  <2>4. CASE \E pc \in {"fail", "finished"} : Fields(thread'[t], pc, x.case, x.i, x.req, x.permit, x.token)
    BY <1>0, <2>1, <2>2, <2>3, <2>4, StaysPlaced DEF PCs
  <2>5. ASSUME NEW r, x.i + 1 \in 1..Len(Plan[x.case]), r = Plan[x.case][x.i + 1], NEW pc \in {"reuse", "want"},
               Fields(thread'[t], pc, x.case, x.i + 1, r, x.permit, x.token)
        PROVE  WellPlaced(thread'[t])
    <3>1. r \in Alternatives(Plan[x.case][x.i + 1])
      BY <2>2, <2>5, PlanFacts
    <3> QED BY <2>2, <2>5, <3>1 DEF WellPlaced, Fields
  <2> QED BY <1>13, <2>1, <2>3, <2>4, <2>5, ProceedFacts
<1> QED BY <1>1, <1>2, <1>3, <1>4, <1>5, <1>6, <1>7, <1>8, <1>9, <1>10, <1>11, <1>12, <1>13 DEF Step

-----------------------------------------------------------------------------
(* The ceilings                                                            *)

Held(p)   == {t \in Threads : thread[t].permit = "held" /\ Provider(thread[t].req) = p}
At(p, pc) == {t \in Threads : thread[t].pc = pc /\ Provider(thread[t].req) = p}

Left(p, f) == {n \in 1..Len(sends) : Provider(sends[n].req) = p /\ sends[n].folder = f}

SendSet == [req : Requests, st : {"flying", "charged", "free"}, folder : 1..MaxFolders]

SendsOK ==
    /\ sends \in Seq(SendSet)
    /\ folder \in 1..MaxFolders
    /\ \A n \in 1..Len(sends) : sends[n].folder <= folder

AcceptedOK == IsFiniteSet(accepted) /\ Cardinality(accepted) <= MaxAccepted

LimitsOK ==
    /\ calls \in [Providers -> Nat] /\ reserved \in [Providers -> Nat] /\ audit \in [Providers -> Nat]

LEMMA CountChange ==
    ASSUME NEW T, IsFiniteSet(T), NEW t \in T, NEW A \in SUBSET T, NEW B \in SUBSET T,
           \A u \in T \ {t} : u \in A <=> u \in B
    PROVE  /\ Cardinality(A) \in Nat /\ Cardinality(B) \in Nat
           /\ (t \in A <=> t \in B) => Cardinality(B) = Cardinality(A)
           /\ t \in B /\ t \notin A => Cardinality(B) = Cardinality(A) + 1
           /\ t \in A /\ t \notin B => Cardinality(A) = Cardinality(B) + 1
<1>1. IsFiniteSet(A) /\ IsFiniteSet(B)
  BY FS_Subset
<1>2. Cardinality(A) \in Nat /\ Cardinality(B) \in Nat
  BY <1>1, FS_CardinalityType
<1>3. ASSUME t \in A <=> t \in B PROVE A = B
  BY <1>3
<1>4. ASSUME t \in B, t \notin A PROVE Cardinality(B) = Cardinality(A) + 1
  <2>1. B = A \cup {t}
    BY <1>4
  <2> QED BY <1>1, <1>4, <2>1, FS_AddElement
<1>5. ASSUME t \in A, t \notin B PROVE Cardinality(A) = Cardinality(B) + 1
  <2>1. A = B \cup {t}
    BY <1>5
  <2> QED BY <1>1, <1>5, <2>1, FS_AddElement
<1> QED BY <1>2, <1>3, <1>4, <1>5

\* How the sets of threads change when one thread moves.
LEMMA HeldChange ==
    ASSUME NEW t \in Threads, OthersStay(t), NEW p
    PROVE  LET was == thread[t].permit = "held" /\ Provider(thread[t].req) = p
               is  == thread'[t].permit = "held" /\ Provider(thread'[t].req) = p
               h   == Cardinality(Held(p))
               g   == Cardinality(Held(p)')
           IN  /\ h \in Nat /\ g \in Nat
               /\ (was <=> is) => g = h
               /\ is /\ ~was => g = h + 1
               /\ was /\ ~is => h = g + 1
<1>1. Held(p) \in SUBSET Threads /\ Held(p)' \in SUBSET Threads /\ IsFiniteSet(Threads)
  BY PaymentsAssumption DEF Held
<1>2. \A u \in Threads \ {t} : u \in Held(p) <=> u \in Held(p)'
  BY DEF OthersStay, Held, Provider
<1>3. /\ t \in Held(p) <=> (thread[t].permit = "held" /\ Provider(thread[t].req) = p)
      /\ t \in Held(p)' <=> (thread'[t].permit = "held" /\ Provider(thread'[t].req) = p)
  BY DEF Held, Provider
<1> HIDE DEF Held, Provider
<1> QED BY <1>1, <1>2, <1>3, CountChange

LEMMA AtChange ==
    ASSUME NEW t \in Threads, OthersStay(t), NEW p, NEW pc
    PROVE  LET was == thread[t].pc = pc /\ Provider(thread[t].req) = p
               is  == thread'[t].pc = pc /\ Provider(thread'[t].req) = p
               h   == Cardinality(At(p, pc))
               g   == Cardinality(At(p, pc)')
           IN  /\ h \in Nat /\ g \in Nat
               /\ (was <=> is) => g = h
               /\ is /\ ~was => g = h + 1
               /\ was /\ ~is => h = g + 1
<1>1. At(p, pc) \in SUBSET Threads /\ At(p, pc)' \in SUBSET Threads /\ IsFiniteSet(Threads)
  BY PaymentsAssumption DEF At
<1>2. \A u \in Threads \ {t} : u \in At(p, pc) <=> u \in At(p, pc)'
  BY DEF OthersStay, At, Provider
<1>3. /\ t \in At(p, pc) <=> (thread[t].pc = pc /\ Provider(thread[t].req) = p)
      /\ t \in At(p, pc)' <=> (thread'[t].pc = pc /\ Provider(thread'[t].req) = p)
  BY DEF At, Provider
<1> HIDE DEF At, Provider
<1> QED BY <1>1, <1>2, <1>3, CountChange

\* Billing, answers and rejections rewrite the status of a request only.
SameRequests ==
    /\ Len(sends') = Len(sends)
    /\ \A n \in 1..Len(sends) : sends'[n].req = sends[n].req /\ sends'[n].folder = sends[n].folder

LEMMA StatusKeepsRequests ==
    ASSUME SendsOK, NEW n, NEW st \in {"flying", "charged", "free"}, sends' = [sends EXCEPT ![n].st = st]
    PROVE  /\ SameRequests /\ sends' \in Seq(SendSet)
           /\ \A m \in 1..Len(sends) : sends'[m].st = IF m = n THEN st ELSE sends[m].st
<1>1. sends \in Seq(SendSet) /\ Len(sends) \in Nat /\ DOMAIN sends = 1..Len(sends)
  BY DEF SendsOK
<1>2. ASSUME NEW m \in 1..Len(sends)
      PROVE  /\ sends'[m] \in SendSet /\ sends'[m].req = sends[m].req /\ sends'[m].folder = sends[m].folder
             /\ sends'[m].st = IF m = n THEN st ELSE sends[m].st
  <2>1. sends[m] \in SendSet
    BY <1>1
  <2>2. CASE m = n
    <3> DEFINE e == [sends[n] EXCEPT !.st = st]
    <3>1. sends' = [sends EXCEPT ![n] = e]
      OBVIOUS
    <3>2. e \in SendSet /\ e.req = sends[m].req /\ e.folder = sends[m].folder /\ e.st = st
      BY <2>1, <2>2 DEF SendSet
    <3> HIDE DEF e
    <3>3. sends'[m] = e
      BY <1>1, <2>2, <3>1
    <3> QED BY <2>2, <3>2, <3>3
  <2>3. CASE m # n
    <3>1. sends'[m] = sends[m]
      BY <1>1, <2>3
    <3> QED BY <2>1, <2>3, <3>1
  <2> QED BY <2>2, <2>3
<1>3. sends' \in Seq(SendSet) /\ Len(sends') = Len(sends)
  <2>1. sends' \in [1..Len(sends) -> SendSet]
    BY <1>1, <1>2
  <2> QED BY <1>1, <2>1
<1> QED BY <1>2, <1>3 DEF SameRequests

LEMMA LeftFacts ==
    ASSUME SendsOK, NEW p, NEW f
    PROVE  /\ IsFiniteSet(Left(p, f)) /\ Cardinality(Left(p, f)) \in Nat
           /\ f > folder /\ f \in Nat => Left(p, f) = {}
           /\ SameRequests => Left(p, f)' = Left(p, f)
<1>1. Len(sends) \in Nat /\ folder \in Nat
      /\ \A n \in 1..Len(sends) : sends[n].folder \in Nat /\ sends[n].folder <= folder
  <2>1. \A n \in 1..Len(sends) : sends[n] \in SendSet
    BY DEF SendsOK
  <2> QED BY <2>1, PaymentsAssumption DEF SendsOK, SendSet
<1>2. Left(p, f) \in SUBSET (1..Len(sends))
  BY DEF Left
<1>3. IsFiniteSet(Left(p, f)) /\ Cardinality(Left(p, f)) \in Nat
  <2>1. IsFiniteSet(1..Len(sends))
    BY <1>1, FS_Interval
  <2>2. IsFiniteSet(Left(p, f))
    BY <1>2, <2>1, FS_Subset
  <2> QED BY <2>2, FS_CardinalityType
<1>4. ASSUME f > folder, f \in Nat PROVE Left(p, f) = {}
  BY <1>1, <1>4 DEF Left
<1>5. ASSUME SameRequests PROVE Left(p, f)' = Left(p, f)
  BY <1>5 DEF SameRequests, Left, Provider
<1> QED BY <1>3, <1>4, <1>5

\* A request that leaves counts for its provider in the current folder.
LEMMA SendFacts ==
    ASSUME SendsOK, NEW r \in Requests,
           sends' = Append(sends, [req |-> r, st |-> "flying", folder |-> folder])
    PROVE  /\ Len(sends') = Len(sends) + 1 /\ Len(sends) \in Nat
           /\ sends' \in Seq(SendSet)
           /\ sends'[Len(sends) + 1] = [req |-> r, st |-> "flying", folder |-> folder]
           /\ \A n \in 1..Len(sends) : sends'[n] = sends[n]
           /\ \A p, f : Cardinality(Left(p, f)') =
                  Cardinality(Left(p, f)) + (IF p = Provider(r) /\ f = folder THEN 1 ELSE 0)
<1> DEFINE e == [req |-> r, st |-> "flying", folder |-> folder]
<1>1. e \in SendSet /\ Len(sends) \in Nat /\ sends \in Seq(SendSet)
  BY DEF SendsOK, SendSet
<1>2. e.req = r /\ e.folder = folder /\ sends' = Append(sends, e)
  OBVIOUS
<1> HIDE DEF e
<1>3. /\ Len(sends') = Len(sends) + 1 /\ sends' \in Seq(SendSet) /\ sends'[Len(sends) + 1] = e
      /\ \A n \in 1..Len(sends) : sends'[n] = sends[n]
  BY <1>1, <1>2
<1>4. ASSUME NEW p, NEW f
      PROVE  Cardinality(Left(p, f)') = Cardinality(Left(p, f)) + (IF p = Provider(r) /\ f = folder THEN 1 ELSE 0)
  <2>0. Len(sends) + 1 \notin Left(p, f)
    BY <1>1 DEF Left
  <2>1. IsFiniteSet(Left(p, f)) /\ Cardinality(Left(p, f)) \in Nat
    BY LeftFacts
  <2>2. \A n \in 1..(Len(sends) + 1) : n \in Left(p, f)' <=>
           \/ n \in Left(p, f)
           \/ n = Len(sends) + 1 /\ p = Provider(r) /\ f = folder
    BY <1>1, <1>2, <1>3 DEF Left, Provider
  <2>3. Left(p, f)' \subseteq 1..(Len(sends) + 1) /\ Left(p, f) \subseteq 1..(Len(sends) + 1)
    BY <1>1, <1>3 DEF Left
  <2>4. CASE p = Provider(r) /\ f = folder
    <3>1. Left(p, f)' = Left(p, f) \cup {Len(sends) + 1}
      BY <1>1, <2>2, <2>3, <2>4
    <3> QED BY <2>0, <2>1, <2>4, <3>1, FS_AddElement
  <2>5. CASE ~(p = Provider(r) /\ f = folder)
    <3>1. Left(p, f)' = Left(p, f)
      BY <2>2, <2>3, <2>5
    <3> QED BY <2>1, <2>5, <3>1
  <2> QED BY <2>4, <2>5
<1> QED BY <1>1, <1>3, <1>4 DEF e

-----------------------------------------------------------------------------
(* What a step does to the budget                                          *)

Keeps(t) == thread'[t].permit = thread[t].permit /\ (thread[t].permit # "none" => thread'[t].req = thread[t].req)

Quiet(t) ==
    /\ UNCHANGED <<calls, reserved, audit>> /\ SameRequests
    /\ Keeps(t) /\ thread'[t].pc \notin {"start", "send"}

Entered(t) ==
    /\ UNCHANGED <<calls, audit>> /\ SameRequests
    /\ Capacity(Provider(thread[t].req))
    /\ reserved' = [reserved EXCEPT ![Provider(thread[t].req)] = @ + 1]
    /\ thread[t].permit = "none" /\ thread'[t].permit = "held" /\ thread'[t].req = thread[t].req
    /\ thread'[t].pc \notin {"start", "send"}

Exited(t) ==
    /\ UNCHANGED <<calls, audit>> /\ SameRequests
    /\ thread[t].permit = "held" => reserved' = [reserved EXCEPT ![Provider(thread[t].req)] = @ - 1]
    /\ thread[t].permit # "held" => reserved' = reserved
    /\ thread'[t].permit = "none" /\ thread'[t].pc \notin {"start", "send"}

Issued(t) ==
    /\ UNCHANGED audit /\ SameRequests
    /\ reserved' = [reserved EXCEPT ![Provider(thread[t].req)] = @ - 1]
    /\ calls' = [calls EXCEPT ![Provider(thread[t].req)] = @ + 1]
    /\ thread[t].permit = "held" /\ thread'[t].permit = "used" /\ thread'[t].req = thread[t].req
    /\ thread[t].pc = "issue" /\ thread'[t].pc = "start"

Started(t) ==
    /\ UNCHANGED <<calls, reserved>> /\ SameRequests
    /\ audit' = [audit EXCEPT ![Provider(thread[t].req)] = @ + 1]
    /\ thread'[t].permit = thread[t].permit /\ thread'[t].req = thread[t].req
    /\ thread[t].pc = "start" /\ thread'[t].pc = "send"

Sent(t) ==
    /\ UNCHANGED <<calls, reserved, audit>>
    /\ sends' = Append(sends, [req |-> thread[t].req, st |-> "flying", folder |-> folder])
    /\ thread'[t].permit = thread[t].permit /\ thread'[t].req = thread[t].req
    /\ thread[t].pc = "send" /\ thread'[t].pc = "sent"

Budgeted(t) ==
    /\ UNCHANGED folder
    /\ Quiet(t) \/ Entered(t) \/ Exited(t) \/ Issued(t) \/ Started(t) \/ Sent(t)

LEMMA StepBudgeted ==
    ASSUME ThreadsOK, TokensOK, SendsOK, NEW t \in Threads, Step(t)
    PROVE  Budgeted(t)
<1> DEFINE x == thread[t]
<1>0. /\ x \in ThreadSet
      /\ x.pc \notin Unasked => x.req \in Requests
      /\ x.permit # "none" => x.pc \in InsidePCs
      /\ Idle.pc = "idle" /\ Idle.permit = "none" /\ Gone.permit = "none" /\ Gone.pc = "gone"
  BY AskedFacts, IdleFacts DEF WellPlaced, Fields
<1>1. UNCHANGED sends => SameRequests
  BY DEF SameRequests
<1>2. ASSUME NEW pc \in PCs, Goto(t, pc)
      PROVE  /\ UNCHANGED <<calls, reserved>>
             /\ thread'[t].pc = pc /\ thread'[t].permit = x.permit /\ thread'[t].req = x.req
  BY <1>2, GotoFacts DEF Fields, limits
<1>3. ASSUME NEW pc \in PCs, Leave(t, Outside(t, pc)), UNCHANGED <<audit, sends, folder>>,
             pc \notin {"start", "send"}, x.pc \notin Unasked
      PROVE  Budgeted(t)
  <2>1. thread'[t].permit = "none" /\ thread'[t].pc \notin {"start", "send"}
    <3>1. thread'[t] = Outside(t, pc)
      BY <1>3, LeaveMoves
    <3>2. Fields(Outside(t, pc), pc, x.case, x.i, x.req, "none", 0)
      BY <1>0, <1>3, OutsideFacts
    <3> QED BY <1>3, <3>1, <3>2 DEF Fields
  <2>2. /\ UNCHANGED <<calls, audit, folder>> /\ SameRequests
        /\ x.permit = "held" => reserved' = [reserved EXCEPT ![Provider(x.req)] = @ - 1]
        /\ x.permit # "held" => reserved' = reserved
    BY <1>1, <1>3 DEF Leave
  <2> QED BY <2>1, <2>2 DEF Budgeted, Exited
<1>4. ASSUME NEW y, Moved(t, y), y.permit = "none", x.permit = "none", y.pc \notin {"start", "send"},
             UNCHANGED <<calls, reserved, audit, sends, folder>>
      PROVE  Budgeted(t)
  BY <1>1, <1>4, MovedFacts DEF Budgeted, Quiet, Keeps
<1>5. ASSUME NEW pc \in PCs, Goto(t, pc), UNCHANGED <<audit, folder>>, SameRequests,
             pc \notin {"start", "send"}
      PROVE  Budgeted(t)
  BY <1>2, <1>5 DEF Budgeted, Quiet, Keeps
<1>6. CASE TakeCase(t) \/ OpenCase(t) \/ Review(t) \/ Reject(t) \/ Finish(t)
  <2>1. /\ x.pc \in {"idle", "case", "fail", "rejected", "finished"}
        /\ UNCHANGED <<calls, reserved, audit, sends, folder>>
        /\ \/ Moved(t, Gone)
           \/ \E c \in Cases, pc \in {"case", "ack"} : Moved(t, [Idle EXCEPT !.pc = pc, !.case = c])
           \/ \E c \in Cases : Moved(t, [Idle EXCEPT !.pc = "want", !.case = c, !.i = 1, !.req = Plan[c][1]])
    <3>1. CASE TakeCase(t)
      BY <1>0, <3>1 DEF TakeCase, Moved, files, limits, process
    <3>2. CASE OpenCase(t)
      <4>1. x.case \in Cases
        BY <3>2, AskedFacts DEF OpenCase, Unassigned
      <4>2. \/ Moved(t, [Idle EXCEPT !.pc = "ack", !.case = x.case]) \/ Moved(t, Gone)
            \/ Moved(t, [Idle EXCEPT !.pc = "want", !.case = x.case, !.i = 1, !.req = Plan[x.case][1]])
        BY <3>2 DEF OpenCase, Moved
      <4>3. x.pc = "case" /\ UNCHANGED <<calls, reserved, audit, sends, folder>>
        BY <3>2 DEF OpenCase, files, limits, process
      <4> QED BY <4>1, <4>2, <4>3
    <3>3. CASE Review(t) \/ Reject(t) \/ Finish(t)
      <4>1. /\ Moved(t, [Idle EXCEPT !.pc = "ack", !.case = x.case])
            /\ x.pc \in {"fail", "rejected", "finished"}
            /\ UNCHANGED <<calls, reserved, audit, sends, folder>>
        BY <3>3 DEF Review, Reject, Finish, WriteOutcome, Moved, limits, process
      <4>2. x.case \in Cases
        BY <4>1, AskedFacts DEF Unassigned
      <4> QED BY <4>1, <4>2
    <3> QED BY <1>6, <3>1, <3>2, <3>3
  <2>2. x.permit = "none"
    BY <1>0, <2>1 DEF InsidePCs
  <2>3. ASSUME NEW c \in Cases, NEW pc \in {"case", "ack"}, NEW y, y = [Idle EXCEPT !.pc = pc, !.case = c]
        PROVE  y.permit = "none" /\ y.pc = pc
    <3>1. Fields(y, pc, c, 0, None, "none", 0)
      BY <2>3, IdleFacts
    <3> QED BY <3>1 DEF Fields
  <2>4. ASSUME NEW c \in Cases, NEW y, y = [Idle EXCEPT !.pc = "want", !.case = c, !.i = 1, !.req = Plan[c][1]]
        PROVE  y.permit = "none" /\ y.pc = "want"
    BY <2>4, WantFacts DEF Fields
  <2>5. CASE Moved(t, Gone)
    BY <1>0, <1>4, <2>1, <2>2, <2>5
  <2>6. ASSUME NEW c \in Cases, NEW pc \in {"case", "ack"}, NEW y, y = [Idle EXCEPT !.pc = pc, !.case = c],
               Moved(t, y)
        PROVE  Budgeted(t)
    <3>1. y.permit = "none" /\ y.pc = pc
      BY <2>3, <2>6
    <3> QED BY <1>4, <2>1, <2>2, <2>6, <3>1
  <2>7. ASSUME NEW c \in Cases, NEW y, y = [Idle EXCEPT !.pc = "want", !.case = c, !.i = 1, !.req = Plan[c][1]],
               Moved(t, y)
        PROVE  Budgeted(t)
    <3>1. y.permit = "none" /\ y.pc = "want"
      BY <2>4, <2>7
    <3> QED BY <1>4, <2>1, <2>2, <2>7, <3>1
  <2> QED BY <2>1, <2>5, <2>6, <2>7
<1>7. CASE Quit(t) \/ Ack(t) \/ LeavePending(t) \/ EgressFails(t)
  <2>1. /\ x.pc \in {"idle", "case", "ack", "fail", "accepted", "paid"}
        /\ UNCHANGED <<calls, reserved, audit, sends, folder>>
        /\ Moved(t, Gone) \/ Moved(t, Idle)
    BY <1>0, <1>7 DEF Quit, Ack, LeavePending, EgressFails, Moved, files, limits, process
  <2>2. x.permit = "none"
    BY <1>0, <2>1 DEF InsidePCs
  <2> QED BY <1>0, <1>4, <2>1, <2>2
<1>8. CASE EnterWithPermit(t)
  <2>1. x.pc = "slot" /\ UNCHANGED <<calls, audit, sends, folder>> /\ Capacity(Provider(x.req))
        /\ reserved' = [reserved EXCEPT ![Provider(x.req)] = @ + 1]
    BY <1>8 DEF EnterWithPermit, MayEnter, files, process
  <2>2. x.permit = "none"
    BY <1>0, <2>1 DEF InsidePCs
  <2>3. thread'[t].permit = "held" /\ thread'[t].req = x.req /\ thread'[t].pc = "claim"
    BY <1>8, EnterFacts DEF Fields
  <2> QED BY <1>1, <2>1, <2>2, <2>3 DEF Budgeted, Entered
<1>9. CASE Issue(t)
  <2>1. x.pc = "issue" /\ x.permit = "held" /\ UNCHANGED <<audit, sends, folder>>
        /\ reserved' = [reserved EXCEPT ![Provider(x.req)] = @ - 1]
        /\ calls' = [calls EXCEPT ![Provider(x.req)] = @ + 1]
    BY <1>9 DEF Issue, files, process
  <2>2. thread'[t].permit = "used" /\ thread'[t].req = x.req /\ thread'[t].pc = "start"
    BY <1>9, IssueFacts DEF Fields
  <2> QED BY <1>1, <2>1, <2>2 DEF Budgeted, Issued
<1>10. CASE WriteStarted(t)
  <2>1. x.pc = "start" /\ UNCHANGED <<sends, folder>> /\ Goto(t, "send")
        /\ audit' = [audit EXCEPT ![Provider(x.req)] = @ + 1]
    BY <1>10 DEF WriteStarted, process
  <2> QED BY <1>1, <1>2, <2>1 DEF Budgeted, Started, PCs
<1>11. CASE Send(t)
  <2>1. x.pc = "send" /\ UNCHANGED <<audit, folder>> /\ Goto(t, "sent")
        /\ sends' = Append(sends, [req |-> x.req, st |-> "flying", folder |-> folder])
    BY <1>11 DEF Send, files, process
  <2> QED BY <1>2, <2>1 DEF Budgeted, Sent, PCs
<1>12. CASE Answer(t) \/ ProviderRejects(t)
  <2>1. /\ UNCHANGED <<audit, folder>>
        /\ Goto(t, "answered") \/ Goto(t, "release")
        /\ \E st \in {"charged", "free"} : sends' = [sends EXCEPT ![SendOf(t)].st = st]
    BY <1>12 DEF Answer, ProviderRejects, files, process
  <2>2. SameRequests
    BY <2>1, StatusKeepsRequests
  <2> QED BY <1>5, <2>1, <2>2 DEF PCs
<1>13. CASE Claim(t)
  <2>1. UNCHANGED <<calls, reserved, audit, sends, folder>>
    BY <1>13 DEF Claim, files, limits, process
  <2> QED BY <1>1, <1>13, <2>1, ClaimFacts DEF Budgeted, Quiet, Keeps, Fields
<1>14. CASE ClaimBlocked(t)
  <2>1. UNCHANGED <<audit, sends, folder>> /\ x.pc = "claim"
    BY <1>14 DEF ClaimBlocked, files, process
  <2>2. CASE Leave(t, Outside(t, "fail"))
    BY <1>3, <2>1, <2>2 DEF PCs, Unasked
  <2>3. CASE Fields(thread'[t], "complete", x.case, x.i, x.req, x.permit, owner[x.case][x.req]) /\ UNCHANGED limits
    BY <1>1, <2>1, <2>3 DEF Budgeted, Quiet, Keeps, Fields, limits
  <2> QED BY <1>14, <2>2, <2>3, ClaimBlockedFacts
<1>15. CASE ClaimCached(t) \/ Break(t)
  <2>1. /\ x.pc \notin Unasked /\ UNCHANGED <<audit, sends, folder>>
        /\ Leave(t, Outside(t, "paid")) \/ Leave(t, Outside(t, "fail"))
    BY <1>15 DEF ClaimCached, Break, Unasked, files, process
  <2> QED BY <1>3, <2>1 DEF PCs
<1>16. CASE WriteOwner(t) \/ WriteResponse(t) \/ Complete(t) \/ Release(t)
  <2>1. /\ x.pc \notin Unasked /\ UNCHANGED <<audit, sends, folder>>
        /\ \/ \E pc \in {"complete", "issue", "rename"} : Goto(t, pc)
           \/ \E pc \in {"paid", "fail"} : Leave(t, Outside(t, pc))
    BY <1>16 DEF WriteOwner, WriteResponse, Complete, Release, Unasked, files, process
  <2>2. ASSUME NEW pc \in {"complete", "issue", "rename"}, Goto(t, pc)
        PROVE  Budgeted(t)
    BY <1>1, <1>5, <2>1, <2>2 DEF PCs
  <2> QED BY <1>3, <2>1, <2>2 DEF PCs
<1>17. CASE Rename(t)
  <2>1. /\ x.pc \notin Unasked /\ UNCHANGED <<audit, sends, folder>>
        /\ \/ Leave(t, Outside(t, "fail"))
           \/ Backup[x.req] # None /\ Leave(t, [Outside(t, "want") EXCEPT !.req = Backup[x.req]])
    BY <1>17 DEF Rename, Unasked, process
  <2>2. CASE Leave(t, Outside(t, "fail"))
    BY <1>3, <2>1, <2>2 DEF PCs
  <2>3. CASE Backup[x.req] # None /\ Leave(t, [Outside(t, "want") EXCEPT !.req = Backup[x.req]])
    <3> DEFINE y == [Outside(t, "want") EXCEPT !.req = Backup[x.req]]
    <3>1. Backup[x.req] \in Requests /\ "want" \in PCs
      BY <1>0, <2>1, <2>3, PaymentsAssumption DEF PCs
    <3>2. Fields(y, "want", x.case, x.i, Backup[x.req], "none", 0)
      BY <3>1, OutsideFacts
    <3> HIDE DEF y
    <3>3. /\ thread'[t].permit = "none" /\ thread'[t].pc = "want" /\ UNCHANGED calls
          /\ x.permit = "held" => reserved' = [reserved EXCEPT ![Provider(x.req)] = @ - 1]
          /\ x.permit # "held" => reserved' = reserved
      <4>1. Leave(t, y)
        BY <2>3 DEF y
      <4> QED BY <3>2, <4>1, LeaveMoves DEF Fields, Leave
    <3> QED BY <1>1, <2>1, <3>3 DEF Budgeted, Exited
  <2> QED BY <2>1, <2>2, <2>3
<1>18. CASE TakeLock(t) \/ EnterWithoutPermit(t) \/ RejectBelow(t) \/ Reuse(t) \/ Persist(t)
  <2>1. /\ UNCHANGED <<audit, sends, folder>>
        /\ \E pc \in {"slot", "claim", "rejected", "fail", "want", "persist", "finished"} : Goto(t, pc)
    <3>1. CASE TakeLock(t) \/ EnterWithoutPermit(t) \/ RejectBelow(t)
      BY <3>1 DEF TakeLock, EnterWithoutPermit, RejectBelow, files, process
    <3>2. CASE Reuse(t)
      BY <3>2 DEF Reuse, AfterReuse, files, process
    <3>3. CASE Persist(t)
      BY <3>3 DEF Persist, files, process
    <3> QED BY <1>18, <3>1, <3>2, <3>3
  <2> QED BY <1>1, <1>5, <2>1 DEF PCs
<1>19. CASE Admit(t)
  <2>1. /\ x.pc = "paid" /\ UNCHANGED <<calls, reserved, audit, sends, folder>>
        /\ Goto(t, "accepted") \/ Goto(t, "fail") \/ Moved(t, Gone)
    BY <1>19 DEF Admit, Moved, Goto, files, limits, process
  <2>2. x.permit = "none"
    BY <1>0, <2>1 DEF InsidePCs
  <2> QED BY <1>0, <1>1, <1>4, <1>5, <2>1, <2>2 DEF PCs
<1>20. CASE Proceed(t)
  <2>1. x.pc \in {"accepted", "paid"} /\ UNCHANGED <<calls, reserved, audit, sends, folder>>
    BY <1>20, ProceedFacts DEF Proceed, files, limits, process
  <2>2. x.permit = "none"
    BY <1>0, <2>1 DEF InsidePCs
  <2>3. thread'[t].permit = "none" /\ thread'[t].pc \notin {"start", "send"}
    BY <1>20, <2>2, ProceedFacts DEF Fields
  <2> QED BY <1>1, <2>1, <2>2, <2>3 DEF Budgeted, Quiet, Keeps
<1> QED BY <1>6, <1>7, <1>8, <1>9, <1>10, <1>11, <1>12, <1>13, <1>14, <1>15, <1>16, <1>17, <1>18, <1>19,
   <1>20 DEF Step

\* What a permit stands for on its way from the reservation to the request: a
\* reserved place, a call, a started receipt, a request.  Each of them bounds the
\* next, in the folder of the run, and a run starts with the calls of its receipts.
BudgetOf(p) ==
    /\ calls[p] + reserved[p] <= Maximum[p]
    /\ audit[p] + Cardinality(At(p, "start")) <= calls[p]
    /\ Cardinality(Left(p, folder)) + Cardinality(At(p, "send")) <= audit[p]
    /\ \A f \in 1..MaxFolders : Cardinality(Left(p, f)) <= Maximum[p]

Exact(p) == reserved[p] = Cardinality(Held(p))

LEMMA BudgetOfStep ==
    ASSUME SendsOK, LimitsOK, NEW t \in Threads, OthersStay(t), Budgeted(t),
           thread[t].pc = "send" => thread[t].req \in Requests,
           NEW p \in Providers, BudgetOf(p), Exact(p)
    PROVE  /\ BudgetOf(p)' /\ Exact(p)'
           /\ calls'[p] \in Nat /\ reserved'[p] \in Nat /\ audit'[p] \in Nat
<1> DEFINE q  == Provider(thread[t].req)
           h  == Cardinality(Held(p))
           h2 == Cardinality(Held(p)')
           s  == Cardinality(At(p, "start"))
           s2 == Cardinality(At(p, "start")')
           e  == Cardinality(At(p, "send"))
           e2 == Cardinality(At(p, "send")')
<1>0. PICK f0 : f0 = folder /\ folder' = f0
  BY DEF Budgeted
<1> DEFINE k  == Cardinality(Left(p, f0))
           k2 == Cardinality(Left(p, f0)')
<1>1. /\ calls[p] \in Nat /\ reserved[p] \in Nat /\ audit[p] \in Nat /\ Maximum[p] \in Nat /\ f0 \in 1..MaxFolders
      /\ q \in DOMAIN calls /\ q \in DOMAIN reserved /\ q \in DOMAIN audit
      /\ p \in DOMAIN calls /\ p \in DOMAIN reserved /\ p \in DOMAIN audit
  BY <1>0, PaymentsAssumption DEF LimitsOK, SendsOK, Provider, Providers
<1>2. /\ h \in Nat /\ h2 \in Nat
      /\ LET was == thread[t].permit = "held" /\ q = p
             is  == thread'[t].permit = "held" /\ Provider(thread'[t].req) = p
         IN  /\ (was <=> is) => h2 = h
             /\ is /\ ~was => h2 = h + 1
             /\ was /\ ~is => h = h2 + 1
  BY HeldChange
<1>3. /\ s \in Nat /\ s2 \in Nat
      /\ LET was == thread[t].pc = "start" /\ q = p
             is  == thread'[t].pc = "start" /\ Provider(thread'[t].req) = p
         IN  /\ (was <=> is) => s2 = s
             /\ is /\ ~was => s2 = s + 1
             /\ was /\ ~is => s = s2 + 1
  BY AtChange
<1>4. /\ e \in Nat /\ e2 \in Nat
      /\ LET was == thread[t].pc = "send" /\ q = p
             is  == thread'[t].pc = "send" /\ Provider(thread'[t].req) = p
         IN  /\ (was <=> is) => e2 = e
             /\ is /\ ~was => e2 = e + 1
             /\ was /\ ~is => e = e2 + 1
  BY AtChange
<1>5. k \in Nat /\ (SameRequests => \A f : Cardinality(Left(p, f)') = Cardinality(Left(p, f)))
  BY LeftFacts
<1>6. /\ calls[p] + reserved[p] <= Maximum[p] /\ audit[p] + s <= calls[p] /\ k + e <= audit[p]
      /\ \A f \in 1..MaxFolders : Cardinality(Left(p, f)) <= Maximum[p]
      /\ reserved[p] = h
  BY <1>0 DEF BudgetOf, Exact
<1> DEFINE Goal == /\ calls'[p] + reserved'[p] <= Maximum[p] /\ audit'[p] + s2 <= calls'[p] /\ k2 + e2 <= audit'[p]
                   /\ \A f \in 1..MaxFolders : Cardinality(Left(p, f)') <= Maximum[p]
                   /\ reserved'[p] = h2
                   /\ calls'[p] \in Nat /\ reserved'[p] \in Nat /\ audit'[p] \in Nat
<1>7. ASSUME Goal
      PROVE  /\ BudgetOf(p)' /\ Exact(p)'
             /\ calls'[p] \in Nat /\ reserved'[p] \in Nat /\ audit'[p] \in Nat
  <2>1. Left(p, folder)' = Left(p, f0)'
    BY <1>0 DEF Left
  <2> QED BY <1>7, <2>1 DEF BudgetOf, Exact
<1> SUFFICES Goal
  BY <1>7
<1> HIDE DEF h, h2, s, s2, e, e2
<1>8. CASE SameRequests
  <2>1. k2 = k /\ \A f \in 1..MaxFolders : Cardinality(Left(p, f)') <= Maximum[p]
    BY <1>5, <1>6, <1>8
  <2> HIDE DEF k, k2
  <2>2. CASE Quiet(t)
    <3>1. calls'[p] = calls[p] /\ reserved'[p] = reserved[p] /\ audit'[p] = audit[p]
      BY <2>2 DEF Quiet
    <3>2. h2 = h /\ s2 <= s /\ e2 <= e
      BY <1>2, <1>3, <1>4, <2>2 DEF Quiet, Keeps
    <3> QED BY <1>1, <1>2, <1>3, <1>4, <1>5, <1>6, <2>1, <3>1, <3>2
  <2>3. CASE Entered(t)
    <3>1. /\ calls'[p] = calls[p] /\ audit'[p] = audit[p]
          /\ reserved'[p] = IF p = q THEN reserved[p] + 1 ELSE reserved[p]
          /\ p = q => calls[p] + reserved[p] < Maximum[p]
      BY <1>1, <2>3 DEF Entered, Capacity
    <3>2. h2 = (IF p = q THEN h + 1 ELSE h) /\ s2 <= s /\ e2 <= e
      BY <1>2, <1>3, <1>4, <2>3 DEF Entered
    <3> HIDE DEF q
    <3> QED BY <1>1, <1>2, <1>3, <1>4, <1>5, <1>6, <2>1, <3>1, <3>2
  <2>4. CASE Exited(t)
    <3>1. /\ calls'[p] = calls[p] /\ audit'[p] = audit[p]
          /\ reserved'[p] = IF p = q /\ thread[t].permit = "held" THEN reserved[p] - 1 ELSE reserved[p]
      BY <1>1, <2>4 DEF Exited
    <3>2. (IF p = q /\ thread[t].permit = "held" THEN h = h2 + 1 ELSE h = h2) /\ s2 <= s /\ e2 <= e
      BY <1>2, <1>3, <1>4, <2>4 DEF Exited
    <3> HIDE DEF q
    <3> QED BY <1>1, <1>2, <1>3, <1>4, <1>5, <1>6, <2>1, <3>1, <3>2
  <2>5. CASE Issued(t)
    <3>1. /\ audit'[p] = audit[p]
          /\ reserved'[p] = IF p = q THEN reserved[p] - 1 ELSE reserved[p]
          /\ calls'[p] = IF p = q THEN calls[p] + 1 ELSE calls[p]
      BY <1>1, <2>5 DEF Issued
    <3>2. (IF p = q THEN h = h2 + 1 ELSE h = h2) /\ s2 = (IF p = q THEN s + 1 ELSE s) /\ e2 <= e
      BY <1>2, <1>3, <1>4, <2>5 DEF Issued
    <3> HIDE DEF q
    <3> QED BY <1>1, <1>2, <1>3, <1>4, <1>5, <1>6, <2>1, <3>1, <3>2
  <2>6. CASE Started(t)
    <3>1. /\ calls'[p] = calls[p] /\ reserved'[p] = reserved[p]
          /\ audit'[p] = IF p = q THEN audit[p] + 1 ELSE audit[p]
      BY <1>1, <2>6 DEF Started
    <3>2. h2 = h /\ (IF p = q THEN s = s2 + 1 ELSE s = s2) /\ e2 = (IF p = q THEN e + 1 ELSE e)
      BY <1>2, <1>3, <1>4, <2>6 DEF Started
    <3> HIDE DEF q
    <3> QED BY <1>1, <1>2, <1>3, <1>4, <1>5, <1>6, <2>1, <3>1, <3>2
  <2>7. CASE Sent(t)
    <3>1. FALSE
      BY <1>8, <2>7, SendFacts DEF Sent, SameRequests
    <3> QED BY <3>1
  <2> QED BY <2>2, <2>3, <2>4, <2>5, <2>6, <2>7 DEF Budgeted
<1>9. CASE Sent(t)
  <2>1. calls'[p] = calls[p] /\ reserved'[p] = reserved[p] /\ audit'[p] = audit[p]
    BY <1>9 DEF Sent
  <2>2. h2 = h /\ s2 = s /\ (IF p = q THEN e = e2 + 1 ELSE e = e2)
    BY <1>2, <1>3, <1>4, <1>9 DEF Sent
  <2>3. /\ thread[t].req \in Requests
        /\ sends' = Append(sends, [req |-> thread[t].req, st |-> "flying", folder |-> folder])
    BY <1>9 DEF Sent
  <2>4. \A f : Cardinality(Left(p, f)') = Cardinality(Left(p, f)) + (IF p = q /\ f = f0 THEN 1 ELSE 0)
    BY <1>0, <2>3, SendFacts
  <2> HIDE DEF q
  <2>5. k2 + e2 = k + e
    BY <1>4, <1>5, <2>2, <2>4
  <2>6. k2 <= Maximum[p]
    <3>1. IF p = q THEN k2 = k + 1 /\ e = e2 + 1 ELSE k2 = k
      BY <1>5, <2>2, <2>4
    <3> HIDE DEF k, k2
    <3> QED BY <1>1, <1>2, <1>3, <1>4, <1>5, <1>6, <3>1
  <2>7. ASSUME NEW f \in 1..MaxFolders
        PROVE  Cardinality(Left(p, f)') <= Maximum[p]
    <3>1. CASE f = f0
      BY <2>6, <3>1
    <3>2. CASE f # f0
      <4>1. Cardinality(Left(p, f)) \in Nat
        BY LeftFacts
      <4> QED BY <1>6, <2>4, <3>2, <4>1
    <3> QED BY <3>1, <3>2
  <2> HIDE DEF k, k2
  <2> QED BY <1>1, <1>2, <1>3, <1>4, <1>5, <1>6, <2>1, <2>2, <2>5, <2>7
<1> QED BY <1>8, <1>9 DEF Budgeted, Quiet, Entered, Exited, Issued, Started

-----------------------------------------------------------------------------
(* The request a thread waits for                                          *)

\* The greatest number of a bounded set, from the theorem that strict inclusion
\* of finite sets is well-founded.
LEMMA GreatestNumber ==
    ASSUME NEW n \in Nat, NEW U \in SUBSET (1..n), U # {}
    PROVE  \E m \in U : \A k \in U : m >= k
<1> DEFINE T == {m..n : m \in U}
<1>1. T \subseteq FiniteSubsetsOf(Nat) /\ T # {}
  <2>1. \A m \in U : m..n \in SUBSET Nat /\ IsFiniteSet(m..n)
    BY FS_Interval
  <2> QED BY <2>1 DEF FiniteSubsetsOf
<1>2. PICK x \in T : \A y \in T : ~(<<y, x>> \in StrictSubsetOrdering(Nat))
  <2> HIDE DEF T
  <2> QED BY <1>1, FS_StrictSubsetOrderingWellFounded, WFMin
<1>3. PICK m \in U : x = m..n
  OBVIOUS
<1>4. ASSUME NEW k \in U, k > m PROVE FALSE
  <2>1. k..n \in T /\ k..n \subseteq m..n /\ m \in m..n /\ m \notin k..n
    BY <1>4
  <2>2. <<k..n, x>> \in StrictSubsetOrdering(Nat)
    BY <1>3, <2>1 DEF StrictSubsetOrdering
  <2> QED BY <1>2, <2>1, <2>2
<1>5. \A k \in U : m >= k
  BY <1>4
<1> QED BY <1>5

SendsFor(r) == {n \in 1..Len(sends) : sends[n].req = r}

LEMMA SendOfFacts ==
    ASSUME SendsOK, NEW t, SendsFor(thread[t].req) # {}
    PROVE  /\ SendOf(t) \in SendsFor(thread[t].req)
           /\ \A n \in SendsFor(thread[t].req) : n <= SendOf(t)
<1> DEFINE U == SendsFor(thread[t].req)
<1>1. Len(sends) \in Nat /\ U \in SUBSET (1..Len(sends)) /\ U # {}
  BY DEF SendsOK, SendsFor
<1>2. SendOf(t) = CHOOSE m \in U : \A k \in U : m >= k
  BY <1>1 DEF SendOf, SelectLastInSeq, Max, SendsFor
<1> HIDE DEF U
<1>3. \E m \in U : \A k \in U : m >= k
  BY <1>1, GreatestNumber
<1>4. SendOf(t) \in U /\ \A k \in U : SendOf(t) >= k
  BY <1>2, <1>3
<1> QED BY <1>1, <1>4 DEF U

\* A thread that waits for an answer, or has it, has sent its request.
SentOK == \A t \in Threads : thread[t].pc \in {"sent", "answered"} => SendsFor(thread[t].req) # {}

-----------------------------------------------------------------------------
(* The types                                                               *)

RowSet(n) == [st : {"absent", "pending", "running", "uncertain", "done"}, token : 0..n]

DataOK ==
    /\ stage \in [Cases -> {"absent", "queued", "pending", "done"}]
    /\ outcome \in [Cases -> {"none", "review", "rejected_below_60", "complete"}]
    /\ accepted \subseteq Cases
    /\ row \in [Requests -> RowSet(claims)]
    /\ current \subseteq Requests
    /\ owner \in [Cases -> [Requests -> 0..claims]]
    /\ response \in [Cases -> [Requests -> 0..Len(sends)]]
    /\ stop \in BOOLEAN
    /\ saved \subseteq 1..Len(sends)
    /\ claims \in Nat /\ starts \in Nat /\ slots \in Nat

HoldsTokens == \A t \in Threads : thread[t].token \in 0..claims

LEMMA TypesGiven ==
    ASSUME DataOK, HoldsTokens, ThreadsOK, LimitsOK, SendsOK
    PROVE  PaymentsTypeOK
<1>1. /\ stage \in [Cases -> {"absent", "queued", "pending", "done"}]
      /\ outcome \in [Cases -> {"none", "review", "rejected_below_60", "complete"}]
      /\ accepted \subseteq Cases /\ current \subseteq Requests /\ stop \in BOOLEAN
      /\ owner \in [Cases -> [Requests -> 0..claims]]
      /\ response \in [Cases -> [Requests -> 0..Len(sends)]]
      /\ saved \subseteq 1..Len(sends)
  BY DEF DataOK
<1>2. row \in [Requests -> [st : {"absent", "pending", "running", "uncertain", "done"}, token : 0..claims]]
  BY DEF DataOK, RowSet
<1>3. ASSUME NEW t \in Threads
      PROVE  /\ thread[t].pc \in PCs
             /\ thread[t].pc \notin {"gone", "idle"} => thread[t].case \in Cases
             /\ thread[t].pc \notin {"gone", "idle", "case", "ack"} => thread[t].req \in Requests
             /\ thread[t].token \in 0..claims
  BY <1>3, AskedFacts DEF ThreadSet, HoldsTokens, Unasked, Unassigned
<1>4. {calls, reserved, audit} \subseteq [Providers -> Nat]
  BY DEF LimitsOK
<1>5. sends \in Seq([req : Requests, st : {"flying", "charged", "free"}, folder : 1..MaxFolders])
  BY DEF SendsOK, SendSet
<1>6. {claims, starts, folder, slots} \subseteq Nat
  BY PaymentsAssumption DEF DataOK, SendsOK
<1> QED BY <1>1, <1>2, <1>3, <1>4, <1>5, <1>6 DEF PaymentsTypeOK

\* The token of a thread is dropped, kept, new, or that of an owner file.
LEMMA StepTokens ==
    ASSUME ThreadsOK, TokensOK, NEW t \in Threads, Step(t)
    PROVE  \/ thread'[t].token = 0 \/ thread'[t].token = thread[t].token
           \/ Claim(t) /\ thread'[t].token = claims + 1
           \/ /\ thread[t].case \in Cases /\ thread[t].req \in Requests
              /\ thread'[t].token = owner[thread[t].case][thread[t].req]
<1> DEFINE x == thread[t]
           Good == \/ thread'[t].token = 0 \/ thread'[t].token = x.token
                   \/ Claim(t) /\ thread'[t].token = claims + 1
                   \/ x.case \in Cases /\ x.req \in Requests /\ thread'[t].token = owner[x.case][x.req]
<1> SUFFICES Good
  OBVIOUS
<1>0. /\ x.pc \notin Unasked => x.req \in Requests /\ x.case \in Cases
      /\ Idle.token = 0 /\ Gone.token = 0
  BY AskedFacts, IdleFacts DEF Fields, Unasked, Unassigned
<1>1. ASSUME NEW pc \in PCs, Goto(t, pc) PROVE Good
  BY <1>1, GotoFacts DEF Fields
<1>2. ASSUME NEW pc \in PCs, Leave(t, Outside(t, pc)), x.pc \notin Unasked PROVE Good
  <2>1. thread'[t] = Outside(t, pc)
    BY <1>2, LeaveMoves
  <2>2. Fields(Outside(t, pc), pc, x.case, x.i, x.req, "none", 0)
    BY <1>0, <1>2, OutsideFacts
  <2> QED BY <2>1, <2>2 DEF Fields
<1>3. ASSUME NEW y, Moved(t, y), y.token = 0 PROVE Good
  BY <1>3, MovedFacts
<1>4. ASSUME NEW c \in Cases, NEW pc \in {"case", "ack"}, NEW y, y = [Idle EXCEPT !.pc = pc, !.case = c], Moved(t, y)
      PROVE  Good
  <2>1. Fields(y, pc, c, 0, None, "none", 0)
    BY <1>4, IdleFacts
  <2> QED BY <1>3, <1>4, <2>1 DEF Fields
<1>5. ASSUME NEW c \in Cases, NEW y, y = [Idle EXCEPT !.pc = "want", !.case = c, !.i = 1, !.req = Plan[c][1]], Moved(t, y)
      PROVE  Good
  <2>1. Fields(y, "want", c, 1, Plan[c][1], "none", 0)
    BY <1>5, WantFacts
  <2> QED BY <1>3, <1>5, <2>1 DEF Fields
<1>6. CASE TakeCase(t)
  <2>1. PICK c \in Cases : Moved(t, [Idle EXCEPT !.pc = "case", !.case = c])
    BY <1>6 DEF TakeCase, Moved
  <2> QED BY <1>4, <2>1
<1>7. CASE OpenCase(t)
  <2>1. x.case \in Cases
    BY <1>7, AskedFacts DEF OpenCase, Unassigned
  <2>2. \/ Moved(t, [Idle EXCEPT !.pc = "ack", !.case = x.case]) \/ Moved(t, Gone)
        \/ Moved(t, [Idle EXCEPT !.pc = "want", !.case = x.case, !.i = 1, !.req = Plan[x.case][1]])
    BY <1>7 DEF OpenCase, Moved
  <2> QED BY <1>0, <1>3, <1>4, <1>5, <2>1, <2>2
<1>8. CASE Review(t) \/ Reject(t) \/ Finish(t)
  <2>1. Moved(t, [Idle EXCEPT !.pc = "ack", !.case = x.case]) /\ x.pc \in {"fail", "rejected", "finished"}
    BY <1>8 DEF Review, Reject, Finish, WriteOutcome, Moved
  <2>2. x.case \in Cases
    BY <1>0, <2>1 DEF Unasked
  <2> QED BY <1>4, <2>1, <2>2
<1>9. CASE Quit(t) \/ Ack(t) \/ LeavePending(t) \/ EgressFails(t)
  <2>1. Moved(t, Gone) \/ Moved(t, Idle)
    BY <1>9 DEF Quit, Ack, LeavePending, EgressFails, Moved
  <2> QED BY <1>0, <1>3, <2>1
<1>10. CASE EnterWithPermit(t) \/ Issue(t) \/ Claim(t) \/ ClaimBlocked(t) \/ Proceed(t)
  <2>1. ClaimBlocked(t) => x.pc = "claim"
    BY DEF ClaimBlocked
  <2>2. ClaimBlocked(t) => x.case \in Cases /\ x.req \in Requests
    BY <1>0, <2>1 DEF Unasked
  <2> QED BY <1>10, <2>2, EnterFacts, IssueFacts, ClaimFacts, ClaimBlockedFacts, ProceedFacts DEF Fields
<1>11. CASE Rename(t)
  <2>1. /\ x.pc \notin Unasked
        /\ \/ Leave(t, Outside(t, "fail"))
           \/ Backup[x.req] # None /\ Leave(t, [Outside(t, "want") EXCEPT !.req = Backup[x.req]])
    BY <1>11 DEF Rename, Unasked
  <2>2. CASE Leave(t, Outside(t, "fail"))
    BY <1>2, <2>1, <2>2 DEF PCs
  <2>3. CASE Backup[x.req] # None /\ Leave(t, [Outside(t, "want") EXCEPT !.req = Backup[x.req]])
    <3> DEFINE y == [Outside(t, "want") EXCEPT !.req = Backup[x.req]]
    <3>1. Backup[x.req] \in Requests /\ "want" \in PCs
      BY <1>0, <2>1, <2>3, PaymentsAssumption DEF PCs
    <3>2. Fields(y, "want", x.case, x.i, Backup[x.req], "none", 0)
      BY <3>1, OutsideFacts
    <3>3. Leave(t, y)
      BY <2>3
    <3> HIDE DEF y
    <3> QED BY <3>2, <3>3, LeaveMoves DEF Fields
  <2> QED BY <2>1, <2>2, <2>3
<1>12. CASE TakeLock(t) \/ EnterWithoutPermit(t) \/ RejectBelow(t) \/ Reuse(t) \/ Persist(t) \/ WriteStarted(t)
            \/ Send(t) \/ Answer(t) \/ ProviderRejects(t)
  <2>1. \E pc \in {"slot", "claim", "rejected", "fail", "want", "persist", "finished", "send", "sent", "answered", "release"} :
           Goto(t, pc)
    <3>1. CASE TakeLock(t) \/ EnterWithoutPermit(t) \/ RejectBelow(t) \/ WriteStarted(t) \/ Send(t) \/ Answer(t)
               \/ ProviderRejects(t)
      BY <3>1 DEF TakeLock, EnterWithoutPermit, RejectBelow, WriteStarted, Send, Answer, ProviderRejects
    <3>2. CASE Reuse(t)
      BY <3>2 DEF Reuse, AfterReuse
    <3>3. CASE Persist(t)
      BY <3>3 DEF Persist
    <3> QED BY <1>12, <3>1, <3>2, <3>3
  <2> QED BY <1>1, <2>1 DEF PCs
<1>13. CASE ClaimCached(t) \/ Break(t) \/ WriteOwner(t) \/ WriteResponse(t) \/ Complete(t) \/ Release(t)
  <2>1. /\ x.pc \notin Unasked
        /\ \/ \E pc \in {"complete", "issue", "rename"} : Goto(t, pc)
           \/ \E pc \in {"paid", "fail"} : Leave(t, Outside(t, pc))
    BY <1>13 DEF ClaimCached, Break, WriteOwner, WriteResponse, Complete, Release, Unasked
  <2> QED BY <1>1, <1>2, <2>1 DEF PCs
<1>14. CASE Admit(t)
  <2>1. Goto(t, "accepted") \/ Goto(t, "fail") \/ Moved(t, Gone)
    BY <1>14 DEF Admit, Moved
  <2> QED BY <1>0, <1>1, <1>3, <2>1 DEF PCs
<1> QED BY <1>6, <1>7, <1>8, <1>9, <1>10, <1>11, <1>12, <1>13, <1>14 DEF Step

Statuses == {"absent", "pending", "running", "uncertain", "done"}

\* A row is set, or only its status.
LEMMA RowFacts ==
    ASSUME NEW n \in Nat, row \in [Requests -> RowSet(n)], NEW r \in Requests, NEW st \in Statuses
    PROVE  /\ row' = [row EXCEPT ![r].st = st] =>
                 /\ row' \in [Requests -> RowSet(n)]
                 /\ row'[r].st = st /\ row'[r].token = row[r].token
                 /\ \A q \in Requests \ {r} : row'[q] = row[q]
           /\ \A k \in 0..n : row' = [row EXCEPT ![r] = [st |-> st, token |-> k]] =>
                 /\ row' \in [Requests -> RowSet(n)]
                 /\ row'[r].st = st /\ row'[r].token = k
                 /\ \A q \in Requests \ {r} : row'[q] = row[q]
<1> DEFINE e == [row[r] EXCEPT !.st = st]
<1>1. row[r] \in RowSet(n)
  OBVIOUS
<1>2. e \in RowSet(n) /\ e.st = st /\ e.token = row[r].token
  BY <1>1 DEF RowSet, Statuses
<1>3. \A k \in 0..n : LET d == [st |-> st, token |-> k] IN d \in RowSet(n) /\ d.st = st /\ d.token = k
  BY DEF RowSet, Statuses
<1>4. row' = [row EXCEPT ![r].st = st] => row' = [row EXCEPT ![r] = e]
  OBVIOUS
<1> HIDE DEF e
<1> QED BY <1>2, <1>3, <1>4

\* What a step does to the rows: nothing, or it changes the row of its request.
RowStep(t) ==
    LET r == thread[t].req
    IN  \/ UNCHANGED <<row, claims>>
        \/ /\ Claim(t) /\ claims' = claims + 1
           /\ row' = [row EXCEPT ![r] = [st |-> "running", token |-> claims + 1]]
        \/ /\ thread[t].pc \in InsidePCs /\ row[r].st \in {"running", "uncertain"} /\ UNCHANGED claims
           /\ \E st \in {"uncertain", "done"} : row' = [row EXCEPT ![r].st = st]
        \/ /\ Release(t) /\ UNCHANGED claims
           /\ row' = [row EXCEPT ![r] = [st |-> "pending", token |-> 0]]

LEMMA StepRows ==
    ASSUME NEW t \in Threads, Step(t)
    PROVE  RowStep(t)
<1>1. CASE Claim(t)
  BY <1>1 DEF RowStep, Claim
<1>2. CASE ClaimBlocked(t)
  BY <1>2 DEF RowStep, ClaimBlocked, InsidePCs
<1>3. CASE Break(t)
  BY <1>3 DEF RowStep, Break, MarkUncertain, InsidePCs
<1>4. CASE WriteResponse(t)
  BY <1>4 DEF RowStep, WriteResponse, MarkUncertain, InsidePCs
<1>5. CASE Complete(t)
  BY <1>5 DEF RowStep, Complete, MarkUncertain, InsidePCs
<1>6. CASE Release(t)
  BY <1>6 DEF RowStep, Release
<1>7. CASE Persist(t)
  BY <1>7 DEF RowStep, Persist
<1>8. CASE \/ TakeCase(t) \/ Quit(t) \/ OpenCase(t) \/ Ack(t)
           \/ Review(t) \/ LeavePending(t) \/ Reject(t) \/ Finish(t)
           \/ TakeLock(t) \/ EnterWithPermit(t) \/ EnterWithoutPermit(t)
  BY <1>8 DEF RowStep, database, TakeCase, Quit, OpenCase, Ack, Review, LeavePending, Reject, Finish, WriteOutcome,
     TakeLock, EnterWithPermit, EnterWithoutPermit
<1>9. CASE \/ ClaimCached(t) \/ WriteOwner(t) \/ Issue(t) \/ WriteStarted(t) \/ Send(t) \/ Answer(t)
           \/ ProviderRejects(t) \/ Rename(t) \/ RejectBelow(t) \/ Admit(t) \/ Proceed(t) \/ EgressFails(t) \/ Reuse(t)
  BY <1>9 DEF RowStep, database, ClaimCached, WriteOwner, Issue, WriteStarted, Send, Answer, ProviderRejects,
     Rename,
     RejectBelow, Admit, Proceed, EgressFails, Reuse
<1> QED BY <1>1, <1>2, <1>3, <1>4, <1>5, <1>6, <1>7, <1>8, <1>9 DEF Step

\* What a step does to the queue, the outcomes and the readings.
LEMMA StepQueue ==
    ASSUME ThreadsOK, NEW t \in Threads, Step(t),
           stage \in [Cases -> {"absent", "queued", "pending", "done"}],
           outcome \in [Cases -> {"none", "review", "rejected_below_60", "complete"}],
           current \subseteq Requests, stop \in BOOLEAN
    PROVE  /\ stage' \in [Cases -> {"absent", "queued", "pending", "done"}]
           /\ outcome' \in [Cases -> {"none", "review", "rejected_below_60", "complete"}]
           /\ current' \subseteq Requests /\ stop' \in BOOLEAN
           /\ starts' = starts /\ folder' = folder /\ slots' = slots
           /\ \/ accepted' = accepted
              \/ \E c \in Cases : CanProcess(c) /\ accepted' = accepted \cup {c}
<1>0. /\ thread[t].pc \notin Unasked => thread[t].req \in Requests /\ thread[t].case \in Cases
      /\ thread[t].pc \notin Unassigned => thread[t].case \in Cases
  BY AskedFacts DEF Unasked, Unassigned
<1>1. CASE TakeCase(t)
  BY <1>1 DEF TakeCase, database, files, process
<1>2. CASE Ack(t)
  BY <1>0, <1>2 DEF Ack, database, files, process, Unassigned
<1>3. CASE Review(t) \/ Reject(t) \/ Finish(t)
  <2>1. /\ thread[t].pc \in {"fail", "rejected", "finished"}
        /\ \E v \in {"review", "rejected_below_60", "complete"} : outcome' = [outcome EXCEPT ![thread[t].case] = v]
        /\ UNCHANGED <<stage, current, stop, starts, folder, slots, accepted>>
    BY <1>3 DEF Review, Reject, Finish, WriteOutcome, database, process
  <2> QED BY <1>0, <2>1 DEF Unasked
<1>4. CASE Admit(t)
  BY <1>0, <1>4 DEF Admit, database, files, process, Unasked
<1>5. CASE Persist(t)
  BY <1>0, <1>5 DEF Persist, files, process, Unasked
<1>6. CASE EgressFails(t)
  BY <1>6 DEF EgressFails, database, files
<1>7. CASE \/ Quit(t) \/ OpenCase(t) \/ LeavePending(t) \/ TakeLock(t) \/ EnterWithPermit(t) \/ EnterWithoutPermit(t)
           \/ Claim(t) \/ ClaimBlocked(t) \/ ClaimCached(t) \/ WriteOwner(t) \/ Issue(t) \/ WriteStarted(t)
  <2>1. UNCHANGED <<stage, outcome, current, stop, starts, folder, slots, accepted>>
    BY <1>7 DEF Quit, OpenCase, LeavePending, TakeLock, EnterWithPermit, EnterWithoutPermit, Claim, ClaimBlocked, ClaimCached,
       WriteOwner, Issue, WriteStarted, database, files, process
  <2> QED BY <2>1
<1>8. CASE \/ Send(t) \/ Answer(t) \/ ProviderRejects(t) \/ Break(t) \/ WriteResponse(t) \/ Complete(t) \/ Release(t)
           \/ Rename(t) \/ RejectBelow(t) \/ Proceed(t) \/ Reuse(t)
  <2>1. UNCHANGED <<stage, outcome, current, stop, starts, folder, slots, accepted>>
    BY <1>8 DEF Send, Answer, ProviderRejects, Break, WriteResponse, Complete, Release, Rename, RejectBelow,
       Proceed,
       Reuse, database, files, process
  <2> QED BY <2>1
<1> QED BY <1>1, <1>2, <1>3, <1>4, <1>5, <1>6, <1>7, <1>8 DEF Step

\* What a step does to the files of a case.
FileStep(t) ==
    LET r == thread[t].req
        c == thread[t].case
    IN  \/ UNCHANGED <<owner, response, saved>>
        \/ /\ WriteOwner(t) /\ owner[c][r] = 0 /\ UNCHANGED <<response, saved>>
           /\ owner' = [owner EXCEPT ![c][r] = thread[t].token]
        \/ /\ Rename(t) /\ UNCHANGED <<response, saved>>
           /\ owner' = [owner EXCEPT ![c][r] = 0]
        \/ /\ WriteResponse(t) /\ response[c][r] = 0 /\ UNCHANGED owner
           /\ response' = [response EXCEPT ![c][r] = SendOf(t)]
           /\ saved' = saved \cup {SendOf(t)}

LEMMA StepFiles ==
    ASSUME NEW t \in Threads, Step(t)
    PROVE  FileStep(t)
<1>1. CASE WriteOwner(t)
  BY <1>1 DEF FileStep, WriteOwner
<1>2. CASE Rename(t)
  BY <1>2 DEF FileStep, Rename
<1>3. CASE WriteResponse(t)
  BY <1>3 DEF FileStep, WriteResponse
<1>4. CASE Review(t) \/ Reject(t) \/ Finish(t) \/ WriteStarted(t)
  BY <1>4 DEF FileStep, Review, Reject, Finish, WriteOutcome, WriteStarted
<1>5. CASE \/ TakeCase(t) \/ Quit(t) \/ OpenCase(t) \/ Ack(t) \/ LeavePending(t)
           \/ TakeLock(t) \/ EnterWithPermit(t) \/ EnterWithoutPermit(t) \/ Claim(t) \/ ClaimBlocked(t)
           \/ ClaimCached(t) \/ Issue(t) \/ Send(t) \/ Answer(t)
  BY <1>5 DEF FileStep, files, TakeCase, Quit, OpenCase, Ack, LeavePending, TakeLock, EnterWithPermit, EnterWithoutPermit,
     Claim,
     ClaimBlocked, ClaimCached, Issue, Send, Answer
<1>6. CASE \/ ProviderRejects(t) \/ Break(t) \/ Complete(t) \/ Release(t) \/ RejectBelow(t) \/ Admit(t) \/ Proceed(t)
           \/ EgressFails(t) \/ Reuse(t) \/ Persist(t)
  BY <1>6 DEF FileStep, files, ProviderRejects, Break, Complete, Release, RejectBelow, Admit, Proceed, EgressFails,
     Reuse, Persist
<1> QED BY <1>1, <1>2, <1>3, <1>4, <1>5, <1>6 DEF Step

\* What a step of a thread does to the requests that left.
SendStep(t) ==
    \/ UNCHANGED sends
    \/ /\ Send(t)
       /\ sends' = Append(sends, [req |-> thread[t].req, st |-> "flying", folder |-> folder])
    \/ Answer(t) /\ sends' = [sends EXCEPT ![SendOf(t)].st = "charged"]
    \/ /\ ProviderRejects(t) /\ sends[SendOf(t)].st = "flying"
       /\ sends' = [sends EXCEPT ![SendOf(t)].st = "free"]

LEMMA StepSends ==
    ASSUME NEW t \in Threads, Step(t)
    PROVE  SendStep(t)
<1>1. CASE Send(t) \/ Answer(t) \/ ProviderRejects(t)
  BY <1>1 DEF SendStep, Send, Answer, ProviderRejects
<1>2. CASE \/ TakeCase(t) \/ Quit(t) \/ OpenCase(t) \/ Ack(t)
           \/ Review(t) \/ LeavePending(t) \/ Reject(t) \/ Finish(t)
           \/ TakeLock(t) \/ EnterWithPermit(t) \/ EnterWithoutPermit(t) \/ Claim(t) \/ ClaimBlocked(t)
  BY <1>2 DEF SendStep, TakeCase, Quit, OpenCase, Ack, Review, LeavePending, Reject, Finish, WriteOutcome,
     TakeLock, EnterWithPermit, EnterWithoutPermit, Claim, ClaimBlocked
<1>3. CASE \/ ClaimCached(t) \/ WriteOwner(t) \/ Issue(t) \/ WriteStarted(t) \/ Break(t) \/ WriteResponse(t)
           \/ Complete(t) \/ Release(t) \/ Rename(t) \/ RejectBelow(t) \/ Admit(t) \/ Proceed(t) \/ EgressFails(t)
           \/ Reuse(t) \/ Persist(t)
  BY <1>3 DEF SendStep, ClaimCached, WriteOwner, Issue, WriteStarted, Break, WriteResponse, Complete, Release,
     Rename,
     RejectBelow, Admit, Proceed, EgressFails, Reuse, Persist
<1> QED BY <1>1, <1>2, <1>3 DEF Step

\* A request stays sent.
LEMMA SendsGrow ==
    ASSUME SendsOK, ThreadsOK, NEW t \in Threads, SendStep(t), UNCHANGED folder
    PROVE  /\ SendsOK' /\ Len(sends') \in Nat /\ Len(sends) <= Len(sends')
           /\ \A n \in 1..Len(sends) : sends'[n].req = sends[n].req
           /\ \A r : SendsFor(r) \subseteq SendsFor(r)'
           /\ Send(t) => SendsFor(thread[t].req)' # {}
<1>0. Len(sends) \in Nat /\ folder \in Nat
  BY PaymentsAssumption DEF SendsOK
<1>1. CASE UNCHANGED sends
  <2>1. ~Send(t)
    BY <1>0, <1>1, SendFacts, AskedFacts DEF Send, Unasked
  <2> QED BY <1>0, <1>1, <2>1 DEF SendsOK, SendsFor
<1>2. CASE Send(t)
  <2>1. /\ thread[t].req \in Requests
        /\ sends' = Append(sends, [req |-> thread[t].req, st |-> "flying", folder |-> folder])
    BY <1>2, AskedFacts DEF Send, Unasked
  <2>2. /\ Len(sends') = Len(sends) + 1 /\ sends' \in Seq(SendSet)
        /\ sends'[Len(sends) + 1] = [req |-> thread[t].req, st |-> "flying", folder |-> folder]
        /\ \A n \in 1..Len(sends) : sends'[n] = sends[n]
    BY <2>1, SendFacts
  <2>3. \A n \in 1..Len(sends') : sends'[n].folder <= folder
    BY <1>0, <2>2 DEF SendsOK
  <2>4. SendsOK'
    BY <2>2, <2>3 DEF SendsOK
  <2>5. \A r : SendsFor(r) \subseteq SendsFor(r)'
    BY <1>0, <2>2 DEF SendsFor
  <2>6. Len(sends) + 1 \in SendsFor(thread[t].req)'
    <3>1. sends'[Len(sends) + 1].req = thread[t].req
      BY <2>2
    <3>2. thread'[t].req = thread[t].req
      BY <1>2, GotoFacts DEF Send, Fields, PCs
    <3> QED BY <1>0, <2>2, <3>1, <3>2 DEF SendsFor
  <2> QED BY <1>0, <2>2, <2>4, <2>5, <2>6
<1>3. ASSUME ~Send(t), NEW st \in {"charged", "free"}, sends' = [sends EXCEPT ![SendOf(t)].st = st]
      PROVE  SendsOK' /\ SameRequests
  <2>1. SameRequests /\ sends' \in Seq(SendSet)
    BY <1>3, StatusKeepsRequests
  <2> QED BY <2>1 DEF SendsOK, SameRequests
<1>4. CASE SendsOK' /\ SameRequests /\ ~Send(t)
  BY <1>0, <1>4 DEF SameRequests, SendsFor
<1> QED BY <1>1, <1>2, <1>3, <1>4 DEF SendStep

-----------------------------------------------------------------------------
(* The way of a thread through the section                                 *)

Works(t) == thread'[t].case = thread[t].case /\ thread'[t].i = thread[t].i /\ thread'[t].req = thread[t].req

InsideStep(t) ==
    \/ EnterWithPermit(t) /\ thread'[t].pc = "claim"
    \/ EnterWithoutPermit(t) /\ thread'[t].pc = "claim"
    \/ Claim(t) /\ thread'[t].pc = "own" /\ thread'[t].token = claims + 1
    \/ /\ ClaimBlocked(t) /\ thread'[t].pc = "complete"
       /\ owner[thread[t].case][thread[t].req] # 0 /\ response[thread[t].case][thread[t].req] # 0
       /\ thread'[t].token = owner[thread[t].case][thread[t].req]
    \/ /\ thread'[t].token = thread[t].token
       /\ \/ WriteOwner(t) /\ thread'[t].pc \in {"complete", "issue"}
          \/ Issue(t) /\ thread'[t].pc = "start"
          \/ WriteStarted(t) /\ thread'[t].pc = "send"
          \/ Send(t) /\ thread'[t].pc = "sent"
          \/ Answer(t) /\ thread'[t].pc = "answered"
          \/ ProviderRejects(t) /\ thread'[t].pc = "release"
          \/ WriteResponse(t) /\ thread'[t].pc = "complete"
          \/ Release(t) /\ thread'[t].pc = "rename"

\* A thread has the lock of a request after a step only by one of its steps, and
\* then with the request it had.
LockedPCs == InsidePCs \cup {"slot"}

LockedStep(t) == InsideStep(t) \/ (TakeLock(t) /\ thread'[t].pc = "slot")

LEMMA StepLocked ==
    ASSUME ThreadsOK, TokensOK, NEW t \in Threads, Step(t), Locked(t)'
    PROVE  Works(t) /\ LockedStep(t)
<1> DEFINE x == thread[t]
           Good == (Works(t) /\ LockedStep(t)) \/ thread'[t].pc \notin LockedPCs
<1>00. SUFFICES Good
  BY DEF Locked, Inside, LockedPCs, InsidePCs
<1>0. /\ x.pc \notin Unasked => x.req \in Requests /\ x.case \in Cases
      /\ Idle.pc = "idle" /\ Gone.pc = "gone" /\ LockedPCs \subseteq PCs
  BY AskedFacts, IdleFacts DEF Fields, Unasked, Unassigned, LockedPCs, InsidePCs, PCs
<1>1. ASSUME NEW pc \in PCs \ LockedPCs, Goto(t, pc) PROVE Good
  BY <1>1, GotoFacts DEF Fields
<1>2. ASSUME NEW pc \in PCs \ LockedPCs, Leave(t, Outside(t, pc)), x.pc \notin Unasked PROVE Good
  <2>1. thread'[t] = Outside(t, pc)
    BY <1>2, LeaveMoves
  <2>2. Fields(Outside(t, pc), pc, x.case, x.i, x.req, "none", 0)
    BY <1>0, <1>2, OutsideFacts
  <2> QED BY <1>2, <2>1, <2>2 DEF Fields
<1>3. ASSUME NEW y, Moved(t, y), y.pc \notin LockedPCs PROVE Good
  BY <1>3, MovedFacts
<1>4. ASSUME NEW c \in Cases, NEW pc \in {"case", "ack"}, NEW y, y = [Idle EXCEPT !.pc = pc, !.case = c], Moved(t, y)
      PROVE  Good
  <2>1. Fields(y, pc, c, 0, None, "none", 0)
    BY <1>4, IdleFacts
  <2> QED BY <1>3, <1>4, <2>1 DEF Fields, LockedPCs, InsidePCs
<1>5. ASSUME NEW c \in Cases, NEW y, y = [Idle EXCEPT !.pc = "want", !.case = c, !.i = 1, !.req = Plan[c][1]], Moved(t, y)
      PROVE  Good
  <2>1. Fields(y, "want", c, 1, Plan[c][1], "none", 0)
    BY <1>5, WantFacts
  <2> QED BY <1>3, <1>5, <2>1 DEF Fields, LockedPCs, InsidePCs
<1>6. CASE TakeCase(t)
  <2>1. PICK c \in Cases : Moved(t, [Idle EXCEPT !.pc = "case", !.case = c])
    BY <1>6 DEF TakeCase, Moved
  <2> QED BY <1>4, <2>1
<1>7. CASE OpenCase(t)
  <2>1. x.case \in Cases
    BY <1>7, AskedFacts DEF OpenCase, Unassigned
  <2>2. \/ Moved(t, [Idle EXCEPT !.pc = "ack", !.case = x.case]) \/ Moved(t, Gone)
        \/ Moved(t, [Idle EXCEPT !.pc = "want", !.case = x.case, !.i = 1, !.req = Plan[x.case][1]])
    BY <1>7 DEF OpenCase, Moved
  <2>3. Gone.pc \notin LockedPCs
    BY <1>0 DEF LockedPCs, InsidePCs
  <2> QED BY <1>3, <1>4, <1>5, <2>1, <2>2, <2>3
<1>8. CASE Review(t) \/ Reject(t) \/ Finish(t)
  <2>1. Moved(t, [Idle EXCEPT !.pc = "ack", !.case = x.case]) /\ x.pc \in {"fail", "rejected", "finished"}
    BY <1>8 DEF Review, Reject, Finish, WriteOutcome, Moved
  <2>2. x.case \in Cases
    BY <1>0, <2>1 DEF Unasked
  <2> QED BY <1>4, <2>1, <2>2
<1>9. CASE Quit(t) \/ Ack(t) \/ LeavePending(t) \/ EgressFails(t)
  <2>1. Moved(t, Gone) \/ Moved(t, Idle)
    BY <1>9 DEF Quit, Ack, LeavePending, EgressFails, Moved
  <2> QED BY <1>0, <1>3, <2>1 DEF LockedPCs, InsidePCs
<1>10. CASE EnterWithPermit(t)
  BY <1>10, EnterFacts DEF Fields, Works, LockedStep, InsideStep
<1>11. CASE Issue(t)
  BY <1>11, IssueFacts DEF Fields, Works, LockedStep, InsideStep
<1>12. CASE Claim(t)
  BY <1>12, ClaimFacts DEF Fields, Works, LockedStep, InsideStep
<1>13. CASE ClaimBlocked(t)
  BY <1>13, ClaimBlockedFacts DEF Fields, Works, LockedStep, InsideStep, LockedPCs, InsidePCs
<1>14. CASE Proceed(t)
  <2>1. thread'[t].pc \in {"fail", "finished", "reuse", "want"}
    BY <1>14, ProceedFacts DEF Fields
  <2> QED BY <2>1 DEF LockedPCs, InsidePCs
<1>15. CASE Rename(t)
  <2>1. /\ x.pc \notin Unasked
        /\ \/ Leave(t, Outside(t, "fail"))
           \/ Backup[x.req] # None /\ Leave(t, [Outside(t, "want") EXCEPT !.req = Backup[x.req]])
    BY <1>15 DEF Rename, Unasked
  <2>2. CASE Leave(t, Outside(t, "fail"))
    BY <1>2, <2>1, <2>2 DEF PCs, LockedPCs, InsidePCs
  <2>3. CASE Backup[x.req] # None /\ Leave(t, [Outside(t, "want") EXCEPT !.req = Backup[x.req]])
    <3> DEFINE y == [Outside(t, "want") EXCEPT !.req = Backup[x.req]]
    <3>1. Backup[x.req] \in Requests /\ "want" \in PCs
      BY <1>0, <2>1, <2>3, PaymentsAssumption DEF PCs
    <3>2. Fields(y, "want", x.case, x.i, Backup[x.req], "none", 0)
      BY <3>1, OutsideFacts
    <3>3. Leave(t, y)
      BY <2>3
    <3> HIDE DEF y
    <3> QED BY <3>2, <3>3, LeaveMoves DEF Fields, LockedPCs, InsidePCs
  <2> QED BY <2>1, <2>2, <2>3
<1>16. CASE RejectBelow(t) \/ Reuse(t) \/ Persist(t)
  <2>1. \E pc \in {"rejected", "fail", "want", "persist", "finished"} : Goto(t, pc)
    BY <1>16 DEF Reuse, AfterReuse, Persist, RejectBelow
  <2> QED BY <1>1, <2>1 DEF PCs, LockedPCs, InsidePCs
<1>17. CASE ClaimCached(t) \/ Break(t)
  <2>1. /\ x.pc \notin Unasked
        /\ \E pc \in {"paid", "fail"} : Leave(t, Outside(t, pc))
    BY <1>17 DEF ClaimCached, Break, Unasked
  <2> QED BY <1>2, <2>1 DEF PCs, LockedPCs, InsidePCs
<1>18. CASE Admit(t)
  <2>1. Goto(t, "accepted") \/ Goto(t, "fail") \/ Moved(t, Gone)
    BY <1>18 DEF Admit, Moved
  <2> QED BY <1>0, <1>1, <1>3, <2>1 DEF PCs, LockedPCs, InsidePCs
<1>19. ASSUME NEW pc \in LockedPCs, Goto(t, pc)
       PROVE  Works(t) /\ thread'[t].pc = pc /\ thread'[t].token = x.token
  BY <1>0, <1>19, GotoFacts DEF Fields, Works
<1>20. CASE TakeLock(t) \/ EnterWithoutPermit(t)
  <2>1. /\ TakeLock(t) => Goto(t, "slot")
        /\ EnterWithoutPermit(t) => Goto(t, "claim") \/ Goto(t, "fail")
    BY DEF TakeLock, EnterWithoutPermit
  <2> QED BY <1>1, <1>19, <1>20, <2>1 DEF PCs, LockedPCs, InsidePCs, LockedStep, InsideStep
<1>21. CASE WriteStarted(t) \/ Send(t) \/ Answer(t) \/ ProviderRejects(t) \/ Release(t)
  <2>1. /\ WriteStarted(t) => Goto(t, "send")
        /\ Send(t) => Goto(t, "sent")
        /\ Answer(t) => Goto(t, "answered")
        /\ ProviderRejects(t) => Goto(t, "release")
        /\ Release(t) => Goto(t, "rename")
    BY DEF WriteStarted, Send, Answer, ProviderRejects, Release
  <2> QED BY <1>19, <1>21, <2>1 DEF LockedPCs, InsidePCs, LockedStep, InsideStep
<1>22. CASE WriteOwner(t) \/ WriteResponse(t) \/ Complete(t)
  <2>1. /\ x.pc \notin Unasked
        /\ \/ \E pc \in {"paid", "fail"} : Leave(t, Outside(t, pc))
           \/ WriteOwner(t) /\ (Goto(t, "complete") \/ Goto(t, "issue"))
           \/ WriteResponse(t) /\ Goto(t, "complete")
    BY <1>22 DEF WriteOwner, WriteResponse, Complete, Unasked
  <2> QED BY <1>2, <1>19, <2>1 DEF PCs, LockedPCs, InsidePCs, LockedStep, InsideStep
<1> QED BY <1>6, <1>7, <1>8, <1>9, <1>10, <1>11, <1>12, <1>13, <1>14, <1>15, <1>16, <1>17, <1>18, <1>20, <1>21,
   <1>22 DEF Step

LEMMA StepInside ==
    ASSUME ThreadsOK, TokensOK, NEW t \in Threads, Step(t), Inside(t)'
    PROVE  Works(t) /\ InsideStep(t)
<1>1. Locked(t)' /\ thread'[t].pc # "slot"
  BY DEF Locked, Inside
<1> QED BY <1>1, StepLocked DEF LockedStep

-----------------------------------------------------------------------------
(* The types and the ceilings are kept by every step                       *)

LEMMA TokensTyped ==
    ASSUME DataOK
    PROVE  TokensOK
BY DEF DataOK, TokensOK

\* Files of a case are typed when one of them is rewritten.
LEMMA FileFacts ==
    ASSUME NEW S, NEW f \in [Cases -> [Requests -> S]], NEW c \in Cases, NEW r \in Requests, NEW v \in S
    PROVE  /\ [f EXCEPT ![c][r] = v] \in [Cases -> [Requests -> S]]
           /\ [f EXCEPT ![c][r] = v][c][r] = v
           /\ \A d \in Cases, q \in Requests : d # c \/ q # r => [f EXCEPT ![c][r] = v][d][q] = f[d][q]
OBVIOUS

LEMMA SentStep ==
    ASSUME ThreadsOK, TokensOK, SendsOK, SentOK, NEW t \in Threads, Step(t), UNCHANGED folder
    PROVE  SentOK'
<1>1. OthersStay(t) /\ SendStep(t) /\ WellPlaced(thread'[t])
  BY StepPlaced, StepSends
<1>2. /\ \A r : SendsFor(r) \subseteq SendsFor(r)'
      /\ Send(t) => SendsFor(thread[t].req)' # {}
  BY <1>1, SendsGrow
<1>3. ASSUME NEW u \in Threads, thread'[u].pc \in {"sent", "answered"}
      PROVE  SendsFor(thread[u].req)' # {}
  <2>1. CASE u # t
    <3>1. thread'[u] = thread[u] /\ SendsFor(thread[u].req) # {}
      BY <1>1, <1>3, <2>1 DEF OthersStay, SentOK
    <3>2. PICK r : r = thread[u].req /\ r = thread'[u].req
      BY <3>1
    <3>3. SendsFor(thread[u].req)' = SendsFor(r)' /\ SendsFor(r) # {}
      BY <3>1, <3>2 DEF SendsFor
    <3> QED BY <1>2, <3>3
  <2>2. CASE u = t
    <3>1. Works(t) /\ InsideStep(t)
      BY <1>3, <2>2, StepInside DEF Inside
    <3>2. Send(t) \/ (Answer(t) /\ thread[t].pc = "sent")
      BY <1>3, <2>2, <3>1 DEF InsideStep, Answer
    <3>3. CASE Send(t)
      BY <1>2, <2>2, <3>3
    <3>4. CASE thread[t].pc = "sent"
      <4>1. PICK r : r = thread[t].req /\ r = thread'[t].req
        BY <3>1 DEF Works
      <4>2. SendsFor(r) # {} /\ SendsFor(thread[t].req)' = SendsFor(r)'
        BY <3>4, <4>1 DEF SentOK, SendsFor
      <4> QED BY <1>2, <2>2, <4>2
    <3> QED BY <3>2, <3>3, <3>4
  <2> QED BY <2>1, <2>2
<1> QED BY <1>3 DEF SentOK

LEMMA DataStep ==
    ASSUME DataOK, HoldsTokens, ThreadsOK, SendsOK, SentOK, NEW t \in Threads, Step(t)
    PROVE  DataOK' /\ HoldsTokens'
<1>0. TokensOK /\ OthersStay(t) /\ SendStep(t) /\ FileStep(t) /\ RowStep(t)
  BY TokensTyped, StepPlaced, StepSends, StepFiles, StepRows
<1>1. /\ stage' \in [Cases -> {"absent", "queued", "pending", "done"}]
      /\ outcome' \in [Cases -> {"none", "review", "rejected_below_60", "complete"}]
      /\ current' \subseteq Requests /\ stop' \in BOOLEAN
      /\ starts' = starts /\ folder' = folder /\ slots' = slots
      /\ accepted' \subseteq Cases
  BY StepQueue DEF DataOK
<1>2. /\ thread[t].pc \notin Unasked => thread[t].req \in Requests /\ thread[t].case \in Cases
      /\ thread[t].token \in 0..claims
      /\ claims \in Nat /\ Len(sends) \in Nat
  BY AskedFacts DEF Unasked, Unassigned, HoldsTokens, DataOK, SendsOK
<1>3. Len(sends') \in Nat /\ Len(sends) <= Len(sends')
  BY <1>0, <1>1, SendsGrow
<1>4. claims' \in Nat /\ row' \in [Requests -> RowSet(claims')] /\ claims <= claims'
  <2>1. CASE UNCHANGED <<row, claims>>
    BY <2>1 DEF DataOK
  <2>2. CASE /\ Claim(t) /\ claims' = claims + 1
             /\ row' = [row EXCEPT ![thread[t].req] = [st |-> "running", token |-> claims + 1]]
    <3>1. thread[t].req \in Requests
      BY <1>2, <2>2 DEF Claim, Unasked
    <3>2. row \in [Requests -> RowSet(claims + 1)] /\ claims + 1 \in Nat /\ claims + 1 \in 0..(claims + 1)
      BY <1>2 DEF DataOK, RowSet
    <3>3. row' \in [Requests -> RowSet(claims + 1)]
      BY <2>2, <3>1, <3>2, RowFacts DEF Statuses
    <3> QED BY <1>2, <2>2, <3>3
  <2>3. ASSUME UNCHANGED claims, thread[t].pc \in InsidePCs,
               \/ \E st \in {"uncertain", "done"} : row' = [row EXCEPT ![thread[t].req].st = st]
               \/ row' = [row EXCEPT ![thread[t].req] = [st |-> "pending", token |-> 0]]
        PROVE  claims' \in Nat /\ row' \in [Requests -> RowSet(claims')] /\ claims <= claims'
    <3>1. thread[t].req \in Requests /\ row \in [Requests -> RowSet(claims)] /\ 0 \in 0..claims
      BY <1>2, <2>3 DEF DataOK, Unasked, InsidePCs
    <3>2. row' \in [Requests -> RowSet(claims)]
      BY <1>2, <2>3, <3>1, RowFacts DEF Statuses
    <3> QED BY <1>2, <2>3, <3>2
  <2>4. Release(t) => thread[t].pc \in InsidePCs
    BY DEF Release, InsidePCs
  <2> QED BY <1>0, <2>1, <2>2, <2>3, <2>4 DEF RowStep
<1>5. owner' \in [Cases -> [Requests -> 0..claims']]
  <2>1. owner \in [Cases -> [Requests -> 0..claims']]
    BY <1>2, <1>4 DEF DataOK
  <2>2. ASSUME NEW v \in 0..claims', owner' = [owner EXCEPT ![thread[t].case][thread[t].req] = v],
               WriteOwner(t) \/ Rename(t)
        PROVE  owner' \in [Cases -> [Requests -> 0..claims']]
    <3>1. thread[t].req \in Requests /\ thread[t].case \in Cases
      BY <1>2, <2>2 DEF WriteOwner, Rename, Unasked
    <3> QED BY <2>1, <2>2, <3>1, FileFacts
  <2>3. thread[t].token \in 0..claims' /\ 0 \in 0..claims'
    BY <1>2, <1>4
  <2> QED BY <1>0, <2>1, <2>2, <2>3 DEF FileStep
<1>6. response' \in [Cases -> [Requests -> 0..Len(sends')]] /\ saved' \subseteq 1..Len(sends')
  <2>1. response \in [Cases -> [Requests -> 0..Len(sends')]] /\ saved \subseteq 1..Len(sends')
    BY <1>2, <1>3 DEF DataOK
  <2>2. ASSUME WriteResponse(t), response' = [response EXCEPT ![thread[t].case][thread[t].req] = SendOf(t)],
               saved' = saved \cup {SendOf(t)}
        PROVE  response' \in [Cases -> [Requests -> 0..Len(sends')]] /\ saved' \subseteq 1..Len(sends')
    <3>1. thread[t].req \in Requests /\ thread[t].case \in Cases /\ thread[t].pc = "answered"
      BY <1>2, <2>2 DEF WriteResponse, Unasked
    <3>2. SendOf(t) \in 1..Len(sends)
      BY <3>1, SendOfFacts DEF SentOK, SendsFor
    <3>3. SendOf(t) \in 0..Len(sends') /\ SendOf(t) \in 1..Len(sends')
      BY <1>2, <1>3, <3>2
    <3>4. response' \in [Cases -> [Requests -> 0..Len(sends')]]
      BY <2>1, <2>2, <3>1, <3>3, FileFacts
    <3> QED BY <2>1, <2>2, <3>3, <3>4
  <2> QED BY <1>0, <2>1, <2>2 DEF FileStep
<1>7. HoldsTokens'
  <2>1. thread'[t].token \in 0..claims'
    <3>1. Claim(t) => claims' = claims + 1
      BY DEF Claim
    <3>2. \A c \in Cases, r \in Requests : owner[c][r] \in 0..claims'
      BY <1>2, <1>4 DEF DataOK
    <3> QED BY <1>0, <1>2, <1>4, <3>1, <3>2, StepTokens
  <2>2. ASSUME NEW u \in Threads \ {t} PROVE thread'[u].token \in 0..claims'
    <3>1. thread'[u].token \in 0..claims
      BY <1>0 DEF OthersStay, HoldsTokens
    <3> QED BY <1>2, <1>4, <3>1
  <2> QED BY <2>1, <2>2 DEF HoldsTokens
<1> QED BY <1>1, <1>4, <1>5, <1>6, <1>7 DEF DataOK

-----------------------------------------------------------------------------
(* The ceilings as an inductive invariant                                  *)

IInv ==
    /\ ThreadsOK /\ DataOK /\ HoldsTokens /\ SendsOK /\ SentOK
    /\ LimitsOK /\ AcceptedOK /\ PermitsAreExact
    /\ \A p \in Providers : BudgetOf(p)

LEMMA ExactIsPermits ==
    PermitsAreExact <=> ((\E t \in Threads : thread[t] # Gone) => \A p \in Providers : Exact(p))
BY DEF PermitsAreExact, Exact, Held

LEMMA InitInvariant == Init => IInv
<1> SUFFICES ASSUME Init PROVE IInv
  OBVIOUS
<1>1. /\ thread = [t \in Threads |-> Gone] /\ sends = <<>> /\ saved = {} /\ folder = 1 /\ claims = 0 /\ starts = 0
      /\ calls = [p \in Providers |-> 0] /\ reserved = calls /\ audit = calls /\ accepted = {} /\ current = {}
      /\ stop = FALSE /\ row = [r \in Requests |-> [st |-> "absent", token |-> 0]]
      /\ outcome = [c \in Cases |-> "none"] /\ owner = NoFiles /\ response = NoFiles
      /\ stage \in [Cases -> {"absent", "queued", "pending", "done"}]
      /\ slots \in Nat
  BY PaymentsAssumption DEF Init
<1>2. Fields(Gone, "gone", None, 0, None, "none", 0) /\ WellPlaced(Gone)
  BY IdleFacts DEF WellPlaced, Fields, Unasked, Unassigned
<1>3. ThreadsOK /\ HoldsTokens /\ SentOK
  BY <1>1, <1>2 DEF ThreadsOK, HoldsTokens, SentOK, Fields
<1>4. Len(sends) = 0 /\ 1..Len(sends) = {}
  BY <1>1
<1>5. DataOK
  <2>1. [st |-> "absent", token |-> 0] \in RowSet(0)
    BY DEF RowSet
  <2>2. row \in [Requests -> RowSet(claims)]
    BY <1>1, <2>1
  <2>3. owner \in [Cases -> [Requests -> 0..claims]] /\ response \in [Cases -> [Requests -> 0..Len(sends)]]
    BY <1>1, <1>4 DEF NoFiles
  <2> QED BY <1>1, <2>2, <2>3 DEF DataOK
<1>6. SendsOK
  BY <1>1, <1>4, PaymentsAssumption DEF SendsOK
<1>7. LimitsOK
  BY <1>1 DEF LimitsOK
<1>8. AcceptedOK
  BY <1>1, FS_EmptySet, PaymentsAssumption DEF AcceptedOK
<1>9. PermitsAreExact
  BY <1>1 DEF PermitsAreExact
<1>10. ASSUME NEW p \in Providers PROVE BudgetOf(p)
  <2>1. At(p, "start") = {} /\ At(p, "send") = {}
    BY <1>1, <1>2 DEF At, Fields
  <2>2. \A f : Left(p, f) = {}
    BY <1>4 DEF Left
  <2>3. calls[p] = 0 /\ reserved[p] = 0 /\ audit[p] = 0 /\ Maximum[p] \in Nat
    BY <1>1, PaymentsAssumption
  <2> QED BY <2>1, <2>2, <2>3, FS_EmptySet DEF BudgetOf
<1> QED BY <1>3, <1>5, <1>6, <1>7, <1>8, <1>9, <1>10 DEF IInv

LEMMA BudgetDomains ==
    ASSUME LimitsOK, NEW t \in Threads, Budgeted(t),
           \A p \in Providers : calls'[p] \in Nat /\ reserved'[p] \in Nat /\ audit'[p] \in Nat
    PROVE  LimitsOK'
<1>1. /\ \E f \in [Providers -> Nat] : \E v : calls' = f \/ calls' = [f EXCEPT ![Provider(thread[t].req)] = v]
      /\ \E f \in [Providers -> Nat] : \E v : reserved' = f \/ reserved' = [f EXCEPT ![Provider(thread[t].req)] = v]
      /\ \E f \in [Providers -> Nat] : \E v : audit' = f \/ audit' = [f EXCEPT ![Provider(thread[t].req)] = v]
  BY DEF LimitsOK, Budgeted, Quiet, Entered, Exited, Issued, Started, Sent
<1>2. /\ calls' = [p \in Providers |-> calls'[p]] /\ reserved' = [p \in Providers |-> reserved'[p]]
      /\ audit' = [p \in Providers |-> audit'[p]]
  BY <1>1
<1> QED BY <1>2 DEF LimitsOK

LEMMA AcceptedStep ==
    ASSUME AcceptedOK, \/ accepted' = accepted
                       \/ \E c \in Cases : CanProcess(c) /\ accepted' = accepted \cup {c}
    PROVE  AcceptedOK'
<1>1. ASSUME NEW c \in Cases, CanProcess(c), accepted' = accepted \cup {c}
      PROVE  AcceptedOK'
  <2>1. IsFiniteSet(accepted) /\ Cardinality(accepted) \in Nat /\ MaxAccepted \in Nat
    BY PaymentsAssumption, FS_CardinalityType DEF AcceptedOK
  <2>2. /\ IsFiniteSet(accepted \cup {c})
        /\ Cardinality(accepted \cup {c}) = IF c \in accepted THEN Cardinality(accepted) ELSE Cardinality(accepted) + 1
    BY <2>1, FS_AddElement
  <2> QED BY <1>1, <2>1, <2>2 DEF AcceptedOK, CanProcess
<1> QED BY <1>1 DEF AcceptedOK

LEMMA ThreadStepInvariant ==
    ASSUME IInv, NEW t \in Threads, Step(t)
    PROVE  IInv'
<1>0. ThreadsOK /\ DataOK /\ HoldsTokens /\ SendsOK /\ SentOK /\ LimitsOK /\ AcceptedOK /\ TokensOK
  BY TokensTyped DEF IInv
<1>1. OthersStay(t) /\ WellPlaced(thread'[t]) /\ thread[t].pc # "gone" /\ Budgeted(t) /\ SendStep(t)
  BY <1>0, StepPlaced, StepBudgeted, StepSends
<1>2. ThreadsOK'
  BY <1>0, <1>1 DEF ThreadsOK, OthersStay
<1>3. DataOK' /\ HoldsTokens' /\ SentOK' /\ SendsOK'
  BY <1>0, <1>1, DataStep, SentStep, SendsGrow DEF Budgeted
<1>4. AcceptedOK'
  BY <1>0, StepQueue, AcceptedStep DEF DataOK
<1>5. \A p \in Providers : BudgetOf(p) /\ Exact(p)
  <2>1. thread[t] # Gone
    BY <1>1, IdleFacts DEF Fields
  <2> QED BY <2>1, ExactIsPermits DEF IInv
<1>6. ASSUME NEW p \in Providers
      PROVE  BudgetOf(p)' /\ Exact(p)' /\ calls'[p] \in Nat /\ reserved'[p] \in Nat /\ audit'[p] \in Nat
  <2>1. thread[t].pc = "send" => thread[t].req \in Requests
    BY <1>0, AskedFacts DEF Unasked
  <2> QED BY <1>0, <1>1, <1>5, <2>1, BudgetOfStep
<1>7. LimitsOK'
  BY <1>0, <1>1, <1>6, BudgetDomains
<1>8. PermitsAreExact'
  BY <1>6, ExactIsPermits DEF PermitsAreExact, Exact, Held
<1> QED BY <1>2, <1>3, <1>4, <1>6, <1>7, <1>8 DEF IInv

\* The sets that the invariant counts, when the threads stay.
LEMMA SameThreads ==
    ASSUME UNCHANGED thread
    PROVE  /\ \A p : Held(p)' = Held(p) /\ (\A pc : At(p, pc)' = At(p, pc))
           /\ ThreadsOK' <=> ThreadsOK
BY DEF Held, At, Provider, ThreadsOK

LEMMA BillInvariant ==
    ASSUME IInv, NEW n \in 1..Len(sends), Bill(n)
    PROVE  IInv'
<1>1. /\ UNCHANGED <<stage, accepted, row, current, claims, outcome, owner, response, audit, saved, thread, calls,
                      reserved, stop, starts, folder, slots>>
      /\ sends' = [sends EXCEPT ![n].st = "charged"]
  BY DEF Bill, database, files, limits, process
<1>2. SameRequests /\ sends' \in Seq(SendSet)
  BY <1>1, StatusKeepsRequests DEF IInv
<1>3. SendsOK'
  BY <1>1, <1>2 DEF SendsOK, SameRequests, IInv
<1>4. ThreadsOK' /\ HoldsTokens' /\ LimitsOK' /\ AcceptedOK'
  BY <1>1 DEF IInv, ThreadsOK, HoldsTokens, LimitsOK, AcceptedOK
<1>5. DataOK'
  BY <1>1, <1>2 DEF IInv, DataOK, SameRequests
<1>6. SentOK'
  BY <1>1, <1>2 DEF IInv, SentOK, SendsFor, SameRequests
<1>7. PermitsAreExact'
  BY <1>1 DEF IInv, PermitsAreExact, Provider
<1>8. ASSUME NEW p \in Providers PROVE BudgetOf(p)'
  <2>1. BudgetOf(p) /\ SendsOK
    BY DEF IInv
  <2>2. \A f : Left(p, f)' = Left(p, f)
    BY <1>2, <2>1, LeftFacts
  <2>3. PICK f0 : f0 = folder /\ f0 = folder'
    BY <1>1
  <2>4. Left(p, folder)' = Left(p, folder)
    <3>1. Left(p, folder)' = Left(p, f0)' /\ Left(p, folder) = Left(p, f0)
      BY <2>3 DEF Left
    <3> QED BY <2>2, <3>1
  <2>5. \A pc : At(p, pc)' = At(p, pc)
    BY <1>1, SameThreads
  <2> QED BY <1>1, <2>1, <2>2, <2>4, <2>5 DEF BudgetOf
<1> QED BY <1>3, <1>4, <1>5, <1>6, <1>7, <1>8 DEF IInv

LEMMA StopInvariant ==
    ASSUME IInv, Stop
    PROVE  IInv'
<1>1. /\ UNCHANGED <<stage, accepted, row, current, claims, outcome, owner, response, audit, saved, thread, calls,
                      reserved, sends, starts, folder, slots>>
      /\ stop' = TRUE
  BY DEF Stop, database, files, limits
<1>2. ThreadsOK' /\ HoldsTokens' /\ LimitsOK' /\ AcceptedOK' /\ SendsOK' /\ DataOK'
  BY <1>1 DEF IInv, ThreadsOK, HoldsTokens, LimitsOK, AcceptedOK, SendsOK, DataOK
<1>3. SentOK' /\ PermitsAreExact'
  BY <1>1 DEF IInv, SentOK, SendsFor, PermitsAreExact, Provider
<1>4. \A p \in Providers : BudgetOf(p)'
  BY <1>1 DEF IInv, BudgetOf, Left, At, Provider
<1> QED BY <1>2, <1>3, <1>4 DEF IInv

\* Threads without a request hold no permit and are at no send.
LEMMA RestFacts ==
    ASSUME NEW x \in {Gone, Idle}, thread' = [t \in Threads |-> x]
    PROVE  /\ ThreadsOK' /\ HoldsTokens' = (\A t \in Threads : 0 \in 0..claims') /\ SentOK'
           /\ \A p : Held(p)' = {} /\ At(p, "start")' = {} /\ At(p, "send")' = {}
<1>1. PICK pc \in {"gone", "idle"} : Fields(x, pc, None, 0, None, "none", 0)
  BY IdleFacts
<1>2. WellPlaced(x) /\ x.token = 0 /\ x.permit = "none" /\ x.pc \in {"gone", "idle"}
  BY <1>1 DEF WellPlaced, Fields, Unasked, Unassigned
<1>3. ThreadsOK' /\ SentOK'
  BY <1>2 DEF ThreadsOK, SentOK
<1>4. HoldsTokens' = (\A t \in Threads : 0 \in 0..claims')
  BY <1>2 DEF HoldsTokens
<1>5. \A p : Held(p)' = {} /\ At(p, "start")' = {} /\ At(p, "send")' = {}
  BY <1>2 DEF Held, At
<1> QED BY <1>3, <1>4, <1>5

LEMMA CrashInvariant ==
    ASSUME IInv, Crash
    PROVE  IInv'
<1>1. /\ UNCHANGED <<stage, accepted, row, current, claims, outcome, owner, response, audit, saved, calls,
                      reserved, sends, stop, starts, folder, slots>>
      /\ thread' = [t \in Threads |-> Gone]
  BY DEF Crash, database, files, limits, process
<1>2. LimitsOK' /\ AcceptedOK' /\ SendsOK' /\ DataOK'
  BY <1>1 DEF IInv, LimitsOK, AcceptedOK, SendsOK, DataOK
<1>3. /\ ThreadsOK' /\ SentOK' /\ HoldsTokens' = (\A t \in Threads : 0 \in 0..claims')
      /\ \A p : Held(p)' = {} /\ At(p, "start")' = {} /\ At(p, "send")' = {}
  BY <1>1, RestFacts
<1>4. HoldsTokens'
  BY <1>2, <1>3 DEF DataOK
<1>5. PermitsAreExact'
  BY <1>1 DEF PermitsAreExact
<1>6. ASSUME NEW p \in Providers PROVE BudgetOf(p)'
  <2>1. /\ IsFiniteSet(Threads) /\ At(p, "start") \subseteq Threads /\ At(p, "send") \subseteq Threads
    BY PaymentsAssumption DEF At
  <2>2. Cardinality(At(p, "start")) \in Nat /\ Cardinality(At(p, "send")) \in Nat
    BY <2>1, FS_Subset, FS_CardinalityType
  <2>3. Cardinality(At(p, "start")') = 0 /\ Cardinality(At(p, "send")') = 0
    BY <1>3, FS_EmptySet
  <2>4. Left(p, folder)' = Left(p, folder) /\ (\A f : Left(p, f)' = Left(p, f))
    BY <1>1 DEF Left
  <2>5. Cardinality(Left(p, folder)) \in Nat /\ audit[p] \in Nat /\ calls[p] \in Nat
    BY LeftFacts DEF IInv, LimitsOK
  <2>6. BudgetOf(p)
    BY DEF IInv
  <2> QED BY <1>1, <2>2, <2>3, <2>4, <2>5, <2>6 DEF BudgetOf
<1> QED BY <1>2, <1>3, <1>4, <1>5, <1>6 DEF IInv

LEMMA StartInvariant ==
    ASSUME IInv, NEW fresh \in BOOLEAN, Start(fresh)
    PROVE  IInv'
<1>0. ThreadsOK /\ DataOK /\ SendsOK /\ LimitsOK /\ AcceptedOK
  BY DEF IInv
<1>1. /\ UNCHANGED <<row, current, claims, saved, sends>>
      /\ thread' = [t \in Threads |-> Idle] /\ stop' = FALSE /\ starts' = starts + 1 /\ slots' = slots
      /\ reserved' = [p \in Providers |-> 0] /\ calls' = audit'
  BY DEF Start, database
<1>2. \/ /\ folder' = folder + 1 /\ folder < MaxFolders
         /\ outcome' = [c \in Cases |-> "none"] /\ owner' = NoFiles /\ response' = NoFiles
         /\ audit' = [p \in Providers |-> 0] /\ accepted' = {}
      \/ UNCHANGED <<folder, outcome, owner, response, audit, accepted>>
  BY DEF Start
<1>3. stage' \in [Cases -> {"absent", "queued", "pending", "done"}]
  BY <1>0 DEF Start, DataOK
<1>4. /\ ThreadsOK' /\ SentOK' /\ HoldsTokens' = (\A t \in Threads : 0 \in 0..claims')
      /\ \A p : Held(p)' = {} /\ At(p, "start")' = {} /\ At(p, "send")' = {}
  BY <1>1, RestFacts
<1>5. DataOK'
  <2>1. \A n \in Nat : NoFiles \in [Cases -> [Requests -> 0..n]]
    BY DEF NoFiles
  <2>2. Len(sends) \in Nat
    BY <1>0 DEF SendsOK
  <2>3. owner' \in [Cases -> [Requests -> 0..claims]] /\ response' \in [Cases -> [Requests -> 0..Len(sends)]]
    BY <1>0, <1>2, <2>1, <2>2 DEF DataOK
  <2>4. accepted' \subseteq Cases /\ outcome' \in [Cases -> {"none", "review", "rejected_below_60", "complete"}]
    BY <1>0, <1>2 DEF DataOK
  <2>5. row' \in [Requests -> RowSet(claims')] /\ claims' \in Nat /\ starts' \in Nat /\ slots' \in Nat /\ current' \subseteq Requests
    BY <1>0, <1>1 DEF DataOK
  <2>6. saved' \subseteq 1..Len(sends') /\ Len(sends') = Len(sends) /\ claims' = claims /\ stop' \in BOOLEAN
    BY <1>0, <1>1 DEF DataOK
  <2> QED BY <1>3, <2>3, <2>4, <2>5, <2>6 DEF DataOK
<1>6. HoldsTokens'
  BY <1>4, <1>5 DEF DataOK
<1>7. SendsOK'
  <2>1. folder' \in 1..MaxFolders /\ folder <= folder' /\ folder \in Nat
    BY <1>0, <1>2, PaymentsAssumption DEF SendsOK
  <2>2. \A n \in 1..Len(sends) : sends[n].folder \in Nat /\ sends[n].folder <= folder
    <3>1. \A n \in 1..Len(sends) : sends[n] \in SendSet
      BY <1>0 DEF SendsOK
    <3> QED BY <1>0, <3>1, PaymentsAssumption DEF SendsOK, SendSet
  <2> QED BY <1>0, <1>1, <2>1, <2>2 DEF SendsOK
<1>8. LimitsOK'
  BY <1>0, <1>1, <1>2 DEF LimitsOK
<1>9. AcceptedOK'
  <2>1. IsFiniteSet({}) /\ Cardinality({}) <= MaxAccepted
    BY FS_EmptySet, PaymentsAssumption
  <2> QED BY <1>0, <1>2, <2>1 DEF AcceptedOK
<1>10. PermitsAreExact'
  BY <1>1, <1>4, FS_EmptySet, ExactIsPermits DEF PermitsAreExact, Held
<1>11. ASSUME NEW p \in Providers PROVE BudgetOf(p)'
  <2>1. /\ IsFiniteSet(Threads) /\ At(p, "start") \subseteq Threads /\ At(p, "send") \subseteq Threads
    BY PaymentsAssumption DEF At
  <2>2. Cardinality(At(p, "start")) \in Nat /\ Cardinality(At(p, "send")) \in Nat
    BY <2>1, FS_Subset, FS_CardinalityType
  <2>3. Cardinality(At(p, "start")') = 0 /\ Cardinality(At(p, "send")') = 0 /\ reserved'[p] = 0
    BY <1>1, <1>4, FS_EmptySet
  <2>4. \A f : Left(p, f)' = Left(p, f)
    BY <1>1 DEF Left
  <2>5. Cardinality(Left(p, folder)) \in Nat /\ audit[p] \in Nat /\ calls[p] \in Nat /\ reserved[p] \in Nat
        /\ Maximum[p] \in Nat
    BY <1>0, LeftFacts, PaymentsAssumption DEF LimitsOK
  <2>6. BudgetOf(p)
    BY DEF IInv
  <2>7. \A f \in 1..MaxFolders : Cardinality(Left(p, f)') <= Maximum[p]
    BY <2>4, <2>6 DEF BudgetOf
  <2>8. CASE UNCHANGED <<folder, audit>>
    <3>1. Left(p, folder)' = Left(p, folder)
      BY <1>1, <2>8 DEF Left
    <3> QED BY <1>1, <2>2, <2>3, <2>5, <2>6, <2>7, <2>8, <3>1 DEF BudgetOf
  <2>9. CASE folder' = folder + 1 /\ audit' = [q \in Providers |-> 0]
    <3>1. PICK f0 : f0 = folder + 1 /\ folder' = f0
      BY <2>9
    <3>2. f0 > folder /\ f0 \in Nat
      BY <1>0, <3>1, PaymentsAssumption DEF SendsOK
    <3>3. Left(p, folder)' = {}
      <4>1. Left(p, folder)' = Left(p, f0)'
        BY <3>1 DEF Left
      <4> QED BY <1>0, <2>4, <3>2, <4>1, LeftFacts
    <3>4. Cardinality(Left(p, folder)') = 0
      BY <3>3, FS_EmptySet
    <3>5. audit'[p] = 0 /\ calls'[p] = 0
      BY <1>1, <2>9
    <3> QED BY <2>3, <2>5, <2>7, <3>4, <3>5 DEF BudgetOf
  <2> QED BY <1>2, <2>8, <2>9
<1> QED BY <1>4, <1>5, <1>6, <1>7, <1>8, <1>9, <1>10, <1>11 DEF IInv

LEMMA StutterInvariant ==
    ASSUME IInv, UNCHANGED vars
    PROVE  IInv'
<1>1. UNCHANGED <<stage, accepted, row, current, claims, outcome, owner, response, audit, saved, thread, calls,
                  reserved, sends, stop, starts, folder, slots>>
  BY DEF vars, database, files, limits, process
<1>2. ThreadsOK' /\ HoldsTokens' /\ LimitsOK' /\ AcceptedOK' /\ SendsOK' /\ DataOK'
  BY <1>1 DEF IInv, ThreadsOK, HoldsTokens, LimitsOK, AcceptedOK, SendsOK, DataOK
<1>3. SentOK' /\ PermitsAreExact'
  BY <1>1 DEF IInv, SentOK, SendsFor, PermitsAreExact, Provider
<1>4. \A p \in Providers : BudgetOf(p)'
  BY <1>1 DEF IInv, BudgetOf, Left, At, Provider
<1> QED BY <1>2, <1>3, <1>4 DEF IInv

\* The invariant holds in every state.
THEOREM Invariance == Spec => []IInv
<1>1. ASSUME IInv, [Next]_vars PROVE IInv'
  BY <1>1, ThreadStepInvariant, BillInvariant, StopInvariant, CrashInvariant, StartInvariant,
     StutterInvariant DEF Next
<1> QED BY InitInvariant, <1>1, PTL DEF Spec

\* Type correctness.
THEOREM TypeCorrectness == Spec => []PaymentsTypeOK
<1>1. IInv => PaymentsTypeOK
  BY TypesGiven DEF IInv
<1> QED BY <1>1, Invariance, PTL

\* However many threads work, and however often the program is stopped, killed
\* and started again, in a folder no more requests leave to a provider than its
\* maximum, and no more cases are accepted than the run may accept.
THEOREM CeilingAlwaysHolds == Spec => []CeilingHolds
<1>1. IInv => CeilingHolds
  BY DEF IInv, CeilingHolds, BudgetOf, Left, AcceptedOK
<1> QED BY <1>1, Invariance, PTL

-----------------------------------------------------------------------------
(* The way of a thread through its cases                                   *)

LEMMA StepStage ==
    ASSUME NEW t \in Threads, Step(t)
    PROVE  TakeCase(t) \/ Ack(t) \/ UNCHANGED stage
<1>1. CASE \/ Quit(t) \/ OpenCase(t) \/ Review(t) \/ LeavePending(t) \/ Reject(t) \/ Finish(t)
           \/ TakeLock(t) \/ EnterWithPermit(t) \/ EnterWithoutPermit(t)
           \/ Claim(t) \/ ClaimBlocked(t) \/ ClaimCached(t) \/ WriteOwner(t) \/ Issue(t) \/ WriteStarted(t)
  BY <1>1 DEF Quit, OpenCase, Review, LeavePending, Reject, Finish, WriteOutcome, TakeLock, EnterWithPermit,
     EnterWithoutPermit,
     Claim, ClaimBlocked, ClaimCached, WriteOwner, Issue, WriteStarted
<1>2. CASE \/ Send(t) \/ Answer(t) \/ ProviderRejects(t) \/ Break(t) \/ WriteResponse(t) \/ Complete(t) \/ Release(t)
           \/ Rename(t) \/ RejectBelow(t) \/ Admit(t) \/ Proceed(t) \/ EgressFails(t) \/ Reuse(t) \/ Persist(t)
  BY <1>2 DEF Send, Answer, ProviderRejects, Break, WriteResponse, Complete, Release, Rename, RejectBelow, Admit,
     Proceed,
     EgressFails, Reuse, Persist
<1> QED BY <1>1, <1>2 DEF Step

\* With the reuse of readings, a reading is asked for after Reuse, or as the
\* fallback of one that was rejected.
Wanted(t) ==
    \/ Kind[thread'[t].req] # "llm1"
    \/ /\ thread[t].pc = "reuse" /\ Works(t) /\ UNCHANGED row
       /\ \A a \in Alternatives(thread[t].req) : row[a].st \notin {"pending", "running", "uncertain"}
    \/ /\ thread[t].pc = "rename" /\ UNCHANGED row
       /\ thread'[t].i = thread[t].i /\ Backup[thread[t].req] # None /\ thread'[t].req = Backup[thread[t].req]

CaseStep(t) ==
    \/ thread'[t].pc \in Unassigned /\ ~TakeCase(t)
    \/ /\ TakeCase(t) /\ thread'[t].pc = "case" /\ thread'[t].case \in Cases /\ stage[thread'[t].case] = "queued"
       /\ stage' = [stage EXCEPT ![thread'[t].case] = "pending"]
    \/ /\ thread[t].pc \notin Unassigned /\ thread'[t].case = thread[t].case
       /\ ~TakeCase(t) /\ ~Ack(t)
       /\ thread'[t].pc = "want" => Wanted(t)

LEMMA StepCases ==
    ASSUME OfficialLinks, ThreadsOK, TokensOK, NEW t \in Threads, Step(t)
    PROVE  CaseStep(t)
<1> DEFINE x == thread[t]
           OnItsCase == thread'[t].case = x.case /\ x.pc \notin Unasked /\ thread'[t].pc # "want"
<1>0. /\ x.pc \notin Unasked => x.req \in Requests /\ x.case \in Cases
      /\ Idle.pc = "idle" /\ Gone.pc = "gone"
      /\ TakeCase(t) => x.pc = "idle"
      /\ Ack(t) => x.pc = "ack"
  BY AskedFacts, IdleFacts DEF Fields, Unasked, Unassigned, TakeCase, Ack
<1>1. ASSUME OnItsCase PROVE CaseStep(t)
  BY <1>0, <1>1 DEF CaseStep, Unasked, Unassigned
<1>2. ASSUME NEW pc \in PCs \ {"want"}, Goto(t, pc), x.pc \notin Unasked PROVE CaseStep(t)
  BY <1>1, <1>2, GotoFacts DEF Fields
<1>3. ASSUME NEW pc \in PCs \ {"want"}, Leave(t, Outside(t, pc)), x.pc \notin Unasked PROVE CaseStep(t)
  <2>1. thread'[t] = Outside(t, pc)
    BY <1>3, LeaveMoves
  <2>2. Fields(Outside(t, pc), pc, x.case, x.i, x.req, "none", 0)
    BY <1>0, <1>3, OutsideFacts
  <2> QED BY <1>1, <1>3, <2>1, <2>2 DEF Fields
<1>6. CASE TakeCase(t)
  <2>1. PICK c \in Cases : /\ stage[c] = "queued" /\ stage' = [stage EXCEPT ![c] = "pending"]
                           /\ Moved(t, [Idle EXCEPT !.pc = "case", !.case = c])
    BY <1>6 DEF TakeCase, Moved
  <2> DEFINE y == [Idle EXCEPT !.pc = "case", !.case = c]
  <2>2. Fields(y, "case", c, 0, None, "none", 0)
    BY IdleFacts
  <2>3. Moved(t, y)
    BY <2>1
  <2> HIDE DEF y
  <2>4. thread'[t].pc = "case" /\ thread'[t].case = c
    BY <2>2, <2>3, MovedFacts DEF Fields
  <2> QED BY <1>6, <2>1, <2>4 DEF CaseStep
<1>7. CASE OpenCase(t)
  <2>1. x.case \in Cases /\ x.pc = "case"
    BY <1>7, AskedFacts DEF OpenCase, Unassigned
  <2>2. \/ Moved(t, [Idle EXCEPT !.pc = "ack", !.case = x.case]) \/ Moved(t, Gone)
        \/ Moved(t, [Idle EXCEPT !.pc = "want", !.case = x.case, !.i = 1, !.req = Plan[x.case][1]])
    BY <1>7 DEF OpenCase, Moved
  <2>3. CASE Moved(t, Gone)
    BY <1>0, <2>1, <2>3, MovedFacts DEF CaseStep, Unassigned
  <2>4. ASSUME NEW y, y = [Idle EXCEPT !.pc = "ack", !.case = x.case], Moved(t, y)
        PROVE  CaseStep(t)
    <3>1. Fields(y, "ack", x.case, 0, None, "none", 0)
      BY <2>1, <2>4, IdleFacts
    <3>2. thread'[t].pc = "ack" /\ thread'[t].case = x.case
      BY <2>4, <3>1, MovedFacts DEF Fields
    <3> QED BY <1>0, <2>1, <3>2 DEF CaseStep, Unassigned
  <2>5. ASSUME NEW y, y = [Idle EXCEPT !.pc = "want", !.case = x.case, !.i = 1, !.req = Plan[x.case][1]], Moved(t, y)
        PROVE  CaseStep(t)
    <3>1. Fields(y, "want", x.case, 1, Plan[x.case][1], "none", 0)
      BY <2>1, <2>5, WantFacts
    <3>3. Kind[Plan[x.case][1]] = "affinity"
      BY <2>1, PlansAssumption
    <3>4. thread'[t] = y
      BY <2>5, MovedFacts
    <3>2. thread'[t].case = x.case /\ Kind[thread'[t].req] # "llm1"
      BY <3>1, <3>3, <3>4 DEF Fields
    <3> QED BY <1>0, <2>1, <3>2 DEF CaseStep, Unassigned, Wanted
  <2> QED BY <2>2, <2>3, <2>4, <2>5
<1>8. CASE Review(t) \/ Reject(t) \/ Finish(t)
  <2>1. Moved(t, [Idle EXCEPT !.pc = "ack", !.case = x.case]) /\ x.pc \in {"fail", "rejected", "finished"}
    BY <1>8 DEF Review, Reject, Finish, WriteOutcome, Moved
  <2>2. x.case \in Cases /\ x.pc \notin Unasked
    BY <1>0, <2>1 DEF Unasked
  <2> DEFINE y == [Idle EXCEPT !.pc = "ack", !.case = x.case]
  <2>3. Fields(y, "ack", x.case, 0, None, "none", 0)
    BY <2>2, IdleFacts
  <2>4. Moved(t, y)
    BY <2>1
  <2> HIDE DEF y
  <2>5. thread'[t].pc = "ack" /\ thread'[t].case = x.case
    BY <2>3, <2>4, MovedFacts DEF Fields
  <2> QED BY <1>1, <2>2, <2>5
<1>9. CASE Quit(t) \/ Ack(t) \/ LeavePending(t) \/ EgressFails(t)
  <2>1. Moved(t, Gone) \/ Moved(t, Idle)
    BY <1>9 DEF Quit, Ack, LeavePending, EgressFails, Moved
  <2>2. thread'[t].pc \in Unassigned
    BY <1>0, <2>1, MovedFacts DEF Unassigned
  <2>3. ~TakeCase(t)
    <3>1. TakeCase(t) => \E c \in Cases : Moved(t, [Idle EXCEPT !.pc = "case", !.case = c])
      BY DEF TakeCase, Moved
    <3>2. ASSUME NEW c \in Cases, NEW y, y = [Idle EXCEPT !.pc = "case", !.case = c], Moved(t, y) PROVE FALSE
      <4>1. Fields(y, "case", c, 0, None, "none", 0)
        BY <3>2, IdleFacts
      <4> QED BY <2>2, <3>2, <4>1, MovedFacts DEF Fields, Unassigned
    <3> QED BY <3>1, <3>2
  <2> QED BY <2>2, <2>3 DEF CaseStep
<1>10. CASE EnterWithPermit(t)
  <2>1. x.pc = "slot"
    BY <1>10 DEF EnterWithPermit, MayEnter
  <2> QED BY <1>1, <1>10, <2>1, EnterFacts DEF Fields, Unasked
<1>11. CASE Issue(t)
  <2>1. x.pc = "issue"
    BY <1>11 DEF Issue
  <2> QED BY <1>1, <1>11, <2>1, IssueFacts DEF Fields, Unasked
<1>12. CASE Claim(t)
  <2>1. x.pc = "claim"
    BY <1>12 DEF Claim
  <2> QED BY <1>1, <1>12, <2>1, ClaimFacts DEF Fields, Unasked
<1>13. CASE ClaimBlocked(t)
  <2>1. x.pc = "claim"
    BY <1>13 DEF ClaimBlocked
  <2> QED BY <1>1, <1>13, <2>1, ClaimBlockedFacts DEF Fields, Unasked
<1>14. CASE Proceed(t)
  <2>1. x.pc \in {"accepted", "paid"}
    BY <1>14 DEF Proceed
  <2>2. x.pc \notin Unasked /\ x.pc \notin Unassigned
    BY <2>1 DEF Unasked, Unassigned
  <2>3. \/ OnItsCase
        \/ thread'[t].case = x.case /\ Kind[thread'[t].req] # "llm1"
    BY <1>14, <2>2, ProceedFacts DEF Fields
  <2>4. CASE thread'[t].case = x.case /\ Kind[thread'[t].req] # "llm1"
    BY <1>0, <2>1, <2>2, <2>4 DEF CaseStep, Wanted
  <2> QED BY <1>1, <2>3, <2>4
<1>15. CASE Rename(t)
  <2>1. /\ x.pc \notin Unasked /\ x.pc \notin Unassigned /\ x.pc = "rename" /\ UNCHANGED row
        /\ \/ Leave(t, Outside(t, "fail"))
           \/ Backup[x.req] # None /\ Leave(t, [Outside(t, "want") EXCEPT !.req = Backup[x.req]])
    BY <1>15 DEF Rename, Unasked, Unassigned, database
  <2>2. CASE Leave(t, Outside(t, "fail"))
    BY <1>3, <2>1, <2>2 DEF PCs
  <2>3. CASE Backup[x.req] # None /\ Leave(t, [Outside(t, "want") EXCEPT !.req = Backup[x.req]])
    <3> DEFINE y == [Outside(t, "want") EXCEPT !.req = Backup[x.req]]
    <3>1. Backup[x.req] \in Requests /\ "want" \in PCs
      BY <1>0, <2>1, <2>3, PaymentsAssumption DEF PCs
    <3>2. Fields(y, "want", x.case, x.i, Backup[x.req], "none", 0)
      BY <3>1, OutsideFacts
    <3>3. Leave(t, y)
      BY <2>3
    <3> HIDE DEF y
    <3>4. thread'[t].pc = "want" /\ thread'[t].case = x.case /\ thread'[t].i = x.i /\ thread'[t].req = Backup[x.req]
      BY <3>2, <3>3, LeaveMoves DEF Fields
    <3> QED BY <1>0, <2>1, <2>3, <3>4 DEF CaseStep, Wanted
  <2> QED BY <2>1, <2>2, <2>3
<1>16. CASE RejectBelow(t) \/ Persist(t)
  <2>1. x.pc \notin Unasked /\ \E pc \in {"rejected", "fail", "finished"} : Goto(t, pc)
    BY <1>16 DEF Persist, RejectBelow, Unasked
  <2> QED BY <1>2, <2>1 DEF PCs
<1>17. CASE Reuse(t)
  <2> DEFINE unresolved == \E a \in Alternatives(x.req) : row[a].st \in {"pending", "running", "uncertain"}
  <2>1. /\ x.pc = "reuse" /\ UNCHANGED row
        /\ \/ Goto(t, "persist") \/ Goto(t, "fail") \/ (~unresolved /\ Goto(t, "want"))
    BY <1>17 DEF Reuse, AfterReuse, database
  <2>2. x.pc \notin Unasked /\ x.pc \notin Unassigned
    BY <2>1 DEF Unasked, Unassigned
  <2>3. ASSUME ~unresolved, Goto(t, "want") PROVE CaseStep(t)
    <3>1. thread'[t].pc = "want" /\ Works(t)
      BY <2>3, GotoFacts DEF Fields, Works, PCs
    <3> QED BY <1>0, <2>1, <2>2, <2>3, <3>1 DEF CaseStep, Wanted, Works
  <2> QED BY <1>2, <2>1, <2>2, <2>3 DEF PCs
<1>18. CASE ClaimCached(t) \/ Break(t) \/ WriteOwner(t) \/ WriteResponse(t) \/ Complete(t) \/ Release(t)
  <2>1. /\ x.pc \notin Unasked
        /\ \/ \E pc \in {"complete", "issue", "rename"} : Goto(t, pc)
           \/ \E pc \in {"paid", "fail"} : Leave(t, Outside(t, pc))
    BY <1>18 DEF ClaimCached, Break, WriteOwner, WriteResponse, Complete, Release, Unasked
  <2> QED BY <1>2, <1>3, <2>1 DEF PCs
<1>19. CASE Admit(t)
  <2>1. x.pc = "paid" /\ (Goto(t, "accepted") \/ Goto(t, "fail") \/ Moved(t, Gone))
    BY <1>19 DEF Admit, Moved
  <2>2. CASE Moved(t, Gone)
    <3>1. thread'[t].pc = "gone"
      BY <1>0, <2>2, MovedFacts
    <3> QED BY <1>0, <2>1, <3>1 DEF CaseStep, Unassigned
  <2> QED BY <1>2, <2>1, <2>2 DEF PCs, Unasked
<1>20. CASE TakeLock(t) \/ EnterWithoutPermit(t) \/ WriteStarted(t) \/ Send(t) \/ Answer(t) \/ ProviderRejects(t)
  <2>1. x.pc \notin Unasked /\ \E pc \in {"slot", "claim", "fail", "send", "sent", "answered", "release"} : Goto(t, pc)
    BY <1>20 DEF TakeLock, EnterWithoutPermit, MayEnter, WriteStarted, Send, Answer, ProviderRejects, Unasked
  <2> QED BY <1>2, <2>1 DEF PCs
<1> QED BY <1>6, <1>7, <1>8, <1>9, <1>10, <1>11, <1>12, <1>13, <1>14, <1>15, <1>16, <1>17, <1>18, <1>19,
   <1>20 DEF Step

-----------------------------------------------------------------------------
(* The ledger                                                              *)

\* A case is worked on by one thread, and the lock of a request is one's.
CasesApart ==
    /\ \A t \in Threads : thread[t].pc \notin Unassigned => stage[thread[t].case] = "pending"
    /\ \A t, u \in Threads : t # u /\ thread[t].pc \notin Unassigned /\ thread[u].pc \notin Unassigned =>
           thread[t].case # thread[u].case

SectionsApart ==
    \A t, u \in Threads : t # u /\ Locked(t) /\ Locked(u) => thread[t].req # thread[u].req

\* No request with this hash can have been billed.
Unbilled(r) == \A n \in SendsFor(r) : sends[n].st = "free"

\* The last request with this hash is the only one that can have been billed.
Awaited(r, n) ==
    /\ n \in SendsFor(r)
    /\ \A m \in SendsFor(r) : m <= n /\ (m # n => sends[m].st = "free")

\* A row that can be claimed stands for nothing billed.
FreeRows == \A r \in Requests : row[r].st \in {"absent", "pending"} => Unbilled(r)

\* A thread holds the row it claimed until it ends it.
Claiming  == {"own", "issue", "start", "send", "sent", "answered", "release"}
Unsent    == {"own", "issue", "start", "send", "release"}

RowsHeld ==
    \A t \in Threads :
        LET r == thread[t].req
        IN  /\ thread[t].pc \in Claiming => row[r].st = "running" /\ row[r].token = thread[t].token
            /\ thread[t].pc = "rename" => row[r].st = "pending"
            /\ thread[t].pc \in Unsent => Unbilled(r)
            /\ thread[t].pc \in {"sent", "answered"} =>
                 \E n \in SendsFor(r) : Awaited(r, n) /\ sends[n].st # "free"
                                        /\ (thread[t].pc = "answered" => sends[n].st = "charged")

SavedIsCharged == \A n \in saved : sends[n].st = "charged"

OnePaid ==
    \A R \in Purposes : \A n, m \in 1..Len(sends) :
        sends[n].req \in R /\ sends[m].req \in R /\ sends[n].st # "free" /\ sends[m].st # "free" => n = m

\* The fallback model reads only after the first was rejected, and then the row of
\* the first stays as the rejection left it.
FallbackAfterRejection ==
    /\ \A r \in Requests : Backup[r] # None /\ row[Backup[r]].st # "absent" => row[r].st = "pending"
    /\ \A t \in Threads : thread[t].pc \in InsidePCs \cup {"want", "slot"} =>
         LET r == Plan[thread[t].case][thread[t].i]
         IN  Backup[r] # None =>
               /\ thread[t].req = r => row[Backup[r]].st = "absent"
               /\ thread[t].req = Backup[r] => row[r].st = "pending"

LedgerInv == CasesApart /\ SectionsApart /\ FreeRows /\ RowsHeld /\ SavedIsCharged /\ OnePaid /\ FallbackAfterRejection

\* A step of one thread touches the requests and the row of its own request only.
LEMMA SendsOfOthers ==
    ASSUME ThreadsOK, SendsOK, SentOK, NEW t \in Threads, SendStep(t), NEW q,
           q # thread[t].req \/ UNCHANGED sends
    PROVE  /\ SendsFor(q)' = SendsFor(q)
           /\ \A n \in SendsFor(q) : sends'[n].st = sends[n].st
<1>1. CASE UNCHANGED sends
  BY <1>1 DEF SendsFor
<1>2. CASE q # thread[t].req /\ Send(t) /\ sends' = Append(sends, [req |-> thread[t].req, st |-> "flying", folder |-> folder])
  <2>1. thread[t].req \in Requests
    BY <1>2, AskedFacts DEF Send, Unasked
  <2>2. /\ Len(sends') = Len(sends) + 1 /\ Len(sends) \in Nat
        /\ sends'[Len(sends) + 1].req = thread[t].req
        /\ \A n \in 1..Len(sends) : sends'[n] = sends[n]
    BY <1>2, <2>1, SendFacts
  <2> QED BY <1>2, <2>2 DEF SendsFor
<1>3. ASSUME q # thread[t].req, thread[t].pc = "sent", NEW st \in {"charged", "free"},
             sends' = [sends EXCEPT ![SendOf(t)].st = st]
      PROVE  /\ SendsFor(q)' = SendsFor(q)
             /\ \A n \in SendsFor(q) : sends'[n].st = sends[n].st
  <2>1. SendOf(t) \in SendsFor(thread[t].req)
    BY <1>3, SendOfFacts DEF SentOK
  <2>0. PICK n : n = SendOf(t) /\ sends' = [sends EXCEPT ![n].st = st]
    BY <1>3
  <2>2. /\ SameRequests
        /\ \A m \in 1..Len(sends) : sends'[m].st = IF m = SendOf(t) THEN st ELSE sends[m].st
    <3>1. st \in {"flying", "charged", "free"}
      OBVIOUS
    <3>2. SameRequests
      BY <2>0, <3>1, StatusKeepsRequests
    <3>3. \A m \in 1..Len(sends) : sends'[m].st = IF m = n THEN st ELSE sends[m].st
      BY <2>0, <3>1, StatusKeepsRequests
    <3> QED BY <2>0, <3>2, <3>3
  <2> QED BY <1>3, <2>1, <2>2 DEF SendsFor, SameRequests
<1> QED BY <1>1, <1>2, <1>3 DEF SendStep, Answer, ProviderRejects

\* The request that a thread waits for is the one that may have been billed.
LEMMA AwaitedIsSendOf ==
    ASSUME SendsOK, NEW t \in Threads, NEW n \in SendsFor(thread[t].req), Awaited(thread[t].req, n)
    PROVE  SendOf(t) = n
<1>1. /\ SendOf(t) \in SendsFor(thread[t].req) /\ \A m \in SendsFor(thread[t].req) : m <= SendOf(t)
  BY SendOfFacts
<1>2. SendOf(t) <= n /\ n <= SendOf(t) /\ n \in Nat /\ SendOf(t) \in Nat
  BY <1>1 DEF Awaited, SendsFor
<1> QED BY <1>2

LEMMA OwnSend ==
    ASSUME ThreadsOK, SendsOK, RowsHeld, NEW t \in Threads, Send(t), NEW q, q = thread[t].req
    PROVE  /\ \E k : /\ k = Len(sends) + 1 /\ k \in SendsFor(q)' /\ Awaited(q, k)'
                     /\ sends'[k].st = "flying" /\ sends'[k].req = q
           /\ Len(sends') = Len(sends) + 1 /\ Len(sends) \in Nat
           /\ \A n \in 1..Len(sends) : sends'[n] = sends[n]
<1>1. /\ thread[t].req \in Requests /\ Unbilled(q)
      /\ sends' = Append(sends, [req |-> thread[t].req, st |-> "flying", folder |-> folder])
  BY AskedFacts DEF Send, Unasked, RowsHeld, Unsent
<1>2. /\ Len(sends') = Len(sends) + 1 /\ Len(sends) \in Nat
      /\ sends'[Len(sends) + 1].req = q /\ sends'[Len(sends) + 1].st = "flying"
      /\ \A n \in 1..Len(sends) : sends'[n] = sends[n]
  BY <1>1, SendFacts
<1>3. PICK k : k = Len(sends) + 1
  OBVIOUS
<1>4. k \in SendsFor(q)' /\ Awaited(q, k)'
  BY <1>1, <1>2, <1>3 DEF SendsFor, Awaited, Unbilled
<1> QED BY <1>2, <1>3, <1>4

-----------------------------------------------------------------------------
(* Every step of a thread keeps the ledger                                 *)

LEMMA CasesApartStep ==
    ASSUME OfficialLinks, ThreadsOK, DataOK, CasesApart, NEW t \in Threads, Step(t)
    PROVE  CasesApart'
<1>1. OthersStay(t) /\ CaseStep(t) /\ (TakeCase(t) \/ Ack(t) \/ UNCHANGED stage)
  BY TokensTyped, StepPlaced, StepCases, StepStage
<1>2. /\ \A u \in Threads : thread[u].pc \notin Unassigned => thread[u].case \in Cases
      /\ stage \in [Cases -> {"absent", "queued", "pending", "done"}]
  BY AskedFacts DEF DataOK
<1>3. CASE TakeCase(t)
  <2>1. PICK c \in Cases : /\ thread'[t].case = c /\ stage[c] = "queued"
                           /\ stage' = [stage EXCEPT ![c] = "pending"]
    BY <1>1, <1>3 DEF CaseStep
  <2>2. \A u \in Threads \ {t} : thread[u].pc \notin Unassigned => thread[u].case # c
    BY <2>1 DEF CasesApart
  <2>3. ASSUME NEW u \in Threads, thread'[u].pc \notin Unassigned
        PROVE  stage'[thread'[u].case] = "pending"
    BY <1>1, <1>2, <2>1, <2>2, <2>3 DEF OthersStay, CasesApart
  <2>4. ASSUME NEW u \in Threads, NEW v \in Threads, u # v, thread'[u].pc \notin Unassigned, thread'[v].pc \notin Unassigned
        PROVE  thread'[u].case # thread'[v].case
    BY <1>1, <2>1, <2>2, <2>4 DEF OthersStay, CasesApart
  <2> QED BY <2>3, <2>4 DEF CasesApart
<1>4. CASE ~TakeCase(t)
  <2>1. thread'[t].pc \in Unassigned \/ (~Ack(t) /\ thread[t].pc \notin Unassigned /\ thread'[t].case = thread[t].case)
    BY <1>1, <1>4 DEF CaseStep
  <2>2. ASSUME NEW u \in Threads, thread'[u].pc \notin Unassigned
        PROVE  thread[u].pc \notin Unassigned /\ thread'[u].case = thread[u].case /\ (u = t => ~Ack(t))
    BY <1>1, <2>1, <2>2 DEF OthersStay
  <2>3. ASSUME NEW u \in Threads, thread'[u].pc \notin Unassigned
        PROVE  stage'[thread'[u].case] = "pending"
    <3>1. thread[u].pc \notin Unassigned /\ thread'[u].case = thread[u].case /\ (u = t => ~Ack(t))
          /\ stage[thread[u].case] = "pending" /\ thread[u].case \in Cases
      BY <1>2, <2>2, <2>3 DEF CasesApart
    <3>2. CASE UNCHANGED stage
      BY <3>1, <3>2
    <3>3. CASE Ack(t)
      <4>1. u # t /\ thread[t].pc \notin Unassigned /\ stage' = [stage EXCEPT ![thread[t].case] = "done"]
        BY <3>1, <3>3 DEF Ack, Unassigned
      <4>2. thread[u].case # thread[t].case
        BY <3>1, <4>1 DEF CasesApart
      <4> QED BY <1>2, <3>1, <4>1, <4>2
    <3> QED BY <1>1, <1>4, <3>2, <3>3
  <2>4. ASSUME NEW u \in Threads, NEW v \in Threads, u # v, thread'[u].pc \notin Unassigned, thread'[v].pc \notin Unassigned
        PROVE  thread'[u].case # thread'[v].case
    BY <2>2, <2>4 DEF CasesApart
  <2> QED BY <2>3, <2>4 DEF CasesApart
<1> QED BY <1>3, <1>4

LEMMA SectionsApartStep ==
    ASSUME ThreadsOK, DataOK, SectionsApart, NEW t \in Threads, Step(t)
    PROVE  SectionsApart'
<1>1. OthersStay(t) /\ (Locked(t)' => Works(t) /\ LockedStep(t))
  BY TokensTyped, StepPlaced, StepLocked
<1>2. \A u \in Threads \ {t} : (Locked(u)' <=> Locked(u)) /\ thread'[u].req = thread[u].req
  BY <1>1 DEF OthersStay, Locked, Inside
<1>3. ASSUME Locked(t)', NEW u \in Threads \ {t}, Locked(u)
      PROVE  thread'[t].req # thread[u].req
  <2>1. Works(t) /\ LockedStep(t)
    BY <1>1, <1>3
  <2>2. CASE TakeLock(t)
    BY <1>3, <2>1, <2>2 DEF TakeLock, Works
  <2>3. CASE Locked(t)
    BY <1>3, <2>1, <2>3 DEF SectionsApart, Works
  <2>4. TakeLock(t) \/ Locked(t)
    BY <2>1 DEF LockedStep, InsideStep, Locked, Inside, EnterWithPermit, EnterWithoutPermit, MayEnter, Claim,
       ClaimBlocked, WriteOwner, Issue, WriteStarted, Send, Answer, ProviderRejects, WriteResponse, Release
  <2> QED BY <2>2, <2>3, <2>4
<1> QED BY <1>2, <1>3 DEF SectionsApart

\* A step that touches a row, or the requests that left, is one inside the section.
LEMMA TouchesInside ==
    ASSUME NEW t \in Threads, Step(t)
    PROVE  /\ Inside(t) \/ (UNCHANGED <<row, sends>>)
           /\ UNCHANGED row \/ UNCHANGED sends
<1>1. RowStep(t) /\ SendStep(t)
  BY StepRows, StepSends
<1>2. Inside(t) \/ UNCHANGED row
  BY <1>1 DEF RowStep, Claim, Release, Inside, InsidePCs
<1>3. Inside(t) \/ UNCHANGED sends
  BY <1>1 DEF SendStep, Send, Answer, ProviderRejects, Inside
<1>4. ASSUME Send(t) \/ Answer(t) \/ ProviderRejects(t) PROVE UNCHANGED row
  BY <1>4 DEF Send, Answer, ProviderRejects, database
<1> QED BY <1>1, <1>2, <1>3, <1>4 DEF SendStep

\* The row of a thread's request is the only one that its step changes.
LEMMA RowsOfOthers ==
    ASSUME ThreadsOK, DataOK, NEW t \in Threads, Step(t), NEW q \in Requests, q # thread[t].req
    PROVE  row'[q] = row[q]
<1>1. RowStep(t) /\ (Inside(t) \/ UNCHANGED row)
  BY StepRows, TouchesInside
<1>2. CASE UNCHANGED row
  BY <1>2
<1>3. CASE Inside(t)
  <2>1. thread[t].req \in Requests /\ row \in [Requests -> RowSet(claims)] /\ claims \in Nat
    BY <1>3, AskedFacts DEF Inside, Unasked, DataOK
  <2> QED BY <1>1, <2>1 DEF RowStep
<1> QED BY <1>1, <1>2, <1>3

\* What a thread's step does to its own row and requests, as the ledger sees it.
LEMMA OwnRow ==
    ASSUME ThreadsOK, DataOK, RowsHeld, NEW t \in Threads, Step(t), thread[t].req \in Requests
    PROVE  LET r == thread[t].req
           IN  \/ row'[r] = row[r]
               \/ /\ Claim(t) /\ row[r].st \in {"absent", "pending"} /\ UNCHANGED sends
                  /\ row'[r].st = "running" /\ row'[r].token = claims + 1
               \/ /\ row[r].st \in {"running", "uncertain"} /\ row'[r].st \in {"uncertain", "done"}
               \/ /\ Release(t) /\ row[r].st = "running" /\ Unbilled(r) /\ UNCHANGED sends
                  /\ row'[r].st = "pending"
<1> DEFINE r == thread[t].req
<1>1. RowStep(t) /\ row \in [Requests -> RowSet(claims)] /\ claims \in Nat
  BY StepRows DEF DataOK
<1>2. CASE Claim(t)
  <2>1. /\ row[r].st \in {"absent", "pending"} /\ UNCHANGED sends
        /\ row' = [row EXCEPT ![r] = [st |-> "running", token |-> claims + 1]]
    BY <1>2 DEF Claim, files, limits, process
  <2>2. row'[r].st = "running" /\ row'[r].token = claims + 1
    BY <1>1, <2>1
  <2> QED BY <1>2, <2>1, <2>2
<1>3. CASE row[r].st \in {"running", "uncertain"} /\ \E st \in {"uncertain", "done"} : row' = [row EXCEPT ![r].st = st]
  <2>1. PICK st \in {"uncertain", "done"} : row' = [row EXCEPT ![r].st = st]
    BY <1>3
  <2>2. st \in Statuses
    BY DEF Statuses
  <2>3. row'[r].st = st
    BY <1>1, <2>1, <2>2, RowFacts
  <2> QED BY <1>3, <2>3
<1>4. CASE Release(t) /\ row' = [row EXCEPT ![r] = [st |-> "pending", token |-> 0]]
  <2>1. row[r].st = "running" /\ Unbilled(r) /\ UNCHANGED sends
    BY <1>4 DEF Release, RowsHeld, Claiming, Unsent
  <2>2. row'[r].st = "pending"
    BY <1>1, <1>4
  <2> QED BY <1>4, <2>1, <2>2
<1>5. CASE UNCHANGED row
  BY <1>5
<1> QED BY <1>1, <1>2, <1>3, <1>4, <1>5 DEF RowStep

LEMMA FreeRowsStep ==
    ASSUME ThreadsOK, DataOK, SendsOK, SentOK, RowsHeld, FreeRows, NEW t \in Threads, Step(t)
    PROVE  FreeRows'
<1>1. SendStep(t) /\ (Inside(t) \/ UNCHANGED <<row, sends>>)
  BY StepSends, TouchesInside
<1>2. ASSUME NEW q \in Requests, row'[q].st \in {"absent", "pending"}
      PROVE  Unbilled(q)'
  <2>1. CASE q # thread[t].req
    <3>1. row'[q] = row[q]
      BY <2>1, RowsOfOthers
    <3>2. Unbilled(q)
      BY <1>2, <3>1 DEF FreeRows
    <3> QED BY <1>1, <2>1, <3>2, SendsOfOthers DEF Unbilled
  <2>2. CASE q = thread[t].req /\ UNCHANGED sends
    <3>1. Unbilled(q)
      <4>1. thread[t].req \in Requests
        BY <2>2
      <4> QED BY <1>2, <2>2, <4>1, OwnRow DEF FreeRows
    <3> QED BY <2>2, <3>1 DEF Unbilled, SendsFor
  <2>3. CASE q = thread[t].req /\ ~UNCHANGED sends
    <3>1. UNCHANGED row /\ thread[t].pc \in {"send", "sent"}
      BY <1>1, <2>3, TouchesInside DEF SendStep, Send, Answer, ProviderRejects
    <3>2. row[q].st = "running"
      BY <2>3, <3>1 DEF RowsHeld, Claiming
    <3> QED BY <1>2, <3>1, <3>2
  <2> QED BY <2>1, <2>2, <2>3
<1> QED BY <1>2 DEF FreeRows

\* What RowsHeld says of one thread.
HoldsRow(t) ==
    LET r == thread[t].req
    IN  /\ thread[t].pc \in Claiming => row[r].st = "running" /\ row[r].token = thread[t].token
        /\ thread[t].pc = "rename" => row[r].st = "pending"
        /\ thread[t].pc \in Unsent => Unbilled(r)
        /\ thread[t].pc \in {"sent", "answered"} =>
             \E n \in SendsFor(r) : Awaited(r, n) /\ sends[n].st # "free"
                                    /\ (thread[t].pc = "answered" => sends[n].st = "charged")

LEMMA RowsHeldByThread == RowsHeld <=> \A t \in Threads : HoldsRow(t)
BY DEF RowsHeld, HoldsRow

\* A step of another thread.
LEMMA HoldsRowOther ==
    ASSUME ThreadsOK, DataOK, SendsOK, SentOK, SectionsApart, NEW t \in Threads, Step(t),
           NEW u \in Threads \ {t}, HoldsRow(u)
    PROVE  HoldsRow(u)'
<1>1. OthersStay(t) /\ SendStep(t) /\ (Inside(t) \/ UNCHANGED <<row, sends>>)
  BY TokensTyped, StepPlaced, StepSends, TouchesInside
<1>2. thread'[u] = thread[u]
  BY <1>1 DEF OthersStay
<1>3. PICK r : r = thread[u].req /\ r = thread'[u].req
  BY <1>2
<1>4. CASE ~Inside(u)
  BY <1>2, <1>4 DEF HoldsRow, Inside, Claiming, Unsent
<1>5. CASE Inside(u)
  <2>1. r \in Requests
    BY <1>3, <1>5, AskedFacts DEF Inside, Unasked
  <2>2. r # thread[t].req \/ UNCHANGED <<row, sends>>
    BY <1>1, <1>3, <1>5 DEF SectionsApart, Locked
  <2>3. row'[r] = row[r]
    BY <2>1, <2>2, RowsOfOthers
  <2>4. /\ SendsFor(r)' = SendsFor(r)
        /\ \A n \in SendsFor(r) : sends'[n].st = sends[n].st
    BY <1>1, <2>2, SendsOfOthers
  <2>5. (Unbilled(r) => Unbilled(r)') /\ (\A n : Awaited(r, n) => Awaited(r, n)')
    BY <2>4 DEF Unbilled, Awaited
  <2>6. /\ thread[u].pc \in Claiming => row[r].st = "running" /\ row[r].token = thread[u].token
        /\ thread[u].pc = "rename" => row[r].st = "pending"
        /\ thread[u].pc \in Unsent => Unbilled(r)
        /\ thread[u].pc \in {"sent", "answered"} =>
             \E n \in SendsFor(r) : Awaited(r, n) /\ sends[n].st # "free"
                                    /\ (thread[u].pc = "answered" => sends[n].st = "charged")
    BY <1>3 DEF HoldsRow
  <2>7. /\ thread'[u].pc \in Claiming => row'[r].st = "running" /\ row'[r].token = thread'[u].token
        /\ thread'[u].pc = "rename" => row'[r].st = "pending"
        /\ thread'[u].pc \in Unsent => Unbilled(r)'
        /\ thread'[u].pc \in {"sent", "answered"} =>
             \E n \in SendsFor(r)' : Awaited(r, n)' /\ sends'[n].st # "free"
                                    /\ (thread'[u].pc = "answered" => sends'[n].st = "charged")
    BY <1>2, <2>3, <2>4, <2>5, <2>6
  <2>8. Unbilled(thread[u].req)' = Unbilled(r)' /\ SendsFor(thread[u].req)' = SendsFor(r)'
        /\ \A n : Awaited(thread[u].req, n)' = Awaited(r, n)'
    BY <1>3 DEF Unbilled, SendsFor, Awaited
  <2> QED BY <1>3, <2>7, <2>8 DEF HoldsRow
<1> QED BY <1>4, <1>5

\* The status of the request a thread waits for.
LEMMA OwnStatus ==
    ASSUME SendsOK, NEW t \in Threads, NEW q, q = thread[t].req, NEW n \in SendsFor(q), Awaited(q, n),
           NEW st \in {"charged", "free"}, sends' = [sends EXCEPT ![SendOf(t)].st = st]
    PROVE  /\ SendsFor(q)' = SendsFor(q) /\ Awaited(q, n)' /\ sends'[n].st = st
           /\ \A m \in 1..Len(sends) : m # n => sends'[m].st = sends[m].st
           /\ SameRequests
<1>1. SendOf(t) = n
  BY AwaitedIsSendOf
<1>2. sends' = [sends EXCEPT ![n].st = st] /\ st \in {"flying", "charged", "free"}
  BY <1>1
<1>3. SameRequests
  BY <1>2, StatusKeepsRequests
<1>4. \A m \in 1..Len(sends) : sends'[m].st = IF m = n THEN st ELSE sends[m].st
  BY <1>2, StatusKeepsRequests
<1>5. SendsFor(q)' = SendsFor(q)
  BY <1>3 DEF SameRequests, SendsFor
<1>6. n \in 1..Len(sends) /\ SendsFor(q) \subseteq 1..Len(sends)
  BY DEF SendsFor
<1>7. Awaited(q, n)'
  BY <1>4, <1>5, <1>6 DEF Awaited
<1> QED BY <1>3, <1>4, <1>5, <1>6, <1>7

\* The thread's own step.
LEMMA HoldsRowOwn ==
    ASSUME ThreadsOK, DataOK, SendsOK, SentOK, FreeRows, RowsHeld, NEW t \in Threads, Step(t)
    PROVE  HoldsRow(t)'
<1>1. OthersStay(t) /\ SendStep(t) /\ (Inside(t)' => Works(t) /\ InsideStep(t))
  BY TokensTyped, StepPlaced, StepSends, StepInside
<1>2. CASE thread'[t].pc \notin Claiming \cup {"rename"}
  BY <1>2 DEF HoldsRow, Claiming, Unsent
<1>3. CASE thread'[t].pc \in Claiming \cup {"rename"}
  <2>1. Works(t) /\ InsideStep(t)
    BY <1>1, <1>3 DEF Inside, Claiming
  <2>2. PICK r : r = thread[t].req /\ r = thread'[t].req
    BY <2>1 DEF Works
  <2> DEFINE Kept == row'[r] = row[r] /\ thread'[t].token = thread[t].token
             Running == row[r].st = "running" /\ row[r].token = thread[t].token
  <2>3. HoldsRow(t)
    BY RowsHeldByThread
  <2>4. /\ thread[t].pc \in Claiming => Running
        /\ thread[t].pc \in Unsent => Unbilled(r)
        /\ thread[t].pc \in {"sent", "answered"} =>
             \E n \in SendsFor(r) : Awaited(r, n) /\ sends[n].st # "free"
                                    /\ (thread[t].pc = "answered" => sends[n].st = "charged")
    BY <2>2, <2>3 DEF HoldsRow
  <2>5. /\ Unbilled(thread[t].req)' = Unbilled(r)' /\ SendsFor(thread[t].req)' = SendsFor(r)'
        /\ \A n : Awaited(thread[t].req, n)' = Awaited(r, n)'
    BY <2>2 DEF Unbilled, SendsFor, Awaited
  <2>6. UNCHANGED sends => (Unbilled(r)' = Unbilled(r))
    BY DEF Unbilled, SendsFor
  <2>7. CASE Claim(t) /\ thread'[t].pc = "own" /\ thread'[t].token = claims + 1
    <3>1. r \in Requests
      BY <2>2, <2>7, AskedFacts DEF Claim, Unasked
    <3>2. /\ row[r].st \in {"absent", "pending"} /\ UNCHANGED sends
          /\ row' = [row EXCEPT ![r] = [st |-> "running", token |-> claims + 1]]
      BY <2>2, <2>7 DEF Claim, files, limits, process
    <3>3. row'[r].st = "running" /\ row'[r].token = claims + 1
      BY <3>1, <3>2 DEF DataOK
    <3>4. Unbilled(r)'
      BY <2>6, <3>1, <3>2 DEF FreeRows
    <3> QED BY <2>2, <2>5, <2>7, <3>3, <3>4 DEF HoldsRow, Unsent
  <2>8. ASSUME thread[t].pc \in {"own", "issue", "start"}, UNCHANGED <<row, sends>>,
               thread'[t].token = thread[t].token, thread'[t].pc \in {"issue", "start", "send"}
        PROVE  HoldsRow(t)'
    <3>1. row'[r].st = "running" /\ row'[r].token = thread'[t].token /\ Unbilled(r)'
      BY <2>4, <2>6, <2>8 DEF Claiming, Unsent
    <3> QED BY <2>2, <2>5, <2>8, <3>1 DEF HoldsRow
  <2>9. ASSUME thread'[t].token = thread[t].token, WriteOwner(t), thread'[t].pc # "complete",
               thread'[t].pc \in {"complete", "issue"}
        PROVE  HoldsRow(t)'
    BY <2>8, <2>9 DEF WriteOwner, database
  <2>10. ASSUME thread'[t].token = thread[t].token, Issue(t), thread'[t].pc = "start"
         PROVE  HoldsRow(t)'
    BY <2>8, <2>10 DEF Issue, database
  <2>11. ASSUME thread'[t].token = thread[t].token, WriteStarted(t), thread'[t].pc = "send"
         PROVE  HoldsRow(t)'
    BY <2>8, <2>11 DEF WriteStarted, database
  <2>12. ASSUME thread'[t].token = thread[t].token, Send(t), thread'[t].pc = "sent"
         PROVE  HoldsRow(t)'
    <3>1. PICK k : k \in SendsFor(r)' /\ Awaited(r, k)' /\ sends'[k].st = "flying"
      BY <2>2, <2>12, OwnSend
    <3>2. UNCHANGED row /\ Running
      BY <2>4, <2>12 DEF Send, database, Claiming
    <3> QED BY <2>2, <2>5, <2>12, <3>1, <3>2 DEF HoldsRow, Unsent
  <2>13. ASSUME thread'[t].token = thread[t].token, Answer(t), thread'[t].pc = "answered"
         PROVE  HoldsRow(t)'
    <3>1. UNCHANGED row /\ Running /\ thread[t].pc = "sent" /\ sends' = [sends EXCEPT ![SendOf(t)].st = "charged"]
      BY <2>4, <2>13 DEF Answer, database, Claiming
    <3>2. PICK n \in SendsFor(r) : Awaited(r, n)
      BY <2>4, <3>1
    <3>3. SendsFor(r)' = SendsFor(r) /\ Awaited(r, n)' /\ sends'[n].st = "charged"
      BY <2>2, <3>1, <3>2, OwnStatus
    <3> QED BY <2>2, <2>5, <2>13, <3>1, <3>2, <3>3 DEF HoldsRow, Unsent
  <2>14. ASSUME thread'[t].token = thread[t].token, ProviderRejects(t), thread'[t].pc = "release"
         PROVE  HoldsRow(t)'
    <3>1. UNCHANGED row /\ Running /\ thread[t].pc = "sent" /\ sends' = [sends EXCEPT ![SendOf(t)].st = "free"]
      BY <2>4, <2>14 DEF ProviderRejects, database, Claiming
    <3>2. PICK n \in SendsFor(r) : Awaited(r, n)
      BY <2>4, <3>1
    <3>3. SendsFor(r)' = SendsFor(r) /\ Awaited(r, n)' /\ sends'[n].st = "free"
      BY <2>2, <3>1, <3>2, OwnStatus
    <3>4. Unbilled(r)'
      BY <3>3 DEF Unbilled, Awaited
    <3> QED BY <2>2, <2>5, <2>14, <3>1, <3>4 DEF HoldsRow
  <2>15. ASSUME Release(t), thread'[t].pc = "rename"
         PROVE  HoldsRow(t)'
    <3>1. r \in Requests /\ thread[t].pc = "release" /\ Running
      BY <2>2, <2>4, <2>15, AskedFacts DEF Release, Unasked, Claiming
    <3>2. row[r] = [st |-> "running", token |-> thread[t].token]
      <4>1. row[r] \in RowSet(claims)
        BY <3>1 DEF DataOK
      <4> QED BY <3>1, <4>1 DEF RowSet
    <3>3. row' = [row EXCEPT ![r] = [st |-> "pending", token |-> 0]]
      BY <2>2, <2>15, <3>2 DEF Release
    <3>4. row'[r].st = "pending"
      BY <3>1, <3>3 DEF DataOK
    <3> QED BY <2>2, <2>15, <3>4 DEF HoldsRow, Claiming, Unsent
  <2> QED BY <1>3, <2>1, <2>7, <2>9, <2>10, <2>11, <2>12, <2>13, <2>14, <2>15 DEF InsideStep, Claiming
<1> QED BY <1>2, <1>3

LEMMA RowsHeldStep ==
    ASSUME ThreadsOK, DataOK, SendsOK, SentOK, SectionsApart, FreeRows, RowsHeld, NEW t \in Threads, Step(t)
    PROVE  RowsHeld'
<1>1. \A u \in Threads : HoldsRow(u)'
  BY HoldsRowOther, HoldsRowOwn, RowsHeldByThread
<1> QED BY <1>1 DEF RowsHeld, HoldsRow

\* A billed request stays billed.
LEMMA ChargedStays ==
    ASSUME ThreadsOK, SendsOK, RowsHeld, NEW t \in Threads, SendStep(t),
           NEW n \in 1..Len(sends), sends[n].st = "charged"
    PROVE  n \in 1..Len(sends') /\ sends'[n].st = "charged"
<1>0. Len(sends) \in Nat
  BY DEF SendsOK
<1>1. CASE UNCHANGED sends
  BY <1>1
<1>2. CASE Send(t)
  <2>1. Len(sends') = Len(sends) + 1 /\ \A m \in 1..Len(sends) : sends'[m] = sends[m]
    BY <1>2, OwnSend
  <2> QED BY <1>0, <2>1
<1>3. CASE Answer(t) \/ ProviderRejects(t)
  <2>1. PICK m \in SendsFor(thread[t].req) : Awaited(thread[t].req, m)
    BY <1>3 DEF Answer, ProviderRejects, RowsHeld
  <2>2. SendOf(t) = m /\ m \in 1..Len(sends)
    BY <2>1, AwaitedIsSendOf DEF SendsFor
  <2>3. PICK st \in {"charged", "free"} : sends' = [sends EXCEPT ![m].st = st] /\ (n = m => st = "charged")
    BY <1>3, <2>2 DEF Answer, ProviderRejects
  <2>4. st \in {"flying", "charged", "free"}
    OBVIOUS
  <2>5. SameRequests
    BY <2>3, <2>4, StatusKeepsRequests
  <2>6. \A k \in 1..Len(sends) : sends'[k].st = IF k = m THEN st ELSE sends[k].st
    BY <2>3, <2>4, StatusKeepsRequests
  <2> QED BY <2>3, <2>5, <2>6 DEF SameRequests
<1> QED BY <1>1, <1>2, <1>3 DEF SendStep

LEMMA SavedIsChargedStep ==
    ASSUME ThreadsOK, DataOK, SendsOK, RowsHeld, SavedIsCharged, NEW t \in Threads, Step(t)
    PROVE  SavedIsCharged'
<1>1. SendStep(t) /\ FileStep(t) /\ saved \subseteq 1..Len(sends)
  BY StepSends, StepFiles DEF DataOK
<1>2. \A n \in saved' : n \in 1..Len(sends) /\ sends[n].st = "charged"
  <2>1. CASE UNCHANGED saved
    BY <1>1, <2>1 DEF SavedIsCharged
  <2>2. CASE WriteResponse(t) /\ saved' = saved \cup {SendOf(t)}
    <3>1. PICK n \in SendsFor(thread[t].req) : Awaited(thread[t].req, n) /\ sends[n].st = "charged"
      BY <2>2 DEF WriteResponse, RowsHeld
    <3>2. SendOf(t) = n /\ n \in 1..Len(sends)
      BY <3>1, AwaitedIsSendOf DEF SendsFor
    <3> QED BY <1>1, <2>2, <3>1, <3>2 DEF SavedIsCharged
  <2> QED BY <1>1, <2>1, <2>2 DEF FileStep
<1> QED BY <1>1, <1>2, ChargedStays DEF SavedIsCharged

-----------------------------------------------------------------------------
(* Readings and their fallback                                             *)

\* The request of a plan that a thread works for.
Planned(t) == Plan[thread[t].case][thread[t].i]

LEMMA PlannedFacts ==
    ASSUME ThreadsOK, NEW t \in Threads, thread[t].pc \notin Unasked
    PROVE  /\ Planned(t) \in Requests /\ thread[t].req \in Requests
           /\ thread[t].req = Planned(t) \/ (thread[t].req = Backup[Planned(t)] /\ Backup[Planned(t)] # None)
           /\ \A q \in Requests : Backup[q] # None => Planned(t) # Backup[q]
<1>1. /\ thread[t].case \in Cases /\ thread[t].i \in 1..Len(Plan[thread[t].case])
      /\ thread[t].req \in Alternatives(Planned(t)) /\ thread[t].req \in Requests
  BY AskedFacts DEF Planned, Unasked, Unassigned
<1>2. Planned(t) \in Requests
  BY <1>1, PlanFacts DEF Planned
<1>3. ASSUME NEW q \in Requests, Backup[q] # None PROVE Planned(t) # Backup[q]
  BY <1>1, <1>3, PlansAssumption DEF Planned
<1> QED BY <1>1, <1>2, <1>3, AlternativesFacts

\* What the fallback of a request is.
LEMMA BackupFacts ==
    ASSUME NEW r \in Requests, Backup[r] # None
    PROVE  /\ Backup[r] \in Requests /\ Backup[r] # r /\ Backup[Backup[r]] = None
           /\ Kind[r] = "llm1" /\ Kind[Backup[r]] = "llm1"
           /\ \A q \in Requests : Backup[q] = Backup[r] => q = r
<1>1. Backup[r] \in Requests
  BY PaymentsAssumption
<1>2. /\ Backup[Backup[r]] = None /\ Kind[r] = "llm1" /\ Kind[Backup[r]] = "llm1"
      /\ \A q \in Requests : Backup[q] = Backup[r] => q = r
  BY PlansAssumption
<1>3. Backup[r] # r
  BY <1>2
<1> QED BY <1>1, <1>2, <1>3

\* A thread whose request is a reading or its fallback works for that reading.
LEMMA WorksFor ==
    ASSUME ThreadsOK, NEW t \in Threads, thread[t].pc \notin Unasked,
           NEW r \in Requests, Backup[r] # None, thread[t].req = r \/ thread[t].req = Backup[r]
    PROVE  Planned(t) = r
<1>1. /\ Planned(t) \in Requests
      /\ thread[t].req = Planned(t) \/ (thread[t].req = Backup[Planned(t)] /\ Backup[Planned(t)] # None)
      /\ Planned(t) # Backup[r]
  BY PlannedFacts
<1>2. CASE thread[t].req = Planned(t)
  BY <1>1, <1>2
<1>3. CASE thread[t].req = Backup[Planned(t)] /\ Backup[Planned(t)] # None
  <2>1. Backup[Backup[Planned(t)]] = None /\ \A q \in Requests : Backup[q] = Backup[Planned(t)] => q = Planned(t)
    BY <1>1, <1>3, BackupFacts
  <2> QED BY <1>3, <2>1
<1> QED BY <1>1, <1>2, <1>3

\* Two threads do not work for the same reading.
LEMMA ReadingsApart ==
    ASSUME ThreadsOK, CasesApart, NEW t \in Threads, NEW u \in Threads \ {t},
           thread[t].pc \notin Unasked, thread[u].pc \notin Unasked, Backup[Planned(u)] # None
    PROVE  Planned(t) # Planned(u)
<1>1. /\ thread[t].case \in Cases /\ thread[t].i \in 1..Len(Plan[thread[t].case])
      /\ thread[u].case \in Cases /\ thread[u].i \in 1..Len(Plan[thread[u].case])
      /\ thread[t].case # thread[u].case
  BY AskedFacts DEF Unasked, Unassigned, CasesApart
<1>2. Planned(u) \in Requests
  BY PlannedFacts
<1>3. Kind[Planned(u)] = "llm1"
  BY <1>2, BackupFacts
<1> QED BY <1>1, <1>3, PlansAssumption DEF Planned

\* The two parts of FallbackAfterRejection: of a reading, and of a thread.
RejectedFirst(r) == Backup[r] # None /\ row[Backup[r]].st # "absent" => row[r].st = "pending"

Falls(t) ==
    thread[t].pc \in InsidePCs \cup {"want", "slot"} =>
        LET r == Planned(t)
        IN  Backup[r] # None =>
              /\ thread[t].req = r => row[Backup[r]].st = "absent"
              /\ thread[t].req = Backup[r] => row[r].st = "pending"

LEMMA FallbackParts ==
    FallbackAfterRejection <=> (\A r \in Requests : RejectedFirst(r)) /\ (\A t \in Threads : Falls(t))
BY DEF FallbackAfterRejection, RejectedFirst, Falls, Planned

LEMMA RejectedFirstStep ==
    ASSUME ThreadsOK, DataOK, NEW t \in Threads, Step(t), Falls(t), NEW r \in Requests, RejectedFirst(r)
    PROVE  RejectedFirst(r)'
<1> SUFFICES ASSUME Backup[r] # None, row'[Backup[r]].st # "absent" PROVE row'[r].st = "pending"
  BY DEF RejectedFirst
<1>1. Backup[r] \in Requests /\ Backup[r] # r
  BY BackupFacts
<1>2. CASE UNCHANGED row \/ thread[t].req \notin {r, Backup[r]}
  BY <1>1, <1>2, RowsOfOthers DEF RejectedFirst
<1>3. CASE ~UNCHANGED row /\ thread[t].req \in {r, Backup[r]}
  <2>1. thread[t].pc \in InsidePCs /\ thread[t].pc \notin Unasked
    BY <1>3, TouchesInside DEF Inside, InsidePCs, Unasked
  <2>2. Planned(t) = r
    BY <1>3, <2>1, WorksFor
  <2>3. CASE thread[t].req = r
    <3>1. row[Backup[r]].st = "absent"
      BY <2>1, <2>2, <2>3 DEF Falls
    <3> QED BY <1>1, <2>3, <3>1, RowsOfOthers
  <2>4. CASE thread[t].req = Backup[r]
    <3>1. row[r].st = "pending"
      BY <2>1, <2>2, <2>4 DEF Falls
    <3> QED BY <1>1, <2>4, <3>1, RowsOfOthers
  <2> QED BY <1>3, <2>3, <2>4
<1> QED BY <1>2, <1>3

LEMMA FallsOther ==
    ASSUME ThreadsOK, DataOK, CasesApart, NEW t \in Threads, Step(t), NEW u \in Threads \ {t}, Falls(u)
    PROVE  Falls(u)'
<1>1. thread'[u] = thread[u]
  BY TokensTyped, StepPlaced DEF OthersStay
<1>2. PICK r : r = Planned(u) /\ r = Planned(u)'
  BY <1>1 DEF Planned
<1>3. CASE thread[u].pc \notin InsidePCs \cup {"want", "slot"} \/ Backup[r] = None
  BY <1>1, <1>2, <1>3 DEF Falls
<1>4. CASE thread[u].pc \in InsidePCs \cup {"want", "slot"} /\ Backup[r] # None
  <2>1. thread[u].pc \notin Unasked
    BY <1>4 DEF InsidePCs, Unasked
  <2>2. r \in Requests /\ Backup[r] \in Requests
    BY <1>2, <1>4, <2>1, PlannedFacts, BackupFacts
  <2>3. row'[r] = row[r] /\ row'[Backup[r]] = row[Backup[r]]
    <3>1. CASE UNCHANGED row
      BY <3>1
    <3>2. CASE ~UNCHANGED row
      <4>1. thread[t].pc \notin Unasked
        BY <3>2, TouchesInside DEF Inside, Unasked
      <4>2. Planned(t) # r
        BY <1>2, <1>4, <2>1, <4>1, ReadingsApart
      <4>3. thread[t].req # r /\ thread[t].req # Backup[r]
        BY <1>4, <2>2, <4>1, <4>2, WorksFor
      <4> QED BY <2>2, <4>3, RowsOfOthers
    <3> QED BY <3>1, <3>2
  <2> QED BY <1>1, <1>2, <2>3 DEF Falls
<1> QED BY <1>3, <1>4

LEMMA FallsOwn ==
    ASSUME OfficialLinks, ThreadsOK, DataOK, RowsHeld, NEW t \in Threads, Step(t), Falls(t),
           \A r \in Requests : RejectedFirst(r)
    PROVE  Falls(t)'
<1>1. WellPlaced(thread'[t]) /\ OthersStay(t) /\ TokensOK
  BY TokensTyped, StepPlaced
<1>2. CASE thread'[t].pc \in LockedPCs
  <2>1. Works(t) /\ LockedStep(t)
    BY <1>1, <1>2, StepLocked DEF Locked, Inside, LockedPCs, InsidePCs
  <2>2. thread[t].pc \in InsidePCs \cup {"want", "slot"}
    BY <2>1 DEF LockedStep, InsideStep, InsidePCs, TakeLock, EnterWithPermit, EnterWithoutPermit, MayEnter, Claim, ClaimBlocked,
       WriteOwner,
       Issue, WriteStarted, Send, Answer, ProviderRejects, WriteResponse, Release
  <2>3. PICK r : r = Planned(t) /\ r = Planned(t)'
    BY <2>1 DEF Planned, Works
  <2>4. ASSUME Backup[r] # None
        PROVE  /\ thread[t].req = r => row'[Backup[r]].st = "absent"
               /\ thread[t].req = Backup[r] => row'[r].st = "pending"
    <3>1. r \in Requests /\ Backup[r] \in Requests /\ Backup[r] # r
      BY <2>2, <2>3, <2>4, PlannedFacts, BackupFacts DEF InsidePCs, Unasked
    <3> QED BY <2>2, <2>3, <2>4, <3>1, RowsOfOthers DEF Falls
  <2> QED BY <2>1, <2>3, <2>4 DEF Falls, Works
<1>3. CASE thread'[t].pc = "want"
  <2>1. /\ thread[t].pc \notin Unassigned /\ thread'[t].case = thread[t].case
        /\ Wanted(t)
    BY <1>1, <1>3, StepCases DEF CaseStep, Unassigned
  <2>2. CASE Kind[thread'[t].req] # "llm1"
    <3>1. ThreadsOK'
      BY <1>1 DEF ThreadsOK, OthersStay
    <3>2. /\ Planned(t)' \in Requests
          /\ thread'[t].req = Planned(t)' \/ thread'[t].req = Backup[Planned(t)']
      <4>1. WellPlaced(thread'[t]) /\ thread'[t].pc \notin Unasked /\ thread'[t].pc \notin Unassigned
        BY <1>1, <1>3 DEF Unasked, Unassigned
      <4>2. /\ thread'[t].case \in Cases /\ thread'[t].i \in 1..Len(Plan[thread'[t].case])
            /\ thread'[t].req \in Alternatives(Planned(t)')
        BY <4>1 DEF WellPlaced, Planned
      <4>3. Planned(t)' \in Requests
        BY <4>2, PlanFacts DEF Planned
      <4> QED BY <4>2, <4>3 DEF Alternatives
    <3>3. Backup[Planned(t)'] = None
      BY <2>2, <3>2, BackupFacts
    <3> QED BY <3>3 DEF Falls
  <2>3. CASE /\ thread[t].pc = "reuse" /\ Works(t) /\ UNCHANGED row
             /\ \A a \in Alternatives(thread[t].req) : row[a].st \notin {"pending", "running", "uncertain"}
    <3>1. PICK r : r = Planned(t) /\ r = Planned(t)'
      BY <2>3 DEF Planned, Works
    <3>2. thread[t].req = r /\ thread'[t].req = r
      BY <2>3, <3>1 DEF ThreadsOK, WellPlaced, Works, Planned
    <3>3. ASSUME Backup[r] # None PROVE row'[Backup[r]].st = "absent" /\ r # Backup[r]
      <4>1. r \in Requests /\ r \in Alternatives(r) /\ r # Backup[r]
        BY <2>3, <3>1, <3>3, PlannedFacts, BackupFacts DEF Unasked, Alternatives
      <4>2. row[r].st # "pending"
        BY <2>3, <3>2, <4>1
      <4> QED BY <2>3, <3>3, <4>1, <4>2 DEF RejectedFirst
    <3> QED BY <3>1, <3>2, <3>3 DEF Falls
  <2>4. CASE /\ thread[t].pc = "rename" /\ UNCHANGED row
             /\ thread'[t].i = thread[t].i /\ Backup[thread[t].req] # None /\ thread'[t].req = Backup[thread[t].req]
    <3>1. PICK r : r = Planned(t) /\ r = Planned(t)'
      BY <2>1, <2>4 DEF Planned
    <3>2. thread[t].pc \notin Unasked /\ thread[t].req \in Requests
      BY <2>4, AskedFacts DEF Unasked
    <3>3. thread[t].req = r /\ Backup[r] # r
      <4>1. PICK q \in Requests : q = thread[t].req
        BY <3>2
      <4>2. Backup[q] # None /\ Planned(t) = q
        BY <2>4, <3>2, <4>1, WorksFor
      <4> QED BY <3>1, <4>1, <4>2, BackupFacts
    <3>4. row'[r].st = "pending"
      BY <2>4, <3>3 DEF RowsHeld
    <3> QED BY <2>4, <3>1, <3>3, <3>4 DEF Falls
  <2> QED BY <2>1, <2>2, <2>3, <2>4 DEF Wanted
<1>4. CASE thread'[t].pc \notin InsidePCs \cup {"want", "slot"}
  BY <1>4 DEF Falls
<1> QED BY <1>2, <1>3, <1>4 DEF LockedPCs

LEMMA FallbackStep ==
    ASSUME OfficialLinks, ThreadsOK, DataOK, CasesApart, RowsHeld, FallbackAfterRejection, NEW t \in Threads, Step(t)
    PROVE  FallbackAfterRejection'
<1>1. \A r \in Requests : RejectedFirst(r)'
  BY FallbackParts, RejectedFirstStep
<1>2. \A u \in Threads : Falls(u)'
  BY FallbackParts, FallsOther, FallsOwn
<1> QED BY <1>1, <1>2 DEF FallbackAfterRejection, RejectedFirst, Falls, Planned

LEMMA PurposeFacts ==
    ASSUME NEW R \in Purposes
    PROVE  /\ R \subseteq Requests
           /\ \A p, q \in R : p = q \/ Backup[p] = q \/ Backup[q] = p
BY DEF Purposes, Alternatives

\* A request leaves when no other for its purpose can have been billed.
LEMMA SendIsFirst ==
    ASSUME ThreadsOK, FreeRows, RowsHeld, FallbackAfterRejection, NEW t \in Threads, thread[t].pc = "send",
           NEW R \in Purposes, thread[t].req \in R,
           NEW n \in 1..Len(sends), sends[n].req \in R
    PROVE  sends[n].st = "free"
<1>1. PICK q \in Requests : q = thread[t].req
  BY PurposeFacts
<1>2. PICK p \in Requests : p = sends[n].req
  BY PurposeFacts
<1>3. p = q \/ Backup[p] = q \/ Backup[q] = p
  BY <1>1, <1>2, PurposeFacts
<1>4. n \in SendsFor(p)
  BY <1>2 DEF SendsFor
<1>5. thread[t].pc \notin Unasked /\ thread[t].pc \in InsidePCs /\ Falls(t)
  BY FallbackParts DEF Unasked, InsidePCs
<1>6. None \notin Requests
  BY PaymentsAssumption
<1>7. CASE p = q
  <2>1. Unbilled(p)
    BY <1>1, <1>7 DEF RowsHeld, Unsent
  <2> QED BY <1>4, <2>1 DEF Unbilled
<1>8. CASE Backup[q] = p
  <2>1. Planned(t) = q /\ Backup[q] # None
    BY <1>1, <1>2, <1>5, <1>6, <1>8, WorksFor
  <2>2. row[p].st = "absent"
    BY <1>1, <1>5, <1>8, <2>1 DEF Falls
  <2> QED BY <1>4, <2>2 DEF FreeRows, Unbilled
<1>9. CASE Backup[p] = q
  <2>1. Planned(t) = p /\ Backup[p] # None
    BY <1>1, <1>5, <1>6, <1>9, WorksFor
  <2>2. row[p].st = "pending"
    BY <1>1, <1>5, <1>9, <2>1 DEF Falls
  <2> QED BY <1>4, <2>2 DEF FreeRows, Unbilled
<1> QED BY <1>3, <1>7, <1>8, <1>9

LEMMA OnePaidStep ==
    ASSUME ThreadsOK, SendsOK, FreeRows, RowsHeld, FallbackAfterRejection, OnePaid, NEW t \in Threads, SendStep(t)
    PROVE  OnePaid'
<1> SUFFICES ASSUME NEW R \in Purposes, NEW n \in 1..Len(sends'), NEW m \in 1..Len(sends'),
                    sends'[n].req \in R, sends'[m].req \in R, sends'[n].st # "free", sends'[m].st # "free"
             PROVE  n = m
  BY DEF OnePaid, Purposes, Alternatives
<1>1. CASE UNCHANGED sends
  BY <1>1 DEF OnePaid
<1>2. CASE Send(t)
  <2>1. /\ Len(sends') = Len(sends) + 1 /\ Len(sends) \in Nat
        /\ sends'[Len(sends) + 1].req = thread[t].req
        /\ \A k \in 1..Len(sends) : sends'[k] = sends[k]
    BY <1>2, OwnSend
  <2>2. thread[t].pc = "send"
    BY <1>2 DEF Send
  <2>3. CASE n \in 1..Len(sends) /\ m \in 1..Len(sends)
    BY <2>1, <2>3 DEF OnePaid
  <2>4. CASE thread[t].req \in R
    BY <2>1, <2>2, <2>4, SendIsFirst
  <2> QED BY <2>1, <2>3, <2>4
<1>3. CASE Answer(t) \/ ProviderRejects(t)
  <2>1. PICK q : q = thread[t].req
    OBVIOUS
  <2>2. PICK k \in SendsFor(q) : Awaited(q, k) /\ sends[k].st # "free"
    BY <1>3, <2>1 DEF Answer, ProviderRejects, RowsHeld
  <2>3. PICK st \in {"charged", "free"} : sends' = [sends EXCEPT ![SendOf(t)].st = st]
    BY <1>3 DEF Answer, ProviderRejects
  <2>4. SameRequests
    BY <2>1, <2>2, <2>3, OwnStatus
  <2>7. ASSUME NEW i \in 1..Len(sends), i # k PROVE sends'[i].st = sends[i].st
    <3>1. SendOf(t) = k
      BY <2>1, <2>2, AwaitedIsSendOf
    <3>2. sends' = [sends EXCEPT ![k].st = st] /\ st \in {"flying", "charged", "free"}
      BY <2>3, <3>1
    <3>3. sends'[i].st = IF i = k THEN st ELSE sends[i].st
      BY <3>2, StatusKeepsRequests DEF SendsFor
    <3> QED BY <2>7, <3>3
  <2>5. \A i \in 1..Len(sends) : sends'[i].req = sends[i].req /\ (sends'[i].st # "free" => sends[i].st # "free")
    BY <2>2, <2>4, <2>7 DEF SameRequests
  <2>6. Len(sends') = Len(sends)
    BY <2>4 DEF SameRequests
  <2> QED BY <2>5, <2>6 DEF OnePaid
<1> QED BY <1>1, <1>2, <1>3 DEF SendStep

LEMMA LedgerThreadStep ==
    ASSUME OfficialLinks, IInv, LedgerInv, NEW t \in Threads, Step(t)
    PROVE  LedgerInv'
<1>1. ThreadsOK /\ DataOK /\ SendsOK /\ SentOK /\ SendStep(t)
  BY StepSends DEF IInv
<1>2. CasesApart' /\ SectionsApart'
  BY <1>1, CasesApartStep, SectionsApartStep DEF LedgerInv
<1>3. FreeRows'
  BY <1>1, FreeRowsStep DEF LedgerInv
<1>4. RowsHeld'
  BY <1>1, RowsHeldStep DEF LedgerInv
<1>5. SavedIsCharged'
  BY <1>1, SavedIsChargedStep DEF LedgerInv
<1>6. OnePaid'
  BY <1>1, OnePaidStep DEF LedgerInv
<1>7. FallbackAfterRejection'
  BY <1>1, FallbackStep DEF LedgerInv
<1> QED BY <1>2, <1>3, <1>4, <1>5, <1>6, <1>7 DEF LedgerInv

LEMMA LedgerStays ==
    ASSUME LedgerInv, UNCHANGED <<row, sends, saved>>,
           UNCHANGED <<thread, stage>> \/ \A t \in Threads : thread'[t].pc \in Unassigned
    PROVE  LedgerInv'
<1>0. UNCHANGED row /\ UNCHANGED sends /\ UNCHANGED saved
  OBVIOUS
<1>1. FreeRows' /\ SavedIsCharged' /\ OnePaid'
  BY <1>0 DEF LedgerInv, FreeRows, SavedIsCharged, OnePaid, Unbilled, SendsFor, Purposes, Alternatives
<1>2. CASE UNCHANGED <<thread, stage>>
  <2>0. UNCHANGED thread /\ UNCHANGED stage
    BY <1>2
  <2>1. CasesApart' /\ SectionsApart'
    BY <2>0 DEF LedgerInv, CasesApart, SectionsApart, Locked, Inside
  <2>2. RowsHeld'
    BY <1>0, <2>0 DEF LedgerInv, RowsHeld, Unbilled, SendsFor, Awaited
  <2>3. FallbackAfterRejection'
    BY <1>0, <2>0 DEF LedgerInv, FallbackAfterRejection
  <2> QED BY <1>1, <2>1, <2>2, <2>3 DEF LedgerInv
<1>3. CASE \A t \in Threads : thread'[t].pc \in Unassigned
  <2>1. \A t \in Threads : thread'[t].pc \notin InsidePCs \cup {"want", "slot"} /\ thread'[t].pc \notin Claiming
                           /\ thread'[t].pc \notin Unsent /\ ~Locked(t)'
    BY <1>3 DEF Unassigned, InsidePCs, Claiming, Unsent, Locked, Inside
  <2>2. CasesApart' /\ SectionsApart'
    BY <1>3, <2>1 DEF CasesApart, SectionsApart
  <2>3. RowsHeld'
    BY <1>3, <2>1 DEF RowsHeld, Unassigned
  <2>4. \A r \in Requests : RejectedFirst(r)'
    BY <1>0, FallbackParts DEF LedgerInv, RejectedFirst
  <2>5. FallbackAfterRejection'
    BY <2>1, <2>4 DEF FallbackAfterRejection, RejectedFirst
  <2> QED BY <1>1, <2>2, <2>3, <2>5 DEF LedgerInv
<1> QED BY <1>2, <1>3

LEMMA LedgerBill ==
    ASSUME DataOK, SendsOK, LedgerInv, NEW n \in 1..Len(sends), Bill(n)
    PROVE  LedgerInv'
<1>1. /\ UNCHANGED row /\ UNCHANGED thread /\ UNCHANGED stage /\ UNCHANGED saved
      /\ sends[n].st = "flying" /\ sends' = [sends EXCEPT ![n].st = "charged"]
  BY DEF Bill, database, files
<1>2. SameRequests
  BY <1>1, StatusKeepsRequests
<1>3. \A m \in 1..Len(sends) : sends'[m].st = IF m = n THEN "charged" ELSE sends[m].st
  BY <1>1, StatusKeepsRequests
<1>4. \A r : SendsFor(r)' = SendsFor(r) /\ SendsFor(r) \subseteq 1..Len(sends)
  BY <1>2 DEF SameRequests, SendsFor
<1>5. \A r : Unbilled(r) => Unbilled(r)'
  BY <1>1, <1>3, <1>4 DEF Unbilled
<1>6. \A r, k : Awaited(r, k) /\ sends[k].st # "free" => Awaited(r, k)' /\ sends'[k].st # "free"
                                                     /\ (sends[k].st = "charged" => sends'[k].st = "charged")
  BY <1>1, <1>3, <1>4 DEF Awaited
<1>7. CasesApart' /\ SectionsApart'
  BY <1>1 DEF LedgerInv, CasesApart, SectionsApart, Locked, Inside
<1>8. FreeRows'
  BY <1>1, <1>5 DEF LedgerInv, FreeRows
<1>9. RowsHeld'
  <2>1. ASSUME NEW t \in Threads PROVE HoldsRow(t)'
    <3>1. PICK r : r = thread[t].req /\ r = thread'[t].req
      BY <1>1
    <3>2. HoldsRow(t)
      BY RowsHeldByThread DEF LedgerInv
    <3>3. /\ Unbilled(thread[t].req)' = Unbilled(r)' /\ SendsFor(thread[t].req)' = SendsFor(r)'
          /\ \A k : Awaited(thread[t].req, k)' = Awaited(r, k)'
      BY <3>1 DEF Unbilled, SendsFor, Awaited
    <3>4. /\ thread[t].pc \in Claiming => row[r].st = "running" /\ row[r].token = thread[t].token
          /\ thread[t].pc = "rename" => row[r].st = "pending"
          /\ thread[t].pc \in Unsent => Unbilled(r)
          /\ thread[t].pc \in {"sent", "answered"} =>
               \E k \in SendsFor(r) : Awaited(r, k) /\ sends[k].st # "free"
                                      /\ (thread[t].pc = "answered" => sends[k].st = "charged")
      BY <3>1, <3>2 DEF HoldsRow
    <3>5. thread[t].pc \in {"sent", "answered"} =>
               \E k \in SendsFor(r)' : Awaited(r, k)' /\ sends'[k].st # "free"
                                      /\ (thread[t].pc = "answered" => sends'[k].st = "charged")
      BY <1>4, <1>6, <3>4
    <3> QED BY <1>1, <1>5, <3>1, <3>3, <3>4, <3>5 DEF HoldsRow
  <2> QED BY <2>1 DEF RowsHeld, HoldsRow
<1>10. SavedIsCharged'
  <2>1. \A m \in saved : m \in 1..Len(sends) /\ sends[m].st = "charged"
    BY DEF LedgerInv, SavedIsCharged, DataOK
  <2>2. \A m \in 1..Len(sends) : sends[m].st = "charged" => sends'[m].st = "charged"
    BY <1>3
  <2> QED BY <1>1, <2>1, <2>2 DEF SavedIsCharged
<1>11. OnePaid'
  <2>1. \A m \in 1..Len(sends) : sends'[m].req = sends[m].req /\ (sends'[m].st # "free" => sends[m].st # "free")
    BY <1>1, <1>2, <1>3 DEF SameRequests
  <2>2. Len(sends') = Len(sends)
    BY <1>2 DEF SameRequests
  <2> QED BY <2>1, <2>2 DEF LedgerInv, OnePaid, Purposes, Alternatives
<1>12. FallbackAfterRejection'
  BY <1>1 DEF LedgerInv, FallbackAfterRejection
<1> QED BY <1>7, <1>8, <1>9, <1>10, <1>11, <1>12 DEF LedgerInv

LEMMA LedgerInit == Init => LedgerInv
<1> SUFFICES ASSUME Init PROVE LedgerInv
  OBVIOUS
<1>1. /\ sends = <<>> /\ saved = {} /\ row = [r \in Requests |-> [st |-> "absent", token |-> 0]]
      /\ thread = [t \in Threads |-> Gone]
  BY DEF Init
<1>2. Gone.pc = "gone"
  BY IdleFacts DEF Fields
<1>3. Len(sends) = 0 /\ \A r : SendsFor(r) = {}
  BY <1>1 DEF SendsFor
<1>4. \A t \in Threads : thread[t].pc = "gone" /\ ~Locked(t)
  BY <1>1, <1>2 DEF Locked, Inside
<1>5. CasesApart /\ SectionsApart
  BY <1>4 DEF CasesApart, SectionsApart, Unassigned
<1>6. FreeRows /\ SavedIsCharged /\ OnePaid
  BY <1>1, <1>3 DEF FreeRows, Unbilled, SavedIsCharged, OnePaid
<1>7. RowsHeld
  BY <1>4 DEF RowsHeld, Claiming, Unsent
<1>8. FallbackAfterRejection
  <2>1. \A r \in Requests : Backup[r] # None => row[Backup[r]].st = "absent"
    BY <1>1, BackupFacts
  <2> QED BY <1>4, <2>1 DEF FallbackAfterRejection, InsidePCs
<1> QED BY <1>5, <1>6, <1>7, <1>8 DEF LedgerInv

-----------------------------------------------------------------------------
(* The promise of the ledger                                               *)

\* What a purpose R has cost, from the requests s and the answers a on disk.
With(s, R, st) == {n \in 1..Len(s) : s[n].req \in R /\ s[n].st = st}

Bought(s, a, R) ==
    IF Cardinality(With(s, R, "flying") \cup With(s, R, "charged")) > 1 THEN "twice"
    ELSE IF With(s, R, "flying") # {} THEN "open"
    ELSE IF With(s, R, "charged") = {} THEN "unpaid"
    ELSE IF With(s, R, "charged") \subseteq a THEN "kept" ELSE "charged"

LEMMA BillingIsBought ==
    ASSUME NEW R
    PROVE  Billing(R) = Bought(sends, saved, R) /\ Billing(R)' = Bought(sends', saved', R)
BY DEF Billing, Bought, With

\* The numbers of the requests of a purpose that may have been billed.
Costs(s, R) == {n \in 1..Len(s) : s[n].req \in R /\ s[n].st # "free"}

LEMMA NothingBought ==
    ASSUME NEW R, NEW s, NEW a, Costs(s, R) = {}
    PROVE  Bought(s, a, R) = "unpaid"
<1>1. With(s, R, "flying") = {} /\ With(s, R, "charged") = {}
  BY DEF Costs, With
<1>2. Cardinality({} \cup {}) = 0
  BY FS_EmptySet
<1> QED BY <1>1, <1>2 DEF Bought

LEMMA OneBought ==
    ASSUME NEW R, NEW s, NEW a, NEW n, Costs(s, R) = {n}, s[n].st \in {"flying", "charged"}
    PROVE  Bought(s, a, R) = IF s[n].st = "flying" THEN "open" ELSE IF n \in a THEN "kept" ELSE "charged"
<1>1. Cardinality({n}) = 1
  BY FS_Singleton
<1>2. CASE s[n].st = "flying"
  <2>1. With(s, R, "flying") = {n} /\ With(s, R, "charged") = {}
    BY <1>2 DEF Costs, With
  <2>2. With(s, R, "flying") \cup With(s, R, "charged") = {n}
    BY <2>1
  <2> QED BY <1>1, <1>2, <2>1, <2>2 DEF Bought
<1>3. CASE s[n].st = "charged"
  <2>1. With(s, R, "flying") = {} /\ With(s, R, "charged") = {n}
    BY <1>3 DEF Costs, With
  <2>2. With(s, R, "flying") \cup With(s, R, "charged") = {n}
    BY <2>1
  <2> QED BY <1>1, <1>3, <2>1, <2>2 DEF Bought
<1> QED BY <1>2, <1>3

LEMMA AtMostOneCost ==
    ASSUME OnePaid, NEW R \in Purposes
    PROVE  \A n \in Costs(sends, R) : Costs(sends, R) = {n}
<1>1. ASSUME NEW n \in Costs(sends, R), NEW m \in Costs(sends, R) PROVE n = m
  BY <1>1 DEF OnePaid, Costs
<1> QED BY <1>1

\* The moves that the promise allows.
LEMMA LedgerInitially ==
    ASSUME NEW R, Billing(R) = "unpaid" PROVE Ledger(R)!Init
BY DEF Ledger!Init

LEMMA LedgerMove ==
    ASSUME NEW R, \/ Billing(R) = "unpaid" /\ Billing(R)' = "open"
                  \/ Billing(R) = "open" /\ Billing(R)' = "unpaid"
                  \/ Billing(R) = "open" /\ Billing(R)' = "charged"
                  \/ Billing(R) = "charged" /\ Billing(R)' = "kept"
    PROVE  Ledger(R)!Next
<1>1. CASE Billing(R) = "unpaid" /\ Billing(R)' = "open"
  <2>1. Ledger(R)!Send(R)
    BY <1>1 DEF Ledger!Send
  <2> QED BY <2>1 DEF Ledger!Next
<1>2. CASE Billing(R) = "open" /\ Billing(R)' = "unpaid"
  <2>1. Ledger(R)!Reject(R)
    BY <1>2 DEF Ledger!Reject
  <2> QED BY <2>1 DEF Ledger!Next
<1>3. CASE Billing(R) = "open" /\ Billing(R)' = "charged"
  <2>1. Ledger(R)!Charge(R)
    BY <1>3 DEF Ledger!Charge
  <2> QED BY <2>1 DEF Ledger!Next
<1>4. CASE Billing(R) = "charged" /\ Billing(R)' = "kept"
  <2>1. Ledger(R)!Keep(R)
    BY <1>4 DEF Ledger!Keep
  <2> QED BY <2>1 DEF Ledger!Next
<1> QED BY <1>1, <1>2, <1>3, <1>4

LEMMA SameBought ==
    ASSUME NEW R, NEW s, NEW z, NEW a,
           With(s, R, "flying") = With(z, R, "flying"), With(s, R, "charged") = With(z, R, "charged")
    PROVE  Bought(s, a, R) = Bought(z, a, R)
BY DEF Bought

\* The requests that a purpose had before a step and has after it.
LEMMA BillingSteps ==
    ASSUME NEW R
    PROVE  /\ Costs(sends, R) = {} => Billing(R) = "unpaid"
           /\ Costs(sends', R) = {} => Billing(R)' = "unpaid"
           /\ \A n : Costs(sends, R) = {n} /\ sends[n].st \in {"flying", "charged"} =>
                Billing(R) = IF sends[n].st = "flying" THEN "open" ELSE IF n \in saved THEN "kept" ELSE "charged"
           /\ \A n : Costs(sends', R) = {n} /\ sends'[n].st \in {"flying", "charged"} =>
                Billing(R)' = IF sends'[n].st = "flying" THEN "open" ELSE IF n \in saved' THEN "kept" ELSE "charged"
<1>1. PICK z, a : z = sends' /\ a = saved'
  OBVIOUS
<1>2. PICK y, b : y = sends /\ b = saved
  OBVIOUS
<1>3. Billing(R) = Bought(y, b, R) /\ Billing(R)' = Bought(z, a, R)
  BY <1>1, <1>2, BillingIsBought
<1>4. Costs(y, R) = {} => Billing(R) = "unpaid"
  BY <1>3, NothingBought
<1>5. Costs(z, R) = {} => Billing(R)' = "unpaid"
  BY <1>3, NothingBought
<1>6. \A n : Costs(y, R) = {n} /\ y[n].st \in {"flying", "charged"} =>
        Billing(R) = IF y[n].st = "flying" THEN "open" ELSE IF n \in b THEN "kept" ELSE "charged"
  BY <1>3, OneBought
<1>7. \A n : Costs(z, R) = {n} /\ z[n].st \in {"flying", "charged"} =>
        Billing(R)' = IF z[n].st = "flying" THEN "open" ELSE IF n \in a THEN "kept" ELSE "charged"
  BY <1>3, OneBought
<1> QED BY <1>1, <1>2, <1>4, <1>5, <1>6, <1>7

LEMMA BillingStays ==
    ASSUME NEW R, UNCHANGED saved, \A st \in {"flying", "charged"} : With(sends, R, st) = With(sends', R, st)
    PROVE  UNCHANGED Billing(R)
<1>1. PICK z, y, b : z = sends' /\ y = sends /\ b = saved
  OBVIOUS
<1>2. Billing(R) = Bought(y, b, R) /\ Billing(R)' = Bought(z, b, R)
  BY <1>1, BillingIsBought
<1>3. With(y, R, "flying") = With(z, R, "flying") /\ With(y, R, "charged") = With(z, R, "charged")
  BY <1>1
<1> QED BY <1>2, <1>3, SameBought

LEMMA LedgerSend ==
    ASSUME ThreadsOK, SendsOK, LedgerInv, NEW t \in Threads, Send(t), NEW R \in Purposes
    PROVE  Ledger(R)!Next \/ UNCHANGED Billing(R)
<1>1. /\ Len(sends') = Len(sends) + 1 /\ Len(sends) \in Nat
      /\ sends'[Len(sends) + 1].req = thread[t].req /\ sends'[Len(sends) + 1].st = "flying"
      /\ \A k \in 1..Len(sends) : sends'[k] = sends[k]
  BY OwnSend DEF LedgerInv
<1>2. thread[t].pc = "send" /\ UNCHANGED saved
  BY DEF Send, files
<1>3. CASE thread[t].req \in R
  <2>1. \A n \in 1..Len(sends) : sends[n].req \in R => sends[n].st = "free"
    BY <1>2, <1>3, SendIsFirst DEF LedgerInv
  <2>2. Costs(sends, R) = {} /\ Costs(sends', R) = {Len(sends) + 1}
    BY <1>1, <1>3, <2>1 DEF Costs
  <2>3. Billing(R) = "unpaid" /\ Billing(R)' = "open"
    BY <1>1, <2>2, BillingSteps
  <2> QED BY <2>3, LedgerMove
<1>4. CASE thread[t].req \notin R
  <2>1. \A st \in {"flying", "charged"} : With(sends, R, st) = With(sends', R, st)
    BY <1>1, <1>4 DEF With
  <2> QED BY <1>2, <2>1, BillingStays
<1> QED BY <1>3, <1>4

\* A bill, an answer or a rejection for the request k.
LEMMA LedgerStatus ==
    ASSUME LedgerInv, SameRequests, UNCHANGED saved,
           NEW k \in 1..Len(sends), sends[k].st \in {"flying", "charged"},
           NEW st \in {"charged", "free"}, st = "free" => sends[k].st = "flying",
           \A m \in 1..Len(sends) : sends'[m].st = IF m = k THEN st ELSE sends[m].st,
           NEW R \in Purposes
    PROVE  Ledger(R)!Next \/ UNCHANGED Billing(R)
<1>1. Len(sends') = Len(sends) /\ \A m \in 1..Len(sends) : sends'[m].req = sends[m].req
  BY DEF SameRequests
<1>2. CASE sends[k].req \notin R \/ sends[k].st = st
  <2>1. \A m \in 1..Len(sends) : sends[m].req \in R => sends'[m].st = sends[m].st
    BY <1>2
  <2>2. \A v \in {"flying", "charged"} : With(sends, R, v) = With(sends', R, v)
    BY <1>1, <2>1 DEF With
  <2> QED BY <2>2, BillingStays
<1>3. CASE sends[k].req \in R /\ sends[k].st = "flying"
  <2>1. Costs(sends, R) = {k}
    <3>1. k \in Costs(sends, R)
      BY <1>3 DEF Costs
    <3> QED BY <3>1, AtMostOneCost DEF LedgerInv
  <2>2. Billing(R) = "open"
    BY <1>3, <2>1, BillingSteps
  <2>3. \A m \in 1..Len(sends) : sends[m].req \in R /\ m # k => sends[m].st = "free"
    BY <2>1 DEF Costs
  <2>4. CASE st = "free"
    <3>1. Costs(sends', R) = {}
      BY <1>1, <2>3, <2>4 DEF Costs
    <3>2. Billing(R)' = "unpaid"
      BY <3>1, BillingSteps
    <3> QED BY <2>2, <3>2, LedgerMove
  <2>5. CASE st = "charged"
    <3>1. Costs(sends', R) = {k}
      BY <1>1, <1>3, <2>3, <2>5 DEF Costs
    <3>2. k \notin saved'
      BY <1>3 DEF LedgerInv, SavedIsCharged
    <3>3. Billing(R)' = "charged"
      BY <2>5, <3>1, <3>2, BillingSteps
    <3> QED BY <2>2, <3>3, LedgerMove
  <2> QED BY <2>4, <2>5
<1> QED BY <1>2, <1>3

LEMMA LedgerAnswer ==
    ASSUME SendsOK, LedgerInv, NEW t \in Threads, Answer(t) \/ ProviderRejects(t), NEW R \in Purposes
    PROVE  Ledger(R)!Next \/ UNCHANGED Billing(R)
<1>1. PICK q : q = thread[t].req
  OBVIOUS
<1>2. PICK k \in SendsFor(q) : Awaited(q, k) /\ sends[k].st # "free"
  BY <1>1 DEF Answer, ProviderRejects, LedgerInv, RowsHeld
<1>3. SendOf(t) = k /\ k \in 1..Len(sends) /\ sends[k] \in SendSet
  BY <1>1, <1>2, AwaitedIsSendOf DEF SendsFor, SendsOK
<1>4. PICK st \in {"charged", "free"} : /\ sends' = [sends EXCEPT ![k].st = st]
                                        /\ st = "free" => sends[k].st = "flying"
  BY <1>3 DEF Answer, ProviderRejects
<1>5. st \in {"flying", "charged", "free"}
  OBVIOUS
<1>6. SameRequests
  BY <1>3, <1>4, <1>5, StatusKeepsRequests
<1>7. \A m \in 1..Len(sends) : sends'[m].st = IF m = k THEN st ELSE sends[m].st
  BY <1>3, <1>4, <1>5, StatusKeepsRequests
<1>8. UNCHANGED saved /\ sends[k].st \in {"flying", "charged"}
  BY <1>2, <1>3 DEF Answer, ProviderRejects, files, SendSet
<1> QED BY <1>3, <1>4, <1>6, <1>7, <1>8, LedgerStatus

LEMMA LedgerResponse ==
    ASSUME DataOK, SendsOK, LedgerInv, NEW t \in Threads, WriteResponse(t), NEW R \in Purposes
    PROVE  Ledger(R)!Next \/ UNCHANGED Billing(R)
<1>1. UNCHANGED sends
  BY DEF WriteResponse
<1>2. CASE UNCHANGED saved
  BY <1>1, <1>2, BillingStays
<1>3. CASE saved' = saved \cup {SendOf(t)}
  <2>1. PICK q : q = thread[t].req
    OBVIOUS
  <2>2. PICK k \in SendsFor(q) : Awaited(q, k) /\ sends[k].st = "charged"
    BY <2>1 DEF WriteResponse, LedgerInv, RowsHeld
  <2>3. saved' = saved \cup {k} /\ k \in 1..Len(sends)
    BY <1>3, <2>1, <2>2, AwaitedIsSendOf DEF SendsFor
  <2>4. CASE sends[k].req \in R
    <3>1. k \in Costs(sends, R)
      BY <2>2, <2>3, <2>4 DEF Costs
    <3>2. Costs(sends, R) = {k} /\ Costs(sends', R) = {k}
      BY <1>1, <3>1, AtMostOneCost DEF LedgerInv
    <3>3. Billing(R) = IF k \in saved THEN "kept" ELSE "charged"
      BY <2>2, <3>2, BillingSteps
    <3>4. Billing(R)' = "kept"
      BY <1>1, <2>2, <2>3, <3>2, BillingSteps
    <3> QED BY <3>3, <3>4, LedgerMove
  <2>5. CASE sends[k].req \notin R
    <3>1. PICK s, a, b : s = sends /\ s = sends' /\ a = saved /\ b = saved'
      BY <1>1
    <3>2. k \notin With(s, R, "charged")
      BY <2>5, <3>1 DEF With
    <3>3. With(s, R, "charged") \subseteq b <=> With(s, R, "charged") \subseteq a
      BY <2>3, <3>1, <3>2
    <3>4. Bought(s, a, R) = Bought(s, b, R)
      BY <3>3 DEF Bought
    <3> QED BY <3>1, <3>4, BillingIsBought
  <2> QED BY <2>4, <2>5
<1> QED BY <1>2, <1>3 DEF WriteResponse

LEMMA LedgerBills ==
    ASSUME SendsOK, LedgerInv, NEW n \in 1..Len(sends), Bill(n), NEW R \in Purposes
    PROVE  Ledger(R)!Next \/ UNCHANGED Billing(R)
<1>1. UNCHANGED saved /\ sends[n].st = "flying" /\ sends' = [sends EXCEPT ![n].st = "charged"]
  BY DEF Bill, files
<1>2. SameRequests
  BY <1>1, StatusKeepsRequests
<1>3. \A m \in 1..Len(sends) : sends'[m].st = IF m = n THEN "charged" ELSE sends[m].st
  BY <1>1, StatusKeepsRequests
<1> QED BY <1>1, <1>2, <1>3, LedgerStatus

\* Every step is one of the promise, or none, for every purpose.
LEMMA LedgerNext ==
    ASSUME IInv, LedgerInv, [Next]_vars, NEW R \in Purposes
    PROVE  Ledger(R)!Next \/ UNCHANGED Billing(R)
<1>0. ThreadsOK /\ DataOK /\ SendsOK
  BY DEF IInv
<1>1. ASSUME UNCHANGED sends, UNCHANGED saved PROVE UNCHANGED Billing(R)
  BY <1>1, BillingStays
<1>2. ASSUME NEW t \in Threads, Step(t) PROVE Ledger(R)!Next \/ UNCHANGED Billing(R)
  <2>1. SendStep(t) /\ FileStep(t)
    BY <1>2, StepSends, StepFiles
  <2>2. CASE Send(t)
    BY <1>0, <2>2, LedgerSend
  <2>3. CASE Answer(t) \/ ProviderRejects(t)
    BY <1>0, <2>3, LedgerAnswer
  <2>4. CASE WriteResponse(t)
    BY <1>0, <2>4, LedgerResponse
  <2> QED BY <1>1, <2>1, <2>2, <2>3, <2>4 DEF SendStep, FileStep
<1>3. CASE \E n \in 1..Len(sends) : Bill(n)
  BY <1>0, <1>3, LedgerBills
<1>4. CASE Stop \/ Crash \/ (\E fresh \in BOOLEAN : Start(fresh)) \/ UNCHANGED vars
  BY <1>1, <1>4 DEF Stop, Crash, Start, files, vars
<1> QED BY <1>2, <1>3, <1>4 DEF Next

\* With the reuse of readings, the ledger is as LedgerInv says in every state.
THEOREM LedgerInvariance == OfficialLinks => (Spec => []LedgerInv)
<1> SUFFICES ASSUME OfficialLinks PROVE Spec => []LedgerInv
  OBVIOUS
<1>1. ASSUME IInv, LedgerInv, [Next]_vars PROVE LedgerInv'
  <2>1. CASE \E t \in Threads : Step(t)
    BY <1>1, <2>1, LedgerThreadStep
  <2>2. CASE \E n \in 1..Len(sends) : Bill(n)
    BY <1>1, <2>2, LedgerBill DEF IInv
  <2>3. CASE Stop \/ UNCHANGED vars
    <3>1. UNCHANGED <<row, sends, saved>> /\ UNCHANGED <<thread, stage>>
      BY <2>3 DEF Stop, vars, database, files
    <3> QED BY <1>1, <3>1, LedgerStays
  <2>4. CASE Crash \/ \E fresh \in BOOLEAN : Start(fresh)
    <3>1. UNCHANGED <<row, sends, saved>> /\ \A t \in Threads : thread'[t] = Gone \/ thread'[t] = Idle
      BY <2>4 DEF Crash, Start, database, files
    <3>2. \A t \in Threads : thread'[t].pc \in Unassigned
      BY <3>1, IdleFacts DEF Fields, Unassigned
    <3> QED BY <1>1, <3>1, <3>2, LedgerStays
  <2> QED BY <1>1, <2>1, <2>2, <2>3, <2>4 DEF Next
<1> QED BY <1>1, LedgerInit, Invariance, PTL DEF Spec

\* With the reuse of readings, every purpose is paid for as PaidCall has it: a
\* request leaves only when none before it, for the same affinity, selection or
\* reading, is out or billed, in this run or in an earlier one; what was billed
\* is never asked again, whatever crashes, stops and new folders come between.
THEOREM LedgerAlwaysKept == OfficialLinks => (Spec => LedgerKept)
<1> SUFFICES ASSUME OfficialLinks PROVE Spec => LedgerKept
  OBVIOUS
<1>1. Init => \A R \in Purposes : Ledger(R)!Init
  <2> SUFFICES ASSUME Init, NEW R \in Purposes PROVE Ledger(R)!Init
    OBVIOUS
  <2>1. Costs(sends, R) = {}
    BY DEF Init, Costs
  <2> QED BY <2>1, BillingSteps, LedgerInitially
<1>2. IInv /\ LedgerInv /\ [Next]_vars =>
        [UNCHANGED <<sends, saved>> \/ \A R \in Purposes : [Ledger(R)!Next]_(Billing(R))]_vars
  BY LedgerNext
<1>3. Spec => []IInv /\ []LedgerInv
  BY Invariance, LedgerInvariance, PTL
<1> QED BY <1>1, <1>2, <1>3, PTL DEF Spec, LedgerKept

=============================================================================
