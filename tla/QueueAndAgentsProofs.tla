------------------------ MODULE QueueAndAgentsProofs ------------------------
(***************************************************************************)
(* Proofs about the rows that workers and people share.                    *)
(*                                                                         *)
(* The agent runs of a session (AgentRuns), for any set of requests and of *)
(* people who decide, any number of deaths, keys that expire under their   *)
(* run, and Codex processes that outlive their request.                    *)
(*                                                                         *)
(* The generic queue (WorkerQueue), for any finite sets of jobs and        *)
(* workers, any keys, limits, deaths and uses of the admin's buttons: how  *)
(* often a job runs, who runs beside it, and how many messages leave.      *)
(***************************************************************************)
EXTENDS AgentRuns, WorkerQueue, Functions, FiniteSetTheorems, WellFoundedInduction, TLAPS

-----------------------------------------------------------------------------
(* The session: the inductive invariant                                    *)

\* What the row says of its run.
RowsAgree ==
    \A r \in Runs :
        /\ pc[r] = "new" => runStatus[r] = "absent"
        /\ runStatus[r] \in {"absent", "running"} => changes[r] = "none"
        /\ answers[r] = 1 => runStatus[r] = "completed"

\* Whoever decides holds the row, and the change set still waits for it.
DecidersHoldTheRow ==
    \A d \in Deciders : deciding[d] # None =>
        /\ rowLock = d
        /\ changes[deciding[d][1]] = "pending"

\* The key in Redis is that of the run in the workspace, unless it lost it.
InsideHoldsTheLock ==
    \A r \in Runs : pc[r] \in Inside /\ r \notin lostKey => lock = r

Unspawned == {"new", "begun", "snapped", "locked"}
Closed == {"answered", "loaded", "stored", "cleaned"}

\* A process writes for a run that was spawned and not answered yet.
ChildrenAgree ==
    \A r \in Runs :
        /\ pc[r] \in Unspawned => r \notin written \cup codex
        /\ pc[r] \in Closed => r \notin codex
        /\ runStatus[r] = "completed" =>
               r \notin codex /\ pc[r] \in {"stored", "cleaned", "broken", "failing", "end"}

\* A run claims its own file, and what was delivered is gone, but for the moment
\* before the cleanup, or stayed in the folder.
FilesAgree ==
    \A r \in Runs :
        /\ r \notin before[r]
        /\ loaded[r] \subseteq written /\ artifacts[r] \subseteq written
        /\ pc[r] = "loaded" => loaded[r] \subseteq generated[r]
        /\ pc[r] = "stored" => artifacts[r] \subseteq generated[r]
        /\ pc[r] \in Closed \ {"cleaned"} /\ r \in files => r \in generated[r]
        /\ pc[r] = "stored" \/ artifacts[r] \cap files \subseteq leftover
        /\ runStatus[r] = "completed" /\ r \in files => pc[r] = "stored" \/ r \in leftover

\* What a run is about to deliver was not delivered, and is nobody's who was answered.
DeliveriesAgree ==
    \A r, q \in Runs : r # q =>
        /\ pc[r] = "loaded" => \A f \in loaded[r] \cap artifacts[q] : Excused(f, r, q)
        /\ pc[r] = "loaded" /\ q \in loaded[r] /\ runStatus[q] = "completed" => Excused(q, r, q)
        /\ q \in artifacts[r] /\ pc[q] \in {"turn", "answered", "loaded"} => Excused(q, r, q)

SessionInv ==
    /\ AgentsTypeOK
    /\ RowsAgree
    /\ DecisionsAgree
    /\ DecidersHoldTheRow
    /\ InsideHoldsTheLock
    /\ ChildrenAgree
    /\ FilesAgree
    /\ DeliveriesAgree
    /\ NoForeignDocuments
    /\ DeliveredOnce

-----------------------------------------------------------------------------
(* The session: the initial state, and the steps                           *)

LEMMA SessionStarts == SessionInit => SessionInv
<1> SUFFICES ASSUME SessionInit PROVE SessionInv
  OBVIOUS
<1>1. AgentsTypeOK
  BY SetsAssumption, BoundsAssumption DEF SessionInit, AgentsTypeOK
<1>2. RowsAgree /\ DecisionsAgree /\ DecidersHoldTheRow
  BY DEF SessionInit, RowsAgree, DecisionsAgree, DecidersHoldTheRow
<1>3. InsideHoldsTheLock /\ ChildrenAgree /\ FilesAgree
  BY DEF SessionInit, InsideHoldsTheLock, ChildrenAgree, FilesAgree, Inside, Closed, Unspawned
<1>4. DeliveriesAgree /\ NoForeignDocuments /\ DeliveredOnce
  BY DEF SessionInit, DeliveriesAgree, NoForeignDocuments, DeliveredOnce
<1> QED BY <1>1, <1>2, <1>3, <1>4 DEF SessionInv

\* Of two runs inside, one lost its key.
LEMMA OneKey ==
    ASSUME InsideHoldsTheLock, NEW r \in Runs, NEW q \in Runs, r # q,
           pc[r] \in Inside, pc[q] \in Inside
    PROVE  r \in lostKey \/ q \in lostKey
BY DEF InsideHoldsTheLock

\* Each variable keeps its type; no run is answered, no change applied twice.
LEMMA TypeKept == ASSUME SessionInv, [SessionNext]_sessionVars PROVE AgentsTypeOK'
<1> USE DEF SessionInv, AgentsTypeOK, Inside, rows, local, child, past
<1>1. ASSUME NEW r \in Runs, Begin(r) PROVE AgentsTypeOK'
  BY <1>1 DEF Begin
<1>2. ASSUME NEW r \in Runs, RequestStep(r) PROVE AgentsTypeOK'
  <2>1. CASE BreakEarly(r)
    BY <1>2, <2>1 DEF BreakEarly, Drop
  <2>2. CASE Snapshot(r)
    BY <1>2, <2>2 DEF Snapshot
  <2>3. CASE Acquire(r)
    BY <1>2, <2>3 DEF Acquire, Drop
  <2>4. CASE Spawn(r)
    BY <1>2, <2>4 DEF Spawn
  <2>5. CASE Answer(r)
    BY <1>2, <2>5 DEF Answer, TakeFiles
  <2>6. CASE Break(r)
    BY <1>2, <2>6 DEF Break, Drop
  <2>7. CASE Load(r)
    BY <1>2, <2>7 DEF Load
  <2>8. CASE Store(r)
    <3>1. /\ runStatus' \in [Runs -> {"absent", "running", "completed", "failed"}]
          /\ answers' \in [Runs -> 0..1] /\ artifacts' \in [Runs -> SUBSET Runs]
          /\ changes' \in [Runs -> {"none", "pending", "applied", "rejected"}]
      BY <1>2, <2>8 DEF Store, RowsAgree
    <3>2. /\ pc' \in [Runs -> Inside \cup {"new", "begun", "snapped", "failing", "end"}]
          /\ leftover' \subseteq Runs
          /\ before' \in [Runs -> SUBSET Runs] /\ generated' \in [Runs -> SUBSET Runs]
          /\ loaded' \in [Runs -> SUBSET Runs]
      BY <1>2, <2>8 DEF Store, Drop
    <3> QED BY <1>2, <2>8, <3>1, <3>2 DEF Store
  <2>9. CASE Cleanup(r)
    BY <1>2, <2>9 DEF Cleanup, Drop
  <2>10. CASE Release(r)
    BY <1>2, <2>10 DEF Release
  <2>11. CASE ReleaseFails(r)
    BY <1>2, <2>11 DEF ReleaseFails
  <2>12. CASE FailRequest(r)
    BY <1>2, <2>12 DEF FailRequest, FailRow
  <2>13. CASE FailRequestFails(r)
    BY <1>2, <2>13 DEF FailRequestFails
  <2> QED BY <1>2, <2>1, <2>2, <2>3, <2>4, <2>5, <2>6, <2>7, <2>8, <2>9, <2>10, <2>11, <2>12, <2>13 DEF RequestStep
<1>3. ASSUME NEW r \in Runs, ChildStep(r) PROVE AgentsTypeOK'
  <2>1. CASE Generate(r)
    BY <1>3, <2>1 DEF Generate
  <2>2. CASE ChildExits(r)
    BY <1>3, <2>2 DEF ChildExits
  <2> QED BY <1>3, <2>1, <2>2 DEF ChildStep
<1>4. ASSUME NEW d \in Deciders, NEW r \in Runs, ReadLocked(d, r) PROVE AgentsTypeOK'
  BY <1>4 DEF ReadLocked
<1>5. ASSUME NEW d \in Deciders, Decide(d) PROVE AgentsTypeOK'
  BY <1>5 DEF Decide, Idle, DecidersHoldTheRow, DecisionsAgree
<1>6. CASE Expire
  BY <1>6 DEF Expire
<1>7. CASE WebDies
  BY <1>7, BoundsAssumption DEF WebDies
<1>8. CASE UNCHANGED sessionVars
  BY <1>8 DEF sessionVars
<1> QED BY <1>1, <1>2, <1>3, <1>4, <1>5, <1>6, <1>7, <1>8 DEF SessionNext

\* Only a running row is completed, failed or given a change set.
LEMMA RowsKept == ASSUME SessionInv, [SessionNext]_sessionVars PROVE RowsAgree'
<1> USE DEF SessionInv, AgentsTypeOK, RowsAgree, Inside, rows, local, child, past
<1>1. ASSUME NEW r \in Runs, Begin(r) PROVE RowsAgree'
  BY <1>1 DEF Begin
<1>2. ASSUME NEW r \in Runs, RequestStep(r) PROVE RowsAgree'
  <2>1. CASE BreakEarly(r)
    BY <1>2, <2>1 DEF BreakEarly, Drop
  <2>2. CASE Snapshot(r)
    BY <1>2, <2>2 DEF Snapshot
  <2>3. CASE Acquire(r)
    BY <1>2, <2>3 DEF Acquire, Drop
  <2>4. CASE Spawn(r)
    BY <1>2, <2>4 DEF Spawn
  <2>5. CASE Answer(r)
    BY <1>2, <2>5 DEF Answer, TakeFiles
  <2>6. CASE Break(r)
    BY <1>2, <2>6 DEF Break, Drop
  <2>7. CASE Load(r)
    BY <1>2, <2>7 DEF Load
  <2>8. CASE Store(r)
    BY <1>2, <2>8 DEF Store, Drop
  <2>9. CASE Cleanup(r)
    BY <1>2, <2>9 DEF Cleanup, Drop
  <2>10. CASE Release(r)
    BY <1>2, <2>10 DEF Release
  <2>11. CASE ReleaseFails(r)
    BY <1>2, <2>11 DEF ReleaseFails
  <2>12. CASE FailRequest(r)
    BY <1>2, <2>12 DEF FailRequest, FailRow
  <2>13. CASE FailRequestFails(r)
    BY <1>2, <2>13 DEF FailRequestFails
  <2> QED BY <1>2, <2>1, <2>2, <2>3, <2>4, <2>5, <2>6, <2>7, <2>8, <2>9, <2>10, <2>11, <2>12, <2>13 DEF RequestStep
<1>3. ASSUME NEW r \in Runs, ChildStep(r) PROVE RowsAgree'
  <2>1. CASE Generate(r)
    BY <1>3, <2>1 DEF Generate
  <2>2. CASE ChildExits(r)
    BY <1>3, <2>2 DEF ChildExits
  <2> QED BY <1>3, <2>1, <2>2 DEF ChildStep
<1>4. ASSUME NEW d \in Deciders, NEW r \in Runs, ReadLocked(d, r) PROVE RowsAgree'
  BY <1>4 DEF ReadLocked
<1>5. ASSUME NEW d \in Deciders, Decide(d) PROVE RowsAgree'
  BY <1>5 DEF Decide, Idle, DecidersHoldTheRow
<1>6. CASE Expire
  BY <1>6 DEF Expire
<1>7. CASE WebDies
  BY <1>7 DEF WebDies
<1>8. CASE UNCHANGED sessionVars
  BY <1>8 DEF sessionVars
<1> QED BY <1>1, <1>2, <1>3, <1>4, <1>5, <1>6, <1>7, <1>8 DEF SessionNext

\* A decision and its effect on the draft are one step, under the row's lock.
LEMMA DecisionsKept == ASSUME SessionInv, [SessionNext]_sessionVars PROVE DecisionsAgree'
<1> USE DEF SessionInv, AgentsTypeOK, DecisionsAgree, rows
<1>1. ASSUME NEW r \in Runs, Store(r) PROVE DecisionsAgree'
  BY <1>1 DEF Store, RowsAgree
<1>2. ASSUME NEW d \in Deciders, Decide(d) PROVE DecisionsAgree'
  BY <1>2 DEF Decide, Idle, DecidersHoldTheRow
<1>3. CASE UNCHANGED <<changes, applied>>
  BY <1>3
<1>4. \/ \E r \in Runs : Store(r)
      \/ \E d \in Deciders : Decide(d)
      \/ UNCHANGED <<changes, applied>>
  BY DEF SessionNext, ReadLocked, Expire, WebDies, sessionVars,
       Begin, RequestStep, ChildStep, BreakEarly, Drop, Snapshot, Acquire, Spawn, Generate,
       ChildExits, Answer, TakeFiles, Break, Load, Cleanup, Release, ReleaseFails, FailRequest, FailRow, FailRequestFails
<1> QED BY <1>1, <1>2, <1>3, <1>4

\* The lock of the row lets in one decider, and no run ends twice.
LEMMA DecidersKept == ASSUME SessionInv, [SessionNext]_sessionVars PROVE DecidersHoldTheRow'
<1> USE DEF SessionInv, AgentsTypeOK, DecidersHoldTheRow, rows
<1>1. ASSUME NEW r \in Runs, Store(r) PROVE DecidersHoldTheRow'
  BY <1>1 DEF Store, RowsAgree
<1>2. ASSUME NEW d \in Deciders, NEW r \in Runs, ReadLocked(d, r) PROVE DecidersHoldTheRow'
  BY <1>2, SetsAssumption DEF ReadLocked, Idle
<1>3. ASSUME NEW d \in Deciders, Decide(d) PROVE DecidersHoldTheRow'
  BY <1>3, SetsAssumption DEF Decide, Idle
<1>4. CASE WebDies
  BY <1>4 DEF WebDies
<1>5. CASE UNCHANGED <<changes, rowLock, deciding>>
  BY <1>5
<1>6. \/ \E r \in Runs : Store(r)
      \/ \E d \in Deciders : Decide(d) \/ \E r \in Runs : ReadLocked(d, r)
      \/ WebDies
      \/ UNCHANGED <<changes, rowLock, deciding>>
  BY DEF SessionNext, Expire, sessionVars,
       Begin, RequestStep, ChildStep, BreakEarly, Drop, Snapshot, Acquire, Spawn, Generate,
       ChildExits, Answer, TakeFiles, Break, Load, Cleanup, Release, ReleaseFails, FailRequest, FailRow, FailRequestFails
<1> QED BY <1>1, <1>2, <1>3, <1>4, <1>5, <1>6

\* A run enters only when the key is free; whose key goes away is marked.
LEMMA LockKept == ASSUME SessionInv, [SessionNext]_sessionVars PROVE InsideHoldsTheLock'
<1> USE DEF SessionInv, AgentsTypeOK, InsideHoldsTheLock, Inside, rows, local, child, past
<1>1. ASSUME NEW r \in Runs, Begin(r) PROVE InsideHoldsTheLock'
  BY <1>1 DEF Begin
<1>2. ASSUME NEW r \in Runs, RequestStep(r) PROVE InsideHoldsTheLock'
  <2>1. CASE BreakEarly(r)
    BY <1>2, <2>1 DEF BreakEarly, Drop
  <2>2. CASE Snapshot(r)
    BY <1>2, <2>2 DEF Snapshot
  <2>3. CASE Acquire(r)
    BY <1>2, <2>3, SetsAssumption DEF Acquire, Drop
  <2>4. CASE Spawn(r)
    BY <1>2, <2>4 DEF Spawn
  <2>5. CASE Answer(r)
    BY <1>2, <2>5 DEF Answer, TakeFiles
  <2>6. CASE Break(r)
    BY <1>2, <2>6 DEF Break, Drop
  <2>7. CASE Load(r)
    BY <1>2, <2>7 DEF Load
  <2>8. CASE Store(r)
    BY <1>2, <2>8 DEF Store, Drop
  <2>9. CASE Cleanup(r)
    BY <1>2, <2>9 DEF Cleanup, Drop
  <2>10. CASE Release(r)
    BY <1>2, <2>10 DEF Release
  <2>11. CASE ReleaseFails(r)
    BY <1>2, <2>11 DEF ReleaseFails
  <2>12. CASE FailRequest(r)
    BY <1>2, <2>12 DEF FailRequest, FailRow
  <2>13. CASE FailRequestFails(r)
    BY <1>2, <2>13 DEF FailRequestFails
  <2> QED BY <1>2, <2>1, <2>2, <2>3, <2>4, <2>5, <2>6, <2>7, <2>8, <2>9, <2>10, <2>11, <2>12, <2>13 DEF RequestStep
<1>3. ASSUME NEW r \in Runs, ChildStep(r) PROVE InsideHoldsTheLock'
  <2>1. CASE Generate(r)
    BY <1>3, <2>1 DEF Generate
  <2>2. CASE ChildExits(r)
    BY <1>3, <2>2 DEF ChildExits
  <2> QED BY <1>3, <2>1, <2>2 DEF ChildStep
<1>4. ASSUME NEW d \in Deciders, NEW r \in Runs, ReadLocked(d, r) PROVE InsideHoldsTheLock'
  BY <1>4 DEF ReadLocked
<1>5. ASSUME NEW d \in Deciders, Decide(d) PROVE InsideHoldsTheLock'
  BY <1>5 DEF Decide, Idle
<1>6. CASE Expire
  BY <1>6 DEF Expire
<1>7. CASE WebDies
  BY <1>7 DEF WebDies
<1>8. CASE UNCHANGED sessionVars
  BY <1>8 DEF sessionVars
<1> QED BY <1>1, <1>2, <1>3, <1>4, <1>5, <1>6, <1>7, <1>8 DEF SessionNext

\* A run is answered when its process has closed.
LEMMA ChildrenKept == ASSUME SessionInv, [SessionNext]_sessionVars PROVE ChildrenAgree'
<1> USE DEF SessionInv, AgentsTypeOK, ChildrenAgree, RowsAgree, Unspawned, Closed, Inside, rows, local, child, past
<1>1. ASSUME NEW r \in Runs, Begin(r) PROVE ChildrenAgree'
  BY <1>1 DEF Begin
<1>2. ASSUME NEW r \in Runs, RequestStep(r) PROVE ChildrenAgree'
  <2>1. CASE BreakEarly(r)
    BY <1>2, <2>1 DEF BreakEarly, Drop
  <2>2. CASE Snapshot(r)
    BY <1>2, <2>2 DEF Snapshot
  <2>3. CASE Acquire(r)
    BY <1>2, <2>3 DEF Acquire, Drop
  <2>4. CASE Spawn(r)
    BY <1>2, <2>4 DEF Spawn
  <2>5. CASE Answer(r)
    BY <1>2, <2>5 DEF Answer, TakeFiles
  <2>6. CASE Break(r)
    BY <1>2, <2>6 DEF Break, Drop
  <2>7. CASE Load(r)
    BY <1>2, <2>7 DEF Load
  <2>8. CASE Store(r)
    BY <1>2, <2>8 DEF Store, Drop
  <2>9. CASE Cleanup(r)
    BY <1>2, <2>9 DEF Cleanup, Drop
  <2>10. CASE Release(r)
    BY <1>2, <2>10 DEF Release
  <2>11. CASE ReleaseFails(r)
    BY <1>2, <2>11 DEF ReleaseFails
  <2>12. CASE FailRequest(r)
    BY <1>2, <2>12 DEF FailRequest, FailRow
  <2>13. CASE FailRequestFails(r)
    BY <1>2, <2>13 DEF FailRequestFails
  <2> QED BY <1>2, <2>1, <2>2, <2>3, <2>4, <2>5, <2>6, <2>7, <2>8, <2>9, <2>10, <2>11, <2>12, <2>13 DEF RequestStep
<1>3. ASSUME NEW r \in Runs, ChildStep(r) PROVE ChildrenAgree'
  <2>1. CASE Generate(r)
    BY <1>3, <2>1 DEF Generate
  <2>2. CASE ChildExits(r)
    BY <1>3, <2>2 DEF ChildExits
  <2> QED BY <1>3, <2>1, <2>2 DEF ChildStep
<1>4. ASSUME NEW d \in Deciders, NEW r \in Runs, ReadLocked(d, r) PROVE ChildrenAgree'
  BY <1>4 DEF ReadLocked
<1>5. ASSUME NEW d \in Deciders, Decide(d) PROVE ChildrenAgree'
  BY <1>5 DEF Decide, Idle
<1>6. CASE Expire
  BY <1>6 DEF Expire
<1>7. CASE WebDies
  BY <1>7 DEF WebDies
<1>8. CASE UNCHANGED sessionVars
  BY <1>8 DEF sessionVars
<1> QED BY <1>1, <1>2, <1>3, <1>4, <1>5, <1>6, <1>7, <1>8 DEF SessionNext

\* A run finds its own file when its process has closed, and removes it or it stays.
LEMMA FilesKept == ASSUME SessionInv, [SessionNext]_sessionVars PROVE FilesAgree'
<1> USE DEF SessionInv, AgentsTypeOK, FilesAgree, ChildrenAgree, Unspawned, Closed, Inside, rows, local, child, past
<1>1. ASSUME NEW r \in Runs, Begin(r) PROVE FilesAgree'
  BY <1>1 DEF Begin
<1>2. ASSUME NEW r \in Runs, RequestStep(r) PROVE FilesAgree'
  <2>1. CASE BreakEarly(r)
    BY <1>2, <2>1 DEF BreakEarly, Drop
  <2>2. CASE Snapshot(r)
    BY <1>2, <2>2 DEF Snapshot
  <2>3. CASE Acquire(r)
    BY <1>2, <2>3 DEF Acquire, Drop
  <2>4. CASE Spawn(r)
    BY <1>2, <2>4 DEF Spawn
  <2>5. CASE Answer(r)
    BY <1>2, <2>5 DEF Answer, TakeFiles
  <2>6. CASE Break(r)
    BY <1>2, <2>6 DEF Break, Drop
  <2>7. CASE Load(r)
    BY <1>2, <2>7 DEF Load
  <2>8. CASE Store(r)
    BY <1>2, <2>8 DEF Store, Drop
  <2>9. CASE Cleanup(r)
    BY <1>2, <2>9 DEF Cleanup, Drop
  <2>10. CASE Release(r)
    BY <1>2, <2>10 DEF Release
  <2>11. CASE ReleaseFails(r)
    BY <1>2, <2>11 DEF ReleaseFails
  <2>12. CASE FailRequest(r)
    BY <1>2, <2>12 DEF FailRequest, FailRow
  <2>13. CASE FailRequestFails(r)
    BY <1>2, <2>13 DEF FailRequestFails
  <2> QED BY <1>2, <2>1, <2>2, <2>3, <2>4, <2>5, <2>6, <2>7, <2>8, <2>9, <2>10, <2>11, <2>12, <2>13 DEF RequestStep
<1>3. ASSUME NEW r \in Runs, ChildStep(r) PROVE FilesAgree'
  <2>1. CASE Generate(r)
    BY <1>3, <2>1 DEF Generate
  <2>2. CASE ChildExits(r)
    BY <1>3, <2>2 DEF ChildExits
  <2> QED BY <1>3, <2>1, <2>2 DEF ChildStep
<1>4. ASSUME NEW d \in Deciders, NEW r \in Runs, ReadLocked(d, r) PROVE FilesAgree'
  BY <1>4 DEF ReadLocked
<1>5. ASSUME NEW d \in Deciders, Decide(d) PROVE FilesAgree'
  BY <1>5 DEF Decide, Idle
<1>6. CASE Expire
  BY <1>6 DEF Expire
<1>7. CASE WebDies
  BY <1>7 DEF WebDies
<1>8. CASE UNCHANGED sessionVars
  BY <1>8 DEF sessionVars
<1> QED BY <1>1, <1>2, <1>3, <1>4, <1>5, <1>6, <1>7, <1>8 DEF SessionNext

\* Who finds or delivers the file of a run inside is inside with it.
LEMMA DeliveriesKept == ASSUME SessionInv, [SessionNext]_sessionVars PROVE DeliveriesAgree'
<1> USE DEF SessionInv, AgentsTypeOK, DeliveriesAgree, FilesAgree, ChildrenAgree, Excused, Unspawned, Closed, Inside, rows, local, child, past
<1>1. ASSUME NEW r \in Runs, Begin(r) PROVE DeliveriesAgree'
  BY <1>1 DEF Begin
<1>2. ASSUME NEW r \in Runs, RequestStep(r) PROVE DeliveriesAgree'
  <2>1. CASE BreakEarly(r)
    BY <1>2, <2>1 DEF BreakEarly, Drop
  <2>2. CASE Snapshot(r)
    BY <1>2, <2>2 DEF Snapshot
  <2>3. CASE Acquire(r)
    BY <1>2, <2>3 DEF Acquire, Drop
  <2>4. CASE Spawn(r)
    BY <1>2, <2>4 DEF Spawn
  <2>5. CASE Answer(r)
    BY <1>2, <2>5 DEF Answer, TakeFiles
  <2>6. CASE Break(r)
    BY <1>2, <2>6 DEF Break, Drop
  <2>7. CASE Load(r)
    BY <1>2, <2>7, OneKey DEF Load
  <2>8. CASE Store(r)
    BY <1>2, <2>8, OneKey DEF Store, Drop
  <2>9. CASE Cleanup(r)
    BY <1>2, <2>9 DEF Cleanup, Drop
  <2>10. CASE Release(r)
    BY <1>2, <2>10 DEF Release
  <2>11. CASE ReleaseFails(r)
    BY <1>2, <2>11 DEF ReleaseFails
  <2>12. CASE FailRequest(r)
    BY <1>2, <2>12 DEF FailRequest, FailRow
  <2>13. CASE FailRequestFails(r)
    BY <1>2, <2>13 DEF FailRequestFails
  <2> QED BY <1>2, <2>1, <2>2, <2>3, <2>4, <2>5, <2>6, <2>7, <2>8, <2>9, <2>10, <2>11, <2>12, <2>13 DEF RequestStep
<1>3. ASSUME NEW r \in Runs, ChildStep(r) PROVE DeliveriesAgree'
  <2>1. CASE Generate(r)
    BY <1>3, <2>1 DEF Generate
  <2>2. CASE ChildExits(r)
    BY <1>3, <2>2 DEF ChildExits
  <2> QED BY <1>3, <2>1, <2>2 DEF ChildStep
<1>4. ASSUME NEW d \in Deciders, NEW r \in Runs, ReadLocked(d, r) PROVE DeliveriesAgree'
  BY <1>4 DEF ReadLocked
<1>5. ASSUME NEW d \in Deciders, Decide(d) PROVE DeliveriesAgree'
  BY <1>5 DEF Decide, Idle
<1>6. CASE Expire
  BY <1>6 DEF Expire
<1>7. CASE WebDies
  BY <1>7 DEF WebDies
<1>8. CASE UNCHANGED sessionVars
  BY <1>8 DEF sessionVars
<1> QED BY <1>1, <1>2, <1>3, <1>4, <1>5, <1>6, <1>7, <1>8 DEF SessionNext

\* What is stored was loaded.
LEMMA StoresKept ==
    ASSUME SessionInv, [SessionNext]_sessionVars
    PROVE  NoForeignDocuments' /\ DeliveredOnce'
<1> USE DEF SessionInv, AgentsTypeOK, NoForeignDocuments, DeliveredOnce, Excused, rows, local, child, past
<1>1. ASSUME NEW r \in Runs, Store(r) PROVE NoForeignDocuments' /\ DeliveredOnce'
  <2>1. /\ pc[r] = "loaded"
        /\ leftover \subseteq leftover' /\ lostKey \subseteq lostKey'
        /\ \/ /\ artifacts' = [artifacts EXCEPT ![r] = loaded[r]]
              /\ runStatus' = [runStatus EXCEPT ![r] = "completed"]
           \/ UNCHANGED <<artifacts, runStatus>>
    BY <1>1 DEF Store, Drop
  <2>2. CASE UNCHANGED <<artifacts, runStatus>>
    BY <2>1, <2>2
  <2>3. CASE /\ artifacts' = [artifacts EXCEPT ![r] = loaded[r]]
             /\ runStatus' = [runStatus EXCEPT ![r] = "completed"]
    <3>1. NoForeignDocuments'
      BY <1>1, <2>1, <2>3 DEF DeliveriesAgree
    <3>2. DeliveredOnce'
      BY <1>1, <2>1, <2>3 DEF DeliveriesAgree
    <3> QED BY <3>1, <3>2
  <2> QED BY <2>1, <2>2, <2>3
<1>2. CASE /\ UNCHANGED artifacts
           /\ \A r \in Runs : runStatus'[r] = "completed" => runStatus[r] = "completed"
           /\ leftover \subseteq leftover' /\ lostKey \subseteq lostKey'
  BY <1>2
<1>3. \/ \E r \in Runs : Store(r)
      \/ /\ UNCHANGED artifacts
         /\ \A r \in Runs : runStatus'[r] = "completed" => runStatus[r] = "completed"
         /\ leftover \subseteq leftover' /\ lostKey \subseteq lostKey'
  BY DEF SessionNext, ReadLocked, Decide, Expire, WebDies, sessionVars,
       Begin, RequestStep, ChildStep, BreakEarly, Drop, Snapshot, Acquire, Spawn, Generate,
       ChildExits, Answer, TakeFiles, Break, Load, Cleanup, Release, ReleaseFails, FailRequest, FailRow, FailRequestFails
<1> QED BY <1>1, <1>2, <1>3

LEMMA SessionKeeps == SessionInv /\ [SessionNext]_sessionVars => SessionInv'
BY TypeKept, RowsKept, DecisionsKept, DecidersKept, LockKept, ChildrenKept, FilesKept,
   DeliveriesKept, StoresKept DEF SessionInv

-----------------------------------------------------------------------------
(* The session: theorems                                                   *)

\* The inductive invariant holds in every behaviour.
THEOREM SessionInvariance == SessionSpec => []SessionInv
BY SessionStarts, SessionKeeps, PTL DEF SessionSpec

\* Every variable keeps its type; in particular no run is answered twice and no
\* change set is applied twice (decideAgentChangeSet, completeAgentRun).
THEOREM SessionTypeCorrectness == SessionSpec => []AgentsTypeOK
<1>1. SessionInv => AgentsTypeOK
  BY DEF SessionInv
<1> QED BY <1>1, SessionInvariance, PTL

\* The draft and the decision agree, whoever decides at once and whatever dies.
THEOREM DecisionsAlwaysAgree == SessionSpec => []DecisionsAgree
<1>1. SessionInv => DecisionsAgree
  BY DEF SessionInv
<1> QED BY <1>1, SessionInvariance, PTL

\* The document of an answered run is not delivered as another run's, for any
\* number of requests, deaths, expired keys and processes left alone, but for the
\* files that stayed after their delivery and the runs that lost their key.
THEOREM DocumentsStayWithTheirRun == SessionSpec => []NoForeignDocuments
<1>1. SessionInv => NoForeignDocuments
  BY DEF SessionInv
<1> QED BY <1>1, SessionInvariance, PTL

\* A document is delivered with one answer only, with the same two exceptions: a
\* file that could not be removed after its delivery, a run that lost its key.
THEOREM DocumentsAreDeliveredOnce == SessionSpec => []DeliveredOnce
<1>1. SessionInv => DeliveredOnce
  BY DEF SessionInv
<1> QED BY <1>1, SessionInvariance, PTL

-----------------------------------------------------------------------------
(* The queue: sums                                                         *)

\* A set of numbers that is not empty has a least one.
LEMMA LeastNumber ==
    ASSUME NEW U \in SUBSET Nat, U # {}
    PROVE  \E n \in U : \A m \in U : n <= m
<1> DEFINE T == {1..n : n \in U}
<1>1. T \subseteq FiniteSubsetsOf(Nat) /\ T # {}
  <2>1. \A n \in U : 1..n \in SUBSET Nat /\ IsFiniteSet(1..n)
    BY FS_Interval
  <2> QED BY <2>1 DEF FiniteSubsetsOf
<1>2. PICK x \in T : \A y \in T : ~(<<y, x>> \in StrictSubsetOrdering(Nat))
  <2> HIDE DEF T
  <2> QED BY <1>1, FS_StrictSubsetOrderingWellFounded, WFMin
<1>3. PICK n \in U : x = 1..n
  OBVIOUS
<1>4. ASSUME NEW m \in U, m < n PROVE FALSE
  <2>1. 1..m \in T /\ 1..m \subseteq 1..n /\ n \in 1..n /\ n \notin 1..m
    BY <1>4
  <2>2. <<1..m, x>> \in StrictSubsetOrdering(Nat)
    BY <1>3, <2>1 DEF StrictSubsetOrdering
  <2> QED BY <1>2, <2>1, <2>2
<1>5. \A m \in U : n <= m
  BY <1>4
<1> QED BY <1>5

\* The equation of the recursive function by which a sum is defined,
One(s) == CHOOSE x \in s : TRUE
Adds(g, f, D) == g = [s \in D |-> IF s = {} THEN 0 ELSE f[One(s)] + g[s \ {One(s)}]]

\* ... over the sets of at most n elements.
UpTo(S, n) == {s \in SUBSET S : Cardinality(s) <= n}

LEMMA OneOf ==
    ASSUME NEW S, IsFiniteSet(S)
    PROVE  \A s \in SUBSET S :
             /\ IsFiniteSet(s) /\ Cardinality(s) \in Nat /\ Cardinality(s) <= Cardinality(S)
             /\ (Cardinality(s) = 0) <=> (s = {})
             /\ s # {} => /\ One(s) \in s /\ s \ {One(s)} \in SUBSET S
                          /\ Cardinality(s \ {One(s)}) = Cardinality(s) - 1
<1> TAKE s \in SUBSET S
<1>1. IsFiniteSet(s) /\ Cardinality(s) <= Cardinality(S)
  BY FS_Subset
<1>2. Cardinality(s) \in Nat /\ (Cardinality(s) = 0 <=> s = {})
  BY <1>1, FS_CardinalityType, FS_EmptySet
<1>3. s # {} => One(s) \in s
  BY DEF One
<1>4. s # {} => Cardinality(s \ {One(s)}) = Cardinality(s) - 1
  BY <1>1, <1>3, FS_RemoveElement
<1> QED BY <1>1, <1>2, <1>3, <1>4

LEMMA AddsExist ==
    ASSUME NEW S, IsFiniteSet(S), NEW f, NEW k \in Nat
    PROVE  \E g : Adds(g, f, UpTo(S, k))
<1> DEFINE U == {m \in Nat : ~ \E g : Adds(g, f, UpTo(S, m))}
<1>1. SUFFICES ASSUME U # {} PROVE FALSE
  OBVIOUS
<1>2. PICK n \in U : \A m \in U : n <= m
  <2> HIDE DEF U
  <2>1. U \in SUBSET Nat
    BY DEF U
  <2> QED BY <1>1, <2>1, LeastNumber
<1>3. CASE n = 0
  <2>1. \A s \in UpTo(S, 0) : s = {}
    <3> TAKE s \in UpTo(S, 0)
    <3>1. s \in SUBSET S /\ Cardinality(s) <= 0
      BY DEF UpTo
    <3>2. Cardinality(s) \in Nat /\ (Cardinality(s) = 0 <=> s = {})
      BY <3>1, OneOf
    <3> QED BY <3>1, <3>2
  <2>2. Adds([s \in UpTo(S, 0) |-> 0], f, UpTo(S, 0))
    BY <2>1 DEF Adds
  <2> QED BY <1>2, <1>3, <2>2
<1>4. CASE n # 0
  <2>1. n \in Nat /\ n - 1 \in Nat /\ n - 1 \notin U
    BY <1>2, <1>4
  <2>2. PICK g : Adds(g, f, UpTo(S, n - 1))
    BY <2>1
  <2> DEFINE h == [s \in UpTo(S, n) |-> IF s \in UpTo(S, n - 1) THEN g[s]
                                        ELSE f[One(s)] + g[s \ {One(s)}]]
  <2>3. \A s \in UpTo(S, n) : h[s] = IF s = {} THEN 0 ELSE f[One(s)] + h[s \ {One(s)}]
    <3> TAKE s \in UpTo(S, n)
    <3>1. s \in SUBSET S /\ Cardinality(s) <= n
      BY DEF UpTo
    <3>2. s # {} => s \ {One(s)} \in UpTo(S, n - 1) /\ s \ {One(s)} \in UpTo(S, n)
      BY <2>1, <3>1, OneOf DEF UpTo
    <3>3. s # {} => h[s \ {One(s)}] = g[s \ {One(s)}]
      BY <3>2
    <3>4. CASE s \in UpTo(S, n - 1)
      <4>1. g[s] = IF s = {} THEN 0 ELSE f[One(s)] + g[s \ {One(s)}]
        BY <2>2, <3>4 DEF Adds
      <4>2. h[s] = g[s]
        BY <3>4
      <4> HIDE DEF h
      <4> QED BY <3>3, <4>1, <4>2
    <3>5. CASE s \notin UpTo(S, n - 1)
      <4>1. s # {}
        <5>1. ~(Cardinality(s) <= n - 1)
          BY <3>1, <3>5 DEF UpTo
        <5>2. Cardinality(s) \in Nat /\ (Cardinality(s) = 0 <=> s = {})
          BY <3>1, OneOf
        <5> QED BY <2>1, <5>1, <5>2
      <4>2. h[s] = f[One(s)] + g[s \ {One(s)}]
        BY <3>5
      <4> HIDE DEF h
      <4> QED BY <3>3, <4>1, <4>2
    <3> QED BY <3>4, <3>5
  <2>4. h = [s \in UpTo(S, n) |-> h[s]]
    OBVIOUS
  <2>5. Adds(h, f, UpTo(S, n))
    <3> HIDE DEF h
    <3> QED BY <2>3, <2>4 DEF Adds
  <2> QED BY <1>2, <2>5
<1> QED BY <1>3, <1>4

\* What SumFunctionOnSet computes.
LEMMA SumAdds ==
    ASSUME NEW S, IsFiniteSet(S), NEW f
    PROVE  \E g : Adds(g, f, SUBSET S) /\ SumFunctionOnSet(f, S) = g[S]
<1>1. UpTo(S, Cardinality(S)) = SUBSET S
  BY OneOf DEF UpTo
<1>2. \E g : Adds(g, f, SUBSET S)
  <2>1. Cardinality(S) \in Nat
    BY FS_CardinalityType
  <2>2. \A k \in Nat : \E g : Adds(g, f, UpTo(S, k))
    BY AddsExist
  <2> QED BY <1>1, <2>1, <2>2
<1>3. PICK h : h = CHOOSE g : Adds(g, f, SUBSET S)
  OBVIOUS
<1>4. Adds(h, f, SUBSET S)
  BY <1>2, <1>3
<1>5. SumFunctionOnSet(f, S) = h[S]
  BY <1>3 DEF SumFunctionOnSet, FoldFunctionOnSet, MapThenFoldSet, Adds, One
<1> QED BY <1>4, <1>5

\* Sums of whole numbers grow with their parts.
LEMMA SumsGrow ==
    ASSUME NEW S, IsFiniteSet(S), NEW f \in [S -> Int], NEW e \in [S -> Int],
           \A x \in S : f[x] <= e[x]
    PROVE  /\ SumFunctionOnSet(f, S) \in Int /\ SumFunctionOnSet(e, S) \in Int
           /\ SumFunctionOnSet(f, S) <= SumFunctionOnSet(e, S)
           /\ \A j \in S : f[j] < e[j] => SumFunctionOnSet(f, S) < SumFunctionOnSet(e, S)
           /\ (\A x \in S : f[x] >= 0) => SumFunctionOnSet(f, S) >= 0
<1>1. PICK g : Adds(g, f, SUBSET S) /\ SumFunctionOnSet(f, S) = g[S]
  BY SumAdds
<1>2. PICK h : Adds(h, e, SUBSET S) /\ SumFunctionOnSet(e, S) = h[S]
  BY SumAdds
<1> DEFINE Right(s) == /\ g[s] \in Int /\ h[s] \in Int /\ g[s] <= h[s]
                       /\ \A j \in s : f[j] < e[j] => g[s] < h[s]
                       /\ (\A x \in s : f[x] >= 0) => g[s] >= 0
           U == {Cardinality(s) : s \in {t \in SUBSET S : ~Right(t)}}
<1>3. ASSUME U # {} PROVE FALSE
  <2>1. U \in SUBSET Nat
    <3>1. \A s \in SUBSET S : Cardinality(s) \in Nat
      BY OneOf
    <3> HIDE DEF Right
    <3> QED BY <3>1
  <2>2. PICK n \in U : \A m \in U : n <= m
    <3> HIDE DEF U
    <3> QED BY <1>3, <2>1, LeastNumber
  <2>3. PICK s \in SUBSET S : ~Right(s) /\ n = Cardinality(s)
    BY <2>2
  <2>4. \A t \in SUBSET S : Cardinality(t) < n => Right(t)
    <3> TAKE t \in SUBSET S
    <3> HAVE Cardinality(t) < n
    <3>1. Cardinality(t) \in Nat /\ n \in Nat
      BY <2>1, <2>2, OneOf
    <3>2. ~Right(t) => Cardinality(t) \in U
      OBVIOUS
    <3> HIDE DEF U, Right
    <3> QED BY <2>2, <3>1, <3>2
  <2>5. /\ g[s] = IF s = {} THEN 0 ELSE f[One(s)] + g[s \ {One(s)}]
        /\ h[s] = IF s = {} THEN 0 ELSE e[One(s)] + h[s \ {One(s)}]
    BY <1>1, <1>2, <2>3 DEF Adds
  <2>6. CASE s = {}
    BY <2>3, <2>5, <2>6
  <2>7. CASE s # {}
    <3>1. PICK x \in S : x = One(s) /\ x \in s
      BY <2>3, <2>7, OneOf
    <3>2. s \ {x} \in SUBSET S /\ Cardinality(s \ {x}) < n
      BY <2>3, <2>7, <3>1, OneOf
    <3>3. Right(s \ {x})
      BY <2>4, <3>2
    <3>4. g[s] = f[x] + g[s \ {x}] /\ h[s] = e[x] + h[s \ {x}]
      BY <2>5, <2>7, <3>1
    <3>5. f[x] \in Int /\ e[x] \in Int /\ f[x] <= e[x]
      BY <3>1
    <3>6. g[s] \in Int /\ h[s] \in Int /\ g[s] <= h[s]
      BY <3>3, <3>4, <3>5
    <3>7. ASSUME NEW j \in s, f[j] < e[j] PROVE g[s] < h[s]
      <4>1. CASE j = x
        BY <3>3, <3>4, <3>5, <3>7, <4>1
      <4>2. CASE j # x
        <5>1. g[s \ {x}] < h[s \ {x}]
          BY <3>3, <3>7, <4>2
        <5> QED BY <3>3, <3>4, <3>5, <5>1
      <4> QED BY <4>1, <4>2
    <3>8. ASSUME \A y \in s : f[y] >= 0 PROVE g[s] >= 0
      BY <3>1, <3>3, <3>4, <3>5, <3>8
    <3> QED BY <2>3, <3>6, <3>7, <3>8
  <2> QED BY <2>6, <2>7
<1>4. Right(S)
  <2>1. S \in SUBSET S
    OBVIOUS
  <2> QED BY <1>3, <2>1
<1> QED BY <1>1, <1>2, <1>4

-----------------------------------------------------------------------------
(* The queue: the inductive invariant                                      *)

\* A worker that still may put the row of its job back.
Open(j) == {w \in Workers : runner[w].step \notin {"idle", "ok"} /\ runner[w].job = j}
Productive(j) == {w \in Open(j) : runner[w].attempts < MaxAttempts}
Waiting(j) == IF status[j] \in {"none", "pending"} THEN 1 ELSE 0

\* As long as the admin leaves a job alone, the worker that has it has it alone.
HoldersHold ==
    /\ \A w \in Workers : runner[w].step # "idle" /\ touches[runner[w].job] = 0 =>
         status[runner[w].job] = "claimed"
    /\ \A v, w \in Workers :
         /\ v # w /\ runner[v].step # "idle" /\ runner[w].step # "idle"
         /\ runner[v].job = runner[w].job
         => touches[runner[v].job] > 0

\* uq_jobs_dedup
KeysAreUnique == \A i, j \in Jobs : i # j /\ KeyOf[i] = KeyOf[j] => ~(Live(i) /\ Live(j))

\* Each claim uses an attempt of the row, or ends a worker that was overtaken.
Remaining(j) == IF attempts[j] < MaxAttempts THEN MaxAttempts - 1 - attempts[j] ELSE 0
RunsAreCounted ==
    \A j \in Jobs :
        claims[j] + Waiting(j) + Cardinality(Productive(j)) + Remaining(j)
            <= MaxAttempts + MaxAttempts * touches[j]

TurnsAreCounted == \A j \in Jobs : Waiting(j) + Cardinality(Open(j)) <= 1 + touches[j]

\* Only a notice is on its way.
NoticesLeave ==
    \A w \in Workers : runner[w].step \in {"sending", "delivered"} => runner[w].job \in Notices

\* A row that is not inserted yet was not touched and not sent, and no day is
\* ahead of the present one.
RowsStartNew ==
    /\ \A j \in Jobs : status[j] = "none" =>
         touches[j] = 0 /\ (j \in Notices => row[j] = "queued")
    /\ \A n \in Notices : created[n] <= today

\* The messages of today's notices, and what is left over of the turns of those
\* that were handled before.
Sent == {n \in Today : row[n] = "sent"}
On(steps) == {w \in Workers : OnTheWay(w, steps)}
Slack == [j \in Jobs |-> IF j \in Today /\ row[j] # "queued"
                         THEN touches[j] - Waiting(j) - Cardinality(Open(j)) ELSE 0]

AlertsAreCounted ==
    \E lost \in 0..uncounted :
        /\ delivered <= Cardinality(On({"delivered"})) + lost + Cardinality(Sent)
                            + SumFunctionOnSet(Slack, Jobs)
        /\ Cardinality(Sent) + Cardinality(On({"sending", "delivered"}))
              <= MaxAlerts + (uncounted - lost)

QueueInv ==
    /\ QueueTypeOK /\ HoldersHold /\ KeysAreUnique /\ RunsAreCounted /\ TurnsAreCounted
    /\ NoticesLeave /\ RowsStartNew /\ AlertsAreCounted

Runner ==
    {Free} \cup [step : {"handling", "sending", "delivered", "ok", "error"},
                 job : Jobs, attempts : Nat \ {0}]

LEMMA RunnerIs ==
    ASSUME QueueTypeOK, NEW w \in Workers
    PROVE  /\ runner[w] \in Runner
           /\ runner[w].step \in {"idle", "handling", "sending", "delivered", "ok", "error"}
           /\ runner[w].step = "idle" <=> runner[w] = Free
           /\ runner[w].step # "idle" => runner[w].job \in Jobs /\ runner[w].attempts \in Nat \ {0}
<1>1. runner[w] \in Runner
  BY DEF QueueTypeOK, Runner
<1> QED BY <1>1 DEF Runner, Free

-----------------------------------------------------------------------------
(* The queue: counting workers                                             *)

Unit(p) == IF p THEN 1 ELSE 0

LEMMA Recount ==
    ASSUME NEW A \in SUBSET Workers, NEW B \in SUBSET Workers, NEW w \in Workers,
           \A v \in Workers : v # w => (v \in A <=> v \in B)
    PROVE  /\ Cardinality(A) \in Nat /\ Cardinality(B) \in Nat
           /\ Cardinality(B) = Cardinality(A) + Unit(w \in B) - Unit(w \in A)
<1>1. IsFiniteSet(A) /\ IsFiniteSet(B)
  BY QueueAssumption, FS_Subset
<1>2. Cardinality(A) \in Nat /\ Cardinality(B) \in Nat
  BY <1>1, FS_CardinalityType
<1>3. CASE w \in A /\ w \in B
  <2>1. A = B
    BY <1>3
  <2> QED BY <1>2, <1>3, <2>1 DEF Unit
<1>4. CASE w \in A /\ w \notin B
  <2>1. B = A \ {w}
    BY <1>4
  <2> QED BY <1>1, <1>2, <1>4, <2>1, FS_RemoveElement DEF Unit
<1>5. CASE w \notin A /\ w \in B
  <2>1. B = A \cup {w}
    BY <1>5
  <2> QED BY <1>1, <1>2, <1>5, <2>1, FS_AddElement DEF Unit
<1>6. CASE w \notin A /\ w \notin B
  <2>1. A = B
    BY <1>6
  <2> QED BY <1>2, <1>6, <2>1 DEF Unit
<1> QED BY <1>3, <1>4, <1>5, <1>6

LEMMA Counts ==
    \A A \in SUBSET Workers : Cardinality(A) \in Nat
BY QueueAssumption, FS_Subset, FS_CardinalityType

Opens(r, j) == r.step \notin {"idle", "ok"} /\ r.job = j
Produces(r, j) == Opens(r, j) /\ r.attempts < MaxAttempts
At(r, steps) == r.step \in steps /\ r.job \in Today

\* One worker moves.
LEMMA Moves ==
    ASSUME QueueTypeOK, NEW w \in Workers, NEW r, runner' = [runner EXCEPT ![w] = r]
    PROVE  /\ runner'[w] = r /\ \A v \in Workers : v # w => runner'[v] = runner[v]
           /\ \A j \in Jobs :
                /\ Cardinality(Open(j)) \in Nat /\ Cardinality(Open(j)') \in Nat
                /\ Cardinality(Open(j)') = Cardinality(Open(j)) + Unit(Opens(r, j))
                                             - Unit(Opens(runner[w], j))
                /\ Cardinality(Productive(j)) \in Nat /\ Cardinality(Productive(j)') \in Nat
                /\ Cardinality(Productive(j)') = Cardinality(Productive(j)) + Unit(Produces(r, j))
                                                   - Unit(Produces(runner[w], j))
           /\ Today' = Today => \A steps :
                /\ Cardinality(On(steps)) \in Nat /\ Cardinality(On(steps)') \in Nat
                /\ Cardinality(On(steps)') = Cardinality(On(steps)) + Unit(At(r, steps))
                                               - Unit(At(runner[w], steps))
<1>1. runner'[w] = r /\ \A v \in Workers : v # w => runner'[v] = runner[v]
  BY DEF QueueTypeOK
<1>2. ASSUME NEW j \in Jobs
      PROVE  /\ Cardinality(Open(j)) \in Nat /\ Cardinality(Open(j)') \in Nat
             /\ Cardinality(Open(j)') = Cardinality(Open(j)) + Unit(Opens(r, j))
                                          - Unit(Opens(runner[w], j))
  <2>1. /\ Open(j) \in SUBSET Workers /\ Open(j)' \in SUBSET Workers
        /\ \A v \in Workers : v # w => (v \in Open(j) <=> v \in Open(j)')
        /\ w \in Open(j) <=> Opens(runner[w], j)
        /\ w \in Open(j)' <=> Opens(r, j)
    BY <1>1 DEF Open, Opens
  <2>2. /\ Cardinality(Open(j)) \in Nat /\ Cardinality(Open(j)') \in Nat
        /\ Cardinality(Open(j)') = Cardinality(Open(j)) + Unit(w \in Open(j)') - Unit(w \in Open(j))
    BY <2>1, Recount
  <2> QED BY <2>1, <2>2 DEF Unit
<1>3. ASSUME NEW j \in Jobs
      PROVE  /\ Cardinality(Productive(j)) \in Nat /\ Cardinality(Productive(j)') \in Nat
             /\ Cardinality(Productive(j)') = Cardinality(Productive(j)) + Unit(Produces(r, j))
                                                - Unit(Produces(runner[w], j))
  <2>1. /\ Productive(j) \in SUBSET Workers /\ Productive(j)' \in SUBSET Workers
        /\ \A v \in Workers : v # w => (v \in Productive(j) <=> v \in Productive(j)')
        /\ w \in Productive(j) <=> Produces(runner[w], j)
        /\ w \in Productive(j)' <=> Produces(r, j)
    BY <1>1 DEF Productive, Open, Produces, Opens
  <2>2. /\ Cardinality(Productive(j)) \in Nat /\ Cardinality(Productive(j)') \in Nat
        /\ Cardinality(Productive(j)') = Cardinality(Productive(j)) + Unit(w \in Productive(j)')
                                           - Unit(w \in Productive(j))
    BY <2>1, Recount
  <2> QED BY <2>1, <2>2 DEF Unit
<1>4. ASSUME Today' = Today, NEW steps
      PROVE  /\ Cardinality(On(steps)) \in Nat /\ Cardinality(On(steps)') \in Nat
             /\ Cardinality(On(steps)') = Cardinality(On(steps)) + Unit(At(r, steps))
                                            - Unit(At(runner[w], steps))
  <2>1. /\ On(steps) \in SUBSET Workers /\ On(steps)' \in SUBSET Workers
        /\ \A v \in Workers : v # w => (v \in On(steps) <=> v \in On(steps)')
        /\ w \in On(steps) <=> At(runner[w], steps)
        /\ w \in On(steps)' <=> At(r, steps)
    BY <1>1, <1>4 DEF On, OnTheWay, At
  <2>2. /\ Cardinality(On(steps)) \in Nat /\ Cardinality(On(steps)') \in Nat
        /\ Cardinality(On(steps)') = Cardinality(On(steps)) + Unit(w \in On(steps)') - Unit(w \in On(steps))
    BY <2>1, Recount
  <2> QED BY <2>1, <2>2 DEF Unit
<1> QED BY <1>1, <1>2, <1>3, <1>4

\* No worker moves.
LEMMA Stands ==
    ASSUME runner' = runner
    PROVE  /\ \A j \in Jobs : /\ Open(j)' = Open(j) /\ Productive(j)' = Productive(j)
                              /\ Cardinality(Open(j)) \in Nat /\ Cardinality(Productive(j)) \in Nat
           /\ Today' = Today => \A steps : On(steps)' = On(steps) /\ Cardinality(On(steps)) \in Nat
<1>1. \A j \in Jobs : Open(j) \in SUBSET Workers /\ Productive(j) \in SUBSET Workers
  BY DEF Open, Productive
<1>2. \A steps : On(steps) \in SUBSET Workers
  BY DEF On
<1>3. \A j \in Jobs : Open(j)' = Open(j) /\ Productive(j)' = Productive(j)
  BY DEF Open, Productive
<1>4. Today' = Today => \A steps : On(steps)' = On(steps)
  BY DEF On, OnTheWay
<1> QED BY <1>1, <1>2, <1>3, <1>4, Counts

-----------------------------------------------------------------------------
(* The queue: the steps, by what they do to a row and its worker           *)

\* A handler goes on,
GoesOn(w) ==
    /\ runner[w].step \in {"handling", "sending", "delivered"}
    /\ \E s \in {"sending", "delivered", "ok", "error"} :
         /\ Goto(w, s)
         /\ s = "sending" => runner[w].job \in Notices
         /\ s = "delivered" => runner[w].step = "sending"
    /\ UNCHANGED <<status, attempts, claims, touches>>

\* ... or a worker is free again.
Ends(w) ==
    /\ runner[w].step # "idle" /\ runner' = [runner EXCEPT ![w] = Free]
    /\ \/ UNCHANGED status
       \/ SetStatus(runner[w].job, "done") \/ SetStatus(runner[w].job, "dead")
       \/ runner[w].step = "error" /\ runner[w].attempts < MaxAttempts /\ Defer(w)
    /\ UNCHANGED <<attempts, claims, touches>>

TableAgrees == HoldersHold /\ KeysAreUnique /\ RunsAreCounted /\ TurnsAreCounted /\ NoticesLeave

\* What is left of the turns that the insert and the buttons gave to a job.
Turns(j) == Waiting(j) + Cardinality(Open(j))
TurnsFall == \A j \in Jobs : Turns(j) \in Nat /\ Turns(j)' \in Nat
                               /\ Turns(j)' + touches[j] <= Turns(j) + touches'[j]

LEMMA GoesOnKeeps ==
    ASSUME QueueTypeOK, TableAgrees, NEW w \in Workers, GoesOn(w)
    PROVE  TableAgrees' /\ TurnsFall
<1>1. PICK s \in {"sending", "delivered", "ok", "error"} :
         /\ runner' = [runner EXCEPT ![w] = [runner[w] EXCEPT !.step = s]]
         /\ s = "sending" => runner[w].job \in Notices
         /\ s = "delivered" => runner[w].step = "sending"
  BY DEF GoesOn, Goto, QueueTypeOK
<1>2. PICK r : r = [runner[w] EXCEPT !.step = s]
  OBVIOUS
<1>3. /\ r.step = s /\ r.job = runner[w].job /\ r.attempts = runner[w].attempts
      /\ runner[w].step \in {"handling", "sending", "delivered"}
  BY <1>2, RunnerIs DEF GoesOn, Runner, Free
<1>4. runner' = [runner EXCEPT ![w] = r]
  BY <1>1, <1>2
<1>5. /\ runner'[w] = r /\ \A v \in Workers : v # w => runner'[v] = runner[v]
      /\ \A j \in Jobs :
           /\ Cardinality(Open(j)) \in Nat /\ Cardinality(Open(j)') \in Nat
           /\ Cardinality(Open(j)') = Cardinality(Open(j)) + Unit(Opens(r, j)) - Unit(Opens(runner[w], j))
           /\ Cardinality(Productive(j)) \in Nat /\ Cardinality(Productive(j)') \in Nat
           /\ Cardinality(Productive(j)') = Cardinality(Productive(j)) + Unit(Produces(r, j))
                                              - Unit(Produces(runner[w], j))
  BY <1>4, Moves
<1>6. UNCHANGED <<status, attempts, claims, touches>>
  BY DEF GoesOn
<1>7. \A j \in Jobs : /\ Waiting(j)' = Waiting(j) /\ Remaining(j)' = Remaining(j)
                      /\ Waiting(j) \in 0..1
  BY <1>6 DEF Waiting, Remaining
<1>8. \A j \in Jobs : /\ Opens(r, j) => Opens(runner[w], j)
                      /\ Produces(r, j) => Produces(runner[w], j)
  BY <1>3 DEF Opens, Produces
<1>9. \A j \in Jobs : /\ Cardinality(Open(j)') <= Cardinality(Open(j))
                      /\ Cardinality(Productive(j)') <= Cardinality(Productive(j))
  BY <1>5, <1>8 DEF Unit
<1>10. \A j \in Jobs : touches[j] \in Nat /\ claims[j] \in Nat
  BY DEF QueueTypeOK
<1>11. TurnsFall
  BY <1>5, <1>6, <1>7, <1>9, <1>10 DEF TurnsFall, Turns
<1>12. TurnsAreCounted'
  BY <1>5, <1>6, <1>7, <1>9, <1>10 DEF TableAgrees, TurnsAreCounted
<1>13. RunsAreCounted'
  <2> SUFFICES ASSUME NEW j \in Jobs
               PROVE  claims'[j] + Waiting(j)' + Cardinality(Productive(j)') + Remaining(j)'
                         <= MaxAttempts + MaxAttempts * touches'[j]
    BY DEF RunsAreCounted
  <2>1. claims[j] + Waiting(j) + Cardinality(Productive(j)) + Remaining(j)
            <= MaxAttempts + MaxAttempts * touches[j]
    BY DEF TableAgrees, RunsAreCounted
  <2>2. PICK m : m = MaxAttempts + MaxAttempts * touches[j]
    OBVIOUS
  <2>3. Remaining(j) \in Nat /\ m \in Int
    BY <1>10, <2>2, QueueAssumption DEF Remaining, QueueTypeOK
  <2>4. m = MaxAttempts + MaxAttempts * touches'[j]
    BY <1>6, <2>2
  <2> QED BY <1>5, <1>6, <1>7, <1>9, <1>10, <2>1, <2>2, <2>3, <2>4
<1>14. HoldersHold'
  BY <1>3, <1>5, <1>6 DEF TableAgrees, HoldersHold
<1>15. KeysAreUnique'
  BY <1>6 DEF TableAgrees, KeysAreUnique, Live
<1>16. NoticesLeave'
  BY <1>1, <1>3, <1>5 DEF TableAgrees, NoticesLeave
<1> QED BY <1>11, <1>12, <1>13, <1>14, <1>15, <1>16 DEF TableAgrees

LEMMA EndsKeeps ==
    ASSUME QueueTypeOK, TableAgrees, NEW w \in Workers, Ends(w)
    PROVE  TableAgrees' /\ TurnsFall
<1>1. /\ runner[w].step # "idle" /\ runner' = [runner EXCEPT ![w] = Free]
      /\ UNCHANGED <<attempts, claims, touches>>
  BY DEF Ends
<1>2. PICK i \in Jobs : i = runner[w].job
  BY <1>1, RunnerIs
<1>3. Free.step = "idle"
  BY DEF Free
<1>4. /\ runner'[w] = Free /\ \A v \in Workers : v # w => runner'[v] = runner[v]
      /\ \A j \in Jobs :
           /\ Cardinality(Open(j)) \in Nat /\ Cardinality(Open(j)') \in Nat
           /\ Cardinality(Open(j)') = Cardinality(Open(j)) + Unit(Opens(Free, j)) - Unit(Opens(runner[w], j))
           /\ Cardinality(Productive(j)) \in Nat /\ Cardinality(Productive(j)') \in Nat
           /\ Cardinality(Productive(j)') = Cardinality(Productive(j)) + Unit(Produces(Free, j))
                                              - Unit(Produces(runner[w], j))
  BY <1>1, Moves
<1>5. \A j \in Jobs : ~Opens(Free, j) /\ ~Produces(Free, j)
  BY <1>3 DEF Opens, Produces
<1>6. /\ \A j \in Jobs : j # i => status'[j] = status[j]
      /\ \/ status'[i] = status[i] \/ status'[i] \in {"done", "dead"}
         \/ status'[i] = "pending" /\ ~KeyTaken(i) /\ Opens(runner[w], i) /\ Produces(runner[w], i)
  BY <1>2 DEF Ends, SetStatus, Defer, QueueTypeOK, Opens, Produces
<1>7. \A j \in Jobs : /\ Waiting(j) \in 0..1 /\ Waiting(j)' \in 0..1
                      /\ Waiting(j)' <= Waiting(j) \/ (Opens(runner[w], j) /\ Produces(runner[w], j))
  BY <1>6 DEF Waiting
<1>8. \A j \in Jobs : /\ touches[j] \in Nat /\ claims[j] \in Nat /\ Remaining(j) \in Nat
                      /\ Remaining(j)' = Remaining(j)
  BY <1>1, QueueAssumption DEF QueueTypeOK, Remaining
<1>9. \A j \in Jobs :
        /\ Waiting(j)' + Cardinality(Open(j)') <= Waiting(j) + Cardinality(Open(j))
        /\ Waiting(j)' + Cardinality(Productive(j)') <= Waiting(j) + Cardinality(Productive(j))
  BY <1>4, <1>5, <1>7 DEF Unit
<1>10. TurnsFall
  BY <1>1, <1>4, <1>7, <1>8, <1>9 DEF TurnsFall, Turns
<1>11. TurnsAreCounted'
  BY <1>1, <1>4, <1>7, <1>8, <1>9 DEF TableAgrees, TurnsAreCounted
<1>12. RunsAreCounted'
  <2> SUFFICES ASSUME NEW j \in Jobs
               PROVE  claims'[j] + Waiting(j)' + Cardinality(Productive(j)') + Remaining(j)'
                         <= MaxAttempts + MaxAttempts * touches'[j]
    BY DEF RunsAreCounted
  <2>1. claims[j] + Waiting(j) + Cardinality(Productive(j)) + Remaining(j)
            <= MaxAttempts + MaxAttempts * touches[j]
    BY DEF TableAgrees, RunsAreCounted
  <2>2. PICK m : m = MaxAttempts + MaxAttempts * touches[j]
    OBVIOUS
  <2>3. m \in Int /\ m = MaxAttempts + MaxAttempts * touches'[j]
    BY <1>1, <1>8, <2>2, QueueAssumption
  <2> QED BY <1>1, <1>4, <1>7, <1>8, <1>9, <2>1, <2>2, <2>3
<1>13. HoldersHold'
  <2>1. ASSUME NEW v \in Workers, runner'[v].step # "idle", touches'[runner'[v].job] = 0
        PROVE  status'[runner'[v].job] = "claimed"
    <3>1. v # w /\ runner'[v] = runner[v] /\ runner[v].job \in Jobs /\ touches[runner[v].job] \in Nat
      BY <1>1, <1>3, <1>4, <2>1, RunnerIs DEF QueueTypeOK
    <3>2. runner[v].job # i
      BY <1>1, <1>2, <2>1, <3>1 DEF TableAgrees, HoldersHold
    <3> QED BY <1>1, <1>6, <2>1, <3>1, <3>2 DEF TableAgrees, HoldersHold
  <2>2. ASSUME NEW v \in Workers, NEW u \in Workers, v # u,
               runner'[v].step # "idle", runner'[u].step # "idle", runner'[v].job = runner'[u].job
        PROVE  touches'[runner'[v].job] > 0
    BY <1>1, <1>3, <1>4, <2>2 DEF TableAgrees, HoldersHold
  <2> QED BY <2>1, <2>2 DEF HoldersHold
<1>14. KeysAreUnique'
  BY <1>6 DEF TableAgrees, KeysAreUnique, Live, KeyTaken
<1>15. NoticesLeave'
  BY <1>3, <1>4 DEF TableAgrees, NoticesLeave
<1> QED BY <1>10, <1>11, <1>12, <1>13, <1>14, <1>15 DEF TableAgrees

LEMMA ClaimKeeps ==
    ASSUME QueueTypeOK, TableAgrees, NEW w \in Workers, NEW i \in Jobs, Claim(w, i)
    PROVE  TableAgrees' /\ TurnsFall
<1>1. PICK r : /\ r = [step |-> "handling", job |-> i, attempts |-> attempts'[i]]
               /\ runner' = [runner EXCEPT ![w] = r]
  BY DEF Claim
<1>2. /\ runner[w].step = "idle" /\ r.step = "handling" /\ r.job = i
      /\ r.attempts = attempts[i] + 1
  BY <1>1 DEF Claim, Free, QueueTypeOK
<1>3. /\ runner'[w] = r /\ \A v \in Workers : v # w => runner'[v] = runner[v]
      /\ \A j \in Jobs :
           /\ Cardinality(Open(j)) \in Nat /\ Cardinality(Open(j)') \in Nat
           /\ Cardinality(Open(j)') = Cardinality(Open(j)) + Unit(Opens(r, j)) - Unit(Opens(runner[w], j))
           /\ Cardinality(Productive(j)) \in Nat /\ Cardinality(Productive(j)') \in Nat
           /\ Cardinality(Productive(j)') = Cardinality(Productive(j)) + Unit(Produces(r, j))
                                              - Unit(Produces(runner[w], j))
  <2>1. runner' = [runner EXCEPT ![w] = r]
    BY <1>1
  <2> QED BY <2>1, Moves
<1>4. \A j \in Jobs : /\ ~Opens(runner[w], j) /\ ~Produces(runner[w], j)
                      /\ Opens(r, j) <=> j = i
                      /\ Produces(r, j) <=> j = i /\ attempts[i] + 1 < MaxAttempts
  BY <1>2 DEF Opens, Produces
<1>5. /\ status[i] = "pending" /\ status'[i] = "claimed"
      /\ attempts'[i] = attempts[i] + 1 /\ claims'[i] = claims[i] + 1
      /\ \A j \in Jobs : j # i => /\ status'[j] = status[j] /\ attempts'[j] = attempts[j]
                                  /\ claims'[j] = claims[j]
      /\ touches' = touches
  BY DEF Claim, SetStatus, QueueTypeOK
<1>6. \A j \in Jobs : /\ touches[j] \in Nat /\ claims[j] \in Nat /\ Remaining(j) \in Nat
                      /\ attempts[j] \in Nat /\ MaxAttempts \in Nat \ {0}
                      /\ Waiting(j) \in 0..1 /\ Waiting(j)' \in 0..1
  BY QueueAssumption DEF QueueTypeOK, Remaining, Waiting
<1>7. Waiting(i) = 1 /\ Waiting(i)' = 0
  BY <1>5 DEF Waiting
<1>8. \A j \in Jobs : j # i => Waiting(j)' = Waiting(j) /\ Remaining(j)' = Remaining(j)
  BY <1>5 DEF Waiting, Remaining
<1>9. /\ Remaining(i)' \in Nat
      /\ Remaining(i)' + Unit(attempts[i] + 1 < MaxAttempts) <= Remaining(i)
  BY <1>5, <1>6 DEF Remaining, Unit
<1>10. \A j \in Jobs : Waiting(j)' + Cardinality(Open(j)') = Waiting(j) + Cardinality(Open(j))
  BY <1>3, <1>4, <1>6, <1>7, <1>8 DEF Unit
<1>11. TurnsFall
  BY <1>3, <1>5, <1>6, <1>10 DEF TurnsFall, Turns
<1>12. TurnsAreCounted'
  BY <1>3, <1>5, <1>6, <1>10 DEF TableAgrees, TurnsAreCounted
<1>13. RunsAreCounted'
  <2> SUFFICES ASSUME NEW j \in Jobs
               PROVE  claims'[j] + Waiting(j)' + Cardinality(Productive(j)') + Remaining(j)'
                         <= MaxAttempts + MaxAttempts * touches'[j]
    BY DEF RunsAreCounted
  <2>1. claims[j] + Waiting(j) + Cardinality(Productive(j)) + Remaining(j)
            <= MaxAttempts + MaxAttempts * touches[j]
    BY DEF TableAgrees, RunsAreCounted
  <2>2. PICK m : m = MaxAttempts + MaxAttempts * touches[j]
    OBVIOUS
  <2>3. m \in Int /\ m = MaxAttempts + MaxAttempts * touches'[j]
    BY <1>5, <1>6, <2>2
  <2>4. CASE j = i
    <3>1. Cardinality(Productive(i)') = Cardinality(Productive(i)) + Unit(attempts[i] + 1 < MaxAttempts)
      BY <1>3, <1>4 DEF Unit
    <3>2. Unit(attempts[i] + 1 < MaxAttempts) \in Nat
      BY DEF Unit
    <3> QED BY <1>3, <1>5, <1>6, <1>7, <1>9, <2>1, <2>2, <2>3, <2>4, <3>1, <3>2
  <2>5. CASE j # i
    <3>1. Cardinality(Productive(j)') = Cardinality(Productive(j))
      BY <1>3, <1>4, <2>5 DEF Unit
    <3> QED BY <1>5, <1>8, <2>1, <2>2, <2>3, <2>5, <3>1
  <2> QED BY <2>4, <2>5
<1>14. HoldersHold'
  <2>1. \A v \in Workers : v # w /\ runner[v].step # "idle" /\ runner[v].job = i => touches[i] > 0
    BY <1>5, <1>6 DEF TableAgrees, HoldersHold
  <2>2. ASSUME NEW v \in Workers, runner'[v].step # "idle", touches'[runner'[v].job] = 0
        PROVE  status'[runner'[v].job] = "claimed"
    <3>1. CASE v = w
      BY <1>2, <1>3, <1>5, <3>1
    <3>2. CASE v # w
      <4>1. runner'[v] = runner[v] /\ runner[v].job \in Jobs
        BY <1>3, <2>2, <3>2, RunnerIs
      <4>2. runner[v].job # i
        BY <1>5, <1>6, <2>1, <2>2, <3>2, <4>1
      <4> QED BY <1>5, <2>2, <4>1, <4>2 DEF TableAgrees, HoldersHold
    <3> QED BY <3>1, <3>2
  <2>3. ASSUME NEW v \in Workers, NEW u \in Workers, v # u,
               runner'[v].step # "idle", runner'[u].step # "idle", runner'[v].job = runner'[u].job
        PROVE  touches'[runner'[v].job] > 0
    BY <1>2, <1>3, <1>5, <2>1, <2>3 DEF TableAgrees, HoldersHold
  <2> QED BY <2>2, <2>3 DEF HoldersHold
<1>15. KeysAreUnique'
  BY <1>5 DEF TableAgrees, KeysAreUnique, Live
<1>16. NoticesLeave'
  BY <1>2, <1>3 DEF TableAgrees, NoticesLeave
<1> QED BY <1>11, <1>12, <1>13, <1>14, <1>15, <1>16 DEF TableAgrees

\* The row is inserted, or a button is used on it.
Inserts(i) == status[i] = "none" /\ ~KeyTaken(i) /\ SetStatus(i, "pending")
                /\ UNCHANGED <<attempts, touches>>
Buttons(i) == /\ Touch(i)
              /\ \/ ~KeyTaken(i) /\ SetStatus(i, "pending") /\ attempts' = [attempts EXCEPT ![i] = 0]
                 \/ SetStatus(i, "dead") /\ UNCHANGED attempts

LEMMA InsertsKeep ==
    ASSUME QueueTypeOK, TableAgrees, NEW i \in Jobs, Inserts(i), UNCHANGED <<runner, claims>>
    PROVE  TableAgrees' /\ TurnsFall
<1>1. /\ status[i] = "none" /\ status'[i] = "pending"
      /\ \A j \in Jobs : j # i => status'[j] = status[j]
      /\ attempts' = attempts /\ touches' = touches /\ claims' = claims /\ runner' = runner
  BY DEF Inserts, SetStatus, QueueTypeOK
<1>2. \A j \in Jobs : /\ Open(j)' = Open(j) /\ Productive(j)' = Productive(j)
                      /\ Cardinality(Open(j)) \in Nat /\ Cardinality(Productive(j)) \in Nat
  BY <1>1, Stands
<1>3. \A j \in Jobs : /\ Waiting(j)' = Waiting(j) /\ Remaining(j)' = Remaining(j)
                      /\ Waiting(j) \in 0..1 /\ touches[j] \in Nat
  BY <1>1 DEF Waiting, Remaining, QueueTypeOK
<1>4. TurnsFall
  BY <1>1, <1>2, <1>3 DEF TurnsFall, Turns
<1>5. TurnsAreCounted'
  BY <1>1, <1>2, <1>3 DEF TableAgrees, TurnsAreCounted
<1>6. RunsAreCounted'
  <2>1. \A j \in Jobs : MaxAttempts * touches'[j] = MaxAttempts * touches[j]
    BY <1>1
  <2> QED BY <1>1, <1>2, <1>3, <2>1 DEF TableAgrees, RunsAreCounted
<1>7. HoldersHold'
  <2>1. ASSUME NEW v \in Workers, runner[v].step # "idle", touches[runner[v].job] = 0
        PROVE  status'[runner[v].job] = "claimed"
    <3>1. runner[v].job \in Jobs /\ status[runner[v].job] = "claimed"
      BY <2>1, RunnerIs DEF TableAgrees, HoldersHold
    <3> QED BY <1>1, <3>1
  <2>2. \A v, u \in Workers :
           /\ v # u /\ runner[v].step # "idle" /\ runner[u].step # "idle"
           /\ runner[v].job = runner[u].job
           => touches[runner[v].job] > 0
    BY DEF TableAgrees, HoldersHold
  <2> QED BY <1>1, <2>1, <2>2 DEF HoldersHold
<1>8. KeysAreUnique'
  BY <1>1 DEF TableAgrees, KeysAreUnique, Live, KeyTaken, Inserts
<1>9. NoticesLeave'
  BY <1>1 DEF TableAgrees, NoticesLeave
<1> QED BY <1>4, <1>5, <1>6, <1>7, <1>8, <1>9 DEF TableAgrees

LEMMA ButtonsKeep ==
    ASSUME QueueTypeOK, TableAgrees, NEW i \in Jobs, Buttons(i), UNCHANGED <<runner, claims>>
    PROVE  TableAgrees' /\ TurnsFall
<1>1. /\ touches[i] \in Nat /\ touches'[i] = touches[i] + 1
      /\ \A j \in Jobs : j # i => /\ status'[j] = status[j] /\ attempts'[j] = attempts[j]
                                  /\ touches'[j] = touches[j]
      /\ \/ ~KeyTaken(i) /\ status'[i] = "pending" /\ attempts'[i] = 0
         \/ status'[i] = "dead" /\ attempts'[i] = attempts[i]
      /\ claims' = claims /\ runner' = runner
  BY DEF Buttons, Touch, SetStatus, QueueTypeOK
<1>2. \A j \in Jobs : /\ Open(j)' = Open(j) /\ Productive(j)' = Productive(j)
                      /\ Cardinality(Open(j)) \in Nat /\ Cardinality(Productive(j)) \in Nat
  BY <1>1, Stands
<1>3. \A j \in Jobs : /\ Waiting(j) \in 0..1 /\ Waiting(j)' \in 0..1 /\ touches[j] \in Nat
                      /\ claims[j] \in Nat /\ Remaining(j) \in Nat
                      /\ j # i => Waiting(j)' = Waiting(j) /\ Remaining(j)' = Remaining(j)
  BY <1>1, QueueAssumption DEF Waiting, Remaining, QueueTypeOK
<1>4. /\ Remaining(i)' \in Nat
      /\ \/ Remaining(i)' = MaxAttempts - 1
         \/ Remaining(i)' = Remaining(i) /\ Waiting(i)' = 0
  BY <1>1, <1>3, QueueAssumption DEF Waiting, Remaining
<1>5. TurnsFall
  BY <1>1, <1>2, <1>3 DEF TurnsFall, Turns
<1>6. TurnsAreCounted'
  BY <1>1, <1>2, <1>3 DEF TableAgrees, TurnsAreCounted
<1>7. RunsAreCounted'
  <2> SUFFICES ASSUME NEW j \in Jobs
               PROVE  claims'[j] + Waiting(j)' + Cardinality(Productive(j)') + Remaining(j)'
                         <= MaxAttempts + MaxAttempts * touches'[j]
    BY DEF RunsAreCounted
  <2>1. claims[j] + Waiting(j) + Cardinality(Productive(j)) + Remaining(j)
            <= MaxAttempts + MaxAttempts * touches[j]
    BY DEF TableAgrees, RunsAreCounted
  <2>2. PICK m : m = MaxAttempts + MaxAttempts * touches[j]
    OBVIOUS
  <2>3. m \in Int /\ MaxAttempts \in Nat \ {0}
    BY <1>3, <2>2, QueueAssumption
  <2>4. CASE j = i
    <3>1. MaxAttempts + MaxAttempts * touches'[i] = m + MaxAttempts
      BY <1>1, <2>2, <2>3, <2>4
    <3> QED BY <1>1, <1>2, <1>3, <1>4, <2>1, <2>2, <2>3, <2>4, <3>1
  <2>5. CASE j # i
    BY <1>1, <1>2, <1>3, <2>1, <2>5
  <2> QED BY <2>4, <2>5
<1>8. HoldersHold'
  <2>1. ASSUME NEW v \in Workers, runner[v].step # "idle", touches'[runner[v].job] = 0
        PROVE  status'[runner[v].job] = "claimed"
    <3>1. runner[v].job \in Jobs /\ runner[v].job # i
      BY <1>1, <2>1, RunnerIs
    <3> QED BY <1>1, <2>1, <3>1 DEF TableAgrees, HoldersHold
  <2>2. ASSUME NEW v \in Workers, NEW u \in Workers, v # u,
               runner[v].step # "idle", runner[u].step # "idle", runner[v].job = runner[u].job
        PROVE  touches'[runner[v].job] > 0
    <3>1. runner[v].job \in Jobs /\ touches[runner[v].job] > 0
      BY <2>2, RunnerIs DEF TableAgrees, HoldersHold
    <3> QED BY <1>1, <1>3, <3>1
  <2> QED BY <1>1, <2>1, <2>2 DEF HoldersHold
<1>9. KeysAreUnique'
  BY <1>1 DEF TableAgrees, KeysAreUnique, Live, KeyTaken
<1>10. NoticesLeave'
  BY <1>1 DEF TableAgrees, NoticesLeave
<1> QED BY <1>5, <1>6, <1>7, <1>8, <1>9, <1>10 DEF TableAgrees

-----------------------------------------------------------------------------
(* The queue: the messages                                                 *)

Way == {"sending", "delivered"}

\* The sizes that the count of the messages compares.
LEMMA Sizes ==
    ASSUME QueueTypeOK
    PROVE  /\ \A steps : Cardinality(On(steps)) \in Nat
           /\ IsFiniteSet(Sent) /\ Cardinality(Sent) \in Nat
           /\ Slack \in [Jobs -> Int] /\ SumFunctionOnSet(Slack, Jobs) \in Int
           /\ \A j \in Jobs : Turns(j) \in Nat /\ touches[j] \in Nat
           /\ delivered \in Nat /\ uncounted \in Nat /\ MaxAlerts \in Nat
<1>1. \A steps : On(steps) \in SUBSET Workers
  BY DEF On
<1>2. Sent \in SUBSET Jobs /\ IsFiniteSet(Jobs)
  BY QueueAssumption DEF Sent, Today
<1>3. IsFiniteSet(Sent) /\ Cardinality(Sent) \in Nat
  BY <1>2, FS_Subset, FS_CardinalityType
<1>4. \A j \in Jobs : Open(j) \in SUBSET Workers
  BY DEF Open
<1>5. \A j \in Jobs : Waiting(j) \in 0..1 /\ touches[j] \in Nat /\ Cardinality(Open(j)) \in Nat
  BY <1>4, Counts DEF Waiting, QueueTypeOK
<1>6. Slack \in [Jobs -> Int]
  BY <1>5 DEF Slack
<1>7. SumFunctionOnSet(Slack, Jobs) \in Int
  <2>1. \A j \in Jobs : Slack[j] <= Slack[j]
    BY <1>6
  <2> QED BY <1>2, <1>6, <2>1, SumsGrow
<1> QED BY <1>1, <1>3, <1>5, <1>6, <1>7, Counts, QueueAssumption DEF Turns, QueueTypeOK

\* Buttons leave turns over, and a turn that is used on a notice that had been
\* handled before is one of them.
LEMMA SlackGrows ==
    ASSUME QueueTypeOK, QueueTypeOK', TurnsAreCounted, TurnsFall, Today' = Today,
           \A n \in Notices : row'[n] # row[n] =>
              row'[n] # "queued" /\ Turns(n)' + touches[n] < Turns(n) + touches'[n]
    PROVE  /\ SumFunctionOnSet(Slack, Jobs) <= SumFunctionOnSet(Slack', Jobs)
           /\ SumFunctionOnSet(Slack', Jobs) \in Int
           /\ \A n \in Today :
                row[n] # "queued" /\ Turns(n)' + touches[n] < Turns(n) + touches'[n] =>
                  SumFunctionOnSet(Slack, Jobs) < SumFunctionOnSet(Slack', Jobs)
<1>1. PICK f \in [Jobs -> Int] : f = Slack
  BY Sizes
<1>2. PICK e \in [Jobs -> Int] : e = Slack'
  <2>1. \A j \in Jobs : Turns(j)' \in Nat /\ touches'[j] \in Nat
    BY DEF TurnsFall, QueueTypeOK
  <2>2. Slack' = [j \in Jobs |-> IF j \in Today /\ row'[j] # "queued"
                                 THEN touches'[j] - Waiting(j)' - Cardinality(Open(j)') ELSE 0]
    BY DEF Slack
  <2>3. \A j \in Jobs : Waiting(j)' \in 0..1
    BY DEF Waiting
  <2>4. \A j \in Jobs : Open(j)' \in SUBSET Workers
    BY DEF Open
  <2>5. \A j \in Jobs : Cardinality(Open(j)') \in Nat
    BY <2>4, Counts
  <2>6. Slack' \in [Jobs -> Int]
    BY <2>1, <2>2, <2>3, <2>5
  <2> QED BY <2>6
<1>3. \A j \in Jobs : /\ Waiting(j) \in 0..1 /\ Waiting(j)' \in 0..1
                      /\ Cardinality(Open(j)) \in Nat /\ Cardinality(Open(j)') \in Nat
                      /\ touches[j] \in Nat /\ touches'[j] \in Nat
  <2>1. \A j \in Jobs : Open(j) \in SUBSET Workers /\ Open(j)' \in SUBSET Workers
    BY DEF Open
  <2>2. \A j \in Jobs : Cardinality(Open(j)) \in Nat /\ Cardinality(Open(j)') \in Nat
    BY <2>1, Counts
  <2> QED BY <2>2 DEF Waiting, QueueTypeOK
<1>4. \A j \in Jobs : f[j] = IF j \in Today /\ row[j] # "queued" THEN touches[j] - Turns(j) ELSE 0
  BY <1>1, <1>3 DEF Slack, Turns
<1>5. \A j \in Jobs : e[j] = IF j \in Today /\ row'[j] # "queued" THEN touches'[j] - Turns(j)' ELSE 0
  BY <1>2, <1>3 DEF Slack, Turns
<1>6. \A j \in Jobs : /\ Turns(j) \in Nat /\ Turns(j)' \in Nat
                      /\ Turns(j)' + touches[j] <= Turns(j) + touches'[j]
                      /\ Turns(j) <= 1 + touches[j]
  BY <1>3 DEF TurnsFall, TurnsAreCounted, Turns
<1>7. \A j \in Jobs : f[j] <= e[j]
  <2> TAKE j \in Jobs
  <2>1. CASE j \in Today /\ row'[j] # row[j]
    <3>1. row'[j] # "queued" /\ Turns(j)' + touches[j] < Turns(j) + touches'[j]
      BY <2>1 DEF Today
    <3> QED BY <1>3, <1>4, <1>5, <1>6, <2>1, <3>1
  <2>2. CASE ~(j \in Today /\ row'[j] # row[j])
    BY <1>3, <1>4, <1>5, <1>6, <2>2
  <2> QED BY <2>1, <2>2
<1>8. ASSUME NEW n \in Today, row[n] # "queued", Turns(n)' + touches[n] < Turns(n) + touches'[n]
      PROVE  n \in Jobs /\ f[n] < e[n]
  <2>1. n \in Jobs /\ row'[n] # "queued"
    BY <1>8, QueueAssumption DEF Today
  <2> QED BY <1>3, <1>4, <1>5, <1>6, <1>8, <2>1
<1>9. IsFiniteSet(Jobs)
  BY QueueAssumption
<1>10. /\ SumFunctionOnSet(f, Jobs) \in Int /\ SumFunctionOnSet(e, Jobs) \in Int
       /\ SumFunctionOnSet(f, Jobs) <= SumFunctionOnSet(e, Jobs)
       /\ \A j \in Jobs : f[j] < e[j] => SumFunctionOnSet(f, Jobs) < SumFunctionOnSet(e, Jobs)
  BY <1>7, <1>9, SumsGrow
<1> QED BY <1>1, <1>2, <1>8, <1>10

\* A worker turns to something that is not on the way.
LEMMA LeavingIsCounted ==
    ASSUME QueueTypeOK, QueueTypeOK', TurnsAreCounted, TurnsFall, AlertsAreCounted,
           NEW w \in Workers, NEW r, r.step \notin Way, runner' = [runner EXCEPT ![w] = r],
           Forget(w), UNCHANGED <<row, delivered>>, Today' = Today
    PROVE  AlertsAreCounted'
<1>1. PICK lost \in 0..uncounted :
        /\ delivered <= Cardinality(On({"delivered"})) + lost + Cardinality(Sent)
                            + SumFunctionOnSet(Slack, Jobs)
        /\ Cardinality(Sent) + Cardinality(On(Way)) <= MaxAlerts + (uncounted - lost)
  BY DEF AlertsAreCounted, Way
<1>2. \A steps :
        /\ Cardinality(On(steps)) \in Nat /\ Cardinality(On(steps)') \in Nat
        /\ Cardinality(On(steps)') = Cardinality(On(steps)) + Unit(At(r, steps))
                                       - Unit(At(runner[w], steps))
  BY Moves
<1>3. Sent' = Sent /\ delivered' = delivered
  BY DEF Sent
<1>4. SumFunctionOnSet(Slack, Jobs) <= SumFunctionOnSet(Slack', Jobs)
        /\ SumFunctionOnSet(Slack', Jobs) \in Int
  BY SlackGrows
<1>5. /\ SumFunctionOnSet(Slack, Jobs) \in Int /\ Cardinality(Sent) \in Nat
      /\ delivered \in Nat /\ uncounted \in Nat /\ MaxAlerts \in Nat
  BY Sizes
<1>6. CASE At(runner[w], {"delivered"})
  <2>1. uncounted' = uncounted + 1
    BY <1>6 DEF Forget, OnTheWay, At
  <2>2. /\ Cardinality(On({"delivered"})') = Cardinality(On({"delivered"})) - 1
        /\ Cardinality(On(Way)') = Cardinality(On(Way)) - 1
    BY <1>2, <1>6 DEF Unit, Way, At
  <2>3. lost + 1 \in 0..uncounted'
    BY <1>1, <1>5, <2>1
  <2>4. /\ delivered' <= Cardinality(On({"delivered"})') + (lost + 1) + Cardinality(Sent')
                            + SumFunctionOnSet(Slack', Jobs)
        /\ Cardinality(Sent') + Cardinality(On(Way)') <= MaxAlerts + (uncounted' - (lost + 1))
    BY <1>1, <1>2, <1>3, <1>4, <1>5, <2>1, <2>2
  <2> QED BY <2>3, <2>4 DEF AlertsAreCounted, Way
<1>7. CASE ~At(runner[w], {"delivered"})
  <2>1. uncounted' = uncounted
    BY <1>7 DEF Forget, OnTheWay, At
  <2>2. /\ Cardinality(On({"delivered"})') = Cardinality(On({"delivered"}))
        /\ Cardinality(On(Way)') <= Cardinality(On(Way))
    BY <1>2, <1>7 DEF Unit, Way, At
  <2>3. /\ delivered' <= Cardinality(On({"delivered"})') + lost + Cardinality(Sent')
                            + SumFunctionOnSet(Slack', Jobs)
        /\ Cardinality(Sent') + Cardinality(On(Way)') <= MaxAlerts + (uncounted' - lost)
    BY <1>1, <1>2, <1>3, <1>4, <1>5, <2>1, <2>2
  <2> QED BY <1>1, <2>1, <2>3 DEF AlertsAreCounted, Way
<1> QED BY <1>6, <1>7

\* No worker moves.
LEMMA StandingIsCounted ==
    ASSUME QueueTypeOK, QueueTypeOK', TurnsAreCounted, TurnsFall, AlertsAreCounted,
           UNCHANGED <<runner, row, delivered, uncounted>>, Today' = Today
    PROVE  AlertsAreCounted'
<1>1. PICK lost \in 0..uncounted :
        /\ delivered <= Cardinality(On({"delivered"})) + lost + Cardinality(Sent)
                            + SumFunctionOnSet(Slack, Jobs)
        /\ Cardinality(Sent) + Cardinality(On(Way)) <= MaxAlerts + (uncounted - lost)
  BY DEF AlertsAreCounted, Way
<1>2. \A steps : On(steps)' = On(steps) /\ Cardinality(On(steps)) \in Nat
  BY Stands
<1>3. Sent' = Sent
  BY DEF Sent
<1>4. SumFunctionOnSet(Slack, Jobs) <= SumFunctionOnSet(Slack', Jobs)
        /\ SumFunctionOnSet(Slack', Jobs) \in Int
  BY SlackGrows
<1>5. /\ SumFunctionOnSet(Slack, Jobs) \in Int /\ Cardinality(Sent) \in Nat
      /\ delivered \in Nat /\ uncounted \in Nat /\ MaxAlerts \in Nat
  BY Sizes
<1>6. /\ delivered <= Cardinality(On({"delivered"})) + lost + Cardinality(Sent)
                            + SumFunctionOnSet(Slack', Jobs)
  BY <1>1, <1>2, <1>4, <1>5
<1> QED BY <1>1, <1>2, <1>3, <1>6 DEF AlertsAreCounted, Way

LEMMA GoesTo ==
    ASSUME QueueTypeOK, NEW w \in Workers, runner[w].step # "idle",
           NEW s \in {"handling", "sending", "delivered", "ok", "error"}, Goto(w, s)
    PROVE  \E r \in Runner :
             /\ r.step = s /\ r.job = runner[w].job /\ r.attempts = runner[w].attempts
             /\ runner' = [runner EXCEPT ![w] = r]
<1>1. PICK r : r = [runner[w] EXCEPT !.step = s]
  OBVIOUS
<1>2. /\ r.step = s /\ r.job = runner[w].job /\ r.attempts = runner[w].attempts
      /\ r \in Runner
  BY <1>1, RunnerIs DEF Runner, Free
<1>3. runner' = [runner EXCEPT ![w] = r]
  BY <1>1 DEF Goto, QueueTypeOK
<1> QED BY <1>2, <1>3

LEMMA CheckIsCounted ==
    ASSUME QueueTypeOK, QueueTypeOK', TurnsAreCounted, TurnsFall, AlertsAreCounted,
           NEW w \in Workers, CheckLimit(w)
    PROVE  AlertsAreCounted'
<1>1. PICK lost \in 0..uncounted :
        /\ delivered <= Cardinality(On({"delivered"})) + lost + Cardinality(Sent)
                            + SumFunctionOnSet(Slack, Jobs)
        /\ Cardinality(Sent) + Cardinality(On(Way)) <= MaxAlerts + (uncounted - lost)
  BY DEF AlertsAreCounted, Way
<1>2. runner[w].step = "handling" /\ Goto(w, "sending")
  BY DEF CheckLimit, Handling
<1>3. PICK r \in Runner : /\ r.step = "sending" /\ r.job = runner[w].job
                          /\ runner' = [runner EXCEPT ![w] = r]
  BY <1>2, GoesTo
<1>4. \A steps :
        /\ Cardinality(On(steps)) \in Nat /\ Cardinality(On(steps)') \in Nat
        /\ Cardinality(On(steps)') = Cardinality(On(steps)) + Unit(At(r, steps))
                                       - Unit(At(runner[w], steps))
  <2>1. Today' = Today
    BY DEF CheckLimit, Today
  <2> QED BY <1>3, <2>1, Moves
<1>5. /\ Cardinality(On({"delivered"})') = Cardinality(On({"delivered"}))
      /\ Cardinality(On(Way)') = Cardinality(On(Way)) + Unit(runner[w].job \in Today)
  BY <1>2, <1>3, <1>4 DEF Unit, Way, At
<1>6. Sent' = Sent /\ delivered' = delivered /\ row' = row /\ Today' = Today
  BY DEF Sent, CheckLimit, Today
<1>7. SumFunctionOnSet(Slack, Jobs) <= SumFunctionOnSet(Slack', Jobs)
        /\ SumFunctionOnSet(Slack', Jobs) \in Int
  BY <1>6, SlackGrows
<1>8. /\ SumFunctionOnSet(Slack, Jobs) \in Int /\ Cardinality(Sent) \in Nat
      /\ delivered \in Nat /\ uncounted \in Nat /\ MaxAlerts \in Nat
  BY Sizes
<1>9. delivered' <= Cardinality(On({"delivered"})') + lost + Cardinality(Sent')
                            + SumFunctionOnSet(Slack', Jobs)
  BY <1>1, <1>4, <1>5, <1>6, <1>7, <1>8
<1>10. Cardinality(Sent) < MaxAlerts /\ Unit(runner[w].job \in Today) \in 0..1
  BY <1>8 DEF CheckLimit, LimitReached, Sent, Unit
<1>11. CASE runner[w].job \in Today /\ \E v \in Workers : OnTheWay(v, Way)
  <2>1. uncounted' = uncounted + 1
    BY <1>11 DEF CheckLimit, Way
  <2>2. lost \in 0..uncounted'
    BY <1>1, <1>8, <2>1
  <2>3. Cardinality(Sent') + Cardinality(On(Way)') <= MaxAlerts + (uncounted' - lost)
    BY <1>1, <1>4, <1>5, <1>6, <1>8, <1>10, <2>1
  <2> QED BY <1>9, <2>2, <2>3 DEF AlertsAreCounted, Way
<1>12. CASE runner[w].job \in Today /\ ~ \E v \in Workers : OnTheWay(v, Way)
  <2>1. uncounted' = uncounted
    BY <1>12 DEF CheckLimit, Way
  <2>2. On(Way) = {}
    BY <1>12 DEF On
  <2>3. Cardinality(On(Way)) = 0
    BY <2>2, FS_EmptySet
  <2>4. Cardinality(Sent') + Cardinality(On(Way)') <= MaxAlerts + (uncounted' - lost)
    BY <1>1, <1>5, <1>6, <1>8, <1>10, <2>1, <2>3
  <2> QED BY <1>1, <1>9, <2>1, <2>4 DEF AlertsAreCounted, Way
<1>13. CASE runner[w].job \notin Today
  <2>1. uncounted' = uncounted /\ Unit(runner[w].job \in Today) = 0
    BY <1>13 DEF CheckLimit, Unit
  <2>2. Cardinality(Sent') + Cardinality(On(Way)') <= MaxAlerts + (uncounted' - lost)
    BY <1>1, <1>4, <1>5, <1>6, <1>8, <2>1
  <2> QED BY <1>1, <1>9, <2>1, <2>2 DEF AlertsAreCounted, Way
<1> QED BY <1>11, <1>12, <1>13

LEMMA DeliveryIsCounted ==
    ASSUME QueueTypeOK, QueueTypeOK', TurnsAreCounted, TurnsFall, AlertsAreCounted,
           NEW w \in Workers, Deliver(w)
    PROVE  AlertsAreCounted'
<1>1. PICK lost \in 0..uncounted :
        /\ delivered <= Cardinality(On({"delivered"})) + lost + Cardinality(Sent)
                            + SumFunctionOnSet(Slack, Jobs)
        /\ Cardinality(Sent) + Cardinality(On(Way)) <= MaxAlerts + (uncounted - lost)
  BY DEF AlertsAreCounted, Way
<1>2. runner[w].step = "sending" /\ Goto(w, "delivered")
  BY DEF Deliver
<1>3. PICK r \in Runner : /\ r.step = "delivered" /\ r.job = runner[w].job
                          /\ runner' = [runner EXCEPT ![w] = r]
  BY <1>2, GoesTo
<1>4. \A steps :
        /\ Cardinality(On(steps)) \in Nat /\ Cardinality(On(steps)') \in Nat
        /\ Cardinality(On(steps)') = Cardinality(On(steps)) + Unit(At(r, steps))
                                       - Unit(At(runner[w], steps))
  <2>1. Today' = Today
    BY DEF Deliver, Today
  <2> QED BY <1>3, <2>1, Moves
<1>5. /\ Cardinality(On({"delivered"})') = Cardinality(On({"delivered"})) + Unit(runner[w].job \in Today)
      /\ Cardinality(On(Way)') = Cardinality(On(Way))
  BY <1>2, <1>3, <1>4 DEF Unit, Way, At
<1>6. /\ Sent' = Sent /\ delivered' = delivered + Unit(runner[w].job \in Today)
      /\ row' = row /\ uncounted' = uncounted /\ Today' = Today
  BY <1>2 DEF Sent, Deliver, OnTheWay, Unit, Today, QueueTypeOK
<1>7. SumFunctionOnSet(Slack, Jobs) <= SumFunctionOnSet(Slack', Jobs)
        /\ SumFunctionOnSet(Slack', Jobs) \in Int
  BY <1>6, SlackGrows
<1>8. /\ SumFunctionOnSet(Slack, Jobs) \in Int /\ Cardinality(Sent) \in Nat
      /\ delivered \in Nat /\ uncounted \in Nat /\ MaxAlerts \in Nat
  BY Sizes
<1> Unit(runner[w].job \in Today) \in 0..1
  BY DEF Unit
<1>9. delivered' <= Cardinality(On({"delivered"})') + lost + Cardinality(Sent')
                            + SumFunctionOnSet(Slack', Jobs)
  BY <1>1, <1>4, <1>5, <1>6, <1>7, <1>8
<1> QED BY <1>1, <1>5, <1>6, <1>9 DEF AlertsAreCounted, Way

\* The row of a notice is written: as sent when its message left,
LEMMA RecordIsCounted ==
    ASSUME QueueTypeOK, QueueTypeOK', TurnsAreCounted, TurnsFall, AlertsAreCounted,
           NoticesLeave, NEW w \in Workers, Record(w)
    PROVE  AlertsAreCounted'
<1>1. PICK lost \in 0..uncounted :
        /\ delivered <= Cardinality(On({"delivered"})) + lost + Cardinality(Sent)
                            + SumFunctionOnSet(Slack, Jobs)
        /\ Cardinality(Sent) + Cardinality(On(Way)) <= MaxAlerts + (uncounted - lost)
  BY DEF AlertsAreCounted, Way
<1>2. runner[w].step = "delivered" /\ Goto(w, "ok")
  BY DEF Record
<1>3. PICK n \in Notices : n = runner[w].job /\ n \in Jobs
  BY <1>2, QueueAssumption DEF NoticesLeave
<1>4. PICK r \in Runner : r.step = "ok" /\ r.job = n /\ runner' = [runner EXCEPT ![w] = r]
  BY <1>2, <1>3, GoesTo
<1>5. /\ \A steps :
           /\ Cardinality(On(steps)) \in Nat /\ Cardinality(On(steps)') \in Nat
           /\ Cardinality(On(steps)') = Cardinality(On(steps)) + Unit(At(r, steps))
                                          - Unit(At(runner[w], steps))
      /\ \A j \in Jobs :
           /\ Cardinality(Open(j)) \in Nat /\ Cardinality(Open(j)') \in Nat
           /\ Cardinality(Open(j)') = Cardinality(Open(j)) + Unit(Opens(r, j))
                                        - Unit(Opens(runner[w], j))
  <2>1. Today' = Today
    BY DEF Record, Today
  <2> QED BY <1>4, <2>1, Moves
<1>6. n \in Today => /\ Cardinality(On({"delivered"})') = Cardinality(On({"delivered"})) - 1
                       /\ Cardinality(On(Way)') = Cardinality(On(Way)) - 1
  BY <1>2, <1>3, <1>4, <1>5 DEF Unit, Way, At
<1>7. /\ row \in [Notices -> {"queued", "sent", "suppressed"}]
      /\ Today' = Today /\ row' = [row EXCEPT ![n] = "sent"] /\ UNCHANGED <<status, touches, delivered, uncounted>>
  BY <1>3 DEF Record, table, history, QueueTypeOK, Today
<1>8. Turns(n)' + touches[n] < Turns(n) + touches'[n]
  <2>1. Cardinality(Open(n)') = Cardinality(Open(n)) - 1
    BY <1>2, <1>3, <1>4, <1>5 DEF Unit, Opens
  <2>2. Waiting(n)' = Waiting(n) /\ Waiting(n) \in 0..1
    BY <1>7 DEF Waiting
  <2>3. touches[n] \in Nat /\ touches'[n] = touches[n]
    BY <1>3, <1>7, Sizes
  <2> QED BY <1>3, <1>5, <2>1, <2>2, <2>3 DEF Turns
<1>9. \A i \in Notices : row'[i] # row[i] => i = n /\ row'[i] = "sent"
  BY <1>7
<1>10. \A i \in Notices : row'[i] # row[i] =>
              row'[i] # "queued" /\ Turns(i)' + touches[i] < Turns(i) + touches'[i]
  BY <1>8, <1>9
<1>11. /\ SumFunctionOnSet(Slack, Jobs) <= SumFunctionOnSet(Slack', Jobs)
       /\ SumFunctionOnSet(Slack', Jobs) \in Int
       /\ row[n] # "queued" /\ n \in Today => SumFunctionOnSet(Slack, Jobs) < SumFunctionOnSet(Slack', Jobs)
  BY <1>7, <1>8, <1>10, SlackGrows
<1>12. /\ SumFunctionOnSet(Slack, Jobs) \in Int /\ IsFiniteSet(Sent) /\ Cardinality(Sent) \in Nat
       /\ delivered \in Nat /\ uncounted \in Nat /\ MaxAlerts \in Nat
  BY Sizes
<1>13. CASE n \in Today /\ row[n] = "sent"
  <2>1. Sent' = Sent
    BY <1>7, <1>13 DEF Sent, Today
  <2>2. SumFunctionOnSet(Slack, Jobs) < SumFunctionOnSet(Slack', Jobs)
    BY <1>11, <1>13
  <2>3. delivered' <= Cardinality(On({"delivered"})') + lost + Cardinality(Sent')
                            + SumFunctionOnSet(Slack', Jobs)
    BY <1>1, <1>5, <1>6, <1>7, <1>11, <1>12, <1>13, <2>1, <2>2
  <2>4. Cardinality(Sent') + Cardinality(On(Way)') <= MaxAlerts + (uncounted' - lost)
    BY <1>1, <1>5, <1>6, <1>7, <1>12, <1>13, <2>1
  <2> QED BY <1>1, <1>7, <2>3, <2>4 DEF AlertsAreCounted, Way
<1>14. CASE n \in Today /\ row[n] # "sent"
  <2>1. Sent' = Sent \cup {n} /\ n \notin Sent
    BY <1>7, <1>14 DEF Sent, Today
  <2>2. Cardinality(Sent') = Cardinality(Sent) + 1
    BY <1>12, <2>1, FS_AddElement
  <2>3. delivered' <= Cardinality(On({"delivered"})') + lost + Cardinality(Sent')
                            + SumFunctionOnSet(Slack', Jobs)
    BY <1>1, <1>5, <1>6, <1>7, <1>11, <1>12, <1>14, <2>2
  <2>4. Cardinality(Sent') + Cardinality(On(Way)') <= MaxAlerts + (uncounted' - lost)
    BY <1>1, <1>5, <1>6, <1>7, <1>12, <1>14, <2>2
  <2> QED BY <1>1, <1>7, <2>3, <2>4 DEF AlertsAreCounted, Way
<1>15. CASE n \notin Today
  <2>1. Sent' = Sent
    BY <1>7, <1>15 DEF Sent, Today
  <2>2. /\ Cardinality(On({"delivered"})') = Cardinality(On({"delivered"}))
        /\ Cardinality(On(Way)') = Cardinality(On(Way))
    BY <1>3, <1>4, <1>5, <1>15 DEF Unit, At
  <2>3. delivered' <= Cardinality(On({"delivered"})') + lost + Cardinality(Sent')
                            + SumFunctionOnSet(Slack', Jobs)
    BY <1>1, <1>5, <1>7, <1>11, <1>12, <2>1, <2>2
  <2>4. Cardinality(Sent') + Cardinality(On(Way)') <= MaxAlerts + (uncounted' - lost)
    BY <1>1, <1>5, <1>7, <1>12, <2>1, <2>2
  <2> QED BY <1>1, <1>7, <2>3, <2>4 DEF AlertsAreCounted, Way
<1> QED BY <1>13, <1>14, <1>15

\* ... or as suppressed, which forgets a message of an earlier run.
LEMMA SuppressionIsCounted ==
    ASSUME QueueTypeOK, QueueTypeOK', TurnsAreCounted, TurnsFall, AlertsAreCounted,
           NEW w \in Workers, Suppress(w)
    PROVE  AlertsAreCounted'
<1>1. PICK lost \in 0..uncounted :
        /\ delivered <= Cardinality(On({"delivered"})) + lost + Cardinality(Sent)
                            + SumFunctionOnSet(Slack, Jobs)
        /\ Cardinality(Sent) + Cardinality(On(Way)) <= MaxAlerts + (uncounted - lost)
  BY DEF AlertsAreCounted, Way
<1>2. runner[w].step = "handling" /\ Goto(w, "ok")
  BY DEF Suppress, Handling
<1>3. PICK n \in Notices : n = runner[w].job /\ n \in Jobs
  BY QueueAssumption DEF Suppress
<1>4. PICK r \in Runner : r.step = "ok" /\ r.job = n /\ runner' = [runner EXCEPT ![w] = r]
  BY <1>2, <1>3, GoesTo
<1>5. /\ \A steps :
           /\ Cardinality(On(steps)) \in Nat /\ Cardinality(On(steps)') \in Nat
           /\ Cardinality(On(steps)') = Cardinality(On(steps)) + Unit(At(r, steps))
                                          - Unit(At(runner[w], steps))
      /\ \A j \in Jobs :
           /\ Cardinality(Open(j)) \in Nat /\ Cardinality(Open(j)') \in Nat
           /\ Cardinality(Open(j)') = Cardinality(Open(j)) + Unit(Opens(r, j))
                                        - Unit(Opens(runner[w], j))
  <2>1. Today' = Today
    BY DEF Suppress, Today
  <2> QED BY <1>4, <2>1, Moves
<1>6. /\ Cardinality(On({"delivered"})') = Cardinality(On({"delivered"}))
      /\ Cardinality(On(Way)') = Cardinality(On(Way))
  BY <1>2, <1>4, <1>5 DEF Unit, Way, At
<1>7. /\ row \in [Notices -> {"queued", "sent", "suppressed"}]
      /\ Today' = Today /\ row' = [row EXCEPT ![n] = "suppressed"]
      /\ UNCHANGED <<status, touches, delivered, uncounted>>
  BY <1>3 DEF Suppress, table, history, QueueTypeOK, Today
<1>8. Turns(n)' + touches[n] < Turns(n) + touches'[n]
  <2>1. Cardinality(Open(n)') = Cardinality(Open(n)) - 1
    BY <1>2, <1>3, <1>4, <1>5 DEF Unit, Opens
  <2>2. Waiting(n)' = Waiting(n) /\ Waiting(n) \in 0..1
    BY <1>7 DEF Waiting
  <2>3. touches[n] \in Nat /\ touches'[n] = touches[n]
    BY <1>3, <1>7, Sizes
  <2> QED BY <1>3, <1>5, <2>1, <2>2, <2>3 DEF Turns
<1>9. \A i \in Notices : row'[i] # row[i] => i = n /\ row'[i] = "suppressed"
  BY <1>7
<1>10. \A i \in Notices : row'[i] # row[i] =>
              row'[i] # "queued" /\ Turns(i)' + touches[i] < Turns(i) + touches'[i]
  BY <1>8, <1>9
<1>11. /\ SumFunctionOnSet(Slack, Jobs) <= SumFunctionOnSet(Slack', Jobs)
       /\ SumFunctionOnSet(Slack', Jobs) \in Int
       /\ row[n] # "queued" /\ n \in Today => SumFunctionOnSet(Slack, Jobs) < SumFunctionOnSet(Slack', Jobs)
  BY <1>7, <1>8, <1>10, SlackGrows
<1>12. /\ SumFunctionOnSet(Slack, Jobs) \in Int /\ IsFiniteSet(Sent) /\ Cardinality(Sent) \in Nat
       /\ delivered \in Nat /\ uncounted \in Nat /\ MaxAlerts \in Nat
  BY Sizes
<1>13. CASE n \in Today /\ row[n] = "sent"
  <2>1. Sent' = Sent \ {n} /\ n \in Sent
    BY <1>7, <1>13 DEF Sent, Today
  <2>2. Cardinality(Sent') = Cardinality(Sent) - 1
    BY <1>12, <2>1, FS_RemoveElement
  <2>3. SumFunctionOnSet(Slack, Jobs) < SumFunctionOnSet(Slack', Jobs)
    BY <1>11, <1>13
  <2>4. delivered' <= Cardinality(On({"delivered"})') + lost + Cardinality(Sent')
                            + SumFunctionOnSet(Slack', Jobs)
    BY <1>1, <1>5, <1>6, <1>7, <1>11, <1>12, <2>2, <2>3
  <2>5. Cardinality(Sent') + Cardinality(On(Way)') <= MaxAlerts + (uncounted' - lost)
    BY <1>1, <1>5, <1>6, <1>7, <1>12, <2>2
  <2> QED BY <1>1, <1>7, <2>4, <2>5 DEF AlertsAreCounted, Way
<1>14. CASE n \in Today /\ row[n] # "sent"
  <2>1. Sent' = Sent
    BY <1>7, <1>14 DEF Sent, Today
  <2>2. delivered' <= Cardinality(On({"delivered"})') + lost + Cardinality(Sent')
                            + SumFunctionOnSet(Slack', Jobs)
    BY <1>1, <1>5, <1>6, <1>7, <1>11, <1>12, <2>1
  <2>3. Cardinality(Sent') + Cardinality(On(Way)') <= MaxAlerts + (uncounted' - lost)
    BY <1>1, <1>5, <1>6, <1>7, <1>12, <2>1
  <2> QED BY <1>1, <1>7, <2>2, <2>3 DEF AlertsAreCounted, Way
<1>15. CASE n \notin Today
  <2>1. Sent' = Sent
    BY <1>7, <1>15 DEF Sent, Today
  <2>2. /\ Cardinality(On({"delivered"})') = Cardinality(On({"delivered"}))
        /\ Cardinality(On(Way)') = Cardinality(On(Way))
    BY <1>3, <1>4, <1>5, <1>15 DEF Unit, At
  <2>3. delivered' <= Cardinality(On({"delivered"})') + lost + Cardinality(Sent')
                            + SumFunctionOnSet(Slack', Jobs)
    BY <1>1, <1>5, <1>7, <1>11, <1>12, <2>1, <2>2
  <2>4. Cardinality(Sent') + Cardinality(On(Way)') <= MaxAlerts + (uncounted' - lost)
    BY <1>1, <1>5, <1>7, <1>12, <2>1, <2>2
  <2> QED BY <1>1, <1>7, <2>3, <2>4 DEF AlertsAreCounted, Way
<1> QED BY <1>13, <1>14, <1>15

\* A row that is inserted is one of today, but was neither sent nor handled.
LEMMA InsertIsCounted ==
    ASSUME QueueTypeOK, HoldersHold, RowsStartNew, AlertsAreCounted, NEW i \in Jobs, Enqueue(i)
    PROVE  AlertsAreCounted'
<1>1. PICK lost \in 0..uncounted :
        /\ delivered <= Cardinality(On({"delivered"})) + lost + Cardinality(Sent)
                            + SumFunctionOnSet(Slack, Jobs)
        /\ Cardinality(Sent) + Cardinality(On(Way)) <= MaxAlerts + (uncounted - lost)
  BY DEF AlertsAreCounted, Way
<1>2. /\ status[i] = "none" /\ status'[i] = "pending" /\ touches[i] = 0
      /\ i \in Notices => row[i] = "queued"
      /\ \A j \in Jobs : j # i => status'[j] = status[j]
      /\ \A n \in Notices : n # i => created'[n] = created[n]
      /\ UNCHANGED <<runner, row, today, touches, delivered, uncounted>>
  BY DEF Enqueue, SetStatus, QueueTypeOK, RowsStartNew, history
<1>3. \A n \in Notices : n # i => (n \in Today <=> n \in Today')
  BY <1>2 DEF Today
<1>4. Today \subseteq Notices /\ Today' \subseteq Notices /\ Notices \subseteq Jobs
  BY QueueAssumption DEF Today
<1>5. \A w \in Workers : runner[w].step # "idle" => runner[w].job # i
  BY <1>2 DEF HoldersHold
<1>6. Sent' = Sent
  BY <1>2, <1>3, <1>4 DEF Sent
<1>7. /\ On({"delivered"})' = On({"delivered"}) /\ On(Way)' = On(Way)
  BY <1>2, <1>3, <1>4, <1>5 DEF On, OnTheWay, Way
<1>8. \A j \in Jobs : Waiting(j)' = Waiting(j) /\ Open(j)' = Open(j)
  BY <1>2 DEF Waiting, Open
<1>9. Slack' = Slack
  BY <1>2, <1>3, <1>4, <1>8 DEF Slack
<1> QED BY <1>1, <1>2, <1>6, <1>7, <1>9 DEF AlertsAreCounted, Way

\* At midnight nothing is of today.
LEMMA MidnightIsCounted ==
    ASSUME QueueTypeOK, RowsStartNew, NextDay
    PROVE  AlertsAreCounted'
<1>1. Today' = {}
  BY DEF NextDay, Today, RowsStartNew, QueueTypeOK
<1>2. /\ On({"delivered"})' = {} /\ On({"sending", "delivered"})' = {} /\ Sent' = {}
  BY <1>1 DEF On, OnTheWay, Sent
<1>3. /\ Cardinality(On({"delivered"})') = 0 /\ Cardinality(On({"sending", "delivered"})') = 0
      /\ Cardinality(Sent') = 0
  BY <1>2, FS_EmptySet
<1>4. Slack' = [j \in Jobs |-> 0]
  BY <1>1 DEF Slack
<1>5. SumFunctionOnSet(Slack', Jobs) \in Int /\ SumFunctionOnSet(Slack', Jobs) >= 0
  <2>1. PICK f \in [Jobs -> Int] : f = Slack'
    BY <1>4
  <2>2. \A j \in Jobs : f[j] <= f[j] /\ f[j] >= 0
    BY <1>4, <2>1
  <2> QED BY <2>1, <2>2, QueueAssumption, SumsGrow
<1>6. delivered' = 0 /\ uncounted' = 0 /\ 0 \in 0..uncounted' /\ MaxAlerts \in Nat
  BY QueueAssumption DEF NextDay
<1> QED BY <1>3, <1>5, <1>6 DEF AlertsAreCounted

-----------------------------------------------------------------------------
(* The queue: the types                                                    *)

Types ==
    /\ status \in [Jobs -> {"absent", "none", "pending", "claimed", "done", "dead"}]
    /\ attempts \in [Jobs -> Nat]
    /\ row \in [Notices -> {"queued", "sent", "suppressed"}]
    /\ created \in [Notices -> Nat] /\ today \in Nat
    /\ runner \in [Workers -> Runner]
    /\ claims \in [Jobs -> Nat] /\ touches \in [Jobs -> Nat]
    /\ delivered \in Nat /\ uncounted \in Nat /\ orphans \subseteq Jobs

LEMMA WorkTypes ==
    ASSUME QueueTypeOK, NEW w \in Workers, Work(w) \/ Crash(w)
    PROVE  QueueTypeOK'
<1>1. Types /\ Free \in Runner
  BY DEF QueueTypeOK, Types, Runner
<1>2. runner[w].step # "idle"
  BY RunnerIs DEF Work, Crash, NoHandler, Handle, Suppress, CheckLimit, Deliver, Record, Raise,
                  Complete, Fail, FailOnTakenKey, Handling
<1>3. runner[w].job \in Jobs
  BY <1>2, RunnerIs
<1>4. ASSUME NEW s \in {"handling", "sending", "delivered", "ok", "error"}, Goto(w, s)
      PROVE  runner' \in [Workers -> Runner]
  BY <1>1, <1>2, <1>4, GoesTo DEF Types
<1>5. runner' \in [Workers -> Runner]
  <2>1. runner' = [runner EXCEPT ![w] = Free] => runner' \in [Workers -> Runner]
    BY <1>1 DEF Types
  <2> QED BY <1>4, <2>1 DEF Work, Crash, NoHandler, Handle, Suppress, CheckLimit, Deliver, Record,
             Raise, Complete, Fail, FailOnTakenKey
<1>6. status' \in [Jobs -> {"absent", "none", "pending", "claimed", "done", "dead"}]
  BY <1>1, <1>3 DEF Types, Work, Crash, NoHandler, Handle, Suppress, CheckLimit, Deliver, Record,
     Raise, Complete, Fail, FailOnTakenKey, Defer, SetStatus, table
<1>7. attempts' = attempts /\ claims' = claims /\ touches' = touches
  BY DEF Work, Crash, NoHandler, Handle, Suppress, CheckLimit, Deliver, Record,
     Raise, Complete, Fail, FailOnTakenKey, table, history
<1>11. created' = created /\ today' = today
  BY DEF Work, Crash, NoHandler, Handle, Suppress, CheckLimit, Deliver, Record,
     Raise, Complete, Fail, FailOnTakenKey
<1>8. row' \in [Notices -> {"queued", "sent", "suppressed"}]
  BY <1>1 DEF Types, Work, Crash, NoHandler, Handle, Suppress, CheckLimit, Deliver, Record,
     Raise, Complete, Fail, FailOnTakenKey
<1>9. delivered' \in Nat /\ uncounted' \in Nat
  BY <1>1 DEF Types, Work, Crash, NoHandler, Handle, Suppress, CheckLimit, Deliver, Record,
     Raise, Complete, Fail, FailOnTakenKey, Forget, history
<1>10. orphans' \subseteq Jobs
  BY <1>1, <1>3 DEF Types, Work, Crash, NoHandler, Handle, Suppress, CheckLimit, Deliver, Record,
     Raise, Complete, Fail, FailOnTakenKey, history
<1> QED BY <1>1, <1>5, <1>6, <1>7, <1>8, <1>9, <1>10, <1>11 DEF Types, QueueTypeOK, Runner

LEMMA TableTypes ==
    ASSUME QueueTypeOK, NEW j \in Jobs,
           Enqueue(j) \/ Retry(j) \/ MarkDead(j) \/ \E w \in Workers : Claim(w, j)
    PROVE  QueueTypeOK'
<1>1. Types
  BY DEF QueueTypeOK, Types, Runner
<1>2. CASE Enqueue(j) \/ Retry(j) \/ MarkDead(j)
  BY <1>1, <1>2 DEF Types, QueueTypeOK, Runner, Enqueue, Retry, MarkDead, SetStatus, Touch, history
<1>3. ASSUME NEW w \in Workers, Claim(w, j) PROVE QueueTypeOK'
  <2>1. PICK r : /\ r = [step |-> "handling", job |-> j, attempts |-> attempts'[j]]
                 /\ runner' = [runner EXCEPT ![w] = r]
    BY <1>3 DEF Claim
  <2>2. attempts' \in [Jobs -> Nat] /\ attempts'[j] \in Nat \ {0}
    BY <1>1, <1>3 DEF Types, Claim
  <2>3. r \in Runner
    BY <2>1, <2>2 DEF Runner
  <2>4. runner' \in [Workers -> Runner]
    BY <1>1, <2>1, <2>3 DEF Types
  <2> QED BY <1>1, <1>3, <2>2, <2>4 DEF Types, QueueTypeOK, Runner, Claim, SetStatus
<1> QED BY <1>2, <1>3

-----------------------------------------------------------------------------
(* The queue: all steps                                                    *)

\* Work inserts no row, and no worker has a row that is not inserted.
LEMMA WorkStartsNothing ==
    ASSUME QueueTypeOK, TableAgrees, RowsStartNew, NEW w \in Workers, Work(w) \/ Crash(w)
    PROVE  RowsStartNew' /\ Today' = Today
<1>1. UNCHANGED <<created, today, touches>>
  BY DEF Work, Crash, NoHandler, Handle, Suppress, CheckLimit, Deliver, Record,
     Raise, Complete, Fail, FailOnTakenKey, history
<1>2. runner[w].step # "idle"
  BY RunnerIs DEF Work, Crash, NoHandler, Handle, Suppress, CheckLimit, Deliver, Record, Raise,
                  Complete, Fail, FailOnTakenKey, Handling
<1>3. PICK i \in Jobs : i = runner[w].job
  BY <1>2, RunnerIs
<1>4. status[i] # "none"
  BY <1>2, <1>3 DEF TableAgrees, HoldersHold, RowsStartNew
<1>5. /\ \A j \in Jobs : j # i => status'[j] = status[j]
      /\ status'[i] = status[i] \/ status'[i] \in {"done", "dead", "pending"}
  BY <1>3 DEF Work, Crash, NoHandler, Handle, Suppress, CheckLimit, Deliver, Record,
     Raise, Complete, Fail, FailOnTakenKey, Defer, SetStatus, table, QueueTypeOK
<1>6. \A n \in Notices : n # i => row'[n] = row[n]
  BY <1>3 DEF Work, Crash, NoHandler, Handle, Suppress, CheckLimit, Deliver, Record,
     Raise, Complete, Fail, FailOnTakenKey, QueueTypeOK
<1> QED BY <1>1, <1>4, <1>5, <1>6 DEF RowsStartNew, Today

\* What the table and the count of the messages share.
LEMMA WorkKeeps ==
    ASSUME QueueInv, NEW w \in Workers, Work(w) \/ Crash(w)
    PROVE  QueueInv'
<1>1. QueueTypeOK /\ TableAgrees /\ RowsStartNew /\ AlertsAreCounted /\ TurnsAreCounted /\ NoticesLeave
  BY DEF QueueInv, TableAgrees
<1>2. QueueTypeOK'
  BY <1>1, WorkTypes
<1>11. RowsStartNew' /\ Today' = Today
  BY <1>1, WorkStartsNothing
<1>3. /\ runner[w].step \in {"idle", "handling", "sending", "delivered", "ok", "error"}
      /\ runner[w].step = "idle" <=> runner[w] = Free
  BY <1>1, RunnerIs
<1>4. Free.step = "idle" /\ Free.step \notin Way
  BY DEF Free, Way
<1>5. CASE Handle(w) \/ Raise(w)
  <2>1. /\ runner[w].step \in {"handling", "sending", "delivered"}
        /\ UNCHANGED <<status, attempts, claims, touches, row, delivered>>
    BY <1>5 DEF Handle, Raise, Handling, table, history
  <2>2. PICK s \in {"ok", "error"} : Goto(w, s)
    BY <1>5 DEF Handle, Raise
  <2>3. GoesOn(w)
    BY <2>1, <2>2 DEF GoesOn
  <2>4. TableAgrees' /\ TurnsFall
    BY <1>1, <2>3, GoesOnKeeps
  <2>5. PICK r \in Runner : r.step = s /\ runner' = [runner EXCEPT ![w] = r]
    BY <1>1, <2>1, <2>2, GoesTo
  <2>6. Forget(w)
    BY <1>5 DEF Forget, OnTheWay, Handle, Raise, Handling, history
  <2>7. AlertsAreCounted'
    <3>1. r.step \notin Way
      BY <2>2, <2>5 DEF Way
    <3>2. UNCHANGED <<row, delivered>>
      BY <2>1
    <3> QED BY <1>1, <1>2, <1>11, <2>4, <2>5, <2>6, <3>1, <3>2, LeavingIsCounted
  <2> QED BY <1>2, <1>11, <2>4, <2>7 DEF QueueInv, TableAgrees
<1>6. CASE NoHandler(w) \/ Complete(w) \/ Fail(w) \/ FailOnTakenKey(w) \/ Crash(w)
  <2>1. /\ runner[w].step # "idle" /\ runner' = [runner EXCEPT ![w] = Free]
        /\ UNCHANGED <<attempts, claims, touches, row, delivered>> /\ Forget(w)
    BY <1>3, <1>6 DEF NoHandler, Complete, Fail, FailOnTakenKey, Crash, table, history, Forget, OnTheWay
  <2>2. Ends(w)
    BY <1>6, <2>1 DEF Ends, NoHandler, Complete, Fail, FailOnTakenKey, Crash, table, Defer
  <2>3. TableAgrees' /\ TurnsFall
    BY <1>1, <2>2, EndsKeeps
  <2>4. AlertsAreCounted'
    <3>1. UNCHANGED <<row, delivered>> /\ runner' = [runner EXCEPT ![w] = Free] /\ Forget(w)
      BY <2>1
    <3>2. PICK r : r = Free
      OBVIOUS
    <3>3. r.step \notin Way /\ runner' = [runner EXCEPT ![w] = r]
      BY <1>4, <3>1, <3>2
    <3> QED BY <1>1, <1>2, <1>11, <2>3, <3>1, <3>3, LeavingIsCounted
  <2> QED BY <1>2, <1>11, <2>3, <2>4 DEF QueueInv, TableAgrees
<1>7. CASE CheckLimit(w)
  <2>1. GoesOn(w)
    BY <1>7 DEF GoesOn, CheckLimit, Handling, table
  <2>2. TableAgrees' /\ TurnsFall
    BY <1>1, <2>1, GoesOnKeeps
  <2>3. AlertsAreCounted'
    BY <1>1, <1>2, <1>7, <2>2, CheckIsCounted
  <2> QED BY <1>2, <1>11, <2>2, <2>3 DEF QueueInv, TableAgrees
<1>8. CASE Deliver(w)
  <2>1. GoesOn(w)
    BY <1>8 DEF GoesOn, Deliver, table
  <2>2. TableAgrees' /\ TurnsFall
    BY <1>1, <2>1, GoesOnKeeps
  <2>3. AlertsAreCounted'
    BY <1>1, <1>2, <1>8, <2>2, DeliveryIsCounted
  <2> QED BY <1>2, <1>11, <2>2, <2>3 DEF QueueInv, TableAgrees
<1>9. CASE Record(w)
  <2>1. GoesOn(w)
    BY <1>9 DEF GoesOn, Record, table, history
  <2>2. TableAgrees' /\ TurnsFall
    BY <1>1, <2>1, GoesOnKeeps
  <2>3. AlertsAreCounted'
    BY <1>1, <1>2, <1>9, <2>2, RecordIsCounted
  <2> QED BY <1>2, <1>11, <2>2, <2>3 DEF QueueInv, TableAgrees
<1>10. CASE Suppress(w)
  <2>1. GoesOn(w)
    BY <1>10 DEF GoesOn, Suppress, Handling, table, history
  <2>2. TableAgrees' /\ TurnsFall
    BY <1>1, <2>1, GoesOnKeeps
  <2>3. AlertsAreCounted'
    BY <1>1, <1>2, <1>10, <2>2, SuppressionIsCounted
  <2> QED BY <1>2, <1>11, <2>2, <2>3 DEF QueueInv, TableAgrees
<1> QED BY <1>5, <1>6, <1>7, <1>8, <1>9, <1>10 DEF Work

LEMMA RowsKeep ==
    ASSUME QueueInv, NEW j \in Jobs, Enqueue(j) \/ Retry(j) \/ MarkDead(j)
    PROVE  QueueInv'
<1>1. QueueTypeOK /\ TableAgrees /\ AlertsAreCounted /\ TurnsAreCounted /\ RowsStartNew
  BY DEF QueueInv, TableAgrees
<1>2. QueueTypeOK'
  BY <1>1, TableTypes
<1>3. UNCHANGED <<runner, row, claims, delivered, uncounted, today>>
  BY DEF Enqueue, Retry, MarkDead, history
<1>4. Inserts(j) \/ Buttons(j)
  BY DEF Inserts, Buttons, Enqueue, Retry, MarkDead, history
<1>5. TableAgrees' /\ TurnsFall
  <2>1. UNCHANGED <<runner, claims>>
    BY <1>3
  <2> QED BY <1>1, <1>4, <2>1, InsertsKeep, ButtonsKeep
<1>6. CASE Enqueue(j)
  <2>1. RowsStartNew'
    BY <1>1, <1>3, <1>6 DEF RowsStartNew, Enqueue, SetStatus, QueueTypeOK, history
  <2>2. AlertsAreCounted'
    BY <1>1, <1>6, InsertIsCounted DEF TableAgrees
  <2> QED BY <1>2, <1>5, <2>1, <2>2 DEF QueueInv, TableAgrees
<1>7. CASE Retry(j) \/ MarkDead(j)
  <2>1. created' = created /\ Today' = Today
    BY <1>3, <1>7 DEF Retry, MarkDead, Today
  <2>2. RowsStartNew'
    BY <1>1, <1>3, <1>7, <2>1 DEF RowsStartNew, Retry, MarkDead, SetStatus, Touch, QueueTypeOK
  <2>3. UNCHANGED <<runner, row, delivered, uncounted>>
    BY <1>3
  <2>4. AlertsAreCounted'
    BY <1>1, <1>2, <1>5, <2>1, <2>3, StandingIsCounted
  <2> QED BY <1>2, <1>5, <2>2, <2>4 DEF QueueInv, TableAgrees
<1> QED BY <1>6, <1>7

\* Midnight touches the count of the messages only.
LEMMA DaysKeep ==
    ASSUME QueueInv, NextDay
    PROVE  QueueInv'
<1>1. QueueTypeOK /\ RowsStartNew
  BY DEF QueueInv
<1>2. /\ UNCHANGED <<status, attempts, row, created, runner, claims, touches, orphans>>
      /\ today' = today + 1 /\ delivered' = 0 /\ uncounted' = 0
  BY DEF NextDay, table
<1>3. QueueTypeOK' /\ RowsStartNew'
  BY <1>1, <1>2 DEF QueueTypeOK, RowsStartNew
<1>4. HoldersHold' /\ KeysAreUnique' /\ RunsAreCounted' /\ TurnsAreCounted' /\ NoticesLeave'
  BY <1>2 DEF QueueInv, HoldersHold, KeysAreUnique, Live, RunsAreCounted, TurnsAreCounted,
              NoticesLeave, Waiting, Productive, Open, Remaining
<1>5. AlertsAreCounted'
  BY <1>1, MidnightIsCounted
<1> QED BY <1>3, <1>4, <1>5 DEF QueueInv

LEMMA ClaimsKeep ==
    ASSUME QueueInv, NEW w \in Workers, NEW j \in Jobs, Claim(w, j)
    PROVE  QueueInv'
<1>1. QueueTypeOK /\ TableAgrees /\ AlertsAreCounted /\ TurnsAreCounted /\ RowsStartNew
  BY DEF QueueInv, TableAgrees
<1>2. QueueTypeOK'
  BY <1>1, TableTypes
<1>3. TableAgrees' /\ TurnsFall
  BY <1>1, ClaimKeeps
<1>4. PICK r : /\ r = [step |-> "handling", job |-> j, attempts |-> attempts'[j]]
               /\ runner' = [runner EXCEPT ![w] = r]
  BY DEF Claim
<1>5. AlertsAreCounted'
  <2>1. r.step \notin Way /\ runner' = [runner EXCEPT ![w] = r]
    BY <1>4 DEF Way
  <2>2. Forget(w) /\ UNCHANGED <<row, delivered>>
    BY DEF Claim, Forget, OnTheWay, Free
  <2>3. Today' = Today
    BY DEF Claim, Today
  <2> QED BY <1>1, <1>2, <1>3, <2>1, <2>2, <2>3, LeavingIsCounted
<1>6. RowsStartNew'
  BY <1>1 DEF Claim, RowsStartNew, SetStatus, QueueTypeOK
<1> QED BY <1>2, <1>3, <1>5, <1>6 DEF QueueInv, TableAgrees

LEMMA QueueStarts == Init => QueueInv
<1> SUFFICES ASSUME Init PROVE QueueInv
  OBVIOUS
<1>1. QueueTypeOK
  BY DEF Init, QueueTypeOK
<1>2. Free.step = "idle"
  BY DEF Free
<1>3. \A w \in Workers : runner[w].step = "idle"
  BY <1>2 DEF Init
<1>4. /\ \A j \in Jobs : Open(j) = {} /\ Productive(j) = {}
      /\ \A steps : "idle" \notin steps => On(steps) = {}
      /\ Sent = {}
  BY <1>3 DEF Open, Productive, On, OnTheWay, Sent, Today, Init
<1>5. /\ \A j \in Jobs : Cardinality(Open(j)) = 0 /\ Cardinality(Productive(j)) = 0
      /\ Cardinality(On({"delivered"})) = 0 /\ Cardinality(On({"sending", "delivered"})) = 0
      /\ Cardinality(Sent) = 0
  BY <1>4, FS_EmptySet
<1>6. \A j \in Jobs : /\ Waiting(j) \in 0..1 /\ touches[j] = 0 /\ claims[j] = 0
                      /\ Remaining(j) = MaxAttempts - 1
  BY QueueAssumption DEF Waiting, Remaining, Init
<1>7. RunsAreCounted
  <2>1. \A j \in Jobs : MaxAttempts * touches[j] = 0
    BY <1>6, QueueAssumption
  <2> QED BY <1>5, <1>6, <2>1, QueueAssumption DEF RunsAreCounted
<1>8. TurnsAreCounted
  BY <1>5, <1>6 DEF TurnsAreCounted
<1>12. RowsStartNew
  BY DEF RowsStartNew, Init
<1>9. HoldersHold /\ NoticesLeave
  BY <1>3 DEF HoldersHold, NoticesLeave
<1>10. KeysAreUnique
  BY DEF Init, KeysAreUnique, Live
<1>11. AlertsAreCounted
  <2>1. PICK f \in [Jobs -> Int] : f = Slack
    BY <1>1, Sizes
  <2>2. \A j \in Jobs : f[j] <= f[j] /\ f[j] >= 0
    <3>1. Slack = [j \in Jobs |-> 0]
      BY DEF Slack, Init, Today
    <3> QED BY <2>1, <3>1
  <2>3. SumFunctionOnSet(f, Jobs) \in Int /\ SumFunctionOnSet(f, Jobs) >= 0
    BY <2>2, QueueAssumption, SumsGrow
  <2>4. delivered = 0 /\ uncounted = 0 /\ 0 \in 0..uncounted /\ MaxAlerts \in Nat
    BY QueueAssumption DEF Init
  <2> QED BY <1>5, <2>1, <2>3, <2>4 DEF AlertsAreCounted
<1> QED BY <1>1, <1>7, <1>8, <1>9, <1>10, <1>11, <1>12 DEF QueueInv

-----------------------------------------------------------------------------
(* The queue: theorems                                                     *)

\* The queue keeps its books: who holds a row, which rows are live, how many
\* turns are left to a job, and which messages the limit has seen.
THEOREM QueueInvariance == Spec => []QueueInv
<1>1. Init => QueueInv
  BY QueueStarts
<1>2. QueueInv /\ [Next]_vars => QueueInv'
  <2> SUFFICES ASSUME QueueInv, [Next]_vars PROVE QueueInv'
    OBVIOUS
  <2>1. ASSUME NEW j \in Jobs, Enqueue(j) \/ Retry(j) \/ MarkDead(j) PROVE QueueInv'
    BY <2>1, RowsKeep
  <2>2. ASSUME NEW w \in Workers, Work(w) \/ Crash(w) PROVE QueueInv'
    BY <2>2, WorkKeeps
  <2>3. ASSUME NEW w \in Workers, NEW j \in Jobs, Claim(w, j) PROVE QueueInv'
    BY <2>3, ClaimsKeep
  <2>5. CASE NextDay
    BY <2>5, DaysKeep
  <2>4. CASE UNCHANGED vars
    <3>1. UNCHANGED <<status, attempts, row, created, today, runner, claims, touches, delivered,
                      uncounted, orphans>>
      BY <2>4 DEF vars, table, history
    <3>2. /\ \A j \in Jobs : Waiting(j)' = Waiting(j) /\ Remaining(j)' = Remaining(j)
          /\ \A j \in Jobs : Open(j)' = Open(j) /\ Productive(j)' = Productive(j)
      BY <3>1 DEF Waiting, Remaining, Open, Productive
    <3>3. Today' = Today
      BY <3>1 DEF Today
    <3>4. /\ On({"delivered"})' = On({"delivered"}) /\ Sent' = Sent
          /\ On({"sending", "delivered"})' = On({"sending", "delivered"})
      BY <3>1, <3>3 DEF On, OnTheWay, Sent
    <3>5. Slack' = Slack
      BY <3>1, <3>2, <3>3 DEF Slack
    <3>6. AlertsAreCounted'
      BY <3>1, <3>4, <3>5 DEF QueueInv, AlertsAreCounted
    <3>7. RunsAreCounted' /\ TurnsAreCounted'
      BY <3>1, <3>2 DEF QueueInv, RunsAreCounted, TurnsAreCounted
    <3> QED BY <3>1, <3>6, <3>7 DEF QueueInv, QueueTypeOK, HoldersHold, KeysAreUnique, Live,
                NoticesLeave, RowsStartNew
  <2> QED BY <2>1, <2>2, <2>3, <2>4, <2>5 DEF Next
<1> QED BY <1>1, <1>2, PTL DEF Spec

\* Each variable of the queue has its type.
THEOREM QueueTypeCorrectness == Spec => []QueueTypeOK
<1>1. QueueInv => QueueTypeOK
  BY DEF QueueInv
<1> QED BY <1>1, QueueInvariance, PTL

\* For any rows, keys, workers and buttons: a job runs MaxAttempts times for
\* its insert and for each use of a button, and no two workers are at jobs of
\* one key unless the admin took one of the jobs back (claim_next, fail,
\* uq_jobs_dedup).
THEOREM RunsAreAlwaysBounded == Spec => []RunsAreBounded
<1>1. QueueInv => RunsAreBounded
  <2> SUFFICES ASSUME QueueInv PROVE RunsAreBounded
    OBVIOUS
  <2>1. QueueTypeOK /\ HoldersHold /\ KeysAreUnique /\ RunsAreCounted
    BY DEF QueueInv
  <2>2. KeysRunApart
    <3> SUFFICES ASSUME NEW v \in Workers, NEW w \in Workers, v # w,
                        runner[v] # Free, runner[w] # Free,
                        KeyOf[runner[v].job] = KeyOf[runner[w].job]
                 PROVE  touches[runner[v].job] + touches[runner[w].job] > 0
      BY DEF KeysRunApart
    <3>1. /\ runner[v].step # "idle" /\ runner[w].step # "idle"
          /\ runner[v].job \in Jobs /\ runner[w].job \in Jobs
      BY <2>1, RunnerIs
    <3>2. touches[runner[v].job] \in Nat /\ touches[runner[w].job] \in Nat
      BY <2>1, <3>1 DEF QueueTypeOK
    <3>3. CASE runner[v].job = runner[w].job
      BY <2>1, <3>1, <3>2, <3>3 DEF HoldersHold
    <3>4. CASE runner[v].job # runner[w].job
      BY <2>1, <3>1, <3>2, <3>4 DEF HoldersHold, KeysAreUnique, Live
    <3> QED BY <3>3, <3>4
  <2>3. ASSUME NEW j \in Jobs PROVE claims[j] <= MaxAttempts * (1 + touches[j])
    <3>1. claims[j] + Waiting(j) + Cardinality(Productive(j)) + Remaining(j)
              <= MaxAttempts + MaxAttempts * touches[j]
      BY <2>1 DEF RunsAreCounted
    <3>2. Productive(j) \in SUBSET Workers
      BY DEF Productive, Open
    <3>3. /\ Waiting(j) \in Nat /\ Cardinality(Productive(j)) \in Nat /\ Remaining(j) \in Nat
          /\ claims[j] \in Nat /\ touches[j] \in Nat /\ MaxAttempts \in Nat
      BY <2>1, <3>2, Counts, QueueAssumption DEF Waiting, Remaining, QueueTypeOK
    <3>4. MaxAttempts * (1 + touches[j]) = MaxAttempts + MaxAttempts * touches[j]
      BY <3>3
    <3>5. MaxAttempts * touches[j] \in Nat
      BY <3>3
    <3> QED BY <3>1, <3>3, <3>4, <3>5
  <2> QED BY <2>2, <2>3 DEF RunsAreBounded
<1> QED BY <1>1, QueueInvariance, PTL

\* For any notices and any limit: of the notices of one day no more leave on that
\* day than the daily limit, the times the check could not see a message, and the
\* uses of the buttons on them (_exceeds_daily_limit, handle_send_notification).
THEOREM AlertsAreAlwaysBounded == Spec => []AlertsAreBounded
<1>1. QueueInv => AlertsAreBounded
  <2> SUFFICES ASSUME QueueInv PROVE AlertsAreBounded
    OBVIOUS
  <2>1. QueueTypeOK /\ AlertsAreCounted
    BY DEF QueueInv
  <2>2. PICK lost \in 0..uncounted :
          /\ delivered <= Cardinality(On({"delivered"})) + lost + Cardinality(Sent)
                              + SumFunctionOnSet(Slack, Jobs)
          /\ Cardinality(Sent) + Cardinality(On({"sending", "delivered"}))
                <= MaxAlerts + (uncounted - lost)
    BY <2>1 DEF AlertsAreCounted
  <2>3. /\ \A steps : Cardinality(On(steps)) \in Nat
        /\ Cardinality(Sent) \in Nat
        /\ \A j \in Jobs : touches[j] \in Nat
        /\ delivered \in Nat /\ uncounted \in Nat /\ MaxAlerts \in Nat
    BY <2>1, Sizes
  <2>4. PICK f \in [Jobs -> Int] : f = Slack
    BY <2>1, Sizes
  <2>5. PICK e \in [Jobs -> Int] : e = TouchesToday
    <3>1. TouchesToday \in [Jobs -> Int]
      BY <2>3 DEF TouchesToday
    <3> QED BY <3>1
  <2>6. \A j \in Jobs : Open(j) \in SUBSET Workers
    BY DEF Open
  <2>7. \A j \in Jobs : Cardinality(Open(j)) \in Nat /\ Waiting(j) \in Nat
    BY <2>6, Counts DEF Waiting
  <2>8. \A j \in Jobs : f[j] <= e[j]
    BY <2>3, <2>4, <2>5, <2>7 DEF Slack, TouchesToday
  <2>9. /\ SumFunctionOnSet(f, Jobs) \in Int /\ SumFunctionOnSet(e, Jobs) \in Int
        /\ SumFunctionOnSet(f, Jobs) <= SumFunctionOnSet(e, Jobs)
    BY <2>5, <2>8, QueueAssumption, SumsGrow
  <2>10. Cardinality(On({"delivered"})) <= Cardinality(On({"sending", "delivered"}))
    <3>1. /\ On({"delivered"}) \subseteq On({"sending", "delivered"})
          /\ On({"sending", "delivered"}) \subseteq Workers
      BY DEF On, OnTheWay
    <3>2. IsFiniteSet(On({"sending", "delivered"}))
      BY <3>1, QueueAssumption, FS_Subset
    <3> QED BY <3>1, <3>2, FS_Subset
  <2> QED BY <2>2, <2>3, <2>4, <2>5, <2>9, <2>10 DEF AlertsAreBounded
<1> QED BY <1>1, QueueInvariance, PTL

=============================================================================
