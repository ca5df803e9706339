----------------------------- MODULE AgentRuns -----------------------------
(***************************************************************************)
(* Agent runs of one chat session of the web: the run row                  *)
(* (applicationChat.ts), the streaming request that serves it              *)
(* (messages/stream/route.ts), the Codex turn in the session's workspace   *)
(* (codexAgent.ts) under a Redis lock (codexSessionStore.ts), and the      *)
(* change set a person confirms or rejects.                                *)
(*                                                                         *)
(* A request:  Begin -> Snapshot -> Acquire -> Spawn -> Answer -> Load     *)
(* -> Store -> Cleanup -> Release, and the Codex process beside it:        *)
(* Generate, ChildExits.  The snapshot of the output folder is taken       *)
(* before the lock; the lock carries no token and expires; no error and no *)
(* death kills the process.                                                *)
(***************************************************************************)
EXTENDS Integers, FiniteSets

CONSTANTS
    Runs,        \* requests of the session; a run writes at most one file
    Deciders,    \* requests to confirm or reject a change set
    MaxDeaths,   \* bound: deaths of the web process
    MaxChangeSets, \* bound: runs that propose changes
    None

ASSUME SetsAssumption ==
    IsFiniteSet(Runs) /\ IsFiniteSet(Deciders) /\ None \notin Runs \cup Deciders
ASSUME BoundsAssumption == MaxDeaths \in Nat /\ MaxChangeSets \in Nat

VARIABLES
    runStatus,  \* agent_runs.status
    answers,    \* assistant messages of the run
    changes,    \* agent_change_sets.status of the run
    applied,    \* how often the run's changes reached the draft
    rowLock,    \* FOR UPDATE of the change set
    lock,       \* the session's key in Redis (its value is "1": the holder is ours)
    codex,      \* runs whose Codex process is alive
    written,    \* runs that wrote their file
    files,      \* outputs/generated-documents, a file named for its writer
    pc,         \* where the request of the run is
    before,     \* the request's snapshot of the folder
    generated,  \* the files it takes for its own
    loaded,     \* those of them that were read, to be stored with the answer
    artifacts,  \* the documents stored with its answer
    deciding,   \* the change set a decider works on, and its decision
    crashes,
    leftover,   \* history: delivered files that stayed in the folder
    lostKey,    \* history: runs whose key expired or was deleted under them
    unrecorded  \* history: runs whose end could not be written

rows  == <<runStatus, answers, changes, applied, rowLock, artifacts>>
local == <<before, generated, loaded>>
child == <<codex, written>>
past == <<leftover, lostKey, unrecorded>>
sessionVars == <<rows, lock, child, files, pc, local, deciding, crashes, past>>

Inside == {"locked", "turn", "answered", "loaded", "stored", "cleaned", "broken"}

-----------------------------------------------------------------------------
(* The run row                                                             *)

\* beginAgentRun: the user's message and a running run, in one transaction.
Begin(r) ==
    /\ pc[r] = "new"
    /\ pc' = [pc EXCEPT ![r] = "begun"]
    /\ runStatus' = [runStatus EXCEPT ![r] = "running"]
    /\ UNCHANGED <<answers, changes, applied, rowLock, artifacts, lock, child, files, local,
                   deciding, crashes, past>>

\* Faulty variant: the end of the request is not recorded.
KeepRow(r) == UNCHANGED runStatus

\* failAgentRun ends a run that has not ended.
FailRow(r) == runStatus' = [runStatus EXCEPT ![r] = IF @ = "running" THEN "failed" ELSE @]

FailRequest(r) ==
    /\ pc[r] = "failing"
    /\ pc' = [pc EXCEPT ![r] = "end"]
    /\ FailRow(r)
    /\ UNCHANGED <<answers, changes, applied, rowLock, artifacts, lock, child, files, local,
                   deciding, crashes, past>>

\* The database does not answer failAgentRun either: the row stays as it is.
FailRequestFails(r) ==
    /\ pc[r] = "failing"
    /\ pc' = [pc EXCEPT ![r] = "end"]
    /\ unrecorded' = unrecorded \cup {q \in {r} : runStatus[q] = "running"}
    /\ UNCHANGED <<rows, lock, child, files, local, deciding, crashes, leftover, lostKey>>

-----------------------------------------------------------------------------
(* The Codex turn                                                          *)

Snapshot(r) ==
    /\ pc[r] = "begun"
    /\ pc' = [pc EXCEPT ![r] = "snapped"]
    /\ before' = [before EXCEPT ![r] = files]
    /\ UNCHANGED <<rows, lock, child, files, generated, loaded, deciding,
                   crashes, past>>

\* What a request held of the folder is gone with it.
Drop(r) ==
    /\ before' = [before EXCEPT ![r] = {}]
    /\ generated' = [generated EXCEPT ![r] = {}]
    /\ loaded' = [loaded EXCEPT ![r] = {}]

\* The contract's record, the workspace, its folders or Redis cannot be read.
BreakEarly(r) ==
    /\ pc[r] \in {"begun", "snapped"}
    /\ pc' = [pc EXCEPT ![r] = "failing"]
    /\ Drop(r)
    /\ UNCHANGED <<rows, lock, child, files, deciding, crashes, past>>

\* SET NX EX; "Esta conversacion ya esta procesando otro mensaje" otherwise.
Acquire(r) ==
    /\ pc[r] = "snapped"
    /\ IF lock = None
       THEN lock' = r /\ pc' = [pc EXCEPT ![r] = "locked"] /\ UNCHANGED local
       ELSE UNCHANGED lock /\ pc' = [pc EXCEPT ![r] = "failing"] /\ Drop(r)
    /\ UNCHANGED <<rows, child, files, deciding, crashes, past>>

Spawn(r) ==
    /\ pc[r] = "locked"
    /\ pc' = [pc EXCEPT ![r] = "turn"]
    /\ codex' = codex \cup {r}
    /\ UNCHANGED <<rows, lock, written, files, local, deciding, crashes, past>>

\* The process writes its document, wherever the request is by now.
Generate(r) ==
    /\ r \in codex /\ r \notin written
    /\ written' = written \cup {r}
    /\ files' = files \cup {r}
    /\ UNCHANGED <<rows, lock, codex, pc, local, deciding, crashes, past>>

ChildExits(r) ==
    /\ r \in codex
    /\ codex' = codex \ {r}
    /\ UNCHANGED <<rows, lock, written, files, pc, local, deciding, crashes, past>>

\* The files that were not there before are the run's, or if there are none (and
\* a document was asked for) those that the answer names.
TakeFiles(r) ==
    \E named \in SUBSET files :
        generated' = [generated EXCEPT ![r] =
                          IF files \subseteq before[r] THEN named ELSE files \ before[r]]

\* Faulty variant: "turn.completed" is taken for the end of the process.
AnswerAtOnce(r) ==
    /\ pc[r] = "turn"
    /\ pc' = [pc EXCEPT ![r] = "answered"]
    /\ TakeFiles(r) /\ before' = [before EXCEPT ![r] = {}]
    /\ UNCHANGED <<rows, lock, child, files, loaded, deciding, crashes, past>>

\* A valid answer of a process that has closed.
Answer(r) ==
    /\ pc[r] = "turn" /\ r \notin codex
    /\ pc' = [pc EXCEPT ![r] = "answered"]
    /\ TakeFiles(r) /\ before' = [before EXCEPT ![r] = {}]
    /\ UNCHANGED <<rows, lock, child, files, loaded, deciding, crashes, past>>

\* An error event, a process that failed, an invalid answer, Redis, the database
\* or the disk: the files stay, and the process too if it is alive.
Break(r) ==
    /\ pc[r] \in {"locked", "turn", "answered", "loaded"}
    /\ pc' = [pc EXCEPT ![r] = "broken"]
    /\ Drop(r)
    /\ UNCHANGED <<rows, lock, child, files, deciding, crashes, past>>

\* loadGeneratedArtifacts skips what is no longer there, what is not a document,
\* what is too large and what comes after the eighth.
Load(r) ==
    /\ pc[r] = "answered"
    /\ pc' = [pc EXCEPT ![r] = "loaded"]
    /\ \E read \in SUBSET (generated[r] \cap files) : loaded' = [loaded EXCEPT ![r] = read]
    /\ UNCHANGED <<rows, lock, child, files, before, generated, deciding,
                   crashes, past>>

\* completeAgentRun: answer, artifacts, change set and status in one transaction,
\* whose acknowledgement may be lost.
Store(r) ==
    /\ pc[r] = "loaded"
    /\ IF runStatus[r] = "running"
       THEN /\ runStatus' = [runStatus EXCEPT ![r] = "completed"]
            /\ answers' = [answers EXCEPT ![r] = @ + 1]
            /\ artifacts' = [artifacts EXCEPT ![r] = loaded[r]]
            /\ \/ UNCHANGED changes
               \/ /\ Cardinality({q \in Runs : changes[q] # "none"}) < MaxChangeSets
                  /\ changes' = [changes EXCEPT ![r] = "pending"]
            /\ \/ pc' = [pc EXCEPT ![r] = "stored"] 
                  /\ loaded' = [loaded EXCEPT ![r] = {}] /\ UNCHANGED <<before, generated, leftover>>
               \/ /\ pc' = [pc EXCEPT ![r] = "broken"]
                  /\ Drop(r)
                  /\ leftover' = leftover \cup (generated[r] \cap files)
       ELSE /\ pc' = [pc EXCEPT ![r] = "broken"]
            /\ Drop(r)
            /\ UNCHANGED <<runStatus, answers, changes, artifacts, leftover>>
    /\ UNCHANGED <<applied, rowLock, lock, child, files, deciding, crashes, lostKey, unrecorded>>

\* Faulty variant: the delivered files stay in the folder.
CleanupNothing(r) ==
    /\ pc[r] = "stored"
    /\ pc' = [pc EXCEPT ![r] = "cleaned"]
    /\ Drop(r)
    /\ UNCHANGED <<rows, lock, child, files, deciding, crashes, past>>

\* cleanupGeneratedArtifacts: an error of unlink is swallowed, one of the folder
\* breaks the request before anything is removed.
Cleanup(r) ==
    /\ pc[r] = "stored"
    /\ \E kept \in SUBSET (generated[r] \cap files) :
          /\ files' = files \ (generated[r] \ kept)
          /\ leftover' = leftover \cup kept
          /\ \/ pc' = [pc EXCEPT ![r] = "cleaned"]
             \/ kept = generated[r] \cap files /\ pc' = [pc EXCEPT ![r] = "broken"]
    /\ Drop(r)
    /\ UNCHANGED <<rows, lock, child, deciding, crashes, lostKey, unrecorded>>

\* The generator's finally: the key is deleted, whoever's it is by now.
Release(r) ==
    /\ pc[r] \in {"cleaned", "broken"}
    /\ pc' = [pc EXCEPT ![r] = IF @ = "broken" THEN "failing" ELSE "end"]
    /\ lock' = None
    /\ lostKey' = lostKey \cup {q \in Runs \ {r} : q = lock /\ pc[q] \in Inside}
    /\ UNCHANGED <<rows, child, files, local, deciding, crashes, leftover, unrecorded>>

\* Redis does not answer: the key stays, and the error reaches the request.
ReleaseFails(r) ==
    /\ pc[r] \in {"cleaned", "broken"}
    /\ pc' = [pc EXCEPT ![r] = "failing"]
    /\ UNCHANGED <<rows, lock, child, files, local, deciding, crashes, past>>

\* The key expires: of a dead holder, or under a run that takes too long.
Expire ==
    /\ lock # None
    /\ lock' = None
    /\ lostKey' = lostKey \cup {q \in Runs : q = lock /\ pc[q] \in Inside}
    /\ UNCHANGED <<rows, child, files, pc, local, deciding, crashes, leftover, unrecorded>>

\* The web process dies; rows, key, files and the Codex processes stay.
WebDies ==
    /\ crashes < MaxDeaths
    /\ crashes' = crashes + 1
    /\ pc' = [r \in Runs |-> IF pc[r] = "new" THEN "new" ELSE "end"]
    /\ before' = [r \in Runs |-> {}] /\ generated' = before' /\ loaded' = before'
    /\ rowLock' = None
    /\ deciding' = [d \in Deciders |-> None]
    /\ leftover' = leftover \cup
                       UNION {generated[r] \cap files : r \in {q \in Runs : pc[q] = "stored"}}
    /\ unrecorded' = unrecorded \cup {r \in Runs : runStatus[r] = "running"}
    /\ UNCHANGED <<runStatus, answers, changes, applied, artifacts, lock, child, files, lostKey>>

-----------------------------------------------------------------------------
(* Change sets                                                             *)

Idle(d) == deciding[d] = None

\* Faulty variant: the status is read without the row's lock.
ReadUnlocked(d, r) ==
    /\ Idle(d) /\ changes[r] = "pending"
    /\ \E decision \in {"confirm", "reject"} : deciding' = [deciding EXCEPT ![d] = <<r, decision>>]
    /\ UNCHANGED <<rows, lock, child, files, pc, local, crashes, past>>

\* decideAgentChangeSet: SELECT ... FOR UPDATE; a set that was decided is left.
ReadLocked(d, r) ==
    /\ Idle(d) /\ rowLock = None /\ changes[r] = "pending"
    /\ \E decision \in {"confirm", "reject"} : deciding' = [deciding EXCEPT ![d] = <<r, decision>>]
    /\ rowLock' = d
    /\ UNCHANGED <<runStatus, answers, changes, applied, artifacts, lock, child, files, pc, local,
                   crashes, past>>

\* Commit of the decision, or a rollback (no draft yet, or a change that is invalid).
Decide(d) ==
    /\ ~Idle(d)
    /\ LET r == deciding[d][1]
       IN  \/ /\ deciding[d][2] = "confirm"
              /\ changes' = [changes EXCEPT ![r] = "applied"]
              /\ applied' = [applied EXCEPT ![r] = @ + 1]
           \/ /\ deciding[d][2] = "reject"
              /\ changes' = [changes EXCEPT ![r] = "rejected"]
              /\ UNCHANGED applied
           \/ deciding[d][2] = "confirm" /\ UNCHANGED <<changes, applied>>
    /\ deciding' = [deciding EXCEPT ![d] = None]
    /\ rowLock' = IF rowLock = d THEN None ELSE rowLock
    /\ UNCHANGED <<runStatus, answers, artifacts, lock, child, files, pc, local, crashes, past>>

-----------------------------------------------------------------------------

SessionInit ==
    /\ runStatus = [r \in Runs |-> "absent"]
    /\ answers = [r \in Runs |-> 0]
    /\ changes = [r \in Runs |-> "none"]
    /\ applied = [r \in Runs |-> 0]
    /\ rowLock = None /\ lock = None
    /\ codex = {} /\ written = {} /\ files = {}
    /\ pc = [r \in Runs |-> "new"]
    /\ before = [r \in Runs |-> {}]
    /\ generated = [r \in Runs |-> {}]
    /\ loaded = [r \in Runs |-> {}]
    /\ artifacts = [r \in Runs |-> {}]
    /\ deciding = [d \in Deciders |-> None]
    /\ crashes = 0
    /\ leftover = {} /\ lostKey = {} /\ unrecorded = {}

RequestStep(r) ==
    \/ BreakEarly(r) \/ Snapshot(r) \/ Acquire(r) \/ Spawn(r) \/ Answer(r) \/ Break(r)
    \/ Load(r) \/ Store(r) \/ Cleanup(r) \/ Release(r) \/ ReleaseFails(r)
    \/ FailRequest(r) \/ FailRequestFails(r)

ChildStep(r) == Generate(r) \/ ChildExits(r)

SessionNext ==
    \/ \E r \in Runs : Begin(r) \/ RequestStep(r) \/ ChildStep(r)
    \/ \E d \in Deciders : Decide(d) \/ \E r \in Runs : ReadLocked(d, r)
    \/ Expire \/ WebDies

\* A request that is served goes on (a Codex turn ends: the code has no limit of
\* its own for it) and keys expire; nothing is assumed of the Codex processes
\* that are left alone, of users and of deaths.
SessionSpec ==
    /\ SessionInit /\ [][SessionNext]_sessionVars
    /\ WF_sessionVars(Expire) /\ \A r \in Runs : WF_sessionVars(RequestStep(r))

-----------------------------------------------------------------------------
(* Properties                                                              *)

\* Types of all variables; no change set is applied twice, no run answered twice.
AgentsTypeOK ==
    /\ runStatus \in [Runs -> {"absent", "running", "completed", "failed"}]
    /\ answers \in [Runs -> 0..1] /\ applied \in [Runs -> 0..1]
    /\ changes \in [Runs -> {"none", "pending", "applied", "rejected"}]
    /\ rowLock \in Deciders \cup {None} /\ lock \in Runs \cup {None}
    /\ codex \subseteq Runs /\ written \subseteq Runs /\ files \subseteq written
    /\ pc \in [Runs -> Inside \cup {"new", "begun", "snapped", "failing", "end"}]
    /\ before \in [Runs -> SUBSET Runs] /\ generated \in [Runs -> SUBSET Runs]
    /\ loaded \in [Runs -> SUBSET Runs] /\ artifacts \in [Runs -> SUBSET Runs]
    /\ deciding \in [Deciders -> {None} \cup (Runs \X {"confirm", "reject"})]
    /\ crashes \in 0..MaxDeaths
    /\ leftover \subseteq Runs /\ lostKey \subseteq Runs /\ unrecorded \subseteq Runs

\* The draft and the decision agree: what was applied is marked as applied,
\* what was rejected never reached the draft, whoever else decided meanwhile.
DecisionsAgree ==
    \A r \in Runs : (applied[r] = 1) = (changes[r] = "applied")

\* What explains that two runs deliver one file: it was delivered and stayed in
\* the folder, or one of the runs went on after its key was gone.
Excused(f, r, q) == f \in leftover \/ r \in lostKey \/ q \in lostKey

\* The document of a run that was answered is never delivered as another run's,
\* although the snapshots are older than the lock, a run looks at its files when
\* Codex has closed (codexAgent.ts), and processes nobody waits for write beside it.
NoForeignDocuments ==
    \A r, q \in Runs : q \in artifacts[r] /\ runStatus[q] = "completed" /\ r # q
        => Excused(q, r, q)

\* A document is delivered with one answer, its own or (when its run failed)
\* another's: the folder was cleaned in between, or Excused says why not.
DeliveredOnce ==
    \A r, q \in Runs : \A f \in artifacts[r] \cap artifacts[q] :
        r # q => Excused(f, r, q)

\* Every run ends in the database, unless the process died or the database refused
\* its end (nothing looks for it then), and the session is free for its next message.
RunsEnd ==
    \A r \in Runs : runStatus[r] = "running" ~>
        (runStatus[r] # "running" \/ r \in unrecorded) /\ lock # r
=============================================================================
