---------------------------- MODULE Prod6Reading ----------------------------
(***************************************************************************)
(* The paid reading jobs (extract_tdr) of the PROD6 coordinator            *)
(* (prod6/runtime.py) on top of the receipt folder: the job row with its   *)
(* attempts, the claim and its recovery after a restart, the decision of   *)
(* dispatch whether this job may ask for money, the transaction that       *)
(* stores the extraction, and what each failure does with the job.         *)
(*                                                                         *)
(* One coordinator runs (it holds a PostgreSQL advisory lock) and it runs  *)
(* paid jobs one at a time, in the order priority, run_after, id.  `queue` *)
(* is that order for the jobs that can be claimed: a job that is given     *)
(* back gets a later run_after and goes to its end.  A document can have   *)
(* several jobs: every sweep that finds it unread enqueues one, under the  *)
(* deduplication key of its own batch.                                     *)
(***************************************************************************)
EXTENDS ReadingReceipts, Sequences

CONSTANTS
    Jobs,                 \* the extract_tdr rows of a behaviour
    DocOf,                \* DocOf[j]: the document that job j reads
    ProviderErrorLimit,   \* PROVIDER_ERROR_LIMIT
    MaxAttempts,          \* attempts are counted up to here; only <= 1 is read
    MaxCrashes,           \* bound on the crashes of a behaviour
    MaxFolderSwaps        \* bound on the times the folder is replaced

ASSUME JobsAssumption ==
    /\ DocOf \in [Jobs -> Documents]
    /\ ProviderErrorLimit \in Nat \ {0}
    /\ MaxAttempts \in Nat /\ MaxAttempts >= 3
    /\ MaxCrashes \in Nat /\ MaxFolderSwaps \in Nat

VARIABLES
    job,        \* job[j]: "absent" (not enqueued yet), "pending", "claimed", "done",
                \* "closed" (completed unread, the contract no longer bids), or under
                \* manual review: "rejected" (hold_document) or "failed" (hold_failed_job)
    attempts,   \* attempts[j]: the column of the job row
    rejections, \* rejections[j]: provider_error_count of its payload
    queue,      \* the order in which the open jobs are claimed
    stored,     \* documents with a current extraction in PostgreSQL
    paused,     \* a Gemini reading pause is open
    attention,  \* the service stopped with status attention_required
    crashes, swaps

jobs    == <<job, attempts, rejections, queue, stored>>
bounds  == <<crashes, swaps>>
runtime == <<paused, attention, bounds>>
allVars == <<vars, jobs, runtime>>

Serving == {j \in Jobs : job[j] = "claimed"}

Siblings(j) == {i \in Jobs \ {j} : DocOf[i] = DocOf[j]}

-----------------------------------------------------------------------------
(* Moving a job                                                            *)

SetJob(j, s) == job' = [job EXCEPT ![j] = s]
\* The job in service is the first of the queue (Claim; QueueAgrees).
Leave        == queue' = Tail(queue)
ToTheEnd(j)  == queue' = Append(Tail(queue), j)

\* DEFER_FOR_SOURCE_SQL: pending later, and the claim's attempt is given back.
GiveBack(j) ==
    /\ SetJob(j, "pending")
    /\ attempts' = [attempts EXCEPT ![j] = IF @ > 0 THEN @ - 1 ELSE 0]
    /\ ToTheEnd(j)

\* HOLD_DOCUMENT_SQL: pending with run_after infinity, for manual review.
Hold(j, why) ==
    /\ SetJob(j, why)
    /\ Leave
    /\ UNCHANGED attempts

-----------------------------------------------------------------------------
(* Enqueue, claim and dispatch                                             *)

\* A sweep finds the document unread.  A document with a rejected job gets no
\* other; the new job comes before the rescheduled ones, or after those whose
\* time is past.
Enqueue(j) ==
    /\ call.pc # "down" /\ Serving = {}
    /\ job[j] = "absent" /\ DocOf[j] \notin stored
    /\ \A i \in Siblings(j) : job[i] # "rejected"
    /\ SetJob(j, "pending")
    /\ queue' \in {<<j>> \o queue, Append(queue, j)}
    /\ UNCHANGED <<vars, attempts, rejections, stored, runtime>>

\* claim_scoped counts the attempt in the same statement.
Claim(j) ==
    /\ At("idle") /\ Serving = {} /\ ~paused
    /\ queue # <<>> /\ j = Head(queue)
    /\ SetJob(j, "claimed")
    /\ attempts' = [attempts EXCEPT ![j] = IF @ < MaxAttempts THEN @ + 1 ELSE @]
    /\ UNCHANGED <<vars, rejections, queue, stored, runtime>>

\* Faulty variant: a later job does not look at what an earlier one attempted.
DispatchForgetting(j) ==
    /\ At("idle") /\ j \in Serving /\ DocOf[j] \notin stored
    /\ IF attempts[j] > 1 THEN BeginRecovery(DocOf[j]) ELSE BeginNew(DocOf[j])
    /\ UNCHANGED <<jobs, runtime>>

\* same_runtime_attempt: another job of the document was attempted.
AttemptedBefore(j) == attempts[j] > 1 \/ \E i \in Siblings(j) : attempts[i] > 0

\* What was attempted before may only be replayed, unless the provider answered
\* an HTTP error.
Dispatch(j) ==
    /\ At("idle") /\ j \in Serving /\ DocOf[j] \notin stored
    /\ IF AttemptedBefore(j) THEN BeginRecovery(DocOf[j]) ELSE BeginNew(DocOf[j])
    /\ UNCHANGED <<jobs, runtime>>

\* Another job has read the document meanwhile: its extraction is preserved.
PreserveReading(j) ==
    /\ At("idle") /\ j \in Serving /\ DocOf[j] \in stored
    /\ SetJob(j, "done") /\ Leave
    /\ UNCHANGED <<vars, attempts, rejections, stored, runtime>>

\* The contract closed meanwhile, or another system attempted the document:
\* the job completes unread (closed_preserved, historical_attempt_preserved).
PreserveClosed(j) ==
    /\ At("idle") /\ j \in Serving
    /\ SetJob(j, "closed") /\ Leave
    /\ UNCHANGED <<vars, attempts, rejections, stored, runtime>>

CallProgress == CallStep /\ UNCHANGED <<jobs, runtime>>

Billing == (\E r \in inflight : ProviderCharges(r)) /\ UNCHANGED <<jobs, runtime>>

-----------------------------------------------------------------------------
(* The ends of a job                                                       *)

\* Faulty variant: the job is finished before its extraction is stored.
CommitInTwoSteps(j) ==
    /\ At("read") /\ j \in Serving
    /\ Finish("idle")
    /\ SetJob(j, "done") /\ Leave
    /\ UNCHANGED <<receipts, guard, config, clock, provider, attempts, rejections, stored, runtime>>

\* The extraction and the finished job are one transaction.
Commit(j) ==
    /\ At("read") /\ j \in Serving
    /\ Finish("idle")
    /\ stored' = stored \cup {DocOf[j]}
    /\ SetJob(j, "done") /\ Leave
    /\ UNCHANGED <<receipts, guard, config, clock, provider, attempts, rejections, runtime>>

\* Faulty variant: an attempt that ends uncertain is given back.
StopGivingBack(j) ==
    /\ call.pc \in {"idle", "download", "read", "blocked"} /\ j \in Serving
    /\ Finish("down")
    /\ attention' = TRUE
    /\ GiveBack(j)
    /\ UNCHANGED <<receipts, guard, config, clock, provider, rejections, stored, paused, bounds>>

\* The database refuses the transaction: the service stops, the answer stays.
\* Guard, receipt and policy errors stop it the same way, with no retry.
StopForAttention(j) ==
    /\ call.pc \in {"idle", "download", "read", "blocked"} /\ j \in Serving
    /\ Finish("down")
    /\ attention' = TRUE
    /\ job' \in {[job EXCEPT ![j] = "pending"], job}
    /\ UNCHANGED <<receipts, guard, config, clock, provider, attempts, rejections,
                   queue, stored, paused, bounds>>

\* The source refused the download, which happens before any paid request; a
\* document it denied SOURCE_BLOCK_LIMIT times is held.
DeferForSource(j) ==
    /\ At("download") /\ j \in Serving
    /\ Finish("idle")
    /\ GiveBack(j) \/ Hold(j, "rejected")
    /\ UNCHANGED <<receipts, guard, config, clock, provider, rejections, stored, runtime>>

\* Any other failure of this one job before or after the paid call holds it.
HoldFailedJob(j) ==
    /\ call.pc \in {"idle", "download", "read"} /\ j \in Serving
    /\ Finish("idle")
    /\ Hold(j, "failed")
    /\ UNCHANGED <<receipts, guard, config, clock, provider, rejections, stored, runtime>>

\* reject_reading for a saturated model or an account error: a pause.
RejectAndPause(j) ==
    /\ At("refused") /\ j \in Serving
    /\ Finish("idle")
    /\ GiveBack(j)
    /\ paused' = TRUE
    /\ UNCHANGED <<receipts, guard, config, clock, provider, rejections, stored, attention, bounds>>

\* reject_reading for an error about the document: counted, the last one holds.
RejectAndCount(j) ==
    /\ At("refused") /\ j \in Serving /\ ~call.saturated
    /\ Finish("idle")
    /\ rejections' = [rejections EXCEPT ![j] = @ + 1]
    /\ IF rejections[j] + 1 >= ProviderErrorLimit THEN Hold(j, "rejected") ELSE GiveBack(j)
    /\ UNCHANGED <<receipts, guard, config, clock, provider, stored, runtime>>

EndPause ==
    /\ paused
    /\ paused' = FALSE
    /\ UNCHANGED <<vars, jobs, attention, bounds>>

-----------------------------------------------------------------------------
(* Crashes, restarts and the operator                                      *)

Die ==
    /\ crashes < MaxCrashes
    /\ Crash
    /\ crashes' = crashes + 1
    /\ UNCHANGED <<jobs, paused, attention, swaps>>

\* Faulty variant: claims of the previous process are not recovered.
StartForgetting ==
    /\ Restart
    /\ attention' = FALSE
    /\ UNCHANGED <<jobs, paused, bounds>>

\* claim_recovery: its own claimed jobs are pending again; attempts stay.
Start ==
    /\ Restart
    /\ job' = [j \in Jobs |-> IF job[j] = "claimed" THEN "pending" ELSE job[j]]
    /\ attention' = FALSE
    /\ UNCHANGED <<attempts, rejections, queue, stored, paused, bounds>>

\* An operator deletes the guard, or gives the service a fresh folder.
DeleteGuard == RemoveGuard /\ UNCHANGED <<jobs, runtime>>

FreshFolder ==
    /\ At("down") /\ swaps < MaxFolderSwaps
    /\ swaps' = swaps + 1
    /\ started' = [k \in Keys |-> 0]
    /\ providerError' = [k \in Keys |-> 0]
    /\ response' = [k \in Keys |-> "none"]
    /\ result' = [k \in Keys |-> FALSE]
    /\ guard' = FALSE
    /\ UNCHANGED <<config, call, clock, provider, jobs, paused, attention, crashes>>

-----------------------------------------------------------------------------

JobsInit ==
    /\ Init
    /\ job = [j \in Jobs |-> "absent"]
    /\ attempts = [j \in Jobs |-> 0]
    /\ rejections = [j \in Jobs |-> 0]
    /\ queue = <<>>
    /\ stored = {}
    /\ paused = FALSE /\ attention = FALSE
    /\ crashes = 0 /\ swaps = 0

JobStep(j) ==
    \/ Claim(j) \/ Dispatch(j) \/ PreserveReading(j) \/ PreserveClosed(j) \/ Commit(j)
    \/ StopForAttention(j) \/ DeferForSource(j) \/ HoldFailedJob(j)
    \/ RejectAndPause(j) \/ RejectAndCount(j)

JobsNext ==
    \/ \E j \in Jobs : Enqueue(j) \/ JobStep(j)
    \/ CallProgress \/ Billing \/ EndPause
    \/ Die \/ Start \/ DeleteGuard \/ FreshFolder

\* The coordinator keeps running, is restarted when it stops (systemd), and
\* its timers fire; nothing is assumed of sweeps, crashes, billing or operators.
Fairness ==
    /\ \A j \in Jobs : WF_allVars(JobStep(j))
    /\ WF_allVars(CallProgress)
    /\ WF_allVars(Start)
    /\ WF_allVars(EndPause)

JobsSpec == JobsInit /\ [][JobsNext]_allVars /\ Fairness

-----------------------------------------------------------------------------
(* Properties                                                              *)

\* The queue holds the jobs that are open, each once, the claimed one first.
QueueAgrees ==
    /\ \A i, k \in DOMAIN queue : queue[i] = queue[k] => i = k
    /\ \A j \in Jobs : job[j] \in {"pending", "claimed"} <=> \E i \in DOMAIN queue : queue[i] = j
    /\ \A j \in Serving : queue # <<>> /\ Head(queue) = j

JobsTypeOK ==
    /\ TypeOK
    /\ job \in [Jobs -> {"absent", "pending", "claimed", "done", "closed", "rejected", "failed"}]
    /\ attempts \in [Jobs -> 0..MaxAttempts]
    /\ rejections \in [Jobs -> 0..ProviderErrorLimit]
    /\ \A j \in Jobs : rejections[j] = ProviderErrorLimit => job[j] = "rejected"
    /\ queue \in Seq(Jobs) /\ QueueAgrees
    /\ stored \subseteq Documents
    /\ paused \in BOOLEAN /\ attention \in BOOLEAN
    /\ crashes \in 0..MaxCrashes /\ swaps \in 0..MaxFolderSwaps

\* An attempt is given back only when nothing of the document can be billed
\* ("a source stop is neither a failure nor a paid attempt", runtime.py).
RefundsAreFree ==
    [][\A j \in Jobs : attempts'[j] < attempts[j] =>
          \A r \in Live' : r.doc # DocOf[j]]_allVars

\* A finished reading job has its extraction in the database, and every
\* extraction has a paid request of that very document behind it.
DoneWasPaid ==
    /\ \A j \in Jobs : job[j] = "done" => DocOf[j] \in stored
    /\ \A d \in stored : \E r \in charged : r.doc = d

\* A usable answer on disk does not stay there unread: it is stored, or the
\* contract closed, or a person is told (manual review, attention_required).
Paid(d) == \E k \in Keys : k.doc = d /\ response[k] = "usable"

Told(d) ==
    \/ attention
    \/ \E j \in Jobs : DocOf[j] = d /\ job[j] \in {"rejected", "failed", "closed"}

AnswersAreStored == \A d \in Documents : Paid(d) ~> (d \in stored \/ Told(d) \/ ~Paid(d))
=============================================================================
