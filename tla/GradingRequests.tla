-------------------------- MODULE GradingRequests --------------------------
(***************************************************************************)
(* The evaluation of one (contract, company) pair in PROD6: the manual     *)
(* grading requests of the web (web/server/services/manualGrading.ts,      *)
(* matchAnalysis.ts), their worker side (prod6/manual_requests.py), the    *)
(* automatic evaluations (prod6/evaluation.py) and the evaluation jobs of  *)
(* the coordinator (prod6/runtime.py), on top of the receipt folder.       *)
(*                                                                         *)
(* What is evaluated is a reading of the contract's documents: `reading`   *)
(* numbers the current one.  The reading jobs of the contract are reduced  *)
(* to `pipeline`.  The coordinator does one thing at a time: a pass over   *)
(* the requests (`step`), a reading job, or an evaluation job, whose match *)
(* and end are one transaction.  The web runs beside it.  The pair has one *)
(* analyze_match job at a time, because automatic and manual jobs share a  *)
(* deduplication key; the finished ones only leave `invalid` behind.       *)
(***************************************************************************)
EXTENDS EvaluationReceipts

CONSTANTS
    Bounds,          \* the bounds that a behaviour may have, see `bounds`
    MaxRequests,     \* the largest of their bounds on requests
    ErrorLimit       \* PROVIDER_ERROR_LIMIT

\* A payload is a reading: of one pair, only the reading changes.
ASSUME GradingAssumption ==
    /\ \A p \in Payloads : p \in Nat \ {0} /\ 1..p \subseteq Payloads
    /\ MaxRequests \in Nat
    /\ Bounds \subseteq [readings : Nat, sends : 0..MaxSends, requests : 0..MaxRequests, crashes : Nat]
    /\ \A b \in Bounds : 1..b.readings \subseteq Payloads
    /\ ErrorLimit \in Nat \ {0}

Requests == 1..MaxRequests
Automatic == 0    \* the owner of a job that no request asked for

VARIABLES
    reading,    \* the current reading of the contract, or 0
    lastRead,   \* the newest reading there has been
    usable,     \* it did not fail and needs no review
    derived,    \* its requirements are derived
    pipeline,   \* the reading jobs: "idle", "reading" or "deriving"
    match,      \* the reading the stored match was made from, or 0
    invalid,    \* readings with a finished job whose answer was a mismatch
    req,        \* req[r]: status of the request, or "absent"
    mode,       \* mode[r]: "queued", for the worker, or "direct", for the web
    web,        \* web[r]: where the web process is with a direct request
    snapshot,   \* snapshot[r]: the reading it sent to the model, or 0
    job,        \* the open analyze_match job of the pair
    paused,     \* a Gemini pause is open
    attention,  \* the service stopped with status attention_required
    bounds      \* how many readings, sends, requests and crashes (or database
                \* outages) this behaviour may still have, at most

contract == <<reading, lastRead, usable, derived, pipeline>>
grades   == <<match, invalid>>
requests == <<req, mode, web, snapshot>>
service  == <<job, paused, attention, bounds>>
allVars  == <<vars, contract, grades, requests, service>>

Active(r) == req[r] \in {"pending", "reading", "evaluating"}
Queued(r) == mode[r] = "queued"
Ended(r)  == req[r] \in {"done", "failed"}

NoJob     == [owner |-> Automatic, status |-> "free", attempts |-> 0, errors |-> 0]
NewJob(o) == [NoJob EXCEPT !.owner = o, !.status = "pending"]
JobFree   == job.status = "free"
Running   == job.status = "claimed"

\* Between two jobs of the coordinator.
CoordinatorFree == At("idle") /\ ~Running

-----------------------------------------------------------------------------
(* What the database says of the pair                                      *)

\* pair_verdict: free, and a function of the database.
Verdict(d) ==
    CASE reading = 0                        -> "absent"
      [] reading # 0 /\ ~usable             -> "failed"
      [] usable /\ match = reading          -> "done"
      [] usable /\ match # reading /\ ~d    -> "deriving"
      [] usable /\ match # reading /\ d     ->
            IF reading \in invalid THEN "failed" ELSE "ready"

\* advance: what one look at the database makes of request r, its job and the
\* reading jobs.  d and j are `derived` and `job` as that look finds them.
Advanced(r, d, j, p) ==
    LET to(status)  == [req |-> status, job |-> j, pipeline |-> p]
        verdict     == Verdict(d)
        jobIsAlive  == j.owner = r /\ j.status \in {"pending", "claimed"}
    IN  CASE verdict = "failed" -> to("failed")
          [] verdict = "done"   -> to("done")
          [] verdict \notin {"failed", "done"} /\ req[r] = "evaluating" ->
                to(IF jobIsAlive THEN "evaluating" ELSE "failed")
          [] verdict = "ready" /\ req[r] # "evaluating" ->
                IF j.status = "free"
                THEN [to("evaluating") EXCEPT !.job = NewJob(r)]
                ELSE to(req[r])      \* another job holds the pair: wait for it
          [] verdict \in {"absent", "deriving"} /\ req[r] # "evaluating" ->
                IF p # "idle" THEN to("reading")
                ELSE IF req[r] = "reading" THEN to("failed")
                ELSE [to("reading") EXCEPT
                        !.pipeline = IF verdict = "deriving" THEN "deriving" ELSE "reading"]

-----------------------------------------------------------------------------
(* step: one pass of the runtime over the requests                         *)

\* Faulty variant: only the reading of a request can time out.
ExpireReading(r) ==
    /\ CoordinatorFree
    /\ Queued(r) /\ req[r] = "reading"
    /\ req' = [req EXCEPT ![r] = "failed"]
    /\ UNCHANGED <<vars, contract, grades, mode, web, snapshot, service>>

\* EXPIRE_SQL: stuck for STUCK_HOURS in reading or evaluating.
Expire(r) ==
    /\ CoordinatorFree
    /\ Queued(r) /\ req[r] \in {"reading", "evaluating"}
    /\ req' = [req EXCEPT ![r] = "failed"]
    /\ UNCHANGED <<vars, contract, grades, mode, web, snapshot, service>>

AdvanceOne(r, next) ==
    /\ CoordinatorFree
    /\ Queued(r) /\ Active(r)
    /\ req' = [req EXCEPT ![r] = next.req]
    /\ job' = next.job
    /\ pipeline' = next.pipeline
    /\ UNCHANGED <<vars, reading, lastRead, usable, derived, grades, mode, web,
                   snapshot, paused, attention, bounds>>

Advance(r) == AdvanceOne(r, Advanced(r, derived, job, pipeline))

-----------------------------------------------------------------------------
(* The reading jobs and the automatic evaluations                          *)

MayReadMore == lastRead < bounds.readings

\* A sweep or a discovery queues process_contract, if there is anything new.
StartReading ==
    /\ CoordinatorFree /\ pipeline = "idle"
    /\ MayReadMore
    /\ pipeline' = "reading"
    /\ UNCHANGED <<vars, reading, lastRead, usable, derived, grades, requests, service>>

\* download_file finds a changed document: its reading is no longer current.
InvalidateReading ==
    /\ CoordinatorFree /\ pipeline = "reading" /\ reading # 0
    /\ MayReadMore
    /\ reading' = 0 /\ usable' = FALSE /\ derived' = FALSE
    /\ UNCHANGED <<vars, lastRead, pipeline, grades, requests, service>>

\* extract_tdr stores a reading, or preserves the current one, and queues the
\* derivation.
Read ==
    /\ CoordinatorFree /\ pipeline = "reading"
    /\ \/ /\ MayReadMore
          /\ lastRead' = lastRead + 1 /\ reading' = lastRead + 1
          /\ usable' \in BOOLEAN /\ derived' = FALSE
       \/ /\ reading # 0
          /\ UNCHANGED <<lastRead, reading, usable, derived>>
    /\ pipeline' = "deriving"
    /\ UNCHANGED <<vars, grades, requests, service>>

\* enqueue_evaluations for this pair.  The JEV decision, the company's rules
\* and the closing date, which are not modelled, may speak against it.
Qualifies(d) ==
    /\ reading # 0 /\ usable /\ d
    /\ reading \in invalid => match # 0
    /\ match # reading

\* derive_summary: requirements (there may be none) or a review; then the
\* automatic evaluations and, after them, the requests that wait for this.  They
\* look from inside the job's transaction, where its own row still runs.
Derive ==
    /\ CoordinatorFree /\ pipeline = "deriving" /\ reading # 0
    /\ \E some \in BOOLEAN, auto \in BOOLEAN :
        LET d == usable /\ some
            j == IF auto /\ Qualifies(d) /\ JobFree THEN NewJob(Automatic) ELSE job
            waiting == {r \in Requests : Queued(r) /\ req[r] = "reading"}
        IN  /\ derived' = d
            /\ IF waiting = {}
               THEN job' = j /\ UNCHANGED req
               ELSE \E r \in waiting :
                        LET next == Advanced(r, d, j, pipeline)
                        IN  req' = [req EXCEPT ![r] = next.req] /\ job' = next.job
    /\ pipeline' = "idle"
    /\ UNCHANGED <<vars, reading, lastRead, usable, grades, mode, web, snapshot,
                   paused, attention, bounds>>

\* The derivation finds a contradiction: the reading needs a review.
DeriveReview ==
    /\ CoordinatorFree /\ pipeline = "deriving" /\ reading # 0
    /\ usable' = FALSE /\ derived' \in BOOLEAN
    /\ req' = [r \in Requests |->
                  IF Queued(r) /\ req[r] = "reading" THEN "failed" ELSE req[r]]
    /\ pipeline' = "idle"
    /\ UNCHANGED <<vars, reading, lastRead, grades, mode, web, snapshot, service>>

\* The contract closed, its documents cannot be read, or a job failed and waits
\* for a person.
EndReading ==
    /\ CoordinatorFree /\ pipeline # "idle"
    /\ pipeline' = "idle"
    /\ UNCHANGED <<vars, reading, lastRead, usable, derived, grades, requests, service>>

\* backfill_evaluations, an operator's command beside the service.
Backfill ==
    /\ Qualifies(derived) /\ JobFree
    /\ job' = NewJob(Automatic)
    /\ UNCHANGED <<vars, contract, grades, requests, paused, attention, bounds>>

-----------------------------------------------------------------------------
(* The evaluation job                                                      *)

SetJob(status) == job' = [job EXCEPT !.status = status]

\* DEFER_FOR_SOURCE_SQL: pending later, and the claim's attempt is given back.
GiveBack == [job EXCEPT !.status = "pending",
                        !.attempts = IF @ > 0 THEN @ - 1 ELSE 0]

\* settle: the job ends its request, only an evaluating one.
Settled(status) ==
    [r \in Requests |->
        IF r = job.owner /\ req[r] = "evaluating" THEN status ELSE req[r]]

\* claim_scoped counts the attempt; only "at most one" is ever asked of it.
Claim ==
    /\ CoordinatorFree
    /\ job.status = "pending" /\ ~paused
    /\ job' = [job EXCEPT !.status = "claimed", !.attempts = IF @ < 2 THEN @ + 1 ELSE @]
    /\ UNCHANGED <<vars, contract, grades, requests, paused, attention, bounds>>

\* The job ends unpaid: the pair stopped qualifying (also for the reasons that
\* are not modelled), or its request is not, or no longer, to be evaluated.
SkipAutomatic ==
    /\ At("idle") /\ Running /\ job.owner = Automatic
    /\ job' = NoJob
    /\ UNCHANGED <<vars, contract, grades, requests, paused, attention, bounds>>

SkipManual ==
    /\ At("idle") /\ Running /\ job.owner \in Requests
    /\ req[job.owner] # "evaluating" \/ Verdict(derived) # "ready"
    /\ req' = Settled(IF Verdict(derived) = "done" THEN "done" ELSE "failed")
    /\ job' = NoJob
    /\ UNCHANGED <<vars, contract, grades, mode, web, snapshot, paused, attention, bounds>>

\* Faulty variant: the request of a manual job is not read again.
EvaluateUnasked ==
    /\ At("idle") /\ Running
    /\ IF job.owner = Automatic THEN Qualifies(derived) ELSE Verdict(derived) = "ready"
    /\ Begin(reading, job.attempts <= 1)
    /\ UNCHANGED <<contract, grades, requests, service>>

\* evaluate_match and evaluate_manual_match: a job that was claimed before may
\* only replay its answer, unless the provider answered an HTTP error.
Evaluate ==
    /\ At("idle") /\ Running
    /\ IF job.owner = Automatic THEN Qualifies(derived)
       ELSE req[job.owner] = "evaluating" /\ Verdict(derived) = "ready"
    /\ Begin(reading, job.attempts <= 1)
    /\ UNCHANGED <<contract, grades, requests, service>>

CallProgress ==
    /\ At("pacing") => clock < bounds.sends
    /\ CallStep
    /\ UNCHANGED <<contract, grades, requests, service>>

Billing ==
    /\ \E r \in inflight : ProviderCharges(r)
    /\ UNCHANGED <<contract, grades, requests, service>>

\* The match, the end of the request and the finished job are one transaction.
Grade ==
    /\ At("parsed") /\ Running /\ response[call.key] = "usable"
    /\ match' = call.key.payload
    /\ req' = Settled("done")
    /\ job' = NoJob
    /\ Finish("idle")
    /\ UNCHANGED <<receipts, guard, fallbackOn, clock, provider, contract, invalid,
                   mode, web, snapshot, paused, attention, bounds>>

\* Faulty variant: the request of a mismatch is taken for graded.
MismatchAsDone ==
    /\ At("parsed") /\ Running /\ response[call.key] = "mismatch"
    /\ invalid' = invalid \cup {call.key.payload}
    /\ req' = Settled("done")
    /\ job' = NoJob
    /\ Finish("idle")
    /\ UNCHANGED <<receipts, guard, fallbackOn, clock, provider, contract, match,
                   mode, web, snapshot, paused, attention, bounds>>

Mismatch ==
    /\ At("parsed") /\ Running /\ response[call.key] = "mismatch"
    /\ invalid' = invalid \cup {call.key.payload}
    /\ req' = Settled("failed")
    /\ job' = NoJob
    /\ Finish("idle")
    /\ UNCHANGED <<receipts, guard, fallbackOn, clock, provider, contract, match,
                   mode, web, snapshot, paused, attention, bounds>>

\* A GuardedReadingError stops the service; the attempt stays counted.  Setting
\* the job pending may fail too: then the next start does it.
StopForAttention ==
    /\ At("blocked") /\ Running
    /\ Finish("down")
    /\ attention' = TRUE
    /\ SetJob("pending") \/ UNCHANGED job
    /\ UNCHANGED <<receipts, guard, fallbackOn, clock, provider, contract, grades,
                   requests, paused, bounds>>

\* reject_reading for a saturated model or an account error: a pause.
RejectAndPause ==
    /\ At("refused") /\ Running
    /\ Finish("idle")
    /\ job' = GiveBack
    /\ paused' = TRUE
    /\ UNCHANGED <<receipts, guard, fallbackOn, clock, provider, contract, grades,
                   requests, attention, bounds>>

\* reject_reading for any other HTTP error: counted, the last one holds the job.
RejectAndCount ==
    /\ At("refused") /\ Running /\ ~call.saturated
    /\ Finish("idle")
    /\ job' = IF job.errors + 1 >= ErrorLimit
              THEN [job EXCEPT !.status = "held", !.errors = ErrorLimit]
              ELSE [GiveBack EXCEPT !.errors = @ + 1]
    /\ UNCHANGED <<receipts, guard, fallbackOn, clock, provider, contract, grades,
                   requests, paused, attention, bounds>>

\* hold_failed_job: any other failure of this job, before or after it is paid.
HoldFailed ==
    /\ call.pc \in {"idle", "failed", "parsed"} /\ Running
    /\ Finish("idle")
    /\ SetJob("held")
    /\ UNCHANGED <<receipts, guard, fallbackOn, clock, provider, contract, grades,
                   requests, paused, attention, bounds>>

EndPause ==
    /\ paused
    /\ paused' = FALSE
    /\ UNCHANGED <<vars, contract, grades, requests, job, attention, bounds>>

\* The process dies, or the database fails and the service stops.
Die ==
    /\ bounds.crashes > 0
    /\ Crash
    /\ bounds' = [bounds EXCEPT !.crashes = @ - 1]
    /\ UNCHANGED <<contract, grades, requests, job, paused, attention>>

Start ==
    /\ Restart
    /\ IF Running THEN SetJob("pending") ELSE UNCHANGED job
    /\ attention' = FALSE
    /\ UNCHANGED <<contract, grades, requests, paused, bounds>>

DeleteGuard == RemoveGuard /\ UNCHANGED <<contract, grades, requests, service>>

-----------------------------------------------------------------------------
(* The web                                                                 *)

\* reserveRequest, under a lock per company: an active request is reused; a
\* direct one may be stale (DIRECT_STALE_SECONDS) and is failed first.
Reserve(r) ==
    LET direct == reading # 0 /\ usable
    IN  /\ r <= bounds.requests
        /\ \A s \in Requests : (req[s] = "absent") = (s >= r)
        /\ \A s \in Requests : Active(s) => ~Queued(s)
        /\ req' = [s \in Requests |->
                      IF s = r THEN (IF direct THEN "evaluating" ELSE "pending")
                      ELSE IF Active(s) THEN "failed" ELSE req[s]]
        /\ mode' = [mode EXCEPT ![r] = IF direct THEN "direct" ELSE "queued"]
        /\ web' = [web EXCEPT ![r] = IF direct THEN "reserved" ELSE "none"]
        /\ UNCHANGED <<vars, contract, grades, snapshot, service>>

\* analyzeMatchDirect reads the pair again, and asks the model unless there is
\* nothing to evaluate or the match is current.
Ask(r) ==
    /\ web[r] = "reserved"
    /\ \/ /\ reading # 0 /\ usable /\ derived
          /\ web' = [web EXCEPT ![r] = "asking"]
          /\ snapshot' = [snapshot EXCEPT ![r] = reading]
       \/ /\ reading # 0 /\ usable /\ match = reading
          /\ web' = [web EXCEPT ![r] = "unchanged"] /\ UNCHANGED snapshot
       \/ /\ reading = 0 \/ ~usable \/ ~derived
          /\ web' = [web EXCEPT ![r] = "failed"] /\ UNCHANGED snapshot
    /\ UNCHANGED <<vars, contract, grades, req, mode, service>>

\* The answer is stored as the match of the pair, whatever was stored meanwhile,
\* and the pair's pending jobs are done, also those held for a person.
SaveDirect(r) ==
    /\ web[r] = "asking"
    /\ match' = snapshot[r]
    /\ job' = IF job.status \in {"pending", "held"} THEN NoJob ELSE job
    /\ web' = [web EXCEPT ![r] = "saved"]
    /\ snapshot' = [snapshot EXCEPT ![r] = 0]
    /\ UNCHANGED <<vars, contract, invalid, req, mode, paused, attention, bounds>>

FailDirect(r) ==
    /\ web[r] = "asking"
    /\ web' = [web EXCEPT ![r] = "failed"]
    /\ snapshot' = [snapshot EXCEPT ![r] = 0]
    /\ UNCHANGED <<vars, contract, grades, req, mode, service>>

\* markRequest, by id alone; an unchanged match costs nothing and its request
\* is deleted.
CloseDirect(r) ==
    /\ web[r] \in {"saved", "failed", "unchanged"}
    /\ req' = [req EXCEPT ![r] = CASE web[r] = "saved"     -> "done"
                                   [] web[r] = "failed"    -> "failed"
                                   [] web[r] = "unchanged" -> "deleted"]
    /\ web' = [web EXCEPT ![r] = "none"]
    /\ UNCHANGED <<vars, contract, grades, mode, snapshot, service>>

\* The web process restarts, or cannot close the request.
LoseDirect(r) ==
    /\ web[r] # "none"
    /\ web' = [web EXCEPT ![r] = "none"]
    /\ snapshot' = [snapshot EXCEPT ![r] = 0]
    /\ UNCHANGED <<vars, contract, grades, req, mode, service>>

-----------------------------------------------------------------------------

GradingInit ==
    /\ Init
    /\ reading = 0 /\ lastRead = 0 /\ usable = FALSE /\ derived = FALSE
    /\ pipeline = "idle"
    /\ match = 0 /\ invalid = {}
    /\ req = [r \in Requests |-> "absent"]
    /\ mode = [r \in Requests |-> "queued"]
    /\ web = [r \in Requests |-> "none"]
    /\ snapshot = [r \in Requests |-> 0]
    /\ job = NoJob
    /\ paused = FALSE /\ attention = FALSE
    /\ bounds \in Bounds

Evaluation ==
    \/ Claim \/ SkipAutomatic \/ SkipManual \/ Evaluate \/ CallProgress
    \/ Grade \/ Mismatch \/ StopForAttention \/ RejectAndPause \/ RejectAndCount
    \/ HoldFailed

ReadingJobs == StartReading \/ InvalidateReading \/ Read \/ Derive \/ DeriveReview \/ EndReading

Web(r) == Reserve(r) \/ Ask(r) \/ SaveDirect(r) \/ FailDirect(r) \/ CloseDirect(r) \/ LoseDirect(r)

GradingNext ==
    \/ \E r \in Requests : Expire(r) \/ Advance(r) \/ Web(r)
    \/ ReadingJobs \/ Backfill \/ Evaluation
    \/ Billing \/ EndPause \/ Die \/ Start \/ DeleteGuard

\* The service runs and is restarted when it stops (systemd), every cycle begins
\* with a pass over the requests, and its clock reaches every deadline.  The web,
\* the reading jobs, billing, sweeps and operators owe nothing.
Fairness ==
    /\ \A r \in Requests : SF_allVars(Expire(r)) /\ SF_allVars(Advance(r))
    /\ WF_allVars(Evaluation)
    /\ WF_allVars(Start)
    /\ WF_allVars(EndPause)

GradingSpec == GradingInit /\ [][GradingNext]_allVars /\ Fairness

-----------------------------------------------------------------------------
(* Properties                                                              *)

GradingTypeOK ==
    /\ ReceiptsTypeOK
    /\ reading \in Payloads \cup {0} /\ lastRead \in Payloads \cup {0}
    /\ reading \in {0, lastRead}
    /\ usable \in BOOLEAN /\ derived \in BOOLEAN
    /\ derived => reading # 0
    /\ pipeline \in {"idle", "reading", "deriving"}
    /\ match \in Payloads \cup {0} /\ invalid \subseteq Payloads
    /\ req \in [Requests -> {"absent", "pending", "reading", "evaluating",
                             "done", "failed", "deleted"}]
    /\ mode \in [Requests -> {"queued", "direct"}]
    /\ web \in [Requests -> {"none", "reserved", "asking", "saved", "failed", "unchanged"}]
    /\ snapshot \in [Requests -> Payloads \cup {0}]
    /\ job \in [owner : Requests \cup {Automatic}, status : {"free", "pending", "held", "claimed"},
                attempts : 0..2, errors : 0..ErrorLimit]
    /\ JobFree => job = NoJob
    /\ job.errors = ErrorLimit => job.status = "held"
    /\ paused \in BOOLEAN /\ attention \in BOOLEAN
    /\ bounds.readings \in Nat /\ bounds.crashes \in Nat

\* Automatic and manual jobs, replays after crashes, the fallback model and the
\* HTTP errors of the provider together never have a reading of the pair billed
\* twice to the worker, and one uncertain request stops all others ("so a
\* (contract, company) pair is never paid twice", evaluation.py).
EvaluationsKept == Promise!Spec

\* Money leaves for a manual job only while somebody waits for it: its request
\* is being evaluated, not timed out, failed or already settled.
SendsAreAwaited ==
    call.pc \in {"clearing", "pacing", "sending"} /\ job.owner \in Requests =>
        Active(job.owner)

\* What the worker tells a company is true and stays told: a queued request is
\* done only over a match made from the reading that is current at that moment,
\* whoever made it, and an ended request never moves again, even when its job,
\* claimed before the end, runs later.
DoneIsGraded ==
    [][\A r \in Requests : Queued(r) /\ req'[r] # req[r] =>
          /\ ~Ended(r)
          /\ req'[r] = "done" => match' # 0 /\ match' = reading']_allVars

\* Only the bound on the sends keeps the call from going on.
OutOfSends == At("pacing") /\ clock = bounds.sends

Waiting(statuses) == \E r \in Requests : Queued(r) /\ req[r] \in statuses

\* A started request always ends, with an open guard too ("A request stuck in
\* reading/evaluating never blocks a new one for more than a day", EXPIRE_SQL).
\* A pending one is started or ends as well, unless a person is needed: the
\* service stopped for attention, or an automatic job of the pair is held.
\* One request of the pair is active at a time.
RequestsEnd ==
    /\ Waiting({"reading", "evaluating"}) ~>
          ~Waiting({"reading", "evaluating"}) \/ OutOfSends
    /\ Waiting({"pending"}) ~>
          ~Waiting({"pending"}) \/ attention \/ job.status = "held" \/ OutOfSends
=============================================================================
