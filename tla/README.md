# BuenaPro: TLA+ models, model checks and proofs

BuenaPro watches Peruvian public procurement (SEACE), reads the tender documents
with paid language-model calls, scores each opportunity for each company and
shows the result on a web site. Python workers, a Next.js web, PostgreSQL and
Redis make up the system. This project models the parts in which money, shared
limits, crashes and people meet, checks them with TLC, and proves the central
safety properties with TLAPS.

`W/` below stands for `src/workers/seace/src/buenapro_worker/`, and `A/` for
`src/apps/web/server/`.

## Inventory

| component | state | operations | hard behaviour | what makes it correct |
|---|---|---|---|---|
| Paid reading receipts, `W/prod6/reading.py` | a folder of `started`, `provider_error`, `response`, `result` files per request key, and `guard.json` | recover, extract, send, record an HTTP error, parse, fall back to a second model | death between any two writes; lost replies; failing writes; generations and models change with the deployment | no document is paid twice; at most one uncertain request; a billed answer is never lost |
| PROD6 coordinator, `W/prod6/runtime.py`, `W/jobs/extract_tdr.py` | job rows (status, attempts, payload), extractions, pauses, `state.json` | enqueue, claim, dispatch, commit, defer, reject, hold, stop for attention, recover | restart with a claimed job; several jobs of one document; attempts that are given back; a receipt folder that is replaced | a paid answer is stored or a person is told; an attempt is given back only when it was free |
| Paid evaluations, `W/prod6/evaluation_guard.py`, `evaluation.py` | a second receipt folder; `analyze_match` jobs; matches | enqueue, claim, analyse, send, fall back, replay, grade, hold | as the readings; the fallback answer is looked for in its own way; the reading changes under the job | no reading of a pair is paid twice to the worker |
| Manual requests, `W/prod6/manual_requests.py`, `A/services/manualGrading.ts`, `matchAnalysis.ts` | request rows: pending, reading, evaluating, done, failed | reserve, advance, settle, expire, evaluate directly | races with automatic jobs, expiry, new readings and the web | every request ends, once and truthfully |
| SEACE egress, `W/seace/shared_gate.py`, `W/seace/pacing.py`, `A/services/seaceEgress.ts` | Redis turn and block; budget and breaker per process; the web's turn, cap and pause | reserve a turn, wait, look again, send, record a denial | three kinds of process share one address; Redis fails; timers and replies are late; state read before an `await` | the shared pace, the block, the budget and the hourly cap hold for all of them together |
| Discovery, pauses, alerts, `W/prod6/runtime.py`, `W/jobs/poll_prod6_profile.py` | cursor of a lap, end of the last lap, source block, in memory and in `state.json` | schedule, search, split a lap, pause, alert once | laps split over cycles, denials, restarts and threads; companies paused meanwhile | no stream is skipped; a pause is kept by every later process; one alert per episode |
| Worker queue, `W/queue/*.py`, `W/jobs/send_notification.py`, `A/services/admin.ts` | job rows, notification rows | enqueue, claim, complete, fail, admin retry and dead | no lease; writes by id alone; a message leaves before the commit | jobs end and run a bounded number of times |
| PROD2 payments, `W/prod2/selected_payments.py`, `selected_control.py`, `accepted_runner.py`, `selected_read.py`, `completed_read_reuse.py`, `staging.py` | staging queue, claims with tokens, private receipts, permits | take, reserve, claim, send, complete, release, reuse, recover | crash between claim, owner file and response; threads that share limits; a campaign that is resumed or started again | one payment per request; the ceiling holds; no capacity is lost |
| PROD2 manual grading and reading queue, `W/prod2/manual_grading.py`, `evaluation.py`, `service.py` | requests, queue items, two kinds of reservations, a folder per case, receipt folders, three guards, an executor lock | pass, claim, read, evaluate, settle, defer, expire, recover; a cycle and an evaluator beside it | three programs want the same readings and evaluations; deaths between files and rows; doubt is kept in files; leases end while their owner waits | each reading and each evaluation is paid once; nothing is sent in doubt; work ends and is graded |
| PROD2 sweeps and daily service, `W/prod2/keyword_sweep.py`, `keyword_chain.py`, `national_listing.py`, `staging.py`, `service.py`, `src/scripts/run_prod2_selected.py` | cached pages and completion files, the Redis queue, `state.private.json`, a folder per attempt | sweep, replay, verify, stage, consume, report, gate, retry, wait, stop | lists that change while they are paged; threads that share a cap, STOP and a pause; attempts that are stopped and repeated; restarts | a complete query is whole; a completed cycle is settled to its last case; attempts are repeated as often as allowed and with clean payments only |
| PROD2 retired executor, `W/prod2/batch_repository.py` | tasks with leases | claim, renew, finish | `src/scripts/run_prod2_ingestion.py:248-251` refuses to start it | - |
| PROD2 reading, storage, handoff | runs, archives, embeddings | orchestration | large; its payments are the row above | as above |
| PROD4, notifications, historical outcomes | older pipeline rows | upserts under advisory locks | daily budgets | rows follow the source |
| Classification, extraction, matching rules | none (pure functions) | - | - | unit tests cover them |
| Web chat and agent runs, `A/services/applicationChat.ts`, `codexAgent.ts`, `codexSessionStore.ts` | sessions, runs, change sets, a Redis lock, a folder of files | begin, generate, complete, fail, decide | a lock without a token that expires; a snapshot older than the lock; Codex processes that outlive their request; deaths | a document goes out with the answer of its own run, once; a run ends once; a change set is decided once |
| Web API, schema, scripts | rows | single statements | - | the database's constraints |

How they interact: the coordinator claims a row, dispatches it to the guarded
reader or evaluator (a call that returns a result or raises one of three kinds
of error), and stores the outcome in the transaction that ends the row. Every
request to SEACE of every process passes through the shared gate in Redis. The
web reads the rows and enqueues jobs and requests for the workers, and may
evaluate a pair itself. The generic queue carries everything else. A PROD2 run
is a program of its own, one at a time, with its own receipts.

`PROJECT.json` lists every component, and every hazard at its line with the
properties that cover it or the reason why none does.

## The modules

| module | models |
|---|---|
| `PaidCall` | the abstract promise about money: a document is unpaid, open, charged or kept |
| `ReadingReceipts` | the receipt folder of the readings and one call under its lock; implements `PaidCall` |
| `Prod6Reading` | the coordinator's reading jobs; EXTENDS `ReadingReceipts` and adds the rows |
| `EvaluationReceipts` | the receipt folder of the evaluations; instantiates `PaidCall` |
| `GradingRequests` | requests, evaluation jobs and the web for one pair; EXTENDS `EvaluationReceipts`; the composition implements `PaidCall` |
| `SeaceGate` | the gate, the pacer of a worker process and the egress of the web |
| `DiscoverySchedule` | the lap over the streams, its cursor, the pause after a denial and its alerts |
| `WorkerQueue` | the generic queue, its runners, the admin's buttons, the delivery of a notification |
| `Prod2Payments` | the threads of a PROD2 run, its staging queue, limits and receipts; implements `PaidCall` per purpose |
| `KeywordSweep` | the search threads of a PROD2 run: cached passes over lists that change |
| `Prod2Service` | the rest of the run, and the daily service with its attempts; EXTENDS `KeywordSweep` |
| `Prod2Grading` | the consumer of manual requests and of the reading queue, beside the daily service and its evaluator |
| `AgentRuns` | agent runs of one chat session, the lock of its folder, its change sets |
| `ReadingReceiptsProofs`, `Prod6ReadingProofs`, `GradingRequestsProofs`, `Prod2PaymentsProofs`, `Prod2GradingProofs`, `Prod2ServiceProofs` | the theorems about the modules in their names |
| `EgressProofs` | the theorems about `SeaceGate` and `DiscoverySchedule` |
| `QueueAndAgentsProofs` | the theorems about `AgentRuns` and `WorkerQueue` |
| `MCReadingReceipts`, `MCProd6Recovery`, `MCSeaceGate`, `MCWorkerQueue`, `MCProd2Payments`, `MCGradingRequests`, `MCDiscoverySchedule`, `MCProd2Service`, `MCProd2Grading`, `MCAgentRuns` | instances for TLC |

`PaidCall` is instantiated three times, because three pieces of code promise
the same thing with different files, tables and locks.

Beside an action stands, here and there, a "faulty variant": the way that code
could plausibly have been wrong. No specification uses one; each is what a
property of a run is known to refute.

### ReadingReceipts

The files of a key become `started[k]`, `providerError[k]` (0 when there is no
file, or else the number of the send, which stands for `started_at`),
`response[k]` and `result[k]`. A key is a document, a generation (`quality` or
`legacy`; only the second exists before the newer code is deployed) and a model
(`main` or `fallback`). `call` is the program counter and the local variables
of the one call that holds the folder's file lock. Each write and each removal
is an action, so that `Crash` falls between any two of them, and each write can
fail before or after the file appeared. `inflight` and `charged` are the truth
about money: `ProviderCharges` bills a request at any time after it left, with
or without anybody waiting; only an HTTP error answered by the provider takes
it back. The operator's means are there too: `Restart` may deploy the newer
generation or turn the fallback on (and, under `FallbackMayBeDisabled`, off),
and `RemoveGuard` deletes `guard.json` and nothing else.

Outside the model: corrupted or hand-edited receipts (the code answers with the
guard), the identity hash (a key is its parts), the pacing of tokens, the
content of prompts and answers (an answer is usable or not), and the binding of
the reading policy.

### Prod6Reading

`job[j]`, `attempts[j]`, `rejections[j]` are columns and payload of the row,
`queue` the order of claims, `stored` the documents with a current extraction.
`Claim`, `Dispatch` (with the choice between a new request and a replay),
`Commit`, and one action per way a job can end. Two kinds of manual review are
kept apart, `rejected` (`hold_document`) and `failed` (`hold_failed_job`),
because `enqueue` treats them differently. `Start` recovers the claims of the
dead process. `FreshFolder` is an operator who gives the service an empty
receipt folder while it is down. A document is one archive of one contract; two
archives with equal bytes share receipts and are protected by the folder alone.
Other job types interleave with the readings but touch none of this state.

### EvaluationReceipts and GradingRequests

`EvaluationReceipts` follows `ReadingReceipts`, with the differences its code
has: no result file, a durable answer alone resolves its started receipt, the
started receipt is written outside the block that opens the guard, and the
fallback answer is looked for under the configured fallback model alone. A
payload is a company, a contract and one reading.

`GradingRequests` is one pair. `reading` numbers the current reading, `match`
is the reading the stored match was made from, `job` the one open
`analyze_match` job (automatic and manual jobs share a deduplication key),
`req[r]` a request row. `Verdict` is `pair_verdict` and `Advanced` is
`advance`: a function of what one look at the database finds. `Expire` and
`Advance` are the pass over the requests at the start of a cycle; `Claim` to
`HoldFailed` are the evaluation jobs with the call of `EvaluationReceipts`
inside; `Reserve` to `LoseDirect` are the web's direct evaluation, whose answer
takes as long as it likes. The reading jobs of the contract appear as the
changes they make (`StartReading` to `EndReading`). `Die` and `Start` are the
process, `DeleteGuard` the operator.

Outside: the payment of a direct evaluation (it has no receipts), an inactive
profile or a missing contract, a match of unknown origin, the daily limit, the
release of held jobs by an admin; the conditions of JEV and of the rules are
nondeterministic.

### SeaceGate

One HTTP attempt is one request. A worker request walks through
`SourcePacer.acquire` and `shared_gate.acquire` (`AcquireLocal`, `Reserve`,
`ReadBlock`, `WakeUp`, `LastCheck`), a web request through `acquireSlot`
(`WebLook`, `WebReserve`, `WebReadBlock`, `WebTake`, `WebSend`). Time is a
counter that `Tick` advances freely, so that each timer, reply and answer is as
late as it likes. Every call to Redis may fail, and a reply may be lost after
the turn was taken (`LoseTurn`). The web's two lanes differ only in their
limits; one is modelled. A PROD2 run takes the same steps with no budget and a
process-wide stop for a breaker. A behaviour is one PROD6 cycle, shorter than
the hour of the web's cap.

### DiscoverySchedule

`disk` is `state.json`, `mem` the same record in the running process: they
differ between a change and the next save, which is where `Crash` bites. A
cycle is `BeginCycle`, `CheckEgress`, `BeginSweep`, one `ReadPage`, `Retried`,
`Refused`, `Denied` or `Failed` per attempt, `EndSweep` (the new cursor is
`CursorAfter`), `OpenBlock` and `WriteBlock` after a denial, `Resume`, `Process`,
`FreeIO`, `EndCycle`. With more than one thread the streams of a sweep advance in
any order and share the breaker and both limits: `Limit`, the smaller of
`SearchLimit` and `SourceLimit`, counts a request once (`reserve`), the budget of
the cycle `SourceLimit` counts every attempt that reached the pacer
(`pacer.used`), retries included, and leaves a free job alone that does not fit
(`IoCost`). `PauseEnds` and
`IntervalPasses` are time. `CompaniesChange` pauses or resumes a company, which
changes the list of streams.

Outside: the reading pause (its kinds and lengths), the alerts about the
egress, JEV and attention, the limit on candidates. Other errors of the source
end the cycle as `Failed` and the process as `Crash`.

### WorkerQueue

`status` and `attempts` are the columns; a runner is the step of `run_once`
with its job and the `job.attempts` it read. `complete`, `fail` and `dead`
write by id, whatever became of the row. `Retry` and `MarkDead` are the admin's buttons.
`delivered` counts the messages that left; `row` is `notifications.status`. A
runner whose build has no handler for a job type fails it. Any other handler is
one transaction. `created[n]` is the day of a notice (UTC) and `NextDay` is
midnight: `LimitReached` counts the sent rows of `today` alone, as
`_exceeds_daily_limit` does, so `delivered` and `uncounted` are about the notices
of the day and begin again with it. Outside: the period keys of the scheduler
and the bodies of the other handlers.

### Prod2Payments

A case is a sequence of requests: its affinity, and when that accepts the case
the selection of its documents and their reading, with a second model behind it.
`row[r]` is the claim in PostgreSQL with its token; `owner[c][r]` and
`response[c][r]` are the private files of the case; `calls` and `reserved` are
`RunLimits`; `stage` the Redis staging list. A thread takes the lock of its
request (`TakeLock`), waits with it for one of `slots` model slots (`MayEnter`),
and then walks through `EnterWithPermit` or `EnterWithoutPermit`, `Claim`,
`WriteOwner`, `Issue`, `WriteStarted`, `Send`, `Answer`, `WriteResponse`,
`Complete`, or out through `Break`, `Release`, `Rename`. `Reuse` is
`reuse_completed_read`, `Persist` and `Admit` the acceptance, `Stop` the signal.
`slots` is `model_workers`, which the manifest of a folder freezes. `Start` is a
restart with the same folder or a new run with a fresh one, and `recover` of the
staging queue.

Outside: the handoff guard, the fallback to the OpenAI model after a truncated
answer, embeddings, and a commit of the acceptance whose reply is lost. The
sweeps that stage the cases are `KeywordSweep`. With the older storage or with
embeddings as input the reuse check is skipped: then a released main
reservation, a paid backup and a crash before the outcome let the main model be
paid too. `LedgerKept`, which counts the two models of a reading as one document
(`Billing`), is therefore about the `OfficialLinks` storage. There a later
attempt meets `reuse_completed_read` first, which takes a released row for an
unresolved one: the case ends in review.

### KeywordSweep and Prod2Service

`listing[q]` is what the portal lists for a query, `pages[q]` the cached pages
of its latest attempt folder, `complete` the completion files. A thread
(`sweep[q]`) offers the cached rows again (`Replay`, `CheckRow`, `EmitRow`),
compares the first page of a new session with the cached one (`Search`), goes on
with the next page (`ReadPage`: written first, offered afterwards) and asks for
the first page once more (`Verify`). `Denied`, `TurnedAway` (the pause another
process opened), `Outage` and `Error` end it; `Repeat` and `Settle` are
`settle_current_day`. A look at STOP and the request that follows it are one
step. `steady` and `changes` are the truth about the list: what has been on it
since the pass began, and how often it changed.

`Prod2Service` adds the consumers (`Take` to `ProxyFails`: a case ends with an
outcome, with a doubt about a payment, with a refusal of the portal, or stays
reserved), the verdict on the report (`Outcome` is `assess_final_report` with
`_payments_clean`), and the service: `Boot`, `NoEgress`, `SourcePaused`,
`MakeFolder`, `Start`, then `EgressExit`, `Complete`, `RetryCycle` or `GiveUp`.
Cache, queue and accepted cases belong to the cycle; folder, counters and
evidence to an attempt. `validating` is merged into `running`: both are the same
to a restart. `past` and `grave` are the truth about the attempts and the
troubles of the cycle.

Outside: lists of 499 rows and more, which are split by dates; probes of empty
scopes; the checks of cached files against their hashes and rows; runs by ID and
runs that continue an older one; the vectors that are paid before the consumers
start; configuration and schedule slots. The queries that `Today` names are
those of the national listing's last day; with keywords there are none.

### Prod2Grading

A case is a request (`request[r]`) or an item of the queue (`item[c]`,
`attempts[c]`), and `me` is the consumer with the case it works on. The reading
of a case is `Look`, `Prepare`, `ClaimReading`, `WriteOwner`, `SendReading`,
`ReadingAnswers`, `KeepReading`, `CompleteReading`, `PersistReading`,
`WriteOutcome`, `SettleReading`: the files of its folder are `owner`, `kept` and
`outcome`, its reservation is `row`. An evaluation is the call of one of three
receipt folders (`call[f]`, `unresolved[f]`) under the reservation `ledger`,
whose lease ends with `LeaseEnds`. A case ends as the code ends it: `Fail` (a
request fails, an item has another attempt; a request also fails when
`persist_match` refuses what was paid, as it does for a reading that asks for
papers only: `generic`; an item is done by then),
`Doubt` (the guard opens, the pass ends), `Defer` (the source or a stop; the
attempt is given back). A pass looks between two cases whether it may go on
(`MustStop`). The service is `Imminent`, `CycleStart`, the readings or the
enqueuing of its cycle, `CycleEnds`, `Plan`, and the evaluator that `Plan`
starts (`TakePair`, `PairEnds`), which runs while the consumer is awake again.
`Crash`, `EvaluatorDies`, `CycleStops`, `LoseLock` are failures; `Expire`,
`Recover`, `LeaseEnds` are time. `reads` and `evals` count what left and was not
refused.

Outside: a second company, the daily limits, the cooldowns and the window of the
night, edits of the profile, the checks of affinity, the second model behind a
reading, and the payments for selections and embeddings. The pauses and retries
of the service are in `Prod2Service`.

### AgentRuns

`runStatus`, `answers`, `changes`, `applied` are rows, `lock` the session's key
in Redis, `files` the output folder, `artifacts` what was stored with an answer,
`before` the snapshot a request takes of the folder, before it has the lock. A
request is `Begin`, `Snapshot`, `Acquire`, `Spawn`, `Answer`, `Load`, `Store`,
`Cleanup`, `Release`, with a way out at every step. Beside it runs the Codex
process (`codex`): `Generate` writes the run's document, `ChildExits` ends it. An
answer needs a process that has closed (`spawnCodex` yields to its end); an error
event does not, and neither it nor a death kills the process, so that it may
write beside the next run (`Break`, `WebDies`). `TakeFiles` is the comparison
with the snapshot, or else the names in the answer; `Load` skips files; `Cleanup`
may leave any of them, or fail before it removes one. `FailRequestFails` is a
database that refuses `failAgentRun` too. `Expire` is the key's time, under a
running request as well, and `Release` deletes the key whoever has it.
`ReadLocked` and `Decide` are a person who confirms or rejects. Three variables
are history: `leftover`, delivered files that stayed; `lostKey`, runs whose key
was gone while they were inside; `unrecorded`, runs whose end was not written.

Outside: the sessions' own operations, the thread that is kept warm, temporary
downloads, memory compaction, the runs without Codex (no folder and no lock), the
lock without Redis, the contents of changes.

## The runs

| run | question | bounds | distinct states |
|---|---|---|---|
| `reading_receipts` | does the folder keep its promises and implement `PaidCall`? | 2 documents, 3 sends | 50 836 |
| `prod6_recovery` | do the rows tell the truth about money, also when the folder is replaced, and does a paid answer reach the database or a person? | 1 document, 2 jobs, 2 sends, 1 crash, 1 fresh folder, 1 provider error until a job is held | 1.07 million |
| `prod6_evaluations` | do manual requests and automatic evaluations of a pair end, tell the truth and pay once? | 1 pair in four behaviours: see below | 305 476 |
| `seace_gate` | do pace, block, budget and cap hold together? | 3 worker requests with a budget of 2, 2 web requests with a cap of 1, 3 units of time | 1.67 million |
| `discovery_schedule` | does a lap that is split over cycles read every stream and go on, and is a pause kept? | 3 streams of 1 to 3 pages, 2 lists, a limit of 4 requests in a budget of 3 attempts, 1 or 2 threads, 2 denials, failures or retries, 1 crash, 1 change | 347 960 |
| `worker_queue` | do jobs end and run a bounded number of times without leases? | 2 runners; 2 notices of one user, or 2 sweeps of one key; 2 attempts, an alert a day, 2 midnights, 1 button, 1 crash | 601 671 |
| `prod2_payments` | do threads, crashes, restarts and new runs pay each request once within the limits? | 2 threads, 1 or 2 slots, 2 cases that share a request, or 2 rejected cases; 2 starts, 2 folders | 601 109 |
| `agent_runs` | whose documents does an answer deliver, do draft and decision agree, and do runs end? | 2 messages, 2 deciders, 1 change set, 1 crash | 769 418 |
| `prod2_grading` | are readings and evaluations paid once by requests, queue, cycle and evaluator, and does all of it end and get graded? | 1 company, 1 or 2 calls for tenders, 2 requests, 2 attempts, eleven mixes of trouble | 237 709 |
| `prod2_service` | is a complete query whole and a completed cycle settled, are attempts earned, is a person asked for cause, and do cycles end? | 2 queries of 1 or 2 pages, one of the current day; 2 threads, 2 consumers, a cap of 4 candidates and 3 accepted cases, 1 repeat, 1 retry of each kind; two troubles of 14 mixes | 615 885 |
| `fallback_disabled`, `discovery_starves` | the disagreements below | as above | violated |

Why the bounds suffice. Two documents are the least for "an uncertain request
blocks the others"; three sends allow a rejected main request, its fallback and
one more send of the same or of the other document. Two jobs for one document
and a fresh folder leave only the rows between the document and a second
payment. The four behaviours of `prod6_evaluations` are one reading with two
sends, a request and a crash (replay, fallback); one reading with two requests
(the web beside the worker, a request after an ended one); two readings with a
request (the reading changes under each step); and two readings with a send for
each and a crash. A budget of two with three requests and a cap of one with two
make both limits of the gate bite; three units of time cover a block that begins
while a turn is awaited and ends before the turn comes. In `discovery_schedule`
one stream is longer than a pass may read, and two streams need more than one
pass, and one retry is enough to use up the budget. `prod2_payments` has a
request shared by two cases, a case with a selection, one with a fallback, one
accepted place for two cases, a limit of one JEV call, and a slot less than
threads: one holds the lock of its request and waits for the slot of the other.
Two cases that do not share their request let both threads into their sections
with one permit between them. Two attempts are the least that retry; two
runners, runs or deciders the least that race. Each of the eleven behaviours of
`prod2_grading` spends its trouble (a death, a refusal, a deferral, a lost lock,
a closing window, a match that is refused, a cycle that comes while there is
work: `hurries`) on one or two kinds, so that the kinds meet in pairs. So do
those of `prod2_service` (`edits` of the lists, `denials`, `outages`, `errors`,
`pauses` by others, `doubts`, `deaths`, `stops`), one of which has two cycles
with a failed attempt each; a fourth candidate appears by an edit and reaches
the cap.

The bounds that exist only for TLC are `MaxSends`, `MaxAttempts` of
`Prod6Reading` (the code only compares attempts with 1), `MaxCrashes`,
`MaxFolderSwaps`, `MaxTime`, `MaxStops`, `MaxChanges`, `MaxChangeSets`,
`MaxDays`, `MaxDeaths`, `MaxTouches`, `MaxStarts`, `MaxFolders` and `Bounds`.
Deadlock is checked in `reading_receipts`. The other systems stop: all jobs,
cases or runs have ended, or a counted resource is used up, so their
configurations say `CHECK_DEADLOCK FALSE`, and liveness properties say what has
to happen.

Type invariants. Each module states one and it is proved: `TypeOK` of the folder
and of the gate, `ReceiptsTypeOK`, `GradingTypeOK`, `ScheduleTypeOK`,
`QueueTypeOK`, `PaymentsTypeOK`, `ConsumerTypeOK`, `AgentsTypeOK`, and those of
the sweeps and the service are first conjuncts of the inductive invariants
below. No run lists them, because what they say is seen in the definitions.
`JobsTypeOK` says in addition that the order of claims lists each open job once
and the one in service first (`QueueAgrees`), on which `Leave` and `ToTheEnd`
rely.

The properties, and what it would take to break them:

- `PaidAtMostOnce`: over every generation and model, at most one request of a
  document has been or can still be billed.
- `OneUncertainRequest`: in the whole folder at most one such request has no
  durable answer.
- `ChargesAreOnRecord`: money that may be spent has its `started` receipt.
- `AnswersAreKept`: no step replaces or removes a durable answer.
- `PromiseKept`, `EvaluationsKept`, `LedgerKept`: every behaviour of the three
  paying components is one of `PaidCall`. `LedgerKept` says so of each purpose
  of a PROD2 run, over all cases, folders and models that serve it: a reading is
  billed once, by whichever model, run or case.
- `DoneWasPaid`, `RefundsAreFree`: the rows against the bill, at the end of a
  job and at every attempt that is given back. The second rests on
  `RefusalIsFree` of the folder, which the folder's own run checks: a call that
  ends with an HTTP error left nothing to bill.
- `AnswersAreStored` (liveness): a usable answer on disk ends up in the
  database, or a person is told, or the contract closed.
- `SendsAreAwaited`: the worker spends money on a manual job only while its
  request is active, although requests expire between two steps of the job.
- `DoneIsGraded`: a request of the worker's queue becomes done only over a
  match made from the reading that is current at that moment, and an ended one
  never moves again, even when its job, claimed before the end, runs later.
- `RequestsEnd` (liveness): requests end, unless a person is needed.
- `PaceIsKept`: after n requests at least (n - 1) shared intervals have passed,
  however late timers and replies were, and turns of the workers are a shared
  interval apart.
- `WorkersStopForBlock`: no worker request leaves while a block runs that began
  before its turn.
- `BudgetIsExact`, `WebCapIsKept`: every refusal returns its unit exactly once;
  concurrent web requests do not pass the cap together.
- `LapIsWhole`: a lap that is declared complete has read every stream to its
  end, over however many cycles, denials and restarts.
- `LapsGoOn` (liveness): the search always comes again and each lap ends, where
  no stream is to be read further than a sweep can go (`PagesFit`).
- `PauseIsKept`: with one thread each denial is followed by a pause before the
  next cycle, and nothing is asked until the pause has passed, by this process
  or a later one.
- `AlertsAlternate`: an episode is announced once and its end once, unless the
  process died between an alert and its record.
- `RunsAreBounded` (with `KeysRunApart`): how far a claim without lease or token can
  go wrong: only the admin's buttons let two workers handle one key, or a job
  run more often than its attempts, and then by `MaxAttempts` runs for each use,
  although a worker that lost its job may still put the row back.
- `AlertsAreBounded`: by how much the notices of a day can pass the daily limit
  on that day, which is read without a lock before a message leaves. What leaves
  after the midnight of its day is in no count of the code (below).
- `JobsEnd` (liveness): a queued job ends, or its process died.
- `CeilingHolds` (with `PermitsAreExact`): the limits of a PROD2 run, calls and
  accepted cases, under threads that reserve, use and give back permits, also
  on every way out of a failed call.
- `CasesEnd` (liveness): while threads run, no case stays pending: none of them
  waits for ever for a permit, a lock or a slot that another holds.
- `PaidOnce`: requests, queue, cycle and evaluator together send the reading and
  the evaluation of a call for tenders once each, unless they were refused.
- `SendsStopAtDoubt`: while one of the consumer's guards exists it sends nothing.
- `WorkEnds` (liveness): a started request always ends, and all other work ends
  unless a guard or the stopped service keeps the consumer from it.
- `ReadingsGetGraded` (liveness): an item that was read is graded although it is
  done before its evaluation, unless an evaluation is in doubt, the service
  stopped, or an open call for tenders has a match that cannot be stored.
- `PassIsWhole`: a query that counts as complete has seen every row that was
  listed throughout its pass, in however many sessions and attempts, unless the
  list changed twice: then two changes can hide a row from the comparison (the
  code calls it an observed pass, no snapshot).
- `CycleIsWhole`: a cycle is completed only when each query is complete or
  tolerated, and every case on its cached pages has an outcome.
- `StartsAreEarned`: no attempt follows one that left a payment in doubt, and
  the retries of a cycle are counted over attempts and restarts.
- `AttentionIsEarned`: what passes by itself (a pause, an outage, one failed
  attempt) never stops the service for a person.
- `CyclesEnd` (liveness): the service ends its cycles or asks for a person; no
  thread, consumer or wait keeps it for ever.
- `DecisionsAgree`: a draft received exactly the change sets that are marked as
  applied, whoever decided meanwhile.
- `NoForeignDocuments`, `DeliveredOnce`: the document of an answered run is not
  delivered as another's, and no document with two answers, although snapshots
  are older than the lock and processes write that nobody waits for. `Excused`
  names what the code lets through: a delivered file that could not be removed,
  and a run that went on without its key.
- `RunsEnd` (liveness): each run ends and leaves the lock, unless the process
  died or the database refused its end.

Each property has a mutant in `PROJECT.json`: a faulty variant of one
definition, kept beside it, that TLC refutes.

Fairness, and why the code justifies it.

- `AnswersAreStored`: weak fairness of each job's steps, of the progress of a
  call, of the restart and of the end of a pause: the coordinator is a
  sequential loop, restarted by its service manager, and a pause is an instant
  that passes. The serving job and the head of the queue stay enabled until
  they move.
- `RequestsEnd`: weak fairness of the evaluation jobs, the restart and the end
  of a pause, and strong fairness of `Advance` and `Expire` of each request:
  every cycle begins with a pass over all requests, so a request that is again
  and again in a state for them is seen in one, although a job in between
  disables them. The web, the reading jobs and billing owe nothing.
- `LapsGoOn`: weak fairness of a step of the cycle, of the pause and of the
  interval. It is stated for one thread and a list that does not shrink within
  a lap; without either it is false (`discovery_starves`, and below).
- `JobsEnd`: weak fairness of each runner's work and of its claims
  (`run_forever`). A row whose runner died is excepted: nothing looks for it.
- `CasesEnd`: weak fairness of each thread's steps. Stops, deaths and restarts
  owe nothing; the property is about a run whose threads still run.
- `CyclesEnd`: weak fairness of the child, of the service (its manager starts it
  again) and of the end of a pause, which the gate stores with an expiry.
  Troubles owe nothing, and there are as many as the bounds say.
- `RunsEnd`: weak fairness of each request's steps and of the lock's expiry. A
  Codex turn ends, as far as the request waits for it: the code sets no limit to
  it. Nothing is assumed of processes left alone.
- `WorkEnds`, `ReadingsGetGraded`: weak fairness of two sequential programs, the
  consumer and the service with its evaluator (each restarted by its manager),
  and of time (a lease, the day of a request, the six hours of an item). The
  web, failures and windows owe nothing. A cycle comes as often as it likes
  while the consumer has nothing to do, and `hurries` times while it has.

## What is proved

Every safety property of the passing runs, invariants and action properties,
and the three refinements of `PaidCall` are theorems, for every value of the
constants that the assumptions in the modules allow: any sets of documents,
jobs, cases, threads, requests, streams, queries, runs, any limits, and any
number of the events that the runs have to bound. Each proof module has one
lemma per action or kind of action, and one theorem that says that its
inductive invariant holds; the others follow from it.

What is assumed of a deployment, beyond the types of the constants:

- `FallbackStays` (`ReadingReceiptsProofs`, `Prod6ReadingProofs`,
  `GradingRequestsProofs`): no operator switches off a fallback model that was
  used. Without it the properties are false (`fallback_disabled`).
- `OfficialLinks` (`LedgerInvariance`, `LedgerAlwaysKept`): the PROD2 run reads
  from the official links, so that `reuse_completed_read` looks before it pays.
- `FolderStays` (`JobsUseTheFolder` only): the receipt folder is not replaced.
- `PlansAssumption` (`Prod2Payments`): a plan begins with the affinity of its
  case, a selection is followed by a reading, and a second model stands behind
  one first model. That is how `accepted_runner.py` builds its requests.
- There is a consumer in a PROD2 run (`run_prod2_selected.py:502` asks for 1 to 8
  processing workers), a page has a row, and no stream is listed twice.
- Processes, threads, jobs and requests are finite in number.

**ReadingReceipts.** `PaidAtMostOnce` is not inductive: it says nothing of what
the files tell the next call. `IInv` adds (1) `ChargesAreOnRecord`, so that a
live request is visible; (2) `StampsAreIssued`, so that a stamp names one key and
a new attempt cannot be confused with an old one; (3) `AnswersAreBilled`;
(4) `UnusedKeysAreBlank`, so that the keys `_resolve_identity` does not look at
hold nothing, which is where `FallbackStays` is needed; and (5) `PayingCall`:
while a call pays, nothing of its document is answered and every other live
request is durably answered. The key lemma is `PermittedSend`: when
`_check_new_send` passes, every live request is durably answered, because its
`started` receipt would otherwise be unresolved. `FolderKeepsPromise` is the
refinement. `ReadingsArePaidFor` says that a reading comes from a billed and
durable answer; its property is in no run, because `IInv` contains it.

**Prod6Reading.** While the folder is not replaced, each step of the coordinator
is a step of the folder or a stutter (`JobsUseTheFolder`). When it is replaced,
the old receipts are gone and the money is not. `JobsInv` therefore splits the
money: the folder in use knows the requests of the documents that have a receipt
in it, and keeps `Folder!IInv` for those (the proofs of `ReadingReceipts` are
instantiated with the known part for the whole); the rest is covered by the rows:
`SendsAreCounted` (a request that can be billed has a job whose attempt counts),
`UnsentIsFree` (a job whose call was not sent owes nothing) and `CallHasJob`.
`JobsPayOnce`, `DoneWasAlwaysPaid` and `RefundsAreAlwaysFree` follow, through
fresh folders too.
`JobsTypeCorrectness` rests on what adding at either end and
taking the first do to a sequence without repetitions (`AddedFirst`, `AddedLast`,
`FirstLeaves`).

**GradingRequests.** The evaluations' folder keeps an invariant like that of the
readings (`FolderInv`), whatever calls it; `EvaluationsKeepPromise` is its
refinement of `PaidCall`. `SendsAreAwaited` needs what a job, the call and the
request know of each other at each step: `CallAgrees`, `JobAgrees`, `WebAgrees`,
`ReadingAgrees`; so the request of a job that pays is still evaluating.

**SeaceGate.** `PaceIsKept` follows from `TurnsAreCounted`: `nextSlot` lies an
interval after the last turn, and the turns times the interval fit before it, so
that a turn that is lost with its reply costs time and never gives any. With it
go `WorkerTurnsApart`, `BudgetIsHeld` (the units taken are those of the requests
between the reservation and the end; cardinalities, one request at a time),
`WebIsCounted`, `SentAreGone` and `BlockWasSeen` (a request that passed its last
check began its turn before the block).

**DiscoverySchedule.** `LapAgrees` says of a cursor that every stream of the list
has been read or lies ahead of it within what the lap still owes; it holds of
the memory and of the disk, which is why a death at any point is harmless.
Sequences are cut at the least stream that was not finished (`LeastNumber`).
`PauseAgrees` and `DenialIsFollowed` relate the block in memory, the one on disk,
the breaker and the step of the cycle; `AlertsAgree` the block and the alerts.

**Prod2Payments.** `IInv` types the threads by their step (`ThreadsOK`), gives each
claim one thread (`HoldsTokens`), each thread that sent a request of its folder
(`SentOK`), and counts: permits and used calls of a provider are the threads that
hold them and the requests of the folder (`PermitsAreExact`, `BudgetOf`). From it
`CeilingAlwaysHolds`. `LedgerInv` is about money over folders and runs:
`CasesApart` and `SectionsApart` (two threads never have one case or the lock of
one request), `FreeRows` (a row that may be claimed has nothing to bill),
`RowsHeld`, `SavedIsCharged` (a response on disk or a finished row was billed),
`FallbackAfterRejection` (a second model is asked after the first was refused),
`OnePaid`. From it the refinement, with the two models of a reading as one
document.

**Prod2Grading.** `EverythingIsPaidOnce` needs, for readings, that an item or
request whose reading is under way holds its row and its owner file (`Rows`,
`Holds`), and for evaluations that a free reservation stands for nothing sent and
that of the calls for one tender one holds the reservation (`EvaluationsOK`).
`SendsAlwaysStopAtDoubt` rests on `OneCall` and `Halted`.

**KeywordSweep and Prod2Service.** Per query: `ThreadAgrees` and `ResultAgrees`
(what step and result of a thread say about the queue), `PagesAgree` (with no
change the cached pages are those of the list; after one change the totals
differ, unless the thread has yet to see it) and `PassAgrees`, which is what
`PassIsWhole` needs: only two changes can compensate in the comparison. Of the
service: `PhasesAgree` and `StopIsKnown` (state file, folder and child),
`PastAgrees` (the counters in the state file are the true number of retries, over
all restarts), `GraveIsNoted` (what does not pass by itself is in the report) and
`QueueIsServed` (an attempt that ends complete has worked its queue off).

**AgentRuns.** Two runs inside at once mean that one lost its key (`OneKey`, from
`InsideHoldsTheLock`). `ChildrenAgree` says when a process can still write for a
run: before its answer, never after it. `FilesAgree`: a delivered file is gone
except between delivery and cleanup, or is in `leftover`, and a run that was not
answered claims its own file. `DeliveriesAgree` says of a run that is about to
store what `NoForeignDocuments` and `DeliveredOnce` say of those that did. That is
why the early snapshot does no harm by itself.

**WorkerQueue.** Nothing in the row says whose claim it is. `HoldersHold` states
what the code has instead: as long as the admin leaves a job alone, the worker
that has it has it alone and its row is claimed; with `KeysAreUnique` (the
partial index) that is `KeysRunApart`. `RunsAreCounted` is a potential: claims
so far, the claim the row waits for, the workers that can still put the row
back, and the attempts left stay within `MaxAttempts` for the insert and for
each use of a button. For `AlertsAreBounded`, `TurnsAreCounted` bounds the
workers that have a job at once, and `AlertsAreCounted` keeps two balances over
the notices of the day: every message that left is in a row, on its way, lost
with its transaction, or a repetition that a button paid for (`Slack`); and the
rows and the messages on their way stay within the limit and what the check
could not see. The sum over the jobs is the recursive function of the community
modules: `SumAdds` derives its equation and `SumsGrow` its monotony, both by a
least counterexample.

Induction over data is done that way throughout: the set of sizes at which a
statement fails has a least element (`LeastNumber`, from the well-foundedness of
strict inclusion between finite sets), and the statement is refuted there. The
same argument gives what `FlattenSeq` contains in `Prod2ServiceProofs`.

Only model-checked: the liveness properties `AnswersAreStored`, `RequestsEnd`,
`LapsGoOn`, `JobsEnd`, `CasesEnd`, `RunsEnd`, `WorkEnds`, `ReadingsGetGraded` and
`CyclesEnd`. Liveness under fairness and `ENABLED` are out of the prover's reach.
The two disagreements below are counterexamples found by TLC.

## Where the code and its documents disagree

1. `fallback_disabled`. `gemini_pacing.py` says that a fallback answer "is
   replayed later without paying again". `_resolve_identity` looks for it only
   while the variable is set. Main model 503, fallback answer on disk, death
   before the commit, restart with the variable empty: the document is sent and
   billed again. (The evaluations' folder has the same rule, and its instance
   keeps the variable, too.)
2. `discovery_starves`. `runtime.py` says of a sweep whose page limit covers the
   request limit "one pass can always finish a stream". With more than one
   thread the streams share the limit and may all be cut; the cursor then stays
   where it is.

## Met on the way

Behaviours that the models reproduce, or that were seen while reading for them,
and that no run singles out:

- `stream_start` (`runtime.py:191`) says that a changed list of streams only
  shifts the rotation. When a company is paused in the middle of a lap,
  `searched` can reach the new number of streams with the lap incomplete; each
  sweep then covers the whole list, and if that is more than one sweep can
  read no lap is ever complete (`streams_left_in_lap`, 237-244).
- The service's docstring says that a cycle cut by a block is tried again
  (`service.py:17-23`). That holds of the sweeps. A 403, or the pause of another
  process, that meets a consumer leaves a case in review and the rest in the
  queue: `queue_incomplete`, and the service asks for a person. If it was the
  last case the cycle even counts as complete with reviews.
- A publication that shifts the rows of the current day shows as a duplicate or
  short page: `source_or_capture_error`, which `settle_current_day` does not
  tolerate. `counter_changed_during_pass` (`keyword_sweep.py:416`) cannot come
  from the real client, whose later pages carry the session's first total.
- An attempt that ends with a failed proxy is put aside before anybody looks at
  its payments. `_retry_kind` compares the queue of the whole cycle with the cap
  of one attempt. A restart during `retry_wait` skips the rest of the wait.

- Two definitions were corrected because a proof would not go through. The
  outcome of a look at a cached row in `KeywordSweep` was a `CASE` whose guards
  overlapped, so that its value depended on the tool. And the bound on the runs
  of a job was looser than the code: an earlier form allowed one run more for
  each worker that the admin overtook, but each of those runs takes one of the
  attempts that the button gave (`WorkerQueue`).

- The comment of `HOLD_DOCUMENT_SQL` says that no job is enqueued for a document
  under manual review. After `hold_failed_job` a sweep does enqueue one.
- "Gap between requests of all processes": a web request that waits for its
  longer local turn lets its shared turn pass and may leave next to another
  process. The average pace holds (`PaceIsKept`). The web does not look at
  the block again after its wait; the workers do (`WorkersStopForBlock`).
- With several threads a 403 of one stream is lost when another stream of the
  same sweep fails otherwise: the exception ends the cycle before the pause.
  That part of `PauseIsKept` is therefore about one thread.
- An IO job that only failed counts as a used pacer, so the end of a denial can
  be announced although nothing was answered.
- A job enqueued again for a document whose attempt was never sent may only
  replay, finds nothing, and stops the service at each start.
- A pending request behind a held automatic job waits for a person without
  limit (`RequestsEnd` excepts it).
- The web's direct evaluation pays beside a claimed job of the worker, without
  receipts, and may replace a newer match.
- `accepted_runner.py:99-100` says that a reading whose reservation was released
  after a provider error may be claimed by a later attempt. Under the
  official-links storage `reuse_completed_read` then takes the released row for
  an unresolved one and the case ends in review, unless the run reads text found
  by embeddings, where the check is skipped (`run_prod2_selected.py:1188`).
- PROD2 consumer. After a 503, a paid answer of the second model and a death
  before it is stored, the next pass starts with the first model and reaches the
  limit of two calls: the request fails and the paid answer is never stored
  (`manual_grading.py:22` promises that it is replayed). A death between an
  evaluation's answer and its row makes the row uncertain after ten minutes,
  although the answer is on disk, and each later automatic run stops at it. A
  stop between claim and send leaves an uncertain row, so that the next pass
  opens the guard though nothing was sent. An item whose pass died after its
  reading was stored ends as skipped. When the next cycle comes while the
  consumer still holds the executor lock, the service stops for review.
  Recovery after deaths lets an item be claimed more often than `AUTO_ATTEMPTS`.
  Requests that are deferred again and again use up `max_requests` and leave the
  queue unserved. The daily limit is read once per plan, without a lock, by two
  programs that may run at once.
- The consumer's and the service's evaluations check what may be stored after
  they paid for it. `skip_reason` (`evaluation.py:181`) asks for one requirement
  of any kind, `persist_match` (`repository.py:519`) for a substantive one. A
  reading that asks for papers only is sent, billed and refused; the exception
  ends the evaluator, and the next cycle plans the same pair again (without
  paying), before those that close later. `ReadingsGetGraded` excuses it.
- Agent runs. `docs/codex-agent-bridge.md:71` says that only files made or changed
  in the run are taken; the snapshot is older than the lock, and the names in an
  answer count too. After an error event the Codex process goes on and the lock
  is released (`codexAgent.ts:672`, 727), so two may write at once, although the
  message of 634 says that one is processed at a time. The cleanup also removes
  what was not delivered: files of another kind, of more than 15 MB, and after
  the eighth. A refused request still rewrites the context file of the running
  one. A failed run's file can be delivered by the next run that had its snapshot
  earlier. A run that outlives its key shares the folder, and its release removes
  the other's key. A run stays `running` after a death, or when the database
  refuses `failAgentRun` (`route.ts:205`), and the lock without Redis, which is
  for development, never expires.
- The daily limit of alerts ("Máximo diario", `AlertPreferencesForm.tsx:45`)
  counts the notices that were created on the day (`send_notification.py:239`).
  One that waited over midnight is sent without being counted, so a day may see
  more messages than its limit.
- `runtime.py:745` says that without its check "a stream could never finish", and
  `docs/worker-runbook.md` that a request limit below `--max-pages` is refused.
  The check leaves out `--max-source-requests`, which limits a sweep as well:
  when it is the smaller, a stream of `--max-pages` pages is never finished and
  the laps do not end. `PagesFit` of `LapsGoOn` is about the smaller of the two.

## Not modelled

- PROD2: the retired batch executor; archives, embeddings, exports and the
  handoff, whose payments are `Prod2Payments`.
- PROD4, historical outcomes and the other handlers of the queue: statements in
  one transaction each, or sequential code around them.
- The lengths and kinds of the coordinator's reading pause: they need a clock in
  days against which nothing else is ordered.
- Classification, extraction and matching rules, parsers, formats: pure
  functions over texts and tables. A model would be a second copy of the rules.
- Web services of one statement, pages, migrations, one-off scripts, and the
  container and proxy set-up.

These make up most of the lines of the repository; the state that several
actors change lies in the parts above.

## What comes next

Models: the screening by JEV, the reading pause, the splitting of long lists,
the embeddings that are paid before the consumers start. Theorems: with
each of them, its invariant; and that the rows of `Prod2Payments` bound what
`Prod2Grading` may find when both run over one database.

## Running

    tlc -config MCReadingReceipts.cfg MCReadingReceipts
    tlapm ReadingReceiptsProofs.tla

and likewise for each run of `PROJECT.json`.
