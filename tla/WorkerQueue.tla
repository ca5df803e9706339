----------------------------- MODULE WorkerQueue -----------------------------
(***************************************************************************)
(* The generic queue: the rows of worker_jobs (queue/repository.py), the   *)
(* runners that claim and end them (queue/runner.py), the two buttons of   *)
(* the admin page (admin.ts), and one handler in detail, the delivery of a *)
(* notification (jobs/send_notification.py), because its effect leaves the *)
(* database.  Any other handler is one transaction that commits or fails.  *)
(*                                                                         *)
(* A claim has no lease and no owner token: complete, fail and dead write  *)
(* by id alone, whatever became of the row meanwhile.                      *)
(***************************************************************************)
EXTENDS Integers, FiniteSets, FiniteSetsExt

CONSTANTS
    Jobs,          \* the rows of all behaviours
    Populations,   \* the sets of rows that one behaviour may insert
    Notices,       \* those that deliver a notification of one user and channel
    KeyOf,         \* KeyOf[j]: dedup_key
    Workers,       \* the processes that run QueueRunner.run_forever
    Knows,         \* Knows[w]: the jobs whose type has a handler in w's build
    MaxAttempts,   \* the default of fail(), the only limit the runner uses
    MaxAlerts,     \* max_alerts_per_day of the user and channel
    MaxDays,       \* bound: the last day of a behaviour
    MaxTouches,    \* bound: uses of the admin's buttons
    MaxCrashes     \* bound: jobs whose worker process died

ASSUME QueueAssumption ==
    /\ IsFiniteSet(Jobs) /\ IsFiniteSet(Workers)
    /\ Notices \subseteq Jobs /\ Populations \subseteq SUBSET Jobs
    /\ KeyOf \in [Jobs -> Jobs]
    /\ Knows \in [Workers -> SUBSET Jobs]
    /\ MaxAttempts \in Nat \ {0} /\ MaxAlerts \in Nat \ {0}
    /\ MaxDays \in Nat /\ MaxTouches \in Nat /\ MaxCrashes \in Nat

VARIABLES
    status,     \* status[j]: the column, "none" before the insert, or "absent"
    attempts,   \* attempts[j]: the column
    row,        \* row[n]: notifications.status
    created,    \* created[n]: the day of notifications.created_at, 0 before the insert
    today,      \* the day that began at the last midnight, in UTC
    runner,     \* runner[w]: the step of run_once, its job and job.attempts
    claims,     \* history: how often j was claimed
    touches,    \* history: how often the admin used a button on j
    delivered,  \* history: the messages of today's notices that left
    uncounted,  \* history: the times today's limit could not see such a message,
                \* which was still on its way or whose transaction was lost
    orphans     \* history: jobs claimed by a process that died

table   == <<status, attempts>>
history == <<claims, touches, delivered, uncounted, orphans>>
vars    == <<table, row, created, today, runner, history>>

Free == [step |-> "idle", job |-> "none", attempts |-> 0]

Live(j) == status[j] \in {"pending", "claimed"}

\* uq_jobs_dedup: another pending or claimed row has the key.
KeyTaken(j) == \E i \in Jobs \ {j} : KeyOf[i] = KeyOf[j] /\ Live(i)

Goto(w, step) == runner' = [runner EXCEPT ![w].step = step]

SetStatus(j, s) == status' = [status EXCEPT ![j] = s]

-----------------------------------------------------------------------------
(* The rows                                                                *)

\* INSERT ... ON CONFLICT DO NOTHING; a notice is inserted with its job.
Enqueue(j) ==
    /\ status[j] = "none" /\ ~KeyTaken(j)
    /\ SetStatus(j, "pending")
    /\ created' = [n \in Notices |-> IF n = j THEN today ELSE created[n]]
    /\ UNCHANGED <<attempts, row, today, runner, history>>

\* claim_next: some pending job; FOR UPDATE SKIP LOCKED makes it one step.
\* run_after only delays, so a pending job is claimed at any later time.
Claim(w, j) ==
    /\ runner[w] = Free
    /\ status[j] = "pending"
    /\ SetStatus(j, "claimed")
    /\ attempts' = [attempts EXCEPT ![j] = @ + 1]
    /\ runner' = [runner EXCEPT ![w] =
                    [step |-> "handling", job |-> j, attempts |-> attempts'[j]]]
    /\ claims' = [claims EXCEPT ![j] = @ + 1]
    /\ UNCHANGED <<row, created, today, touches, delivered, uncounted, orphans>>

\* complete(job.id)
Complete(w) ==
    /\ runner[w].step = "ok"
    /\ SetStatus(runner[w].job, "done")
    /\ runner' = [runner EXCEPT ![w] = Free]
    /\ UNCHANGED <<attempts, row, created, today, history>>

\* Faulty variant: a job without a handler is skipped and keeps its claim.
NoHandlerIgnored(w) ==
    /\ runner[w].step = "handling" /\ runner[w].job \notin Knows[w]
    /\ runner' = [runner EXCEPT ![w] = Free]
    /\ UNCHANGED <<table, row, created, today, history>>

\* dead(job.id): there is no handler for the type of the job.
NoHandler(w) ==
    /\ runner[w].step = "handling" /\ runner[w].job \notin Knows[w]
    /\ SetStatus(runner[w].job, "dead")
    /\ runner' = [runner EXCEPT ![w] = Free]
    /\ UNCHANGED <<attempts, row, created, today, history>>

\* The job goes back with a later run_after.
Defer(w) ==
    LET j == runner[w].job
    IN  /\ ~KeyTaken(j)
        /\ SetStatus(j, "pending")

\* Faulty variant: fail never gives up.
FailForever(w) ==
    /\ runner[w].step = "error"
    /\ Defer(w)
    /\ runner' = [runner EXCEPT ![w] = Free]
    /\ UNCHANGED <<attempts, row, created, today, history>>

\* fail(job.id, error, job.attempts): the attempts are those of the claim.
Fail(w) ==
    /\ runner[w].step = "error"
    /\ \/ /\ runner[w].attempts >= MaxAttempts
          /\ SetStatus(runner[w].job, "dead")
       \/ runner[w].attempts < MaxAttempts /\ Defer(w)
    /\ runner' = [runner EXCEPT ![w] = Free]
    /\ UNCHANGED <<attempts, row, created, today, history>>

\* The row cannot become pending again because a newer one has its key: the
\* exception leaves run_forever and the process starts anew.
FailOnTakenKey(w) ==
    /\ runner[w].step = "error" /\ runner[w].attempts < MaxAttempts
    /\ KeyTaken(runner[w].job)
    /\ runner' = [runner EXCEPT ![w] = Free]
    /\ UNCHANGED <<table, row, created, today, history>>

-----------------------------------------------------------------------------
(* The handlers                                                            *)

Handling(w) == runner[w].step = "handling" /\ runner[w].job \in Knows[w]

\* A handler whose effect is its own transaction.
Handle(w) ==
    /\ Handling(w) /\ runner[w].job \notin Notices
    /\ Goto(w, "ok")
    /\ UNCHANGED <<table, row, created, today, history>>

\* The notices with created_at >= today at 00:00 UTC.
Today == {n \in Notices : created[n] = today}

\* Faulty variant: off by one.
LimitReachedLate == Cardinality({n \in Today : row[n] = "sent"}) > MaxAlerts

\* _exceeds_daily_limit: of whatever day the notice is that waits, those of today
\* are counted.
LimitReached == Cardinality({n \in Today : row[n] = "sent"}) >= MaxAlerts

\* A worker at one of these steps has a notice of today.
OnTheWay(w, steps) == runner[w].step \in steps /\ runner[w].job \in Today

Suppress(w) ==
    LET n == runner[w].job
    IN  /\ Handling(w) /\ n \in Notices /\ LimitReached
        /\ row' = [row EXCEPT ![n] = "suppressed"]
        /\ Goto(w, "ok")
        /\ UNCHANGED <<table, created, today, history>>

CheckLimit(w) ==
    /\ Handling(w) /\ runner[w].job \in Notices /\ ~LimitReached
    /\ Goto(w, "sending")
    /\ uncounted' = IF /\ runner[w].job \in Today
                       /\ \E v \in Workers : OnTheWay(v, {"sending", "delivered"})
                    THEN uncounted + 1 ELSE uncounted
    /\ UNCHANGED <<table, row, created, today, claims, touches, delivered, orphans>>

\* send_email or send_telegram returned.
Deliver(w) ==
    /\ runner[w].step = "sending"
    /\ delivered' = IF OnTheWay(w, {"sending"}) THEN delivered + 1 ELSE delivered
    /\ Goto(w, "delivered")
    /\ UNCHANGED <<table, row, created, today, claims, touches, uncounted, orphans>>

Record(w) ==
    /\ runner[w].step = "delivered"
    /\ row' = [row EXCEPT ![runner[w].job] = "sent"]
    /\ Goto(w, "ok")
    /\ UNCHANGED <<table, created, today, history>>

\* The transaction of a message that left is lost.
Forget(w) ==
    uncounted' = IF OnTheWay(w, {"delivered"}) THEN uncounted + 1 ELSE uncounted

\* The handler raised, and its transaction was rolled back.
Raise(w) ==
    /\ Handling(w) \/ runner[w].step \in {"sending", "delivered"}
    /\ Goto(w, "error")
    /\ Forget(w)
    /\ UNCHANGED <<table, row, created, today, claims, touches, delivered, orphans>>

-----------------------------------------------------------------------------
(* The admin and the machine                                               *)

MayTouch == SumFunctionOnSet(touches, Jobs) < MaxTouches

Touch(j) == touches' = [touches EXCEPT ![j] = @ + 1]

\* retryWorkerJob; a taken key makes the statement fail and changes nothing.
Retry(j) ==
    /\ MayTouch
    /\ status[j] \in {"dead", "claimed"} /\ ~KeyTaken(j)
    /\ SetStatus(j, "pending")
    /\ attempts' = [attempts EXCEPT ![j] = 0]
    /\ Touch(j)
    /\ UNCHANGED <<row, created, today, runner, claims, delivered, uncounted, orphans>>

\* markWorkerJobDead
MarkDead(j) ==
    /\ MayTouch
    /\ status[j] \in {"pending", "claimed", "dead"}
    /\ SetStatus(j, "dead")
    /\ Touch(j)
    /\ UNCHANGED <<attempts, row, created, today, runner, claims, delivered, uncounted, orphans>>

\* The process dies, its claim stays, and the service manager starts it again.
Crash(w) ==
    /\ Cardinality(orphans) < MaxCrashes /\ runner[w] # Free
    /\ orphans' = orphans \cup {runner[w].job}
    /\ runner' = [runner EXCEPT ![w] = Free]
    /\ Forget(w)
    /\ UNCHANGED <<table, row, created, today, claims, touches, delivered>>

\* Midnight in UTC: whatever is on its way is of an older day now.  Days without
\* a notice are skipped: created_at is compared with the present day only.
NextDay ==
    /\ today < MaxDays /\ Today # {}
    /\ today' = today + 1
    /\ delivered' = 0 /\ uncounted' = 0
    /\ UNCHANGED <<table, row, created, runner, claims, touches, orphans>>

Init ==
    /\ \E P \in Populations :
         status = [j \in Jobs |-> IF j \in P THEN "none" ELSE "absent"]
    /\ attempts = [j \in Jobs |-> 0]
    /\ row = [n \in Notices |-> "queued"]
    /\ created = [n \in Notices |-> 0] /\ today = 1
    /\ runner = [w \in Workers |-> Free]
    /\ claims = [j \in Jobs |-> 0]
    /\ touches = [j \in Jobs |-> 0]
    /\ delivered = 0
    /\ uncounted = 0
    /\ orphans = {}

\* One step of run_once after the claim.
Work(w) ==
    \/ NoHandler(w) \/ Handle(w) \/ Suppress(w) \/ CheckLimit(w)
    \/ Deliver(w) \/ Record(w) \/ Raise(w)
    \/ Complete(w) \/ Fail(w) \/ FailOnTakenKey(w)

Next ==
    \/ \E j \in Jobs : Enqueue(j) \/ Retry(j) \/ MarkDead(j)
    \/ NextDay
    \/ \E w \in Workers : Work(w) \/ Crash(w) \/ \E j \in Jobs : Claim(w, j)

\* The runners are loops that go on while they live, and backoffs end.
Fairness ==
    \A w \in Workers : WF_vars(Work(w)) /\ WF_vars(\E j \in Jobs : Claim(w, j))

Spec == Init /\ [][Next]_vars /\ Fairness

-----------------------------------------------------------------------------
(* Properties                                                              *)

\* Each variable has its type.
QueueTypeOK ==
    /\ status \in [Jobs -> {"absent", "none", "pending", "claimed", "done", "dead"}]
    /\ attempts \in [Jobs -> Nat]
    /\ row \in [Notices -> {"queued", "sent", "suppressed"}]
    /\ created \in [Notices -> Nat] /\ today \in Nat
    /\ runner \in [Workers -> {Free} \cup
                     [step : {"handling", "sending", "delivered", "ok", "error"},
                      job : Jobs, attempts : Nat \ {0}]]
    /\ claims \in [Jobs -> Nat] /\ touches \in [Jobs -> Nat]
    /\ delivered \in Nat /\ uncounted \in Nat /\ orphans \subseteq Jobs

\* Two workers handle jobs of one key at once only if the admin took one of
\* them back: SKIP LOCKED, the status and uq_jobs_dedup keep them apart, with
\* no lease at all and whatever the scheduler enqueues meanwhile.
KeysRunApart ==
    \A v, w \in Workers :
        /\ v # w /\ runner[v] # Free /\ runner[w] # Free
        /\ KeyOf[runner[v].job] = KeyOf[runner[w].job]
        => touches[runner[v].job] + touches[runner[w].job] > 0

\* A job runs MaxAttempts times for its insert and for each use of a button,
\* although a late fail of a worker that lost its job to the admin puts the row
\* back with the attempts of an older claim.  Meanwhile no other job of its key
\* runs.
RunsAreBounded ==
    /\ KeysRunApart
    /\ \A j \in Jobs : claims[j] <= MaxAttempts * (1 + touches[j])

\* The uses of the buttons on today's notices.
TouchesToday == [j \in Jobs |-> IF j \in Today THEN touches[j] ELSE 0]

\* Of the notices created on one day, no more than the limit leave on that day.
\* The limit is read before the message leaves, without a lock: a worker that reads
\* it while another message is on its way may pass it, and so may a message whose
\* transaction was lost, or the admin.  Nothing else passes it; but a notice that
\* leaves after the midnight of its day is counted by no day (send_notification.py:230).
AlertsAreBounded ==
    delivered <= MaxAlerts + uncounted + SumFunctionOnSet(TouchesToday, Jobs)

\* A job that is queued ends, or a process died with it in its hands: then it
\* stays claimed, and its key taken, until the admin acts.
JobsEnd ==
    \A j \in Jobs : Live(j) ~> (status[j] \in {"done", "dead"} \/ j \in orphans)
=============================================================================
