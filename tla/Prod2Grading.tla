---------------------------- MODULE Prod2Grading ----------------------------
(***************************************************************************)
(* The consumer of manual grading requests and of the automatic reading    *)
(* queue of PROD2 (manual_grading.py), beside the daily service            *)
(* (service.py) and its evaluator (evaluation.py), for one company.        *)
(*                                                                         *)
(* A case is a request or an item of the queue.  Each has a folder of its  *)
(* own for its paid reading; the evaluations have one receipt folder each  *)
(* for requests, items and the service.  What keeps the three from paying  *)
(* twice are the rows of prod2_evaluations: row for the reading of a       *)
(* convocatoria, ledger for its evaluation.                                *)
(***************************************************************************)
EXTENDS Integers, FiniteSets

CONSTANTS
    Convs,          \* convocatorias, all accepted
    Requests,       \* manual requests, by id
    None,
    MaxRequests,    \* max_requests of a pass
    MaxAuto,        \* max_auto of a pass
    MaxAttempts,    \* AUTO_ATTEMPTS
    Bounds          \* how often the world interferes; see left

ASSUME GradingAssumption ==
    /\ Requests \subseteq Nat /\ Requests \cap Convs = {} /\ None \notin Requests \cup Convs
    /\ {MaxRequests, MaxAuto, MaxAttempts} \subseteq Nat \ {0}
    /\ Bounds \subseteq [convs : SUBSET Convs, stored : SUBSET Convs, generic : SUBSET Convs,
                         queue : BOOLEAN, asks : Nat, closes : Nat, tries : Nat,
                         crashes : Nat, refusals : Nat, defers : Nat, locks : Nat, hurries : Nat]

VARIABLES
    open,       \* the convocatorias whose window is open
    request,    \* manual_grading_requests: [conv, st]
    item, attempts,   \* prod2_reading_queue
    row,        \* the reservation of the reading; "cycle": running, by the cycle
    current,    \* convocatorias with a current extraction
    reads,      \* truth: readings that left and were not refused
    owner, kept,   \* cases whose folder has the claim file, the response file
    outcome,    \* the outcome file of a case
    ledger,     \* the reservation of the evaluation
    late,       \* ... and whether its lease is over
    unresolved, \* per receipt folder: started receipts without an answer
    match,      \* convocatorias with a current match
    evals,      \* truth: evaluations that left and were not refused
    call,       \* the evaluation under way in each folder
    guard,      \* the guard files that exist
    me,         \* the consumer
    lock,       \* the executor lock
    svc, todo,  \* the service, and what its evaluator still has to do
    left        \* bounds: what may still happen

work == <<request, item, attempts>>
readings == <<row, current, reads, owner, kept, outcome>>
evaluations == <<ledger, late, unresolved, match, evals, call>>
service == <<svc, todo>>
vars == <<open, work, readings, evaluations, guard, me, lock, service, left>>

Folders == {"manual", "auto", "service"}
Cases == Requests \cup Convs
ConvOf(k) == IF k \in Requests THEN request[k].conv ELSE k
Folder(k) == IF k \in Requests THEN "manual" ELSE "auto"

Idle == [pc |-> "idle", case |-> None, resumed |-> {}, handled |-> 0,
         seen |-> {}, started |-> 0]
NoCall == [conv |-> None, at |-> "none"]

Started == {r \in Requests : request[r].st \in {"reading", "evaluating"}}
Pending == {r \in Requests : request[r].st = "pending"}
Queue == {c \in Convs : item[c] = "pending"}

\* Faulty variant: only the guards of the receipt folders are looked at.
GuardOpenReceipts == guard \cap {"manual", "auto"} # {}

\* guard_open: the consumer's own guard and those of its receipt folders.
GuardOpen == guard \cap {"main", "manual", "auto"} # {}

Spend(what) == left[what] > 0 /\ left' = [left EXCEPT ![what] = @ - 1]

-----------------------------------------------------------------------------
(* A pass                                                                  *)

\* Faulty variant: a request that waits for its evaluation does not expire.
ExpireReading(r) ==
    /\ me.pc = "idle" /\ request[r].st = "reading"
    /\ request' = [request EXCEPT ![r].st = "failed"]
    /\ UNCHANGED <<open, item, attempts, readings, evaluations, guard, me, lock, service, left>>

\* Each pass begins with these three, also one that may not go on.  A day after
\* its last move a request fails.
Expire(r) ==
    /\ me.pc = "idle" /\ r \in Started
    /\ request' = [request EXCEPT ![r].st = "failed"]
    /\ UNCHANGED <<open, item, attempts, readings, evaluations, guard, me, lock, service, left>>

\* Six hours after its claim an item goes back.
Recover(c) ==
    /\ me.pc = "idle" /\ item[c] = "reading"
    /\ item' = [item EXCEPT ![c] = "pending"]
    /\ UNCHANGED <<open, request, attempts, readings, evaluations, guard, me, lock, service, left>>

SkipClosed(c) ==
    /\ me.pc = "idle" /\ c \in Queue \ open
    /\ item' = [item EXCEPT ![c] = "skipped"]
    /\ UNCHANGED <<open, request, attempts, readings, evaluations, guard, me, lock, service, left>>

\* The service is waiting, its next cycle is not near.
Waiting == svc \in {"waiting", "planning"}

BeginPass ==
    /\ me.pc = "idle" /\ Started \cup Pending \cup Queue # {}
    /\ ~GuardOpen /\ Waiting /\ lock = "none"
    /\ lock' = "consumer"
    /\ me' = [Idle EXCEPT !.pc = "requests", !.resumed = Started]
    /\ UNCHANGED <<open, work, readings, evaluations, guard, service, left>>

EndPass == me' = Idle /\ lock' = IF lock = "consumer" THEN "none" ELSE lock

\* stop_reason
MustStop == GuardOpen \/ lock # "consumer" \/ ~Waiting

StopPass ==
    /\ me.pc \in {"requests", "queue"} /\ MustStop
    /\ EndPass
    /\ UNCHANGED <<open, work, readings, evaluations, guard, service, left>>

\* The pass has handled enough; the queue is not served.
LimitReached ==
    /\ me.pc = "requests" /\ me.handled = MaxRequests
    /\ EndPass
    /\ UNCHANGED <<open, work, readings, evaluations, guard, service, left>>

MayTakeRequest == me.pc = "requests" /\ me.handled < MaxRequests /\ ~MustStop

Resume(r) ==
    /\ MayTakeRequest /\ r \in me.resumed
    /\ me' = [me EXCEPT !.pc = IF request[r].st = "reading" THEN "look" ELSE "evaluate",
                        !.case = r, !.resumed = @ \ {r}, !.handled = @ + 1]
    /\ UNCHANGED <<open, work, readings, evaluations, guard, lock, service, left>>

\* The oldest pending request.
Claim(r) ==
    /\ MayTakeRequest /\ me.resumed = {}
    /\ r \in Pending /\ \A q \in Pending : r <= q
    /\ request' = [request EXCEPT ![r].st = "reading"]
    /\ me' = [me EXCEPT !.pc = "look", !.case = r, !.handled = @ + 1]
    /\ UNCHANGED <<open, item, attempts, readings, evaluations, guard, lock, service, left>>

Drained ==
    /\ MayTakeRequest /\ me.resumed = {} /\ Pending = {}
    /\ me' = [me EXCEPT !.pc = "queue"]
    /\ UNCHANGED <<open, work, readings, evaluations, guard, lock, service, left>>

Claimable == IF me.started < MaxAuto THEN Queue \ me.seen ELSE {}

ClaimItem(c) ==
    /\ me.pc = "queue" /\ ~MustStop /\ c \in Claimable
    /\ item' = [item EXCEPT ![c] = "reading"]
    /\ attempts' = [attempts EXCEPT ![c] = @ + 1]
    /\ me' = [me EXCEPT !.pc = "look", !.case = c, !.seen = @ \cup {c}]
    /\ UNCHANGED <<open, request, readings, evaluations, guard, lock, service, left>>

QueueServed ==
    /\ me.pc = "queue" /\ ~MustStop /\ Claimable = {}
    /\ EndPass
    /\ UNCHANGED <<open, work, readings, evaluations, guard, service, left>>

-----------------------------------------------------------------------------
(* How a case ends                                                         *)

Goto(pc) == me' = [me EXCEPT !.pc = pc] /\ UNCHANGED lock

\* Requests.move, ReadingQueue.settle and release
Settle(k, st) ==
    IF k \in Requests
    THEN request' = [request EXCEPT ![k].st = st] /\ UNCHANGED <<item, attempts>>
    ELSE item' = [item EXCEPT ![k] = st] /\ UNCHANGED <<request, attempts>>

\* To the next case of the pass.
Return ==
    /\ me' = [me EXCEPT !.pc = IF me.case \in Requests THEN "requests" ELSE "queue",
                        !.case = None]
    /\ UNCHANGED lock

\* Fail: a request fails, an item has a second attempt in a later pass.
Fail(k) ==
    /\ Settle(k, IF k \in Requests \/ attempts[k] >= MaxAttempts THEN "failed" ELSE "pending")
    /\ Return

\* Uncertain: the case fails, the guard opens and the pass ends.
Doubt(k) ==
    /\ Settle(k, "failed")
    /\ guard' = guard \cup {"main"}
    /\ EndPass

\* Defer: a request stays where it is, an item gets its attempt back.
Defer(k) ==
    /\ Spend("defers")
    /\ IF k \in Requests THEN UNCHANGED work
       ELSE /\ item' = [item EXCEPT ![k] = "pending"]
            /\ attempts' = [attempts EXCEPT ![k] = @ - 1]
            /\ UNCHANGED request
    /\ EndPass

-----------------------------------------------------------------------------
(* The reading of a case                                                   *)

\* pending_reading: the free checks before anything is paid.  A prior attempt is
\* only gone on with when its claim file is in the folder of this very case.
PriorAttempt(k) ==
    /\ row[ConvOf(k)] \in {"running", "cycle", "uncertain", "done"}
    /\ k \notin owner

Read == [me EXCEPT !.pc = "read", !.started = @ + (IF me.case \in Convs THEN 1 ELSE 0)]

LookClosed(k) ==
    /\ ConvOf(k) \notin open
    /\ Settle(k, IF k \in Requests THEN "failed" ELSE "skipped") /\ Return

\* A current reading sends a request on to its evaluation.  An item is skipped,
\* unless it stored the reading itself.
LookCurrent(k) ==
    /\ ConvOf(k) \in open \cap current
    /\ \/ k \in Requests /\ Settle(k, "evaluating") /\ Goto("evaluate")
       \/ k \in Convs /\ outcome[k] = "none" /\ Settle(k, "skipped") /\ Return
       \/ k \in Convs /\ outcome[k] # "none" /\ me' = Read /\ UNCHANGED <<work, lock>>

LookUnread(k) ==
    /\ ConvOf(k) \in open \ current
    /\ IF PriorAttempt(k) THEN Fail(k) ELSE me' = Read /\ UNCHANGED <<work, lock>>

Look ==
    /\ me.pc = "look"
    /\ LookClosed(me.case) \/ LookCurrent(me.case) \/ LookUnread(me.case)
    /\ UNCHANGED <<open, readings, evaluations, guard, service, left>>

\* own_payment_doubt
OwnDoubt(k) == k \in owner \ kept

\* read_case up to its paid call.  What is settled is not repeated; the ficha
\* and the documents can fail, with an outcome (the gate) or without.
Prepare ==
    LET k == me.case
    IN  /\ me.pc = "read"
        /\ \/ /\ outcome[k] # "none" /\ Goto("settle")
              /\ UNCHANGED <<work, outcome, guard, left>>
           \/ outcome[k] = "none" /\ OwnDoubt(k) /\ Doubt(k) /\ UNCHANGED <<outcome, left>>
           \/ /\ outcome[k] = "none" /\ ~OwnDoubt(k)
              /\ \/ Goto("claim") /\ UNCHANGED <<work, outcome, guard, left>>
                 \/ Defer(k) /\ UNCHANGED <<outcome, guard>>
                 \/ /\ Fail(k) /\ UNCHANGED <<guard, left>>
                    /\ \E o \in {"none", "unread"} : outcome' = [outcome EXCEPT ![k] = o]
        /\ UNCHANGED <<open, row, current, reads, owner, kept, evaluations, service>>

\* paid_llm1, claim_evaluation
ClaimReading ==
    LET k == me.case
        c == ConvOf(k)
    IN  /\ me.pc = "claim"
        /\ \/ /\ row[c] \in {"absent", "pending"}
              /\ row' = [row EXCEPT ![c] = "running"] /\ Goto("own") /\ UNCHANGED work
           \/ /\ row[c] \in {"running", "cycle", "uncertain"}
              /\ IF k \in owner \cap kept THEN Goto("complete") /\ UNCHANGED work
                 ELSE Fail(k)
              /\ UNCHANGED row
           \/ row[c] = "done" /\ Goto("persist") /\ UNCHANGED <<row, work>>
        /\ UNCHANGED <<open, current, reads, owner, kept, outcome, evaluations, guard, service, left>>

WriteOwner ==
    /\ me.pc = "own"
    /\ owner' = owner \cup {me.case} /\ Goto("send")
    /\ UNCHANGED <<open, work, row, current, reads, kept, outcome, evaluations, guard, service, left>>

SendReading ==
    /\ me.pc = "send"
    /\ reads' = [reads EXCEPT ![ConvOf(me.case)] = @ + 1]
    /\ Goto("wait")
    /\ UNCHANGED <<open, work, row, current, owner, kept, outcome, evaluations, guard, service, left>>

\* An exception before or after the request left: the row becomes uncertain.  A
\* stop (shutdown, cycle, lost lock) hides the doubt until the next pass.
BreakReading ==
    LET k == me.case
        c == ConvOf(k)
    IN  /\ me.pc \in {"send", "wait"}
        /\ row' = [row EXCEPT ![c] = IF @ = "running" THEN "uncertain" ELSE @]
        /\ \/ Doubt(k) /\ UNCHANGED left
           \/ Defer(k) /\ UNCHANGED guard
        /\ UNCHANGED <<open, current, reads, owner, kept, outcome, evaluations, service>>

ReadingAnswers ==
    /\ me.pc = "wait" /\ Goto("keep")
    /\ UNCHANGED <<open, work, readings, evaluations, guard, service, left>>

\* Gemini answered an HTTP error: the row goes back, then the claim file.
ReadingRefused ==
    LET c == ConvOf(me.case)
    IN  /\ me.pc = "wait" /\ Spend("refusals")
        /\ reads' = [reads EXCEPT ![c] = @ - 1]
        /\ row' = [row EXCEPT ![c] = IF @ = "running" THEN "pending" ELSE @]
        /\ Goto("archive")
        /\ UNCHANGED <<open, work, current, owner, kept, outcome, evaluations, guard, service>>

Archive ==
    /\ me.pc = "archive"
    /\ owner' = owner \ {me.case}
    /\ Fail(me.case)
    /\ UNCHANGED <<open, row, current, reads, kept, outcome, evaluations, guard, service, left>>

\* When the answer cannot be written the row stays running.
KeepReading ==
    LET k == me.case
    IN  /\ me.pc = "keep"
        /\ \/ kept' = kept \cup {k} /\ Goto("complete") /\ UNCHANGED <<work, guard, left>>
           \/ Doubt(k) /\ UNCHANGED <<kept, left>>
           \/ Defer(k) /\ UNCHANGED <<kept, guard>>
        /\ UNCHANGED <<open, row, current, reads, owner, outcome, evaluations, service>>

CompleteReading ==
    /\ me.pc = "complete"
    /\ row' = [row EXCEPT ![ConvOf(me.case)] = "done"]
    /\ Goto("persist")
    /\ UNCHANGED <<open, work, current, reads, owner, kept, outcome, evaluations, guard, service, left>>

PersistReading ==
    /\ me.pc = "persist"
    /\ \/ current' = current \cup {ConvOf(me.case)} /\ Goto("record") /\ UNCHANGED work
       \/ Fail(me.case) /\ UNCHANGED current
    /\ UNCHANGED <<open, row, reads, owner, kept, outcome, evaluations, guard, service, left>>

WriteOutcome ==
    /\ me.pc = "record"
    /\ outcome' = [outcome EXCEPT ![me.case] = "complete"]
    /\ Goto("settle")
    /\ UNCHANGED <<open, work, row, current, reads, owner, kept, evaluations, guard, service, left>>

\* settle_reading, and the move to the evaluation: an item is done before it.
SettleReading ==
    LET k == me.case
    IN  /\ me.pc = "settle"
        /\ IF outcome[k] = "complete" /\ ConvOf(k) \in current
           THEN /\ Settle(k, IF k \in Requests THEN "evaluating" ELSE "done")
                /\ Goto("evaluate")
           ELSE Fail(k)
        /\ UNCHANGED <<open, readings, evaluations, guard, service, left>>

ReadStep ==
    \/ Look \/ Prepare \/ ClaimReading \/ WriteOwner \/ SendReading \/ BreakReading
    \/ ReadingAnswers \/ ReadingRefused \/ Archive \/ KeepReading
    \/ CompleteReading \/ PersistReading \/ WriteOutcome \/ SettleReading

-----------------------------------------------------------------------------
(* An evaluation, in the folder f (evaluate_pair, evaluation_guard.py)     *)

Results == {"evaluated", "busy", "failed", "invalid", "unsaved", "rejected", "doubt", "blocked"}

CallAt(f, at) == call' = [call EXCEPT ![f].at = at]

\* Faulty variant: an expired reservation is taken over.
BeginTakingExpired(f, c) ==
    LET free == ledger[c] = "free" \/ (ledger[c] = "running" /\ c \in late)
    IN  /\ ledger' = IF free THEN [ledger EXCEPT ![c] = "running"] ELSE ledger
        /\ late' = IF free THEN late \ {c} ELSE late
        /\ call' = [call EXCEPT ![f] = [conv |-> c, at |->
             CASE free -> "check"
               [] ledger[c] = "done" -> "completed"
               [] ledger[c] = "uncertain" -> "doubt"
               [] ledger[c] = "failed" -> "failed"
               [] OTHER -> "busy"]]

\* claim_evaluation
Begin(f, c) ==
    LET expired == ledger[c] = "running" /\ c \in late
    IN  /\ ledger' = [ledger EXCEPT ![c] = CASE expired -> "uncertain"
                                            [] @ = "free" -> "running"
                                            [] OTHER -> @]
        /\ late' = IF ledger[c] = "free" THEN late \ {c} ELSE late
        /\ call' = [call EXCEPT ![f] = [conv |-> c, at |->
             CASE ledger[c] = "free" -> "check"
               [] ledger[c] = "done" -> "completed"
               [] ledger[c] = "uncertain" \/ expired -> "doubt"
               [] ledger[c] = "failed" -> "failed"
               [] OTHER -> "busy"]]

\* _check_new_send: nothing is sent beside an open guard or an unresolved
\* receipt of the same folder.
CheckSend(f) ==
    LET c == call[f].conv
        unsent == f \in guard \/ unresolved[f] # {}
    IN  /\ call[f].at = "check"
        /\ IF unsent
           THEN /\ guard' = guard \cup {f}
                /\ CallAt(f, "blocking")
                /\ UNCHANGED <<unresolved, evals>>
           ELSE /\ unresolved' = [unresolved EXCEPT ![f] = {c}]
                /\ evals' = [evals EXCEPT ![c] = @ + 1]
                /\ CallAt(f, "sent")
                /\ UNCHANGED guard
        /\ UNCHANGED <<open, work, readings, ledger, late, match, me, lock, service, left>>

EvaluationAnswers(f) ==
    /\ call[f].at = "sent"
    /\ unresolved' = [unresolved EXCEPT ![f] = {}]
    /\ \/ CallAt(f, "answered") \/ CallAt(f, "mismatch")
    /\ UNCHANGED <<open, work, readings, ledger, late, match, evals, guard, me, lock, service, left>>

\* No answer, or one that cannot be written or read.
EvaluationLost(f) ==
    /\ call[f].at = "sent"
    /\ guard' = guard \cup {f}
    /\ CallAt(f, "guarded")
    /\ UNCHANGED <<open, work, readings, ledger, late, unresolved, match, evals, me, lock, service, left>>

EvaluationRefused(f) ==
    /\ call[f].at = "sent" /\ Spend("refusals")
    /\ unresolved' = [unresolved EXCEPT ![f] = {}]
    /\ evals' = [evals EXCEPT ![call[f].conv] = @ - 1]
    /\ CallAt(f, "refusing")
    /\ UNCHANGED <<open, work, readings, ledger, late, match, guard, me, lock, service>>

\* _set_status: how a reservation ends without a match, if it is still running.
Closing == [blocking |-> [st |-> "free", result |-> "blocked"],
            refusing |-> [st |-> "free", result |-> "rejected"],
            guarded  |-> [st |-> "uncertain", result |-> "doubt"],
            mismatch |-> [st |-> "failed", result |-> "invalid"]]

SetStatus(f) ==
    /\ call[f].at \in DOMAIN Closing
    /\ ledger' = [ledger EXCEPT ![call[f].conv] =
                    IF @ = "running" THEN Closing[call[f].at].st ELSE @]
    /\ CallAt(f, Closing[call[f].at].result)
    /\ UNCHANGED <<open, work, readings, late, unresolved, match, evals, guard, me, lock, service, left>>

\* complete_evaluation: also late, when the reservation is uncertain.
CompleteEvaluation(f) ==
    /\ call[f].at = "answered"
    /\ ledger' = [ledger EXCEPT ![call[f].conv] = "done"]
    /\ CallAt(f, "completed")
    /\ UNCHANGED <<open, work, readings, late, unresolved, match, evals, guard, me, lock, service, left>>

\* persist_match, also of a reservation that was done before.  It raises when the
\* reading asks for nothing but papers (generic): skip_reason lets that through.
PersistMatch(f) ==
    /\ call[f].at = "completed"
    /\ IF call[f].conv \in left.generic
       THEN CallAt(f, "unsaved") /\ UNCHANGED match
       ELSE CallAt(f, "evaluated") /\ match' = match \cup {call[f].conv}
    /\ UNCHANGED <<open, work, readings, ledger, late, unresolved, evals, guard, me, lock, service, left>>

CallStep(f) ==
    \/ CheckSend(f) \/ EvaluationAnswers(f) \/ EvaluationLost(f) \/ EvaluationRefused(f)
    \/ SetStatus(f) \/ CompleteEvaluation(f) \/ PersistMatch(f)

\* The ten minutes of a reservation are over.
LeaseEnds(c) ==
    /\ ledger[c] = "running" /\ c \notin late
    /\ late' = late \cup {c}
    /\ UNCHANGED <<open, work, readings, ledger, unresolved, match, evals, call,
                   guard, me, lock, service, left>>

-----------------------------------------------------------------------------
(* The evaluation of a case                                                *)

\* evaluate_manual and evaluate_auto: closed or already matched is not claimed.
Evaluate ==
    LET k == me.case
        c == ConvOf(k)
        nothing == c \notin open \/ c \in match
    IN  /\ me.pc = "evaluate"
        /\ \/ /\ nothing
              /\ IF k \in Requests
                 THEN Settle(k, IF c \in open THEN "done" ELSE "failed")
                 ELSE UNCHANGED work
              /\ Return
              /\ UNCHANGED <<ledger, late, call>>
           \/ /\ ~nothing
              /\ Begin(Folder(k), c) /\ Goto("evaluating")
              /\ UNCHANGED work
        /\ UNCHANGED <<open, readings, unresolved, match, evals, guard, service, left>>

\* finish: a request whose reservation is busy elsewhere stays for a later pass.
FinishRequest(k, result) ==
    CASE result = "evaluated" -> Settle(k, "done") /\ Return /\ UNCHANGED guard
      [] result \in {"failed", "invalid", "unsaved"} -> Settle(k, "failed") /\ Return /\ UNCHANGED guard
      [] result = "busy" -> Return /\ UNCHANGED <<work, guard>>
      [] result = "rejected" -> EndPass /\ UNCHANGED <<work, guard>>
      [] OTHER -> Doubt(k)

\* evaluate_auto: the item is done already, whatever comes of its evaluation.
FinishItem(result) ==
    /\ CASE result \in {"doubt", "blocked"} -> guard' = guard \cup {"main"} /\ EndPass
         [] result = "rejected" -> EndPass /\ UNCHANGED guard
         [] OTHER -> Return /\ UNCHANGED guard
    /\ UNCHANGED work

Finish ==
    LET f == Folder(me.case)
    IN  /\ me.pc = "evaluating" /\ call[f].at \in Results
        /\ IF me.case \in Requests THEN FinishRequest(me.case, call[f].at)
           ELSE FinishItem(call[f].at)
        /\ call' = [call EXCEPT ![f] = NoCall]
        /\ UNCHANGED <<open, readings, ledger, late, unresolved, match, evals, service, left>>

PassStep ==
    \/ StopPass \/ LimitReached \/ Drained \/ QueueServed \/ ReadStep \/ Evaluate \/ Finish
    \/ \E r \in Requests : Resume(r) \/ Claim(r)
    \/ \E c \in Convs : ClaimItem(c)

-----------------------------------------------------------------------------
(* The service: a cycle, then the evaluator, then it waits                 *)

\* The next cycle is near.  A day lies between two cycles: all but a few of them
\* (hurries) come when the consumer has nothing it may do.
Imminent ==
    /\ svc = "waiting"
    /\ \/ /\ me.pc = "idle"
          /\ GuardOpen \/ Started \cup Pending \cup Queue = {}
          /\ UNCHANGED left
       \/ Spend("hurries")
    /\ svc' = "imminent"
    /\ UNCHANGED <<open, work, readings, evaluations, guard, me, lock, todo>>

\* The runner needs the executor lock; without it the service stops for review.
CycleStart ==
    /\ svc = "imminent" /\ todo = {} /\ call["service"] = NoCall
    /\ \/ lock = "none" /\ lock' = "cycle" /\ svc' = "running"
       \/ lock = "consumer" /\ svc' = "stopped" /\ UNCHANGED lock
    /\ UNCHANGED <<open, work, readings, evaluations, guard, me, todo, left>>

\* Without the queue the cycle reads what nobody has tried to read.
CycleReads(c) ==
    /\ svc = "running" /\ ~left.queue /\ Spend("tries")
    /\ c \in open /\ row[c] = "absent"
    /\ row' = [row EXCEPT ![c] = "cycle"]
    /\ reads' = [reads EXCEPT ![c] = @ + 1]
    /\ UNCHANGED <<open, work, current, owner, kept, outcome, evaluations, guard,
                   me, lock, service>>

CycleAnswers(c) ==
    /\ svc = "running" /\ row[c] = "cycle"
    /\ row' = [row EXCEPT ![c] = "done"]
    /\ \/ current' = current \cup {c} \/ UNCHANGED current
    /\ UNCHANGED <<open, work, reads, owner, kept, outcome, evaluations, guard,
                   me, lock, service, left>>

\* enqueue_reading: an existing item keeps its status.
CycleEnqueues(c) ==
    /\ svc = "running" /\ left.queue /\ c \in open /\ row[c] = "absent" /\ item[c] = "none"
    /\ item' = [item EXCEPT ![c] = "pending"]
    /\ UNCHANGED <<open, request, attempts, readings, evaluations, guard, me, lock, service, left>>

CycleEnds ==
    /\ svc = "running" /\ \A c \in Convs : row[c] # "cycle"
    /\ svc' = "planning" /\ lock' = "none"
    /\ UNCHANGED <<open, work, readings, evaluations, guard, me, todo, left>>

\* The cycle dies or leaves a doubt: its state is not resumed.
CycleStops ==
    /\ svc = "running" /\ Spend("crashes")
    /\ svc' = "stopped" /\ lock' = "none"
    /\ UNCHANGED <<open, work, readings, evaluations, guard, me, todo>>

\* Faulty variant: what the reading queue knows is left to its own evaluation.
PlanUnqueued ==
    /\ svc = "planning"
    /\ svc' = "waiting"
    /\ todo' = {c \in current \cap open : c \notin match /\ item[c] = "none"}
    /\ UNCHANGED <<open, work, readings, evaluations, guard, me, lock, left>>

Plan ==
    /\ svc = "planning"
    /\ svc' = "waiting"
    /\ todo' = {c \in current \cap open : c \notin match}
    /\ UNCHANGED <<open, work, readings, evaluations, guard, me, lock, left>>

TakePair(c) ==
    /\ c \in todo /\ call["service"] = NoCall
    /\ Begin("service", c)
    /\ todo' = todo \ {c}
    /\ UNCHANGED <<open, work, readings, unresolved, match, evals, guard, me, lock, svc, left>>

\* run: the first rejection or doubt ends it, and an exception does.
PairEnds ==
    /\ call["service"].at \in Results
    /\ todo' = IF call["service"].at \in {"unsaved", "rejected", "doubt", "blocked"}
             THEN {} ELSE todo
    /\ call' = [call EXCEPT !["service"] = NoCall]
    /\ UNCHANGED <<open, work, readings, ledger, late, unresolved, match, evals, guard,
                   me, lock, svc, left>>

ServiceStep ==
    \/ CycleStart \/ CycleEnds \/ CycleStops \/ Plan \/ PairEnds
    \/ \E c \in Convs : CycleReads(c) \/ CycleAnswers(c) \/ CycleEnqueues(c) \/ TakePair(c)

-----------------------------------------------------------------------------
(* The web, time and failures                                              *)

ActiveFor(c) == \E r \in Started \cup Pending : request[r].conv = c

\* requestMajorGrading: open and not graded; one active request per pair.
AskFor(r, c) ==
    /\ Spend("asks")
    /\ request[r].st = "none" /\ \A q \in Requests : q < r => request[q].st # "none"
    /\ c \in open \ match /\ ~ActiveFor(c)
    /\ request' = [request EXCEPT ![r] = [conv |-> c, st |-> "pending"]]
    /\ UNCHANGED <<open, item, attempts, readings, evaluations, guard, me, lock, service>>

Close(c) ==
    /\ c \in open /\ Spend("closes")
    /\ open' = open \ {c}
    /\ UNCHANGED <<work, readings, evaluations, guard, me, lock, service>>

\* The connection that holds the lock breaks; the work goes on until it looks.
LoseLock ==
    /\ lock = "consumer" /\ Spend("locks")
    /\ lock' = "none"
    /\ UNCHANGED <<open, work, readings, evaluations, guard, me, service>>

Crash ==
    /\ me.pc # "idle" /\ Spend("crashes")
    /\ EndPass
    /\ call' = [call EXCEPT !["manual"] = NoCall, !["auto"] = NoCall]
    /\ UNCHANGED <<open, work, readings, ledger, late, unresolved, match, evals, guard, service>>

\* The evaluator dies, or the service before it started it.
EvaluatorDies ==
    /\ call["service"] # NoCall \/ svc = "planning"
    /\ Spend("crashes")
    /\ call' = [call EXCEPT !["service"] = NoCall]
    /\ todo' = {}
    /\ svc' = IF svc = "planning" THEN "waiting" ELSE svc
    /\ UNCHANGED <<open, work, readings, ledger, late, unresolved, match, evals, guard, me, lock>>

Init ==
    /\ left \in Bounds
    /\ open = left.convs
    /\ request = [r \in Requests |-> [conv |-> None, st |-> "none"]]
    /\ \E P \in SUBSET (open \ left.stored) :
         /\ item = [c \in Convs |-> IF c \in P THEN "pending" ELSE "none"]
         /\ P = {} \/ left.queue
    /\ attempts = [c \in Convs |-> 0]
    /\ current = left.stored /\ reads = attempts
    /\ row = [c \in Convs |-> IF c \in current THEN "done" ELSE "absent"]
    /\ owner = {} /\ kept = {} /\ outcome = [k \in Cases |-> "none"]
    /\ ledger = [c \in Convs |-> "free"] /\ late = {} /\ match = {} /\ evals = attempts
    /\ unresolved = [f \in Folders |-> {}] /\ call = [f \in Folders |-> NoCall]
    /\ guard = {} /\ me = Idle /\ lock = "none"
    /\ svc = "waiting" /\ todo = {}

\* The consumer and the service are sequential programs.
Consumer == BeginPass \/ PassStep \/ CallStep("manual") \/ CallStep("auto")
Service == Imminent \/ ServiceStep \/ CallStep("service")

Next ==
    \/ Consumer \/ Service
    \/ \E r \in Requests : Expire(r) \/ \E c \in Convs : AskFor(r, c)
    \/ \E c \in Convs : Recover(c) \/ SkipClosed(c) \/ LeaseEnds(c) \/ Close(c)
    \/ LoseLock \/ Crash \/ EvaluatorDies

\* The two programs run on, leases and days end; nothing is assumed of the web,
\* of failures, and of the windows.
Fairness ==
    /\ WF_vars(Consumer) /\ WF_vars(Service)
    /\ \A r \in Requests : WF_vars(Expire(r))
    /\ \A c \in Convs : WF_vars(Recover(c)) /\ WF_vars(LeaseEnds(c))

Spec == Init /\ [][Next]_vars /\ Fairness

-----------------------------------------------------------------------------
(* Properties                                                              *)

\* The type of the state.
ConsumerTypeOK ==
    /\ open \subseteq Convs
    /\ request \in [Requests -> [conv : Convs \cup {None},
                      st : {"none", "pending", "reading", "evaluating", "done", "failed"}]]
    /\ item \in [Convs -> {"none", "pending", "reading", "done", "failed", "skipped"}]
    /\ attempts \in [Convs -> Nat]
    /\ row \in [Convs -> {"absent", "running", "cycle", "uncertain", "pending", "done"}]
    /\ current \subseteq Convs /\ reads \in [Convs -> Nat]
    /\ owner \subseteq Cases /\ kept \subseteq owner
    /\ outcome \in [Cases -> {"none", "unread", "complete"}]
    /\ ledger \in [Convs -> {"free", "running", "uncertain", "failed", "done"}]
    /\ late \subseteq Convs /\ match \subseteq Convs /\ evals \in [Convs -> Nat]
    /\ unresolved \in [Folders -> SUBSET Convs]
    /\ \A f \in Folders : call[f].at # "none" <=> call[f].conv \in Convs
    /\ guard \subseteq Folders \cup {"main"}
    /\ me.case \in Cases \cup {None} /\ me.resumed \subseteq Requests
    /\ me.handled \in 0..MaxRequests /\ me.started \in 0..MaxAuto /\ me.seen \subseteq Convs
    /\ lock \in {"none", "consumer", "cycle"}
    /\ svc \in {"planning", "waiting", "imminent", "running", "stopped"}
    /\ todo \subseteq Convs

\* "Resuming a request after a crash replays what was answered and never sends
\* again" (manual_grading.py:22): whoever works for a convocatoria, requests,
\* the queue, the cycle or the evaluator, its reading and its evaluation are
\* each sent once, unless the provider refused them.
PaidOnce == \A c \in Convs : reads[c] <= 1 /\ evals[c] <= 1

\* "No pass sends anything until an operator reviews it": while a guard of the
\* consumer is open it sends neither a reading nor an evaluation.
SendsStopAtDoubt ==
    [][guard \cap {"main", "manual", "auto"} # {} =>
         /\ ~(me.pc = "send" /\ me'.pc = "wait")
         /\ \A f \in {"manual", "auto"} : ~(call[f].at = "check" /\ call'[f].at = "sent")]_vars

\* A started request ends, also behind an open guard or a stopped service; all
\* other work ends unless one of the two keeps the consumer from it.
Ended(r) == request[r].st \in {"done", "failed"}
WorkEnds ==
    /\ \A r \in Requests : (r \in Started \cup Pending) ~>
         (Ended(r) \/ (r \in Pending /\ (GuardOpen \/ svc = "stopped")))
    /\ \A c \in Convs : (item[c] \in {"pending", "reading"}) ~>
         (item[c] \in {"done", "failed", "skipped"} \/ GuardOpen \/ svc = "stopped")

\* "What is not evaluated now is picked up by the service's own evaluation after
\* its next cycle" (evaluate_auto): an item that was read is graded, unless the
\* answer was no use or some evaluation is in doubt.  An open convocatoria whose
\* match cannot be stored ends every run of the evaluator that comes to it.
ReadingsGetGraded ==
    \A c \in Convs : (item[c] = "done") ~>
        \/ c \in match \/ c \notin open \/ ledger[c] = "failed"
        \/ \E d \in Convs : ledger[d] = "uncertain"
        \/ "service" \in guard \/ svc = "stopped"
        \/ left.generic \cap open # {}
=============================================================================
