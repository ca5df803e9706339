---------------------------- MODULE Prod2Payments ----------------------------
(***************************************************************************)
(* The paid calls of a PROD2 run: the threads of run_prod2_selected.py     *)
(* take cases from the staging queue (staging.py), reserve provider calls  *)
(* (selected_control.py), claim each request in PostgreSQL, keep an owner  *)
(* file and a response file beside it, and never pay a request again       *)
(* (selected_payments.py, accepted_runner.py, selected_read.py).           *)
(*                                                                         *)
(* A case is a sequence of requests: its affinity, and if that accepts the *)
(* case, the selection of its documents and their reading (llm1).          *)
(* Requests of two cases may be equal, and then share their row, but not   *)
(* their files.  One run at a time: the executor's advisory lock.          *)
(***************************************************************************)
EXTENDS Integers, Sequences, FiniteSets, SequencesExt

CONSTANTS
    Cases,
    Campaigns,           \* what may be run: the cases it stages, its model_workers
    Requests,            \* by their hash
    Kind,                \* Kind[r]: "affinity", "selector" or "llm1"
    Plan,                \* Plan[c]: its requests; more than one: c is accepted
    Backup,              \* Backup[r]: the same reading by the fallback model
    None,                \* no request
    Threads,             \* processing_workers
    Maximum,            \* Maximum[p]: max_jev_calls and max_llm1_calls
    MaxAccepted,         \* max_accepted
    OfficialLinks,       \* the storage and input policies, official links and no
                         \* embeddings, that enable reuse_completed_read
    MaxStarts, MaxFolders    \* bounds

Providers == {"jev", "llm1"}

ASSUME PaymentsAssumption ==
    /\ Campaigns \subseteq [cases : SUBSET Cases, model_workers : Nat \ {0}]
    /\ Kind \in [Requests -> {"affinity", "selector", "llm1"}]
    /\ Plan \in [Cases -> Seq(Requests)]
    /\ Backup \in [Requests -> Requests \cup {None}] /\ None \notin Requests
    /\ Maximum \in [Providers -> Nat]
    /\ {MaxAccepted, MaxStarts} \subseteq Nat /\ MaxFolders \in Nat \ {0}
    /\ OfficialLinks \in BOOLEAN
    /\ IsFiniteSet(Threads)

\* Requests of two cases may be equal, but the reservation of a reading names
\* its convocatoria and its model (evaluation_key): it is of one case, and no
\* reading but its own has the same fallback.  A selection is always read.
ASSUME PlansAssumption ==
    /\ \A c \in Cases :
         /\ Plan[c] # <<>> /\ Kind[Plan[c][1]] = "affinity"
         /\ \A i \in 1..Len(Plan[c]) : Kind[Plan[c][i]] = "selector" => i < Len(Plan[c])
    /\ \A c, d \in Cases : \A i \in 1..Len(Plan[c]), j \in 1..Len(Plan[d]) :
         Plan[c][i] = Plan[d][j] /\ Kind[Plan[c][i]] = "llm1" => c = d /\ i = j
    /\ \A r \in Requests : Backup[r] # None =>
         /\ Kind[r] = "llm1" /\ Kind[Backup[r]] = "llm1"
         /\ \A c \in Cases : \A i \in 1..Len(Plan[c]) : Plan[c][i] # Backup[r]
         /\ Backup[Backup[r]] = None
         /\ \A q \in Requests : Backup[q] = Backup[r] => q = r

VARIABLES
    stage,      \* Redis: "absent", "queued", "pending" or "done"
    outcome,    \* outcome.private.json of the case in the current folder
    accepted,   \* the accepted members of the run
    row,        \* PostgreSQL: [st |-> status, token |-> claim_token]
    current,    \* the readings stored as the current extraction
    owner,      \* owner[c][r]: the token in the claim file, 0 without file
    response,   \* response[c][r]: the send whose answer is in the file, or 0
    thread,     \* the threads of the run
    calls, reserved,  \* RunLimits, per provider
    stop,       \* the STOP event
    audit,      \* started receipts of the current folder, per provider
    sends,      \* truth: every request that left, and whether it was billed
    saved,      \* history: the sends whose answer was written to a file
    claims,     \* the last token
    starts, folder,  \* how often the program started; the current folder
    slots       \* model_workers, which the manifest of a folder freezes; a new
                \* run is started with the same arguments

database == <<row, current, claims>>
files    == <<outcome, owner, response, audit, saved>>
limits   == <<calls, reserved>>
process  == <<stop, starts, folder, slots>>
vars == <<stage, accepted, database, files, thread, limits, process, sends>>

Gone == [pc |-> "gone", case |-> None, i |-> 0, req |-> None,
         permit |-> "none", token |-> 0]
Idle == [Gone EXCEPT !.pc = "idle"]

Provider(r) == IF Kind[r] = "llm1" THEN "llm1" ELSE "jev"

Alternatives(r) == {r, Backup[r]} \cap Requests

Inside(t) == thread[t].pc \in {"claim", "own", "issue", "start", "send", "sent",
                               "answered", "complete", "release", "rename"}

\* A thread keeps the lock of its request until it has left the section.
Locked(t) == thread[t].pc = "slot" \/ Inside(t)

\* The permit is closed on the way out of the section, used or not.
Leave(t, next) ==
    LET p == Provider(thread[t].req)
    IN  /\ thread' = [thread EXCEPT ![t] = next]
        /\ reserved' = IF thread[t].permit = "held"
                       THEN [reserved EXCEPT ![p] = @ - 1] ELSE reserved
        /\ UNCHANGED calls

Outside(t, pc) == [thread[t] EXCEPT !.pc = pc, !.permit = "none", !.token = 0]

Goto(t, pc) ==
    /\ thread' = [thread EXCEPT ![t].pc = pc]
    /\ UNCHANGED limits

-----------------------------------------------------------------------------
(* The staging queue                                                       *)

\* staging.next; on STOP the reservation is left for the next recover.
TakeCase(t) ==
    /\ thread[t] = Idle /\ ~stop
    /\ \E c \in Cases :
         /\ stage[c] = "queued"
         /\ stage' = [stage EXCEPT ![c] = "pending"]
         /\ thread' = [thread EXCEPT ![t] = [Idle EXCEPT !.pc = "case", !.case = c]]
    /\ UNCHANGED <<accepted, database, files, limits, process, sends>>

Quit(t) ==
    /\ \/ thread[t] = Idle /\ (stop \/ \A c \in Cases : stage[c] # "queued")
       \/ thread[t].pc = "case" /\ stop
    /\ thread' = [thread EXCEPT ![t] = Gone]
    /\ UNCHANGED <<stage, accepted, database, files, limits, process, sends>>

CanProcess(c) == c \in accepted \/ Cardinality(accepted) < MaxAccepted

\* A case with an outcome is acked, one over max_accepted stays pending.
OpenCase(t) ==
    LET c == thread[t].case
    IN  /\ thread[t].pc = "case" /\ ~stop
        /\ thread' = [thread EXCEPT ![t] =
             CASE outcome[c] # "none" -> [Idle EXCEPT !.pc = "ack", !.case = c]
               [] outcome[c] = "none" /\ ~CanProcess(c) -> Gone
               [] OTHER -> [Idle EXCEPT !.pc = "want", !.case = c, !.i = 1,
                                        !.req = Plan[c][1]]]
        /\ UNCHANGED <<stage, accepted, database, files, limits, process, sends>>

Ack(t) ==
    /\ thread[t].pc = "ack"
    /\ stage' = [stage EXCEPT ![thread[t].case] = "done"]
    /\ thread' = [thread EXCEPT ![t] = Idle]
    /\ UNCHANGED <<accepted, database, files, limits, process, sends>>

WriteOutcome(t, pc, value) ==
    /\ thread[t].pc = pc
    /\ outcome' = [outcome EXCEPT ![thread[t].case] = value]
    /\ thread' = [thread EXCEPT ![t] = [Idle EXCEPT !.pc = "ack", !.case = thread[t].case]]
    /\ UNCHANGED <<stage, accepted, database, owner, response, audit, saved,
                   limits, process, sends>>

\* Any exception of the case, LimitReached included: needs_review.
Review(t) == WriteOutcome(t, "fail", "review")

\* LimitReached while the proxy is down.
LeavePending(t) ==
    /\ thread[t].pc = "fail" /\ stop
    /\ thread' = [thread EXCEPT ![t] = Gone]
    /\ UNCHANGED <<stage, accepted, database, files, limits, process, sends>>

Reject(t) == WriteOutcome(t, "rejected", "rejected_below_60")

Finish(t) == WriteOutcome(t, "finished", "complete")

-----------------------------------------------------------------------------
(* Permits                                                                 *)

\* reserve_request
Capacity(p) == calls[p] + reserved[p] < Maximum[p]

\* limits.model: first the lock of the request; with it, the thread waits for
\* one of the slots.
TakeLock(t) ==
    /\ thread[t].pc = "want"
    /\ \A u \in Threads : Locked(u) => thread[u].req # thread[t].req
    /\ Goto(t, "slot")
    /\ UNCHANGED <<stage, accepted, database, files, process, sends>>

MayEnter(t) ==
    /\ thread[t].pc = "slot"
    /\ Cardinality({u \in Threads : Inside(u)}) < slots

EnterWithPermit(t) ==
    LET p == Provider(thread[t].req)
    IN  /\ MayEnter(t) /\ Capacity(p)
        /\ reserved' = [reserved EXCEPT ![p] = @ + 1]
        /\ thread' = [thread EXCEPT ![t].pc = "claim", ![t].permit = "held"]
        /\ UNCHANGED <<stage, accepted, database, files, calls, process, sends>>

\* provider_permission without capacity: a finished row, or an own answer that
\* only has to be recorded, can still be used.
Recoverable(c, r) ==
    \/ row[r].st = "done"
    \/ /\ row[r].st \in {"running", "uncertain"}
       /\ response[c][r] # 0
       /\ owner[c][r] # 0 /\ owner[c][r] = row[r].token

\* Faulty variant: a thread without capacity waits for the other permits.
EnterWithoutPermitWaiting(t) ==
    LET r == thread[t].req
    IN  /\ MayEnter(t) /\ ~Capacity(Provider(r))
        /\ Recoverable(thread[t].case, r)
        /\ Goto(t, "claim")
        /\ UNCHANGED <<stage, accepted, database, files, process, sends>>

EnterWithoutPermit(t) ==
    LET r == thread[t].req
    IN  /\ MayEnter(t) /\ ~Capacity(Provider(r))
        /\ Goto(t, IF Recoverable(thread[t].case, r) THEN "claim" ELSE "fail")
        /\ UNCHANGED <<stage, accepted, database, files, process, sends>>

-----------------------------------------------------------------------------
(* One paid call, in its section                                           *)

\* claim_selection, claim_jev, claim_evaluation: the row is free.
Claim(t) ==
    LET r == thread[t].req
    IN  /\ thread[t].pc = "claim" /\ row[r].st \in {"absent", "pending"}
        /\ claims' = claims + 1
        /\ row' = [row EXCEPT ![r] = [st |-> "running", token |-> claims']]
        /\ thread' = [thread EXCEPT ![t].pc = "own", ![t].token = claims']
        /\ UNCHANGED <<stage, accepted, current, files, limits, process, sends>>

\* The row is blocked, and a running one may have expired by now.  The owner
\* and response files of this very case can still end it.
ClaimBlocked(t) ==
    LET r == thread[t].req
        c == thread[t].case
    IN  /\ thread[t].pc = "claim" /\ row[r].st \in {"running", "uncertain"}
        /\ \/ row[r].st = "running" /\ row' = [row EXCEPT ![r].st = "uncertain"]
           \/ UNCHANGED row
        /\ IF owner[c][r] # 0 /\ response[c][r] # 0
           THEN /\ thread' = [thread EXCEPT ![t].pc = "complete", ![t].token = owner[c][r]]
                /\ UNCHANGED limits
           ELSE Leave(t, Outside(t, "fail"))
        /\ UNCHANGED <<stage, accepted, current, claims, files, process, sends>>

ClaimCached(t) ==
    /\ thread[t].pc = "claim" /\ row[thread[t].req].st = "done"
    /\ Leave(t, Outside(t, "paid"))
    /\ UNCHANGED <<stage, accepted, database, files, process, sends>>

\* private_write of the claim: it never overwrites an owner file.
WriteOwner(t) ==
    LET r == thread[t].req
        c == thread[t].case
    IN  /\ thread[t].pc = "own"
        /\ \/ /\ owner[c][r] = 0
              /\ owner' = [owner EXCEPT ![c][r] = thread[t].token]
              /\ Goto(t, IF response[c][r] # 0 THEN "complete" ELSE "issue")
           \/ Leave(t, Outside(t, "fail")) /\ UNCHANGED owner
        /\ UNCHANGED <<stage, accepted, database, outcome, response, audit,
                       saved, process, sends>>

\* guarded_issue and _Permit.issue
Issue(t) ==
    LET p == Provider(thread[t].req)
    IN  /\ thread[t].pc = "issue" /\ ~stop /\ thread[t].permit = "held"
        /\ reserved' = [reserved EXCEPT ![p] = @ - 1]
        /\ calls' = [calls EXCEPT ![p] = @ + 1]
        /\ thread' = [thread EXCEPT ![t].pc = "start", ![t].permit = "used"]
        /\ UNCHANGED <<stage, accepted, database, files, process, sends>>

\* Faulty variant: the request leaves before its started receipt.
WriteStartedLate(t) ==
    /\ thread[t].pc = "start"
    /\ Goto(t, "send")
    /\ UNCHANGED <<stage, accepted, database, files, process, sends>>

WriteStarted(t) ==
    /\ thread[t].pc = "start"
    /\ audit' = [audit EXCEPT ![Provider(thread[t].req)] = @ + 1]
    /\ Goto(t, "send")
    /\ UNCHANGED <<stage, accepted, database, outcome, owner, response, saved,
                   process, sends>>

Send(t) ==
    /\ thread[t].pc = "send"
    /\ sends' = Append(sends, [req |-> thread[t].req, st |-> "flying", folder |-> folder])
    /\ Goto(t, "sent")
    /\ UNCHANGED <<stage, accepted, database, files, process>>

\* The request that t waits for: the last of its hash.
SendOf(t) == SelectLastInSeq(sends, LAMBDA s : s.req = thread[t].req)

\* The provider bills a request at any time after it left.
Bill(n) ==
    /\ sends[n].st = "flying"
    /\ sends' = [sends EXCEPT ![n].st = "charged"]
    /\ UNCHANGED <<stage, accepted, database, files, thread, limits, process>>

Answer(t) ==
    /\ thread[t].pc = "sent"
    /\ sends' = [sends EXCEPT ![SendOf(t)].st = "charged"]
    /\ Goto(t, "answered")
    /\ UNCHANGED <<stage, accepted, database, files, process>>

\* SelectedProviderRejected: Gemini answered an HTTP error, nothing is billed.
ProviderRejects(t) ==
    /\ thread[t].pc = "sent" /\ Kind[thread[t].req] = "llm1"
    /\ sends[SendOf(t)].st = "flying"
    /\ sends' = [sends EXCEPT ![SendOf(t)].st = "free"]
    /\ Goto(t, "release")
    /\ UNCHANGED <<stage, accepted, database, files, process>>

MarkUncertain(t) ==
    LET r == thread[t].req
    IN  row' = IF row[r] = [st |-> "running", token |-> thread[t].token]
               THEN [row EXCEPT ![r].st = "uncertain"] ELSE row

\* An exception around the call, before or after it left, or on STOP.
Break(t) ==
    /\ thread[t].pc \in {"issue", "start", "sent"}
    /\ MarkUncertain(t)
    /\ Leave(t, Outside(t, "fail"))
    /\ UNCHANGED <<stage, accepted, current, claims, files, process, sends>>

\* The answer is saved before anything uses it; only the selector marks its row
\* when that fails, the other two leave it running until it expires.
WriteResponse(t) ==
    LET r == thread[t].req
        c == thread[t].case
    IN  /\ thread[t].pc = "answered"
        /\ \/ /\ response[c][r] = 0
              /\ response' = [response EXCEPT ![c][r] = SendOf(t)]
              /\ saved' = saved \cup {SendOf(t)}
              /\ Goto(t, "complete")
              /\ UNCHANGED row
           \/ /\ Leave(t, Outside(t, "fail"))
              /\ IF Kind[r] = "selector" THEN MarkUncertain(t) ELSE UNCHANGED row
              /\ UNCHANGED <<response, saved>>
        /\ UNCHANGED <<stage, accepted, current, claims, outcome, owner, audit,
                       process, sends>>

\* complete_selection, complete_jev, complete_evaluation: only with the token of
\* the row, and also late, when the row is uncertain.
Complete(t) ==
    LET r == thread[t].req
    IN  /\ thread[t].pc = "complete"
        /\ \/ /\ row[r].token = thread[t].token /\ row[r].st \in {"running", "uncertain"}
              /\ row' = [row EXCEPT ![r].st = "done"]
              /\ Leave(t, Outside(t, "paid"))
           \/ /\ Leave(t, Outside(t, "fail"))
              /\ IF Kind[r] = "selector" THEN MarkUncertain(t) ELSE UNCHANGED row
        /\ UNCHANGED <<stage, accepted, current, claims, files, process, sends>>

\* paid_llm1 after a rejection: first the row goes back, then the owner file.
Release(t) ==
    LET r == thread[t].req
    IN  /\ thread[t].pc = "release"
        /\ row' = IF row[r] = [st |-> "running", token |-> thread[t].token]
                  THEN [row EXCEPT ![r] = [st |-> "pending", token |-> 0]] ELSE row
        /\ Goto(t, "rename")
        /\ UNCHANGED <<stage, accepted, current, claims, files, process, sends>>

\* On a saturation code the reading goes to the fallback model, as a request of
\* its own; any other code, or no fallback model, ends the case.
Rename(t) ==
    LET r == thread[t].req
    IN  /\ thread[t].pc = "rename"
        /\ owner' = [owner EXCEPT ![thread[t].case][r] = 0]
        /\ \/ Leave(t, Outside(t, "fail"))
           \/ Backup[r] # None /\ Leave(t, [Outside(t, "want") EXCEPT !.req = Backup[r]])
        /\ UNCHANGED <<stage, accepted, database, outcome, response, audit,
                       saved, process, sends>>

-----------------------------------------------------------------------------
(* From one request of a case to the next                                  *)

\* The affinity is known: below the threshold the case ends; else admit takes
\* a place of max_accepted under the lock, or the case stays pending.  Both write
\* a member of the run in one transaction, which may fail.
RejectBelow(t) ==
    /\ thread[t].pc = "paid" /\ thread[t].i = 1 /\ Len(Plan[thread[t].case]) = 1
    /\ \E pc \in {"rejected", "fail"} : Goto(t, pc)
    /\ UNCHANGED <<stage, accepted, database, files, process, sends>>

Admit(t) ==
    LET c == thread[t].case
    IN  /\ thread[t].pc = "paid" /\ thread[t].i = 1 /\ Len(Plan[c]) > 1
        /\ \/ /\ CanProcess(c) /\ Goto(t, "accepted")
              /\ accepted' = accepted \cup {c}
           \/ CanProcess(c) /\ Goto(t, "fail") /\ UNCHANGED accepted
           \/ /\ ~CanProcess(c) /\ thread' = [thread EXCEPT ![t] = Gone]
              /\ UNCHANGED <<accepted, limits>>
        /\ UNCHANGED <<stage, database, files, process, sends>>

\* enrich: ficha, documents and preparation can fail before the next request.  A
\* case of low affinity, or with an earlier reading, ends unread.
Proceed(t) ==
    LET c == thread[t].case
        j == thread[t].i + 1
    IN  /\ \/ thread[t].pc = "accepted"
           \/ thread[t].pc = "paid" /\ Kind[thread[t].req] = "selector"
        /\ \/ Goto(t, "fail")
           \/ thread[t].pc = "accepted" /\ Goto(t, "finished")
           \/ /\ thread' = [thread EXCEPT ![t].i = j, ![t].req = Plan[c][j],
                    ![t].pc = IF OfficialLinks /\ Kind[Plan[c][j]] = "llm1"
                              THEN "reuse" ELSE "want"]
              /\ UNCHANGED limits
        /\ UNCHANGED <<stage, accepted, database, files, process, sends>>

Done(R) == {r \in R : row[r].st = "done"}

\* The proxy is down: the run stops, and the case stays pending.
EgressFails(t) ==
    /\ \/ thread[t].pc = "accepted"
       \/ thread[t].pc = "paid" /\ Kind[thread[t].req] = "selector"
    /\ stop' = TRUE
    /\ thread' = [thread EXCEPT ![t] = Gone]
    /\ UNCHANGED <<stage, accepted, database, files, limits, starts, folder, slots, sends>>

\* A stored reading by the routed model is adopted; one that was paid and is
\* not the current extraction ends the case.
AfterReuse(r, otherwise) ==
    LET paid == {a \in Alternatives(r) : row[a].st = "done"}
    IN  IF r \in paid \cap current THEN "persist"
        ELSE IF paid # {} /\ paid \cap current = {} THEN "fail"
        ELSE otherwise

\* Faulty variant: an unresolved reservation does not stop the reading.
ReuseIgnoringUnresolved(t) ==
    /\ thread[t].pc = "reuse"
    /\ Goto(t, AfterReuse(thread[t].req, "want"))
    /\ UNCHANGED <<stage, accepted, database, files, process, sends>>

\* reuse_completed_read, _no_hit: no reading while a reservation is unresolved.
Reuse(t) ==
    LET r == thread[t].req
        unresolved == \E a \in Alternatives(r) :
                         row[a].st \in {"pending", "running", "uncertain"}
    IN  /\ thread[t].pc = "reuse"
        /\ Goto(t, AfterReuse(r, IF unresolved THEN "fail" ELSE "want"))
        /\ UNCHANGED <<stage, accepted, database, files, process, sends>>

\* persist_completed_llm1
Persist(t) ==
    LET r == thread[t].req
    IN  /\ \/ thread[t].pc = "persist"
           \/ thread[t].pc = "paid" /\ Kind[r] = "llm1"
        /\ \/ /\ current' = (current \ Alternatives(r)) \cup {r}
              /\ Goto(t, "finished")
           \/ Goto(t, "fail") /\ UNCHANGED current
        /\ UNCHANGED <<stage, accepted, row, claims, files, process, sends>>

-----------------------------------------------------------------------------
(* The program                                                             *)

\* A signal, or SEACE blocking the address.
Stop ==
    /\ ~stop /\ \E t \in Threads : thread[t] # Gone
    /\ stop' = TRUE
    /\ UNCHANGED <<stage, accepted, database, files, thread, limits, starts,
                   folder, slots, sends>>

Crash ==
    /\ \E t \in Threads : thread[t] # Gone
    /\ thread' = [t \in Threads |-> Gone]
    /\ UNCHANGED <<stage, accepted, database, files, limits, process, sends>>

NoFiles == [c \in Cases |-> [r \in Requests |-> 0]]

\* main: recover and the limits, seeded from the members and the receipts of
\* the folder; or the same cases staged by a new run, in a folder of its own.
Start(fresh) ==
    /\ \A t \in Threads : thread[t] = Gone
    /\ starts < MaxStarts
    /\ starts' = starts + 1
    /\ thread' = [t \in Threads |-> Idle]
    /\ stop' = FALSE
    /\ reserved' = [p \in Providers |-> 0]
    /\ IF fresh
       THEN /\ 0 < starts /\ folder < MaxFolders
            /\ folder' = folder + 1
            /\ stage' = [c \in Cases |-> IF stage[c] = "absent" THEN "absent" ELSE "queued"]
            /\ outcome' = [c \in Cases |-> "none"]
            /\ owner' = NoFiles /\ response' = NoFiles
            /\ audit' = [p \in Providers |-> 0]
            /\ accepted' = {}
       ELSE /\ stage' = [c \in Cases |-> IF stage[c] = "pending" THEN "queued" ELSE stage[c]]
            /\ UNCHANGED <<folder, outcome, owner, response, audit, accepted>>
    /\ calls' = audit'
    /\ UNCHANGED <<database, saved, slots, sends>>

Init ==
    /\ \E m \in Campaigns :
         /\ stage = [c \in Cases |-> IF c \in m.cases THEN "queued" ELSE "absent"]
         /\ slots = m.model_workers
    /\ outcome = [c \in Cases |-> "none"]
    /\ accepted = {}
    /\ row = [r \in Requests |-> [st |-> "absent", token |-> 0]]
    /\ current = {}
    /\ owner = NoFiles /\ response = NoFiles
    /\ thread = [t \in Threads |-> Gone]
    /\ calls = [p \in Providers |-> 0] /\ reserved = calls /\ audit = calls
    /\ stop = FALSE
    /\ sends = <<>> /\ saved = {}
    /\ claims = 0 /\ starts = 0 /\ folder = 1

Step(t) ==
    \/ TakeCase(t) \/ Quit(t) \/ OpenCase(t) \/ Ack(t)
    \/ Review(t) \/ LeavePending(t) \/ Reject(t) \/ Finish(t)
    \/ TakeLock(t) \/ EnterWithPermit(t) \/ EnterWithoutPermit(t)
    \/ Claim(t) \/ ClaimBlocked(t) \/ ClaimCached(t) \/ WriteOwner(t)
    \/ Issue(t) \/ WriteStarted(t) \/ Send(t) \/ Answer(t) \/ ProviderRejects(t)
    \/ Break(t) \/ WriteResponse(t) \/ Complete(t) \/ Release(t) \/ Rename(t)
    \/ RejectBelow(t) \/ Admit(t) \/ Proceed(t) \/ EgressFails(t) \/ Reuse(t) \/ Persist(t)

Next ==
    \/ \E t \in Threads : Step(t)
    \/ \E n \in 1..Len(sends) : Bill(n)
    \/ Stop \/ Crash
    \/ \E fresh \in BOOLEAN : Start(fresh)

Fairness == \A t \in Threads : WF_vars(Step(t))

Spec == Init /\ [][Next]_vars /\ Fairness

-----------------------------------------------------------------------------
(* Properties                                                              *)

PCs == {"gone", "idle", "case", "ack", "fail", "rejected", "finished", "want", "slot",
        "claim", "own", "issue", "start", "send", "sent", "answered", "complete",
        "release", "rename", "paid", "accepted", "reuse", "persist"}

\* The type of the state.
PaymentsTypeOK ==
    /\ stage \in [Cases -> {"absent", "queued", "pending", "done"}]
    /\ outcome \in [Cases -> {"none", "review", "rejected_below_60", "complete"}]
    /\ accepted \subseteq Cases
    /\ row \in [Requests -> [st : {"absent", "pending", "running", "uncertain", "done"},
                             token : 0..claims]]
    /\ current \subseteq Requests
    /\ owner \in [Cases -> [Requests -> 0..claims]]
    /\ response \in [Cases -> [Requests -> 0..Len(sends)]]
    /\ \A t \in Threads :
         /\ thread[t].pc \in PCs
         /\ thread[t].pc \notin {"gone", "idle"} => thread[t].case \in Cases
         /\ thread[t].pc \notin {"gone", "idle", "case", "ack"} => thread[t].req \in Requests
         /\ thread[t].token \in 0..claims
    /\ {calls, reserved, audit} \subseteq [Providers -> Nat]
    /\ stop \in BOOLEAN
    /\ sends \in Seq([req : Requests, st : {"flying", "charged", "free"}, folder : 1..MaxFolders])
    /\ saved \subseteq 1..Len(sends)
    /\ {claims, starts, folder, slots} \subseteq Nat

\* While the program runs the reserved capacity of each provider is that of the
\* threads that hold an unused permit: none is lost, and none is given back
\* twice, on any way out of the section.
PermitsAreExact ==
    (\E t \in Threads : thread[t] # Gone) =>
        \A p \in Providers : reserved[p] = Cardinality({t \in Threads :
            thread[t].permit = "held" /\ Provider(thread[t].req) = p})

\* The ceilings of a run count every request that left in its folder, whatever
\* the threads did at once and however often the program was started again; and
\* two threads that were let in for the last place do not both accept a case.
\* No capacity is lost or given back twice on the way.
CeilingHolds ==
    /\ PermitsAreExact
    /\ \A p \in Providers, f \in 1..MaxFolders :
         Cardinality({n \in 1..Len(sends) :
             Provider(sends[n].req) = p /\ sends[n].folder = f}) <= Maximum[p]
    /\ Cardinality(accepted) <= MaxAccepted

\* The purposes of the paid calls: an affinity, a selection, or a reading with
\* its fallback.
Purposes == {Alternatives(r) : r \in {q \in Requests : \A s \in Requests : Backup[s] # q}}

\* Two requests for one purpose that may both be billed are no state of PaidCall.
Billing(R) ==
    LET of(st) == {n \in 1..Len(sends) : sends[n].req \in R /\ sends[n].st = st}
    IN  IF Cardinality(of("flying") \cup of("charged")) > 1 THEN "twice"
        ELSE IF of("flying") # {} THEN "open"
        ELSE IF of("charged") = {} THEN "unpaid"
        ELSE IF of("charged") \subseteq saved THEN "kept" ELSE "charged"

Ledger(R) == INSTANCE PaidCall WITH Documents <- {R}, status <- [d \in {R} |-> Billing(R)]

\* Every purpose is paid for as PaidCall has it: a request leaves only when none
\* before it is out or billed, and what was billed ends as a kept answer or
\* stays open; it is never asked again.  Only what Billing reads can matter.
LedgerKept ==
    /\ \A R \in Purposes : Ledger(R)!Init
    /\ [][UNCHANGED <<sends, saved>> \/
           \A R \in Purposes : [Ledger(R)!Next]_(Billing(R))]_vars

\* The cases that were taken end, unless the run does: no thread waits for
\* another one's permit, for the lock of a request or for a slot for ever, though
\* it waits for a slot with the lock, and for a lock that one in a slot may hold.
CasesEnd ==
    (\E c \in Cases : stage[c] = "pending") ~>
        \/ \A c \in Cases : stage[c] # "pending"
        \/ \A t \in Threads : thread[t] = Gone
=============================================================================
