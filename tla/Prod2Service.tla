---------------------------- MODULE Prod2Service ----------------------------
(***************************************************************************)
(* The daily service of PROD2 (service.py) and the child it starts for a   *)
(* cycle (run_prod2_selected.py): first the sweeps of KeywordSweep, then   *)
(* the consumers of the queue, then the final report.  Every attempt of a  *)
(* cycle has a fresh folder; the cache of the sweep and the queue belong   *)
(* to the cycle and outlive the attempt.                                   *)
(*                                                                         *)
(* What a consumer does with a case is in Prod2Payments; here a case ends  *)
(* with an outcome, with a doubt about a payment, or stays reserved.       *)
(***************************************************************************)
EXTENDS KeywordSweep

CONSTANTS
    Consumers,
    MaxAccepted,     \* max_accepted
    BlockedRetries,  \* RETRY_LIMITS["blocked"]
    Retries,         \* RETRY_LIMITS["incomplete"]
    Listings         \* what the portal may list at first

ASSUME ServiceAssumption ==
    /\ Consumers # {} /\ Ids \cap {"ready", "gone"} = {}
    /\ MaxAccepted \in Nat /\ {BlockedRetries, Retries} \subseteq Nat
    /\ Listings \subseteq [Queries -> Seq(Ids)]
    /\ Bounds \subseteq [cycles : Nat \ {0}, edits : Nat, denials : Nat, outages : Nat, errors : Nat,
                         pauses : Nat, doubts : Nat, deaths : Nat, stops : Nat]

VARIABLES
    hand,       \* what each consumer holds; "ready" or "gone"
    accepted,   \* the accepted candidates of the cycle
    doubt,      \* usage unknown, a guard file, a stopped dispatch: payments are not clean
    status,     \* the state file of the service
    pc,         \* where the service is: down, top, made, child or returned
    asleep,     \* it waits with stop.wait
    due,        \* next_cycle_at has come
    folder,     \* the folder of the cycle exists under its own name
    retries,    \* the retries of the cycle in the state file
    asked,      \* the operator has sent SIGTERM
    past,       \* truth: how the attempts of the cycle ended
    grave       \* truth: what happened in the cycle that only a person can settle

consumption == <<hand, accepted, doubt>>
service == <<status, pc, asleep, due, folder, retries, asked>>
truth == <<past, grave>>
sweeps == <<source, cache, sweep>>
vars == <<sweeps, queue, child, switches, consumption, service, truth, left>>

NoRetries == [blocked |-> 0, incomplete |-> 0]
NoPast == [complete |-> 0, blocked |-> 0, incomplete |-> 0, review |-> 0, outage |-> 0, unclean |-> 0]

\* What the service goes on from after a restart.
Resumable == {"waiting", "egress_unavailable", "source_paused", "retry_wait"}

-----------------------------------------------------------------------------
(* The consumers                                                           *)

BeginConsuming ==
    /\ child = "sweeping" /\ \A q \in Queries : sweep[q].at = "over"
    /\ child' = "consuming" /\ hand' = [c \in Consumers |-> "ready"]
    /\ UNCHANGED <<sweeps, queue, switches, accepted, doubt, service, truth, left>>

Take(c) ==
    /\ child = "consuming" /\ hand[c] = "ready" /\ ~stop
    /\ \E id \in Ids : /\ staged[id] = "queued"
                       /\ staged' = [staged EXCEPT ![id] = "pending"]
                       /\ hand' = [hand EXCEPT ![c] = id]
    /\ UNCHANGED <<sweeps, added, child, switches, accepted, doubt, service, truth, left>>

Leave(c) ==
    /\ child = "consuming" /\ hand[c] = "ready"
    /\ stop \/ \A id \in Ids : staged[id] # "queued"
    /\ hand' = [hand EXCEPT ![c] = "gone"]
    /\ UNCHANGED <<sweeps, queue, child, switches, accepted, doubt, service, truth, left>>

Holding(c) == child = "consuming" /\ hand[c] \in Ids

\* can_process, and admit after the paid decision
MayAccept(id) == id \in accepted \/ Cardinality(accepted) < MaxAccepted

\* A stop came with the reservation, or there is no place left: the case stays
\* reserved, and the consumer ends.
LeaveReserved(c) ==
    /\ Holding(c) /\ (stop \/ ~MayAccept(hand[c]))
    /\ hand' = [hand EXCEPT ![c] = "gone"]
    /\ UNCHANGED <<sweeps, queue, child, switches, accepted, doubt, service, truth, left>>

Judge(c) == MayAccept(hand[c]) /\ accepted' \in {accepted, accepted \cup {hand[c]}}

\* The outcome is written, then the case is acknowledged.
Acknowledge(c) ==
    /\ Holding(c) /\ Judge(c)
    /\ staged' = [staged EXCEPT ![hand[c]] = "done"]
    /\ hand' = [hand EXCEPT ![c] = "ready"]

Finish(c) ==
    /\ Acknowledge(c)
    /\ UNCHANGED <<sweeps, added, child, switches, doubt, service, truth, left>>

\* A request may have been billed without a record of its use: the case is for
\* review, and after an embedding the whole child stops.
DoubtPayment(c) ==
    /\ Acknowledge(c) /\ Spend("doubts")
    /\ doubt' = TRUE /\ stop' \in {stop, TRUE} /\ grave' = grave \cup {"doubt"}
    /\ UNCHANGED <<sweeps, added, child, egress, block, service, past>>

\* The portal refuses the record or a document of the case, or is paused: the
\* case is for review and the child stops.
Refused(c) ==
    /\ Acknowledge(c) /\ ~stop
    /\ IF block THEN UNCHANGED left ELSE Spend("denials")
    /\ stop' = TRUE /\ block' = TRUE /\ grave' = grave \cup {"refused"}
    /\ UNCHANGED <<sweeps, added, child, egress, doubt, service, past>>

\* The proxy fails: the case stays reserved.
ProxyFails(c) ==
    /\ Holding(c) /\ Judge(c) /\ ~stop /\ Spend("outages")
    /\ stop' = TRUE /\ egress' = TRUE
    /\ hand' = [hand EXCEPT ![c] = "gone"]
    /\ UNCHANGED <<sweeps, queue, child, block, doubt, service, truth>>

-----------------------------------------------------------------------------
(* How an attempt has ended                                                *)

Denials == {q \in Queries : sweep[q].result = "denied"}
Missing == {q \in Queries : sweep[q].result \notin {"complete", "tolerated"}}
QueueIsEmpty == \A id \in Ids : staged[id] \notin {"queued", "pending"}
Seen == Cardinality({id \in Ids : staged[id] # "none"})

\* assess_final_report and _payments_clean
Outcome ==
    IF Denials # {} THEN "blocked"
    ELSE IF Missing # {} THEN "incomplete"
    ELSE IF ~QueueIsEmpty \/ doubt THEN "review"
    ELSE "complete"

\* Faulty variant: the payments are looked at only when the report is complete.
RetryKindUnchecked ==
    IF Outcome = "incomplete" /\ Seen >= MaxCandidates THEN "none"
    ELSE IF Outcome \in {"blocked", "incomplete"} THEN Outcome
    ELSE "none"

\* _retry_kind
RetryKind ==
    IF doubt \/ (Outcome = "incomplete" /\ Seen >= MaxCandidates) THEN "none"
    ELSE IF Outcome \in {"blocked", "incomplete"} THEN Outcome
    ELSE "none"

\* recover: what is reserved goes back to the queue.
Recover == staged' = [id \in Ids |-> IF staged[id] = "pending" THEN "queued" ELSE staged[id]]

\* All consumers have ended: the report is written and the child exits.
Report ==
    /\ child = "consuming" /\ \A c \in Consumers : hand[c] = "gone"
    /\ child' = "ended"
    /\ Recover
    /\ hand' = [c \in Consumers |-> "ready"]
    /\ LET kind == IF egress THEN "outage" ELSE Outcome IN
       past' = [past EXCEPT ![kind] = @ + 1, !.unclean = IF doubt /\ ~egress THEN @ + 1 ELSE @]
    /\ UNCHANGED <<sweeps, added, switches, accepted, doubt, service, grave, left>>

\* The child dies without a report.
ChildDies ==
    /\ child \in {"sweeping", "consuming"} /\ Spend("deaths")
    /\ child' = "died" /\ grave' = grave \cup {"death"}
    /\ UNCHANGED <<sweeps, queue, switches, consumption, service, past>>

Limit(kind) == IF kind = "blocked" THEN BlockedRetries ELSE Retries

-----------------------------------------------------------------------------
(* The service                                                             *)

Stays == UNCHANGED <<sweeps, queue, child, switches, consumption, truth>>

\* attention_required: the service returns, now and whenever it is started
\* again, until a person has looked.
Attention ==
    /\ status' = "attention_required" /\ pc' = "returned" /\ asleep' = FALSE
    /\ UNCHANGED <<due, folder, retries, asked>>

\* Only a wait between two attempts is gone on with, and only the wait for
\* the next cycle is kept: the others begin with the checks.
Boot ==
    /\ pc = "down" /\ Stays /\ UNCHANGED left
    /\ IF status \in {"none"} \cup Resumable
       THEN /\ pc' = "top" /\ asleep' = (status = "waiting" /\ ~due)
            /\ UNCHANGED <<status, due, folder, retries, asked>>
       ELSE Attention

Wake ==
    /\ pc = "top" /\ asleep /\ asleep' = FALSE
    /\ due' = (due \/ status = "waiting")
    /\ Stays /\ UNCHANGED <<status, pc, folder, retries, asked, left>>

AtTop == pc = "top" /\ ~asleep

Rest(st) ==
    /\ status' = st /\ asleep' = TRUE
    /\ Stays /\ UNCHANGED <<pc, due, folder, retries, asked>>

NoEgress == AtTop /\ Spend("outages") /\ Rest("egress_unavailable")

SourcePaused == AtTop /\ block /\ Rest("source_paused") /\ UNCHANGED left

\* A folder of that name is never adopted.
MakeFolder ==
    /\ AtTop /\ ~block /\ Stays /\ UNCHANGED left
    /\ IF folder
       THEN Attention
       ELSE folder' = TRUE /\ pc' = "made" /\ UNCHANGED <<status, asleep, due, retries, asked>>

\* The attempt starts: its own folder, counters and evidence, and the cycle's
\* cache and queue.
Start ==
    /\ pc = "made"
    /\ status' = "running" /\ pc' = "child" /\ child' = "sweeping"
    /\ sweep' = [q \in Queries |-> Unstarted]
    /\ Recover /\ added' = 0 /\ stop' = asked /\ egress' = FALSE /\ doubt' = FALSE
    /\ UNCHANGED <<source, cache, block, hand, accepted, asleep, due, folder, retries, asked,
                    truth, left>>

\* The exit code of a failed proxy: the folder is put aside, the payments of
\* the attempt are not looked at.
EgressExit ==
    /\ pc = "child" /\ child = "ended" /\ egress /\ ~asked
    /\ child' = "off" /\ folder' = FALSE
    /\ status' = "egress_unavailable" /\ pc' = "top" /\ asleep' = TRUE
    /\ UNCHANGED <<sweeps, queue, switches, consumption, due, retries, asked, truth, left>>

\* The gate looks at an attempt that ended with a report, and nobody asked to stop.
Validating == pc = "child" /\ child = "ended" /\ ~egress /\ ~asked

\* A new epoch has a cache and a queue of its own.
NewEpoch ==
    /\ pages' = [q \in Queries |-> <<>>] /\ complete' = {}
    /\ sweep' = [q \in Queries |-> Unstarted]
    /\ staged' = [id \in Ids |-> "none"] /\ added' = 0
    /\ accepted' = {} /\ doubt' = FALSE
    /\ steady' = [q \in Queries |-> {}] /\ changes' = [q \in Queries |-> 0]
    /\ past' = NoPast /\ grave' = {} /\ folder' = FALSE
    /\ UNCHANGED <<listing, hand, switches>>

\* Faulty variant: the retries of a finished cycle stay in the state.
CompleteKeeping ==
    /\ Validating /\ Outcome = "complete"
    /\ child' = "off" /\ left' = [left EXCEPT !.cycles = @ - 1] /\ NewEpoch
    /\ IF left.cycles = 1
       THEN status' = "complete" /\ pc' = "returned" /\ UNCHANGED asleep
       ELSE status' = "waiting" /\ pc' = "top" /\ asleep' = TRUE
    /\ due' = FALSE /\ UNCHANGED <<retries, asked>>

Complete ==
    /\ Validating /\ Outcome = "complete"
    /\ child' = "off" /\ left' = [left EXCEPT !.cycles = @ - 1] /\ NewEpoch
    /\ IF left.cycles = 1
       THEN status' = "complete" /\ pc' = "returned" /\ UNCHANGED asleep
       ELSE status' = "waiting" /\ pc' = "top" /\ asleep' = TRUE
    /\ due' = FALSE /\ retries' = NoRetries /\ UNCHANGED asked

MayRetry == RetryKind # "none" /\ retries[RetryKind] < Limit(RetryKind)

\* The attempt stays as evidence and the same sweep goes on in a fresh folder:
\* after the shared pause, or after half an hour.
RetryCycle ==
    /\ Validating /\ MayRetry
    /\ child' = "off" /\ folder' = FALSE
    /\ status' = "retry_wait" /\ pc' = "top" /\ asleep' = (RetryKind = "incomplete")
    /\ retries' = [retries EXCEPT ![RetryKind] = @ + 1]
    /\ UNCHANGED <<sweeps, queue, switches, consumption, due, asked, truth, left>>

\* No report, a stop of the operator, or a report that neither completes the
\* cycle nor may be tried again.
GiveUp ==
    /\ pc = "child"
    /\ \/ child = "died"
       \/ child = "ended" /\ asked
       \/ Validating /\ Outcome # "complete" /\ ~MayRetry
    /\ child' = "off" /\ Attention
    /\ UNCHANGED <<sweeps, queue, switches, consumption, truth, left>>

\* SIGTERM is passed on to the child; without a child the service returns.
Sigterm ==
    /\ pc \in {"top", "made", "child"} /\ ~asked /\ Spend("stops")
    /\ grave' = grave \cup {"stop"}
    /\ IF pc = "top"
       THEN Attention /\ UNCHANGED stop
       ELSE /\ asked' = TRUE /\ stop' = (stop \/ child \in {"sweeping", "consuming"})
            /\ UNCHANGED <<status, pc, asleep, due, folder, retries>>
    /\ UNCHANGED <<sweeps, queue, child, egress, block, consumption, past>>

\* The container dies, with the child if there is one.
ServiceDies ==
    /\ pc \in {"top", "made", "child"} /\ Spend("deaths")
    /\ pc' = "down" /\ asleep' = FALSE /\ asked' = FALSE /\ child' = "off"
    /\ grave' = IF pc = "top" THEN grave ELSE grave \cup {"death"}
    /\ UNCHANGED <<sweeps, queue, switches, consumption, status, due, folder, retries, past>>

-----------------------------------------------------------------------------

Init ==
    /\ listing \in Listings /\ left \in Bounds
    /\ pages = [q \in Queries |-> <<>>] /\ complete = {}
    /\ sweep = [q \in Queries |-> Unstarted]
    /\ staged = [id \in Ids |-> "none"] /\ added = 0
    /\ child = "off" /\ stop = FALSE /\ egress = FALSE /\ block = FALSE
    /\ steady = [q \in Queries |-> {}] /\ changes = [q \in Queries |-> 0]
    /\ hand = [c \in Consumers |-> "ready"] /\ accepted = {} /\ doubt = FALSE
    /\ status = "none" /\ pc = "down" /\ asleep = FALSE /\ due = FALSE
    /\ folder = FALSE /\ retries = NoRetries /\ asked = FALSE
    /\ past = NoPast /\ grave = {}

ConsumerStep == \E c \in Consumers : Take(c) \/ Leave(c) \/ LeaveReserved(c) \/ Finish(c)

ChildStep ==
    \/ SweepStep /\ UNCHANGED <<consumption, service, truth>>
    \/ BeginConsuming \/ ConsumerStep \/ Report

ServiceStep ==
    \/ Boot \/ Wake \/ SourcePaused \/ MakeFolder \/ Start
    \/ EgressExit \/ Complete \/ RetryCycle \/ GiveUp

World ==
    \/ (SweepTrouble \/ BlockOpens \/ \E q \in Queries : Change(q))
       /\ pc # "returned" /\ UNCHANGED <<consumption, service, truth>>
    \/ \E c \in Consumers : DoubtPayment(c) \/ Refused(c) \/ ProxyFails(c)
    \/ ChildDies \/ NoEgress \/ Sigterm \/ ServiceDies

PauseEnds == BlockEnds /\ UNCHANGED <<consumption, service, truth>>

Next == ChildStep \/ ServiceStep \/ PauseEnds \/ World

\* The threads and the service go on, the supervisor restarts the service, and
\* a pause of the portal ends.
Spec == Init /\ [][Next]_vars
             /\ WF_vars(ChildStep) /\ WF_vars(ServiceStep) /\ WF_vars(PauseEnds)

-----------------------------------------------------------------------------

\* A completed query has seen every convocatoria that was listed throughout its
\* pass, also when the pass was continued by a later attempt, unless the
\* listing changed twice (keyword_sweep.py: an observed pass, no snapshot).
PassIsWhole ==
    \A q \in complete : changes[q] <= 1 => steady[q] \subseteq ToSet(Captured(q))

\* A cycle counts as completed only when every query is complete or is the
\* tolerated current day, and every convocatoria on its pages has an outcome.
CycleIsWhole ==
    [][left'.cycles < left.cycles =>
        \A q \in Queries :
            /\ q \in complete \/ (q \in Today /\ sweep[q].result = "tolerated")
            /\ \A id \in ToSet(Captured(q)) : staged[id] = "done"]_vars

\* An attempt starts only if each earlier one of its cycle was ended by the
\* proxy, or with clean payments by a block (three times) or by an incomplete
\* search (once), whatever restarts there were in between.
StartsAreEarned ==
    [][child = "off" /\ child' # "off" =>
        /\ past.complete = 0 /\ past.review = 0 /\ past.unclean = 0
        /\ past.blocked <= BlockedRetries /\ past.incomplete <= Retries]_vars

\* Troubles that pass by themselves do not stop the service: it asks for a
\* person only after a death or a stop of its child, a doubt about a payment, a
\* refusal while cases are read, a full cap, or too many failed attempts.
AttentionIsEarned ==
    status = "attention_required" =>
        \/ grave # {}
        \/ Seen >= MaxCandidates \/ Cardinality(accepted) >= MaxAccepted
        \/ past.blocked > BlockedRetries \/ past.incomplete > Retries

\* ... and it comes to an end of all its cycles, or asks for a person.
CyclesEnd == <>(pc = "returned")
=============================================================================
