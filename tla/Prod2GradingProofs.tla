------------------------- MODULE Prod2GradingProofs -------------------------
(***************************************************************************)
(* The proofs about Prod2Grading: the types, that every reading and every  *)
(* evaluation is sent once, and that an open guard stops what is sent.     *)
(***************************************************************************)
EXTENDS Prod2Grading, TLAPS

Free == {"idle", "requests", "queue"}      \* without a case

PCs == Free \cup {"look", "read", "claim", "own", "send", "wait", "keep", "archive", "complete", "persist",
                  "record", "settle", "evaluate", "evaluating"}

MeSet == [pc : PCs, case : Cases \cup {None}, resumed : SUBSET Requests, handled : Nat,
          seen : SUBSET Convs, started : Nat]

RequestStates == {"none", "pending", "reading", "evaluating", "done", "failed"}
ItemStates    == {"none", "pending", "reading", "done", "failed", "skipped"}

\* A request that was asked for names a convocatoria.
WorkOK ==
    /\ open \subseteq Convs
    /\ request \in [Requests -> [conv : Convs \cup {None}, st : RequestStates]]
    /\ \A r \in Requests : request[r].st # "none" => request[r].conv \in Convs
    /\ item \in [Convs -> ItemStates]
    /\ attempts \in [Convs -> Nat]

\* What the consumer works on was asked for, and an item counts its attempt.
MeOK ==
    /\ me \in MeSet
    /\ me.pc \notin Free => me.case \in Cases
    /\ \A r \in Requests : r \in me.resumed \/ r = me.case => request[r].st # "none"
    /\ me.handled <= MaxRequests /\ me.started <= MaxAuto
    /\ me.pc = "look" /\ me.case \in Convs => me.started < MaxAuto
    /\ me.pc \notin Free /\ me.case \in Convs => attempts[me.case] >= 1

Here == ConvOf(me.case)

\* A row that can be claimed stands for a reading that was not sent, or was
\* refused, and no answer is kept for it.
Rows ==
    /\ row \in [Convs -> {"absent", "running", "cycle", "uncertain", "pending", "done"}]
    /\ current \subseteq Convs /\ reads \in [Convs -> 0..1]
    /\ owner \subseteq Cases /\ kept \subseteq owner
    /\ outcome \in [Cases -> {"none", "unread", "complete"}]
    /\ \A c \in Convs : row[c] \in {"absent", "pending"} => reads[c] = 0
    /\ \A k \in kept : /\ k \in Requests => request[k].st # "none"
                       /\ row[ConvOf(k)] \notin {"absent", "pending"}

Holding == {"own", "send", "wait", "keep", "archive"}

\* The consumer holds the row it claimed until it has the answer.
Holds ==
    /\ me.pc \in {"own", "send", "wait", "keep"} =>
         row[Here] = "running" /\ \A k \in kept : ConvOf(k) # Here
    /\ me.pc \in {"own", "send"} => reads[Here] = 0
    /\ me.pc = "wait" => reads[Here] = 1
    /\ me.pc \in {"send", "wait", "keep", "archive"} => me.case \in owner
    /\ me.pc = "archive" => me.case \notin kept

ReadingsOK == Rows /\ Holds

Ats  == {"none", "check", "blocking", "sent", "answered", "mismatch", "guarded", "refusing", "completed"} \cup Results
Live == {"check", "blocking", "sent", "answered", "mismatch", "guarded", "refusing"}

\* A free reservation stands for an evaluation that was not sent, or was refused;
\* of the calls for a convocatoria one holds its reservation.
EvaluationsOK ==
    /\ ledger \in [Convs -> {"free", "running", "uncertain", "failed", "done"}]
    /\ late \subseteq Convs /\ match \subseteq Convs /\ evals \in [Convs -> 0..1]
    /\ unresolved \in [Folders -> SUBSET Convs]
    /\ call \in [Folders -> [conv : Convs \cup {None}, at : Ats]]
    /\ \A f \in Folders : call[f].at # "none" <=> call[f].conv \in Convs
    /\ \A c \in Convs : ledger[c] = "free" => evals[c] = 0
    /\ \A f \in Folders : call[f].at \in Live => ledger[call[f].conv] # "free"
    /\ \A f, g \in Folders : f # g /\ call[f].at \in Live /\ call[g].at \in Live => call[f].conv # call[g].conv
    /\ \A f \in Folders : /\ call[f].at \in {"check", "blocking", "refusing"} => evals[call[f].conv] = 0
                          /\ call[f].at = "sent" => evals[call[f].conv] = 1

Own == {"manual", "auto"}      \* the consumer's folders

\* The consumer evaluates in the folder of its case.
OneCall == \A f \in Own : call[f].at # "none" => me.pc = "evaluating" /\ f = Folder(me.case)

\* Behind an open guard it has ended its pass, or is about to.
Halted ==
    GuardOpen => \/ me.pc = "idle"
                 \/ /\ me.pc = "evaluating"
                    /\ call[Folder(me.case)].at \in {"blocking", "guarded", "doubt", "blocked"}

StopsOK ==
    /\ guard \subseteq Folders \cup {"main"}
    /\ lock \in {"none", "consumer", "cycle"}
    /\ svc \in {"planning", "waiting", "imminent", "running", "stopped"}
    /\ todo \subseteq Convs
    /\ OneCall /\ Halted

IInv == WorkOK /\ MeOK /\ ReadingsOK /\ EvaluationsOK /\ StopsOK

-----------------------------------------------------------------------------
(* Facts about the consumer and its work                                   *)

\* The fields of the consumer after a step.
Now(pc, case, resumed, handled, started) ==
    /\ me' \in MeSet
    /\ me'.pc = pc /\ me'.case = case /\ me'.resumed = resumed /\ me'.handled = handled /\ me'.started = started

LEMMA IdleFacts ==
    /\ Idle \in MeSet /\ Idle.pc = "idle" /\ Idle.case = None /\ Idle.resumed = {} /\ Idle.handled = 0
    /\ Idle.started = 0
BY DEF Idle, MeSet, PCs, Free

LEMMA EndFacts ==
    ASSUME EndPass
    PROVE  Now("idle", None, {}, 0, 0)
BY IdleFacts DEF EndPass, Now

LEMMA GotoFacts ==
    ASSUME me \in MeSet, NEW pc \in PCs, me' = [me EXCEPT !.pc = pc]
    PROVE  Now(pc, me.case, me.resumed, me.handled, me.started)
BY DEF Now, MeSet

LEMMA ReturnFacts ==
    ASSUME me \in MeSet, Return
    PROVE  Now(IF me.case \in Requests THEN "requests" ELSE "queue", None, me.resumed, me.handled, me.started)
<1>1. PICK pc \in PCs : pc = IF me.case \in Requests THEN "requests" ELSE "queue"
  BY DEF PCs, Free
<1>2. me' = [me EXCEPT !.pc = pc, !.case = None]
  BY <1>1 DEF Return
<1>3. Now(pc, None, me.resumed, me.handled, me.started)
  BY <1>2 DEF Now, MeSet
<1> QED BY <1>1, <1>3

LEMMA ReadFacts ==
    ASSUME me \in MeSet, me' = Read
    PROVE  Now("read", me.case, me.resumed, me.handled, IF me.case \in Convs THEN me.started + 1 ELSE me.started)
<1>1. PICK n \in Nat : n = me.started + (IF me.case \in Convs THEN 1 ELSE 0)
  BY DEF MeSet
<1>2. me' = [me EXCEPT !.pc = "read", !.started = n]
  BY <1>1 DEF Read
<1>3. Now("read", me.case, me.resumed, me.handled, n)
  BY <1>2 DEF Now, MeSet, PCs
<1>4. n = IF me.case \in Convs THEN me.started + 1 ELSE me.started
  BY <1>1 DEF MeSet
<1> QED BY <1>3, <1>4

\* What was asked for stays asked for, and for the same convocatoria.
SameAsks ==
    \A r \in Requests : request[r].st # "none" =>
        request'[r].conv = request[r].conv /\ request'[r].st # "none"

LEMMA SettleFacts ==
    ASSUME WorkOK, UNCHANGED open, NEW k \in Cases, NEW st, Settle(k, st),
           k \in Requests => st \in {"reading", "evaluating", "done", "failed"} /\ request[k].st # "none",
           k \notin Requests => st \in ItemStates
    PROVE  WorkOK' /\ SameAsks /\ UNCHANGED attempts
<1>1. CASE k \in Requests
  <2>0. UNCHANGED <<open, item, attempts>> /\ request' = [request EXCEPT ![k].st = st]
    BY <1>1 DEF Settle
  <2>1. \A r \in Requests : /\ request'[r].conv = request[r].conv
                            /\ request'[r].st = IF r = k THEN st ELSE request[r].st
    BY <1>1, <2>0 DEF WorkOK
  <2>2. request' \in [Requests -> [conv : Convs \cup {None}, st : RequestStates]]
    BY <1>1, <2>0 DEF WorkOK, RequestStates
  <2>3. st # "none"
    BY <1>1
  <2> QED BY <1>1, <2>0, <2>1, <2>2, <2>3 DEF WorkOK, SameAsks
<1>2. CASE k \notin Requests
  <2>1. UNCHANGED <<open, request, attempts>> /\ item' = [item EXCEPT ![k] = st]
    BY <1>2 DEF Settle
  <2> QED BY <1>2, <2>1 DEF WorkOK, SameAsks, Cases
<1> QED BY <1>1, <1>2

\* What every step does to the work: nothing asked for is forgotten, and an item
\* loses an attempt only when the pass ends.
WorkStep ==
    /\ WorkOK' /\ SameAsks
    /\ \A c \in Convs : attempts'[c] >= attempts[c] \/ me' = Idle

LEMMA WorkStays ==
    ASSUME WorkOK, UNCHANGED work, open' \subseteq open
    PROVE  WorkStep
<1>1. UNCHANGED request /\ UNCHANGED item /\ UNCHANGED attempts
  BY DEF work
<1> QED BY <1>1 DEF WorkOK, WorkStep, SameAsks

LEMMA SettleWork ==
    ASSUME WorkOK, UNCHANGED open, NEW k \in Cases, NEW st, Settle(k, st),
           k \in Requests => st \in {"reading", "evaluating", "done", "failed"} /\ request[k].st # "none",
           k \notin Requests => st \in ItemStates
    PROVE  WorkStep
<1>1. WorkOK' /\ SameAsks /\ UNCHANGED attempts
  BY SettleFacts
<1> QED BY <1>1 DEF WorkStep, WorkOK

\* The case of the consumer.
LEMMA CaseFacts ==
    ASSUME WorkOK, MeOK, me.pc \notin Free
    PROVE  /\ me.case \in Cases /\ Here \in Convs
           /\ me.case \in Requests => request[me.case].st # "none"
           /\ me.case \notin Requests => me.case \in Convs /\ attempts[me.case] >= 1
<1>1. me.case \in Cases /\ (me.case \in Requests => request[me.case].st # "none")
  BY DEF MeOK
<1> QED BY <1>1 DEF MeOK, WorkOK, Here, ConvOf, Cases

LEMMA FailWork ==
    ASSUME WorkOK, MeOK, me.pc \notin Free, UNCHANGED open, Fail(me.case)
    PROVE  WorkStep
<1>1. PICK st : /\ st = IF me.case \in Requests \/ attempts[me.case] >= MaxAttempts THEN "failed" ELSE "pending"
                /\ Settle(me.case, st)
  BY DEF Fail
<1>2. st \in {"failed", "pending"} /\ (me.case \in Requests => st = "failed")
  BY <1>1
<1> QED BY <1>1, <1>2, CaseFacts, SettleWork DEF ItemStates

LEMMA DoubtWork ==
    ASSUME WorkOK, MeOK, me.pc \notin Free, UNCHANGED open, Doubt(me.case)
    PROVE  WorkStep
BY CaseFacts, SettleWork DEF Doubt, ItemStates

LEMMA DeferWork ==
    ASSUME WorkOK, MeOK, me.pc \notin Free, UNCHANGED open, Defer(me.case)
    PROVE  WorkStep
<1>1. CASE me.case \in Requests
  BY <1>1, WorkStays DEF Defer
<1>2. CASE me.case \notin Requests
  <2>1. PICK c \in Convs : c = me.case /\ attempts[c] >= 1
    BY <1>2, CaseFacts
  <2>2. PICK n \in Nat : n = attempts[c] - 1
    BY <2>1 DEF WorkOK
  <2>3. /\ item' = [item EXCEPT ![c] = "pending"] /\ attempts' = [attempts EXCEPT ![c] = n]
        /\ UNCHANGED request /\ me' = Idle
    BY <1>2, <2>1, <2>2 DEF Defer, EndPass
  <2>4. item' \in [Convs -> ItemStates] /\ attempts' \in [Convs -> Nat]
    BY <2>3 DEF WorkOK, ItemStates
  <2> QED BY <2>3, <2>4 DEF WorkStep, WorkOK, SameAsks
<1> QED BY <1>1, <1>2

LEMMA StepWork ==
    ASSUME WorkOK, MeOK, [Next]_vars
    PROVE  WorkStep
<1>1. ASSUME NEW r \in Requests, Expire(r) PROVE WorkStep
  <2>1. /\ UNCHANGED <<open, item, attempts>> /\ request[r].st # "none"
        /\ request' = [request EXCEPT ![r].st = "failed"]
    BY <1>1 DEF Expire, Started
  <2>2. Settle(r, "failed")
    BY <2>1 DEF Settle
  <2>3. r \in Cases
    BY DEF Cases
  <2> QED BY <2>1, <2>2, <2>3, SettleWork
<1>2. ASSUME NEW c \in Convs, Recover(c) \/ SkipClosed(c) \/ CycleEnqueues(c) PROVE WorkStep
  <2>1. PICK st \in {"pending", "skipped"} :
             UNCHANGED open /\ UNCHANGED request /\ UNCHANGED attempts /\ item' = [item EXCEPT ![c] = st]
    BY <1>2 DEF Recover, SkipClosed, CycleEnqueues
  <2>2. Settle(c, st) /\ c \in Cases /\ c \notin Requests
    BY <2>1, GradingAssumption DEF Settle, Cases
  <2> QED BY <2>1, <2>2, SettleWork DEF ItemStates
<1>3. ASSUME NEW r \in Requests, Claim(r) PROVE WorkStep
  <2>1. /\ UNCHANGED <<open, item, attempts>> /\ request[r].st # "none"
        /\ request' = [request EXCEPT ![r].st = "reading"]
    BY <1>3 DEF Claim, Pending
  <2>2. Settle(r, "reading") /\ r \in Cases
    BY <2>1 DEF Settle, Cases
  <2> QED BY <2>1, <2>2, SettleWork
<1>4. ASSUME NEW c \in Convs, ClaimItem(c) PROVE WorkStep
  <2>1. PICK n \in Nat : n = attempts[c] + 1
    BY DEF WorkOK
  <2>2. /\ UNCHANGED open /\ UNCHANGED request
        /\ item' = [item EXCEPT ![c] = "reading"] /\ attempts' = [attempts EXCEPT ![c] = n]
    BY <1>4, <2>1 DEF ClaimItem
  <2>3. item' \in [Convs -> ItemStates] /\ attempts' \in [Convs -> Nat] /\ \A d \in Convs : attempts'[d] >= attempts[d]
    BY <2>1, <2>2 DEF WorkOK, ItemStates
  <2> QED BY <2>2, <2>3 DEF WorkStep, WorkOK, SameAsks
<1>5. ASSUME NEW r \in Requests, NEW c \in Convs, AskFor(r, c) PROVE WorkStep
  <2>1. /\ UNCHANGED open /\ UNCHANGED item /\ UNCHANGED attempts /\ request[r].st = "none"
        /\ request' = [request EXCEPT ![r] = [conv |-> c, st |-> "pending"]]
    BY <1>5 DEF AskFor
  <2>2. request' \in [Requests -> [conv : Convs \cup {None}, st : RequestStates]]
    BY <2>1 DEF WorkOK, RequestStates
  <2>3. \A q \in Requests : q # r => request'[q] = request[q]
    BY <2>1 DEF WorkOK
  <2>4. request'[r].conv = c
    BY <2>1 DEF WorkOK
  <2> QED BY <2>1, <2>2, <2>3, <2>4 DEF WorkStep, WorkOK, SameAsks
<1>6. CASE Look
  <2>1. me.pc \notin Free /\ UNCHANGED open
    BY <1>6 DEF Look, Free
  <2>2. CASE LookClosed(me.case)
    <3>1. PICK st : st = (IF me.case \in Requests THEN "failed" ELSE "skipped") /\ Settle(me.case, st)
      BY <2>2 DEF LookClosed
    <3> QED BY <2>1, <3>1, CaseFacts, SettleWork DEF ItemStates
  <2>3. CASE LookCurrent(me.case)
    <3>1. CASE me.case \in Requests /\ Settle(me.case, "evaluating")
      BY <2>1, <3>1, CaseFacts, SettleWork
    <3>2. CASE me.case \in Convs /\ Settle(me.case, "skipped")
      <4>1. me.case \notin Requests
        BY <3>2, GradingAssumption
      <4> QED BY <2>1, <3>2, <4>1, CaseFacts, SettleWork DEF ItemStates
    <3>3. CASE UNCHANGED work
      BY <2>1, <3>3, WorkStays
    <3> QED BY <2>3, <3>1, <3>2, <3>3 DEF LookCurrent
  <2>4. CASE LookUnread(me.case)
    <3>1. CASE Fail(me.case)
      BY <2>1, <3>1, FailWork
    <3>2. CASE UNCHANGED work
      BY <2>1, <3>2, WorkStays
    <3> QED BY <2>4, <3>1, <3>2 DEF LookUnread
  <2> QED BY <1>6, <2>2, <2>3, <2>4 DEF Look
<1>7. CASE Prepare \/ ClaimReading \/ BreakReading \/ Archive \/ KeepReading \/ PersistReading
  <2>1. me.pc \notin Free /\ UNCHANGED open
    BY <1>7 DEF Prepare, ClaimReading, BreakReading, Archive, KeepReading, PersistReading, Free
  <2>2. UNCHANGED work \/ Fail(me.case) \/ Doubt(me.case) \/ Defer(me.case)
    BY <1>7 DEF Prepare, ClaimReading, BreakReading, Archive, KeepReading, PersistReading
  <2> QED BY <2>1, <2>2, WorkStays, FailWork, DoubtWork, DeferWork
<1>8. CASE SettleReading
  <2>1. me.pc \notin Free /\ UNCHANGED open
    BY <1>8 DEF SettleReading, Free
  <2>2. CASE Fail(me.case)
    BY <2>1, <2>2, FailWork
  <2>3. ASSUME NEW st, st = (IF me.case \in Requests THEN "evaluating" ELSE "done"), Settle(me.case, st)
        PROVE  WorkStep
    BY <2>1, <2>3, CaseFacts, SettleWork DEF ItemStates
  <2> QED BY <1>8, <2>2, <2>3 DEF SettleReading
<1>9. CASE Evaluate
  <2>1. me.pc \notin Free /\ UNCHANGED open
    BY <1>9 DEF Evaluate, Free
  <2>2. ASSUME me.case \in Requests, NEW st \in {"done", "failed"}, Settle(me.case, st) PROVE WorkStep
    BY <2>1, <2>2, CaseFacts, SettleWork
  <2>3. CASE UNCHANGED work
    BY <2>1, <2>3, WorkStays
  <2> QED BY <1>9, <2>2, <2>3 DEF Evaluate
<1>10. CASE Finish
  <2>1. me.pc \notin Free /\ UNCHANGED open
    BY <1>10 DEF Finish, Free
  <2>2. CASE me.case \in Requests
    <3>1. \/ \E st \in {"done", "failed"} : Settle(me.case, st)
          \/ UNCHANGED work \/ Doubt(me.case)
      BY <1>10, <2>2 DEF Finish, FinishRequest
    <3>2. ASSUME NEW st \in {"done", "failed"}, Settle(me.case, st) PROVE WorkStep
      BY <2>1, <2>2, <3>2, CaseFacts, SettleWork
    <3> QED BY <2>1, <3>1, <3>2, WorkStays, DoubtWork
  <2>3. CASE me.case \notin Requests
    BY <1>10, <2>1, <2>3, WorkStays DEF Finish, FinishItem
  <2> QED BY <2>2, <2>3
<1>11. CASE \/ BeginPass \/ StopPass \/ LimitReached \/ Drained \/ QueueServed \/ (\E r \in Requests : Resume(r))
            \/ WriteOwner \/ SendReading \/ ReadingAnswers \/ ReadingRefused \/ CompleteReading \/ WriteOutcome
  BY <1>11, WorkStays DEF BeginPass, StopPass, LimitReached, Drained, QueueServed, Resume, WriteOwner, SendReading,
     ReadingAnswers, ReadingRefused, CompleteReading, WriteOutcome
<1>12. CASE \E f \in Folders : CallStep(f)
  BY <1>12, WorkStays DEF CallStep, CheckSend, EvaluationAnswers, EvaluationLost, EvaluationRefused, SetStatus,
     CompleteEvaluation, PersistMatch
<1>13. CASE \/ Imminent \/ CycleStart \/ CycleEnds \/ CycleStops \/ Plan \/ PairEnds
            \/ \E c \in Convs : CycleReads(c) \/ CycleAnswers(c) \/ TakePair(c)
  BY <1>13, WorkStays DEF Imminent, CycleStart, CycleEnds, CycleStops, Plan, PairEnds, CycleReads, CycleAnswers,
     TakePair
<1>14. CASE \/ LoseLock \/ Crash \/ EvaluatorDies \/ UNCHANGED vars
            \/ \E c \in Convs : LeaseEnds(c) \/ Close(c)
  BY <1>14, WorkStays DEF LoseLock, Crash, EvaluatorDies, vars, LeaseEnds, Close
<1> QED BY <1>1, <1>2, <1>3, <1>4, <1>5, <1>6, <1>7, <1>8, <1>9, <1>10, <1>11, <1>12, <1>13, <1>14
     DEF Next, Consumer, Service, PassStep, ReadStep, ServiceStep, Folders

-----------------------------------------------------------------------------
(* The way of the consumer                                                 *)

\* The consumer goes on with its case, from one of the states a to one of b.
Onward(b) == \E pc \in b : Now(pc, me.case, me.resumed, me.handled, me.started)

PassEnded == Now("idle", None, {}, 0, 0)
Returned == \E pc \in {"requests", "queue"}, k \in {None, me.case} :
    Now(pc, k, me.resumed, me.handled, me.started)

\* What a step does to the consumer: it takes a case, goes on with it, or is done
\* with it.
MeStep ==
    \/ UNCHANGED me
    \/ PassEnded \/ Returned
    \/ BeginPass /\ Now("requests", None, Started, 0, 0)
    \/ \E r \in me.resumed : \E pc \in {"look", "evaluate"} :
         Resume(r) /\ Now(pc, r, me.resumed \ {r}, me.handled + 1, me.started)
    \/ \E r \in Requests : Claim(r) /\ Now("look", r, me.resumed, me.handled + 1, me.started)
    \/ \E c \in Convs : ClaimItem(c) /\ Now("look", c, me.resumed, me.handled, me.started)
    \/ me.pc = "look" /\ Now("read", me.case, me.resumed, me.handled,
                             IF me.case \in Convs THEN me.started + 1 ELSE me.started)
    \/ me.pc \notin Free /\ Onward(PCs \ (Free \cup {"look"}))

LEMMA GotoStep ==
    ASSUME MeOK, me.pc \notin Free, NEW pc \in PCs \ (Free \cup {"look"}), Goto(pc)
    PROVE  MeStep
<1>1. Now(pc, me.case, me.resumed, me.handled, me.started)
  BY GotoFacts DEF MeOK, Goto
<1> QED BY <1>1 DEF MeStep, Onward

LEMMA ReturnStep ==
    ASSUME MeOK, Return PROVE Returned
BY ReturnFacts DEF MeOK, Returned

LEMMA EndStep == ASSUME EndPass PROVE PassEnded
BY EndFacts DEF PassEnded

LEMMA StepMe ==
    ASSUME WorkOK, MeOK, [Next]_vars
    PROVE  MeStep
<1>0. me \in MeSet /\ me.handled \in Nat /\ me.started \in Nat
  BY DEF MeOK, MeSet
<1>1. CASE BeginPass
  <2>1. PICK S : S = Started /\ S \subseteq Requests
    BY DEF Started
  <2>2. PICK y : y = Idle /\ me' = [y EXCEPT !.pc = "requests", !.resumed = S]
    BY <1>1, <2>1 DEF BeginPass
  <2>4. y \in MeSet /\ y.case = None /\ y.handled = 0 /\ y.started = 0
    BY <2>2, IdleFacts
  <2>3. Now("requests", None, S, 0, 0)
    BY <2>1, <2>2, <2>4 DEF Now, MeSet, PCs, Free
  <2> QED BY <1>1, <2>1, <2>3 DEF MeStep
<1>2. ASSUME NEW r \in Requests, Resume(r) PROVE MeStep
  <2>1. r \in me.resumed
    BY <1>2 DEF Resume
  <2>2. PICK pc \in {"look", "evaluate"} : pc = (IF request[r].st = "reading" THEN "look" ELSE "evaluate")
    OBVIOUS
  <2>6. PICK n \in Nat : n = me.handled + 1
    BY <1>0
  <2>7. PICK S \in SUBSET Requests : S = me.resumed \ {r}
    BY <1>0 DEF MeSet
  <2>3. me' = [me EXCEPT !.pc = pc, !.case = r, !.resumed = S, !.handled = n]
    BY <1>2, <2>2, <2>6, <2>7 DEF Resume
  <2>4. Now(pc, r, S, n, me.started)
    BY <1>0, <2>2, <2>3 DEF Now, MeSet, PCs, Cases
  <2>5. Now(pc, r, me.resumed \ {r}, me.handled + 1, me.started)
    BY <2>6, <2>7, <2>4
  <2> QED BY <1>2, <2>1, <2>5 DEF MeStep
<1>3. ASSUME NEW r \in Requests, Claim(r) PROVE MeStep
  <2>1. PICK n \in Nat : n = me.handled + 1
    BY <1>0
  <2>2. me' = [me EXCEPT !.pc = "look", !.case = r, !.handled = n]
    BY <1>3, <2>1 DEF Claim
  <2>3. Now("look", r, me.resumed, n, me.started)
    BY <1>0, <2>1, <2>2 DEF Now, MeSet, PCs, Cases
  <2>4. Now("look", r, me.resumed, me.handled + 1, me.started)
    BY <2>1, <2>3
  <2> QED BY <1>3, <2>4 DEF MeStep
<1>4. ASSUME NEW c \in Convs, ClaimItem(c) PROVE MeStep
  <2>1. PICK S \in SUBSET Convs : S = me.seen \cup {c}
    BY <1>0 DEF MeSet
  <2>2. me' = [me EXCEPT !.pc = "look", !.case = c, !.seen = S]
    BY <1>4, <2>1 DEF ClaimItem
  <2>3. Now("look", c, me.resumed, me.handled, me.started)
    BY <1>0, <2>1, <2>2 DEF Now, MeSet, PCs, Cases
  <2> QED BY <1>4, <2>3 DEF MeStep
<1>5. CASE Drained
  <2>1. me' = [me EXCEPT !.pc = "queue"]
    BY <1>5 DEF Drained
  <2>2. "queue" \in PCs /\ me.pc = "requests" /\ me.case = me.case
    BY <1>5 DEF PCs, Free, Drained, MayTakeRequest
  <2>3. Now("queue", me.case, me.resumed, me.handled, me.started)
    BY <1>0, <2>1, <2>2, GotoFacts
  <2> QED BY <2>3 DEF MeStep, Returned
<1>6. CASE StopPass \/ LimitReached \/ QueueServed \/ Crash
  BY <1>6, EndStep DEF StopPass, LimitReached, QueueServed, Crash, MeStep
<1>7. CASE Look
  <2>1. me.pc = "look"
    BY <1>7 DEF Look
  <2>2. CASE me' = Read
    BY <1>0, <2>1, <2>2, ReadFacts DEF MeStep
  <2>3. CASE Return
    BY <2>3, ReturnStep DEF MeStep
  <2>4. CASE Goto("evaluate")
    BY <2>1, <2>4, GotoStep DEF PCs, Free
  <2> QED BY <1>7, <2>2, <2>3, <2>4 DEF Look, LookClosed, LookCurrent, LookUnread, Fail
<1>8. CASE \/ Prepare \/ ClaimReading \/ WriteOwner \/ SendReading \/ BreakReading \/ ReadingAnswers
           \/ ReadingRefused \/ Archive \/ KeepReading \/ CompleteReading \/ PersistReading \/ WriteOutcome
  <2>1. me.pc \notin Free
    BY <1>8 DEF Prepare, ClaimReading, WriteOwner, SendReading, BreakReading, ReadingAnswers, ReadingRefused,
       Archive,
       KeepReading, CompleteReading, PersistReading, WriteOutcome, Free
  <2>2. \/ \E pc \in {"settle", "claim", "own", "complete", "persist", "send", "wait", "keep", "archive", "record"} : Goto(pc)
        \/ Return \/ EndPass
    BY <1>8 DEF Prepare, ClaimReading, WriteOwner, SendReading, BreakReading, ReadingAnswers, ReadingRefused,
       Archive,
       KeepReading, CompleteReading, PersistReading, WriteOutcome, Fail, Doubt, Defer
  <2>3. CASE \E pc \in {"settle", "claim", "own", "complete", "persist", "send", "wait", "keep", "archive", "record"} : Goto(pc)
    BY <2>1, <2>3, GotoStep DEF PCs, Free
  <2> QED BY <2>2, <2>3, ReturnStep, EndStep DEF MeStep
<1>9. CASE SettleReading
  <2>1. me.pc \notin Free /\ (Goto("evaluate") \/ Return)
    BY <1>9 DEF SettleReading, Fail, Free
  <2> QED BY <2>1, GotoStep, ReturnStep DEF MeStep, PCs, Free
<1>10. CASE Evaluate
  <2>1. me.pc \notin Free /\ (Goto("evaluating") \/ Return)
    BY <1>10 DEF Evaluate, Free
  <2> QED BY <2>1, GotoStep, ReturnStep DEF MeStep, PCs, Free
<1>11. CASE Finish
  <2>1. CASE me.case \in Requests
    <3>1. FinishRequest(me.case, call[Folder(me.case)].at)
      BY <1>11, <2>1 DEF Finish
    <3>2. Return \/ EndPass
      BY <3>1 DEF FinishRequest, Doubt
    <3> QED BY <3>2, ReturnStep, EndStep DEF MeStep
  <2>2. CASE me.case \notin Requests
    <3>1. FinishItem(call[Folder(me.case)].at)
      BY <1>11, <2>2 DEF Finish
    <3>2. Return \/ EndPass
      BY <3>1 DEF FinishItem
    <3> QED BY <3>2, ReturnStep, EndStep DEF MeStep
  <2> QED BY <2>1, <2>2
<1>12. CASE \E f \in Folders : CallStep(f)
  BY <1>12 DEF MeStep, CallStep, CheckSend, EvaluationAnswers, EvaluationLost, EvaluationRefused, SetStatus,
     CompleteEvaluation, PersistMatch
<1>13. CASE \/ Imminent \/ CycleStart \/ CycleEnds \/ CycleStops \/ Plan \/ PairEnds
            \/ \E c \in Convs : CycleReads(c) \/ CycleAnswers(c) \/ CycleEnqueues(c) \/ TakePair(c)
  BY <1>13 DEF MeStep, Imminent, CycleStart, CycleEnds, CycleStops, Plan, PairEnds, CycleReads, CycleAnswers,
     CycleEnqueues, TakePair
<1>14. CASE \/ LoseLock \/ EvaluatorDies \/ UNCHANGED vars
            \/ \E r \in Requests : Expire(r) \/ \E c \in Convs : AskFor(r, c)
            \/ \E c \in Convs : Recover(c) \/ SkipClosed(c) \/ LeaseEnds(c) \/ Close(c)
  BY <1>14 DEF MeStep, LoseLock, EvaluatorDies, vars, Expire, AskFor, Recover, SkipClosed, LeaseEnds, Close
<1> QED BY <1>1, <1>2, <1>3, <1>4, <1>5, <1>6, <1>7, <1>8, <1>9, <1>10, <1>11, <1>12, <1>13, <1>14
     DEF Next, Consumer, Service, PassStep, ReadStep, ServiceStep, Folders

LEMMA MeOKStep ==
    ASSUME WorkOK, MeOK, [Next]_vars
    PROVE  MeOK'
<1>0. MeStep /\ SameAsks /\ \A c \in Convs : attempts'[c] >= attempts[c] \/ me'.pc = "idle"
  BY StepMe, StepWork, IdleFacts DEF WorkStep
<1>1. /\ me \in MeSet /\ me.case \in Cases \cup {None} /\ me.handled \in Nat /\ me.started \in Nat
      /\ me.resumed \subseteq Requests
      /\ \A c \in Convs : attempts[c] \in Nat /\ attempts'[c] \in Nat
      /\ None \notin Cases /\ Requests \cap Convs = {}
      /\ MaxRequests \in Nat /\ MaxAuto \in Nat
  BY StepWork, GradingAssumption DEF MeOK, MeSet, WorkStep, WorkOK, Cases
<1>2. CASE UNCHANGED me
  BY <1>0, <1>1, <1>2 DEF MeOK, SameAsks, Free
<1>3. CASE PassEnded
  BY <1>1, <1>3 DEF PassEnded, Now, MeOK, Free, Cases
<1>4. CASE Returned
  BY <1>0, <1>1, <1>4 DEF Returned, Now, MeOK, Free, Cases, SameAsks
<1>5. CASE BeginPass /\ Now("requests", None, Started, 0, 0)
  <2>1. \A r \in Started : r \in Requests /\ request[r].st # "none"
    BY DEF Started
  <2> QED BY <1>0, <1>1, <1>5, <2>1 DEF Now, MeOK, Free, Cases, SameAsks
<1>6. ASSUME NEW r \in me.resumed, NEW pc \in {"look", "evaluate"},
             Resume(r), Now(pc, r, me.resumed \ {r}, me.handled + 1, me.started)
      PROVE  MeOK'
  <2>1. me.handled < MaxRequests
    BY <1>6 DEF Resume, MayTakeRequest
  <2> QED BY <1>0, <1>1, <1>6, <2>1 DEF Now, MeOK, Free, Cases, SameAsks
<1>7. ASSUME NEW r \in Requests, Claim(r), Now("look", r, me.resumed, me.handled + 1, me.started)
      PROVE  MeOK'
  <2>1. me.handled < MaxRequests /\ request[r].st # "none"
    BY <1>7 DEF Claim, MayTakeRequest, Pending
  <2> QED BY <1>0, <1>1, <1>7, <2>1 DEF Now, MeOK, Free, Cases, SameAsks
<1>8. ASSUME NEW c \in Convs, ClaimItem(c), Now("look", c, me.resumed, me.handled, me.started)
      PROVE  MeOK'
  <2>1. me.started < MaxAuto
    BY <1>8 DEF ClaimItem, Claimable
  <2>2. attempts'[c] = attempts[c] + 1
    BY <1>8 DEF ClaimItem, WorkOK
  <2> QED BY <1>0, <1>1, <1>8, <2>1, <2>2 DEF Now, MeOK, Free, Cases, SameAsks
<1>9. CASE me.pc = "look" /\ Now("read", me.case, me.resumed, me.handled,
                                 IF me.case \in Convs THEN me.started + 1 ELSE me.started)
  <2>1. me.case \in Cases /\ me.started <= MaxAuto /\ (me.case \in Convs => me.started < MaxAuto /\ attempts[me.case] >= 1)
    BY <1>9 DEF MeOK, Free
  <2> QED BY <1>0, <1>1, <1>9, <2>1 DEF Now, MeOK, Free, SameAsks
<1>10. CASE me.pc \notin Free /\ Onward(PCs \ (Free \cup {"look"}))
  <2>1. PICK pc \in PCs \ (Free \cup {"look"}) : Now(pc, me.case, me.resumed, me.handled, me.started)
    BY <1>10 DEF Onward
  <2>2. me.case \in Cases /\ (me.case \in Convs => attempts[me.case] >= 1)
    BY <1>10 DEF MeOK
  <2>3. me.case \in Convs => attempts'[me.case] >= 1
    BY <1>0, <1>1, <2>1, <2>2 DEF Now, Free
  <2> QED BY <1>0, <1>1, <2>1, <2>2, <2>3 DEF Now, MeOK, SameAsks
<1> QED BY <1>0, <1>2, <1>3, <1>4, <1>5, <1>6, <1>7, <1>8, <1>9, <1>10 DEF MeStep

-----------------------------------------------------------------------------
(* The calls of the evaluations                                            *)

CallSet == [conv : Convs \cup {None}, at : Ats]

LEMMA CallAtFacts ==
    ASSUME EvaluationsOK, NEW f \in Folders, call[f].at # "none", NEW at \in Ats \ {"none"}, CallAt(f, at)
    PROVE  /\ call' \in [Folders -> CallSet] /\ call'[f].at = at /\ call'[f].conv = call[f].conv
           /\ \A g \in Folders \ {f} : call'[g] = call[g]
           /\ \A g \in Folders : call'[g].at # "none" <=> call'[g].conv \in Convs
<1>1. call \in [Folders -> CallSet]
  BY DEF EvaluationsOK, CallSet
<1> DEFINE e == [call[f] EXCEPT !.at = at]
<1>2. call' = [call EXCEPT ![f] = e]
  BY DEF CallAt
<1>3. e \in CallSet /\ e.at = at /\ e.conv = call[f].conv
  BY <1>1 DEF CallSet
<1> HIDE DEF e
<1>4. call' \in [Folders -> CallSet] /\ call'[f] = e /\ \A g \in Folders \ {f} : call'[g] = call[g]
  BY <1>1, <1>2, <1>3
<1> QED BY <1>3, <1>4 DEF EvaluationsOK

LEMMA CallSetFacts ==
    ASSUME EvaluationsOK, NEW f \in Folders, NEW c \in Convs, NEW at \in Ats \ {"none"},
           call' = [call EXCEPT ![f] = [conv |-> c, at |-> at]]
    PROVE  /\ call' \in [Folders -> CallSet] /\ call'[f].at = at /\ call'[f].conv = c
           /\ \A g \in Folders \ {f} : call'[g] = call[g]
           /\ \A g \in Folders : call'[g].at # "none" <=> call'[g].conv \in Convs
<1>1. call \in [Folders -> CallSet]
  BY DEF EvaluationsOK, CallSet
<1>2. [conv |-> c, at |-> at] \in CallSet
  BY DEF CallSet
<1>3. /\ call' \in [Folders -> CallSet] /\ call'[f] = [conv |-> c, at |-> at]
      /\ \A g \in Folders \ {f} : call'[g] = call[g]
  BY <1>1, <1>2
<1> QED BY <1>3 DEF EvaluationsOK

LEMMA NoCallFacts ==
    ASSUME EvaluationsOK, NEW F \in SUBSET Folders, call' = [f \in Folders |-> IF f \in F THEN NoCall ELSE call[f]]
    PROVE  /\ call' \in [Folders -> CallSet]
           /\ \A g \in F : call'[g].at = "none"
           /\ \A g \in Folders \ F : call'[g] = call[g]
           /\ \A g \in Folders : call'[g].at # "none" <=> call'[g].conv \in Convs
<1>1. NoCall \in CallSet /\ NoCall.at = "none" /\ NoCall.conv \notin Convs
  BY GradingAssumption DEF NoCall, CallSet, Ats
<1> QED BY <1>1 DEF EvaluationsOK, CallSet

\* A step of the call in the folder f: where it stands before and after, and
\* whether it opens the guard.
CallMove(f) ==
    LET a == call[f].at
        b == call'[f].at
    IN  /\ \A g \in Folders \ {f} : call'[g] = call[g]
        /\ call' \in [Folders -> CallSet] /\ a # "none" /\ b # "none" /\ call'[f].conv = call[f].conv
        /\ \A g \in Folders : call'[g].at # "none" <=> call'[g].conv \in Convs
        /\ \/ a = "check" /\ b = "blocking" /\ guard' = guard \cup {f} /\ UNCHANGED <<ledger, evals>>
           \/ /\ a = "check" /\ b = "sent" /\ UNCHANGED <<guard, ledger>>
              /\ evals' = [evals EXCEPT ![call[f].conv] = @ + 1] /\ f \notin guard
           \/ a = "sent" /\ b \in {"answered", "mismatch"} /\ UNCHANGED <<guard, ledger, evals>>
           \/ a = "sent" /\ b = "guarded" /\ guard' = guard \cup {f} /\ UNCHANGED <<ledger, evals>>
           \/ /\ a = "sent" /\ b = "refusing" /\ UNCHANGED <<guard, ledger>>
              /\ evals' = [evals EXCEPT ![call[f].conv] = @ - 1]
           \/ /\ a \in {"blocking", "refusing", "guarded", "mismatch"} /\ UNCHANGED <<guard, evals>>
              /\ b = Closing[a].result
              /\ ledger' = [ledger EXCEPT ![call[f].conv] = IF @ = "running" THEN Closing[a].st ELSE @]
           \/ /\ a = "answered" /\ b = "completed" /\ UNCHANGED <<guard, evals>>
              /\ ledger' = [ledger EXCEPT ![call[f].conv] = "done"]
           \/ a = "completed" /\ b \in {"evaluated", "unsaved"} /\ UNCHANGED <<guard, ledger, evals>>

LEMMA CallMoves ==
    ASSUME EvaluationsOK, NEW f \in Folders, CallStep(f)
    PROVE  CallMove(f)
<1>0. /\ \A x \in {"blocking", "sent", "answered", "mismatch", "guarded", "refusing", "completed",
                 "evaluated", "unsaved"} : x \in Ats \ {"none"}
      /\ DOMAIN Closing = {"blocking", "refusing", "guarded", "mismatch"}
      /\ \A x \in {"blocking", "refusing", "guarded", "mismatch"} : Closing[x].result \in Ats \ {"none"}
  BY DEF Ats, Results, Closing
<1>1. CASE CheckSend(f)
  <2>1. call[f].at = "check"
    BY <1>1 DEF CheckSend
  <2>2. CASE f \in guard \/ unresolved[f] # {}
    <3>1. CallAt(f, "blocking") /\ guard' = guard \cup {f} /\ UNCHANGED <<ledger, evals>>
      BY <1>1, <2>2 DEF CheckSend
    <3> QED BY <1>0, <2>1, <3>1, CallAtFacts DEF CallMove
  <2>3. CASE ~(f \in guard \/ unresolved[f] # {})
    <3>1. CallAt(f, "sent") /\ UNCHANGED <<guard, ledger>> /\ evals' = [evals EXCEPT ![call[f].conv] = @ + 1]
      BY <1>1, <2>3 DEF CheckSend
    <3> QED BY <1>0, <2>1, <2>3, <3>1, CallAtFacts DEF CallMove
  <2> QED BY <2>2, <2>3
<1>2. CASE EvaluationAnswers(f)
  <2>1. /\ call[f].at = "sent" /\ (CallAt(f, "answered") \/ CallAt(f, "mismatch"))
        /\ UNCHANGED <<guard, ledger, evals>>
    BY <1>2 DEF EvaluationAnswers
  <2> QED BY <1>0, <2>1, CallAtFacts DEF CallMove
<1>3. CASE EvaluationLost(f)
  <2>1. call[f].at = "sent" /\ CallAt(f, "guarded") /\ guard' = guard \cup {f} /\ UNCHANGED <<ledger, evals>>
    BY <1>3 DEF EvaluationLost
  <2> QED BY <1>0, <2>1, CallAtFacts DEF CallMove
<1>4. CASE EvaluationRefused(f)
  <2>1. /\ call[f].at = "sent" /\ CallAt(f, "refusing") /\ UNCHANGED <<guard, ledger>>
        /\ evals' = [evals EXCEPT ![call[f].conv] = @ - 1]
    BY <1>4 DEF EvaluationRefused
  <2> QED BY <1>0, <2>1, CallAtFacts DEF CallMove
<1>5. CASE SetStatus(f)
  <2>1. PICK a \in {"blocking", "refusing", "guarded", "mismatch"} : a = call[f].at
    BY <1>0, <1>5 DEF SetStatus
  <2>2. PICK b \in Ats \ {"none"} : b = Closing[a].result
    BY <1>0
  <2>3. /\ CallAt(f, b) /\ UNCHANGED <<guard, evals>>
        /\ ledger' = [ledger EXCEPT ![call[f].conv] = IF @ = "running" THEN Closing[a].st ELSE @]
    BY <1>5, <2>1, <2>2 DEF SetStatus
  <2>4. call[f].at # "none"
    BY <2>1
  <2> QED BY <2>1, <2>2, <2>3, <2>4, CallAtFacts DEF CallMove
<1>6. CASE CompleteEvaluation(f)
  <2>1. /\ call[f].at = "answered" /\ CallAt(f, "completed") /\ UNCHANGED <<guard, evals>>
        /\ ledger' = [ledger EXCEPT ![call[f].conv] = "done"]
    BY <1>6 DEF CompleteEvaluation
  <2> QED BY <1>0, <2>1, CallAtFacts DEF CallMove
<1>7. CASE PersistMatch(f)
  <2>1. /\ call[f].at = "completed" /\ (CallAt(f, "evaluated") \/ CallAt(f, "unsaved"))
        /\ UNCHANGED <<guard, ledger, evals>>
    BY <1>7 DEF PersistMatch
  <2> QED BY <1>0, <2>1, CallAtFacts DEF CallMove
<1> QED BY <1>1, <1>2, <1>3, <1>4, <1>5, <1>6, <1>7 DEF CallStep

\* The calls of the folders F are over.
Dropped(F) ==
    /\ call' \in [Folders -> CallSet]
    /\ \A g \in Folders \cap F : call'[g].at = "none"
    /\ \A g \in Folders \ F : call'[g] = call[g]
    /\ \A g \in Folders : call'[g].at # "none" <=> call'[g].conv \in Convs

LEMMA DropOne ==
    ASSUME EvaluationsOK, NEW f \in Folders, call' = [call EXCEPT ![f] = NoCall]
    PROVE  Dropped({f})
<1>1. call' = [g \in Folders |-> IF g \in {f} THEN NoCall ELSE call[g]]
  BY DEF EvaluationsOK
<1>2. {f} \in SUBSET Folders
  OBVIOUS
<1> QED BY <1>1, <1>2, NoCallFacts DEF Dropped

LEMMA DropOwn ==
    ASSUME EvaluationsOK, call' = [call EXCEPT !["manual"] = NoCall, !["auto"] = NoCall]
    PROVE  Dropped(Own)
<1>1. Own \in SUBSET Folders /\ "manual" \in Folders /\ "auto" \in Folders
  BY DEF Own, Folders
<1>2. call' = [g \in Folders |-> IF g \in Own THEN NoCall ELSE call[g]]
  BY <1>1 DEF EvaluationsOK, Own
<1> QED BY <1>1, <1>2, NoCallFacts DEF Dropped

LEMMA DropKeeps ==
    ASSUME EvaluationsOK, NEW F, Dropped(F), UNCHANGED <<ledger, late, unresolved, match, evals>>
    PROVE  EvaluationsOK'
<1>0. UNCHANGED ledger /\ UNCHANGED late /\ UNCHANGED unresolved /\ UNCHANGED match /\ UNCHANGED evals
  OBVIOUS
<1>1. \A g \in Folders : call'[g] = call[g] \/ call'[g].at = "none"
  BY DEF Dropped
<1>2. "none" \notin Live
  BY DEF Live
<1>3. /\ \A f \in Folders : call'[f].at \in Live => ledger'[call'[f].conv] # "free"
      /\ \A f, g \in Folders : f # g /\ call'[f].at \in Live /\ call'[g].at \in Live => call'[f].conv # call'[g].conv
      /\ \A f \in Folders : /\ call'[f].at \in {"check", "blocking", "refusing"} => evals'[call'[f].conv] = 0
                            /\ call'[f].at = "sent" => evals'[call'[f].conv] = 1
  BY <1>0, <1>1, <1>2 DEF EvaluationsOK
<1> QED BY <1>0, <1>3 DEF EvaluationsOK, Dropped, CallSet

\* A call takes the reservation of its convocatoria, or has its result.
LEMMA BeginKeeps ==
    ASSUME EvaluationsOK, NEW f \in Folders, NEW c \in Convs, Begin(f, c), UNCHANGED <<unresolved, match, evals>>
    PROVE  /\ EvaluationsOK'
           /\ \A g \in Folders \ {f} : call'[g] = call[g]
<1>0. UNCHANGED unresolved /\ UNCHANGED match /\ UNCHANGED evals /\ late' \subseteq Convs
  BY DEF Begin, EvaluationsOK
<1>1. CASE ledger[c] = "free"
  <2>1. ledger' = [ledger EXCEPT ![c] = "running"] /\ call' = [call EXCEPT ![f] = [conv |-> c, at |-> "check"]]
    BY <1>1 DEF Begin
  <2>2. "check" \in Ats \ {"none"}
    BY DEF Ats
  <2>3. /\ call' \in [Folders -> CallSet] /\ call'[f].at = "check" /\ call'[f].conv = c
        /\ \A g \in Folders \ {f} : call'[g] = call[g]
        /\ \A g \in Folders : call'[g].at # "none" <=> call'[g].conv \in Convs
    BY <2>1, <2>2, CallSetFacts
  <2>4. \A d \in Convs : ledger'[d] = IF d = c THEN "running" ELSE ledger[d]
    BY <2>1 DEF EvaluationsOK
  <2>5. ledger' \in [Convs -> {"free", "running", "uncertain", "failed", "done"}]
    BY <2>1 DEF EvaluationsOK
  <2>6. evals[c] = 0 /\ \A g \in Folders : call[g].at \in Live => call[g].conv # c /\ call[g].conv \in Convs
    BY <1>1 DEF EvaluationsOK, Live
  <2>7. \A d \in Convs : ledger'[d] = "free" => evals'[d] = 0
    BY <1>0, <2>4 DEF EvaluationsOK
  <2>8. \A g \in Folders : call'[g].at \in Live => ledger'[call'[g].conv] # "free"
    BY <2>3, <2>4, <2>6 DEF EvaluationsOK
  <2>9. \A g, h \in Folders : g # h /\ call'[g].at \in Live /\ call'[h].at \in Live => call'[g].conv # call'[h].conv
    BY <2>3, <2>6 DEF EvaluationsOK
  <2>10. \A g \in Folders : /\ call'[g].at \in {"check", "blocking", "refusing"} => evals'[call'[g].conv] = 0
                            /\ call'[g].at = "sent" => evals'[call'[g].conv] = 1
    BY <1>0, <2>3, <2>6 DEF EvaluationsOK
  <2> QED BY <1>0, <2>3, <2>5, <2>7, <2>8, <2>9, <2>10 DEF EvaluationsOK, CallSet
<1>2. CASE ledger[c] # "free"
  <2>1. PICK v \in {ledger[c], "uncertain"} : ledger' = [ledger EXCEPT ![c] = v]
    BY <1>2 DEF Begin
  <2>2. PICK a \in {"completed", "doubt", "failed", "busy"} : call' = [call EXCEPT ![f] = [conv |-> c, at |-> a]]
    BY <1>2 DEF Begin
  <2>3. a \in Ats \ {"none"} /\ a \notin Live /\ a \notin {"check", "blocking", "refusing", "sent"}
    BY DEF Ats, Live, Results
  <2>4. /\ call' \in [Folders -> CallSet] /\ call'[f].at = a /\ call'[f].conv = c
        /\ \A g \in Folders \ {f} : call'[g] = call[g]
        /\ \A g \in Folders : call'[g].at # "none" <=> call'[g].conv \in Convs
    BY <2>2, <2>3, CallSetFacts
  <2>5. v # "free" /\ v \in {"free", "running", "uncertain", "failed", "done"}
    BY <1>2 DEF EvaluationsOK
  <2>6. /\ ledger' \in [Convs -> {"free", "running", "uncertain", "failed", "done"}]
        /\ \A d \in Convs : ledger'[d] = IF d = c THEN v ELSE ledger[d]
    BY <2>1, <2>5 DEF EvaluationsOK
  <2>7. \A d \in Convs : ledger'[d] = "free" => evals'[d] = 0
    BY <1>0, <2>5, <2>6 DEF EvaluationsOK
  <2>8. \A g \in Folders : call'[g].at \in Live => ledger'[call'[g].conv] # "free"
    <3>1. \A g \in Folders : call'[g].at \in Live => call'[g] = call[g] /\ call[g].conv \in Convs
      BY <2>3, <2>4 DEF EvaluationsOK, Live
    <3> QED BY <2>5, <2>6, <3>1 DEF EvaluationsOK
  <2>9. \A g, h \in Folders : g # h /\ call'[g].at \in Live /\ call'[h].at \in Live => call'[g].conv # call'[h].conv
    BY <2>3, <2>4 DEF EvaluationsOK
  <2>10. \A g \in Folders : /\ call'[g].at \in {"check", "blocking", "refusing"} => evals'[call'[g].conv] = 0
                            /\ call'[g].at = "sent" => evals'[call'[g].conv] = 1
    BY <1>0, <2>3, <2>4 DEF EvaluationsOK
  <2> QED BY <1>0, <2>4, <2>6, <2>7, <2>8, <2>9, <2>10 DEF EvaluationsOK, CallSet
<1> QED BY <1>1, <1>2

LEMMA CallKeeps ==
    ASSUME EvaluationsOK, NEW f \in Folders, CallStep(f)
    PROVE  EvaluationsOK'
<1> DEFINE c == call[f].conv
           a == call[f].at
           b == call'[f].at
<1>1. CallMove(f) /\ c \in Convs
  BY CallMoves DEF CallMove, EvaluationsOK
<1>2. late' = late /\ match' \subseteq Convs /\ unresolved' \in [Folders -> SUBSET Convs]
  BY <1>1 DEF CallStep, CheckSend, EvaluationAnswers, EvaluationLost, EvaluationRefused, SetStatus,
     CompleteEvaluation,
     PersistMatch, EvaluationsOK
<1>3. /\ \A g \in Folders : /\ (call[g].at # "none" <=> call[g].conv \in Convs)
                            /\ call'[g].conv = call[g].conv
                            /\ (g # f => call'[g] = call[g])
      /\ \A g \in Folders \ {f} : a \in Live /\ call[g].at \in Live => call[g].conv # c
      /\ b \in Live => a \in Live
      /\ Live \subseteq Ats \ {"none"}
  BY <1>1 DEF CallMove, EvaluationsOK, Live, Closing, Ats
<1>4. PICK e \in 0..1 : /\ evals' = [evals EXCEPT ![c] = e]
                        /\ (a = "check" /\ b = "sent" => e = 1) /\ (b \in {"refusing", "blocking"} => e = 0)
                        /\ e = evals[c] \/ (a \in Live /\ b \in {"sent", "refusing"})
  <2>0. evals \in [Convs -> 0..1] /\ evals[c] \in 0..1
    BY <1>1 DEF EvaluationsOK
  <2>1. CASE a = "check" /\ b = "sent"
    <3>1. evals[c] = 0 /\ evals' = [evals EXCEPT ![c] = 1]
      <4>1. evals[c] = 0
        BY <2>1 DEF EvaluationsOK
      <4>2. evals' = [evals EXCEPT ![c] = @ + 1]
        BY <1>1, <2>1 DEF CallMove, Closing
      <4> QED BY <4>1, <4>2
    <3> QED BY <2>1, <3>1 DEF Live
  <2>2. CASE a = "sent" /\ b = "refusing"
    <3>1. evals[c] = 1
      BY <2>2 DEF EvaluationsOK
    <3>2. evals' = [evals EXCEPT ![c] = @ - 1]
      BY <1>1, <2>2 DEF CallMove, Closing
    <3>3. evals' = [evals EXCEPT ![c] = 0]
      BY <3>1, <3>2
    <3> QED BY <2>2, <3>3 DEF Live
  <2>3. CASE ~(a = "check" /\ b = "sent") /\ ~(a = "sent" /\ b = "refusing")
    <3>1. UNCHANGED evals /\ b # "refusing" /\ (b = "blocking" => a = "check")
      BY <1>1, <2>3 DEF CallMove, Closing
    <3>2. evals' = [evals EXCEPT ![c] = evals[c]]
      BY <2>0, <3>1
    <3>3. b = "blocking" => evals[c] = 0
      BY <3>1 DEF EvaluationsOK
    <3> QED BY <2>0, <2>3, <3>1, <3>2, <3>3
  <2> QED BY <2>1, <2>2, <2>3
<1>5. PICK v \in {"free", "running", "uncertain", "failed", "done"} :
            /\ ledger' = [ledger EXCEPT ![c] = v]
            /\ v = "free" => ledger[c] = "free" \/ (a \in {"blocking", "refusing"} /\ b \notin Live)
  <2>0. ledger \in [Convs -> {"free", "running", "uncertain", "failed", "done"}]
    BY DEF EvaluationsOK
  <2>1. CASE UNCHANGED ledger
    <3>1. ledger' = [ledger EXCEPT ![c] = ledger[c]] /\ ledger[c] \in {"free", "running", "uncertain", "failed", "done"}
      BY <1>1, <2>0, <2>1
    <3> QED BY <3>1
  <2>2. CASE ledger' = [ledger EXCEPT ![c] = "done"]
    BY <2>2
  <2>3. CASE /\ a \in {"blocking", "refusing", "guarded", "mismatch"} /\ b = Closing[a].result
             /\ ledger' = [ledger EXCEPT ![c] = IF @ = "running" THEN Closing[a].st ELSE @]
    <3>1. PICK v : v = IF ledger[c] = "running" THEN Closing[a].st ELSE ledger[c]
      OBVIOUS
    <3>2. ledger' = [ledger EXCEPT ![c] = v]
      BY <2>3, <3>1
    <3>3. /\ v \in {"free", "running", "uncertain", "failed", "done"}
          /\ v = "free" => ledger[c] = "free" \/ (a \in {"blocking", "refusing"} /\ b \notin Live)
      BY <1>1, <2>0, <2>3, <3>1 DEF Closing, Live
    <3> QED BY <3>2, <3>3
  <2> QED BY <1>1, <2>1, <2>2, <2>3 DEF CallMove
<1>6. /\ \A d \in Convs : evals'[d] = IF d = c THEN e ELSE evals[d]
      /\ \A d \in Convs : ledger'[d] = IF d = c THEN v ELSE ledger[d]
      /\ evals' \in [Convs -> 0..1]
      /\ ledger' \in [Convs -> {"free", "running", "uncertain", "failed", "done"}]
  BY <1>4, <1>5 DEF EvaluationsOK
<1>7. ASSUME NEW d \in Convs, ledger'[d] = "free" PROVE evals'[d] = 0
  <2>1. CASE d # c
    BY <1>6, <1>7, <2>1 DEF EvaluationsOK
  <2>2. CASE d = c /\ ledger[c] = "free"
    <3>1. a \notin Live /\ evals[c] = 0
      BY <1>1, <2>2 DEF EvaluationsOK
    <3> QED BY <1>4, <1>6, <2>2, <3>1
  <2>3. CASE d = c /\ a \in {"blocking", "refusing"} /\ b \notin Live
    <3>1. evals[c] = 0
      BY <2>3 DEF EvaluationsOK
    <3> QED BY <1>4, <1>6, <2>3, <3>1 DEF Live
  <2> QED BY <1>5, <1>6, <1>7, <2>1, <2>2, <2>3
<1>8. ASSUME NEW g \in Folders, call'[g].at \in Live PROVE ledger'[call'[g].conv] # "free"
  <2>1. call[g].at \in Live /\ call[g].conv \in Convs /\ call'[g].conv = call[g].conv /\ ledger[call[g].conv] # "free"
    BY <1>3, <1>8 DEF EvaluationsOK
  <2>2. call[g].conv = c /\ v = "free" => FALSE
    BY <1>3, <1>5, <1>8, <2>1 DEF Live
  <2> QED BY <1>6, <2>1, <2>2
<1>9. \A g, h \in Folders : g # h /\ call'[g].at \in Live /\ call'[h].at \in Live => call'[g].conv # call'[h].conv
  BY <1>3 DEF EvaluationsOK
<1>10. ASSUME NEW g \in Folders
       PROVE  /\ call'[g].at \in {"check", "blocking", "refusing"} => evals'[call'[g].conv] = 0
              /\ call'[g].at = "sent" => evals'[call'[g].conv] = 1
  <2>1. CASE g = f
    <3>1. b # "check" /\ (b = "sent" => a = "check")
      BY <1>1 DEF CallMove, Closing
    <3> QED BY <1>1, <1>3, <1>4, <1>6, <2>1, <3>1
  <2>2. CASE g # f
    <3>1. call[g].at \in Live => call[g].conv \in Convs /\ (call[g].conv = c => a \notin Live)
      BY <1>3, <2>2
    <3>2. call[g].conv = c /\ call[g].at \in Live => e = evals[c]
      BY <1>4, <3>1
    <3> QED BY <1>3, <1>6, <2>2, <3>1, <3>2 DEF EvaluationsOK, Live
  <2> QED BY <2>1, <2>2
<1> QED BY <1>1, <1>2, <1>6, <1>7, <1>8, <1>9, <1>10 DEF EvaluationsOK, CallMove, CallSet

LEMMA EvaluationsStep ==
    ASSUME WorkOK, MeOK, EvaluationsOK, [Next]_vars
    PROVE  EvaluationsOK'
<1>1. CASE UNCHANGED evaluations
  <2>1. /\ UNCHANGED ledger /\ UNCHANGED late /\ UNCHANGED unresolved
        /\ UNCHANGED match /\ UNCHANGED evals /\ UNCHANGED call
    BY <1>1 DEF evaluations
  <2> QED BY <2>1 DEF EvaluationsOK
<1>2. ASSUME NEW f \in Folders, CallStep(f) PROVE EvaluationsOK'
  BY <1>2, CallKeeps
<1>3. CASE Evaluate
  <2>1. me.pc \notin Free /\ Folder(me.case) \in Folders
    BY <1>3 DEF Evaluate, Free, Folder, Folders
  <2>2. CASE Begin(Folder(me.case), Here)
    <3>1. UNCHANGED <<unresolved, match, evals>> /\ Here \in Convs
      BY <1>3, <2>1, CaseFacts DEF Evaluate
    <3> QED BY <2>1, <2>2, <3>1, BeginKeeps
  <2>3. CASE UNCHANGED <<ledger, late, call>>
    BY <1>1, <1>3, <2>3 DEF Evaluate, evaluations
  <2> QED BY <1>3, <2>2, <2>3 DEF Evaluate, Here
<1>4. ASSUME NEW c \in Convs, TakePair(c) PROVE EvaluationsOK'
  <2>1. Begin("service", c) /\ UNCHANGED <<unresolved, match, evals>> /\ "service" \in Folders
    BY <1>4 DEF TakePair, Folders
  <2> QED BY <2>1, BeginKeeps
<1>5. CASE Finish
  <2>1. Folder(me.case) \in Folders /\ call' = [call EXCEPT ![Folder(me.case)] = NoCall]
    BY <1>5 DEF Finish, Folder, Folders
  <2>2. UNCHANGED <<ledger, late, unresolved, match, evals>>
    BY <1>5 DEF Finish
  <2> QED BY <2>1, <2>2, DropOne, DropKeeps
<1>6. CASE PairEnds \/ EvaluatorDies
  <2>1. "service" \in Folders /\ call' = [call EXCEPT !["service"] = NoCall]
    BY <1>6 DEF PairEnds, EvaluatorDies, Folders
  <2>2. UNCHANGED <<ledger, late, unresolved, match, evals>>
    BY <1>6 DEF PairEnds, EvaluatorDies
  <2> QED BY <2>1, <2>2, DropOne, DropKeeps
<1>7. CASE Crash
  <2>1. UNCHANGED <<ledger, late, unresolved, match, evals>>
    BY <1>7 DEF Crash
  <2> QED BY <1>7, <2>1, DropOwn, DropKeeps DEF Crash
<1>8. ASSUME NEW c \in Convs, LeaseEnds(c) PROVE EvaluationsOK'
  <2>1. /\ UNCHANGED ledger /\ late' = late \cup {c} /\ UNCHANGED unresolved
        /\ UNCHANGED match /\ UNCHANGED evals /\ UNCHANGED call
    BY <1>8 DEF LeaseEnds
  <2> QED BY <2>1 DEF EvaluationsOK
<1>9. CASE ReadStep
  BY <1>1, <1>9 DEF ReadStep, Look, Prepare, ClaimReading, WriteOwner, SendReading, BreakReading, ReadingAnswers,
     ReadingRefused, Archive, KeepReading, CompleteReading, PersistReading, WriteOutcome, SettleReading
<1>10. CASE \/ BeginPass \/ StopPass \/ LimitReached \/ Drained \/ QueueServed
            \/ \E r \in Requests : Resume(r) \/ Claim(r)
            \/ \E c \in Convs : ClaimItem(c)
  BY <1>1, <1>10 DEF BeginPass, StopPass, LimitReached, Drained, QueueServed, Resume, Claim, ClaimItem
<1>11. CASE \/ Imminent \/ CycleStart \/ CycleEnds \/ CycleStops \/ Plan \/ LoseLock \/ UNCHANGED vars
            \/ \E c \in Convs : CycleReads(c) \/ CycleAnswers(c) \/ CycleEnqueues(c)
            \/ \E r \in Requests : Expire(r) \/ \E c \in Convs : AskFor(r, c)
            \/ \E c \in Convs : Recover(c) \/ SkipClosed(c) \/ Close(c)
  BY <1>1, <1>11 DEF Imminent, CycleStart, CycleEnds, CycleStops, Plan, LoseLock, vars, CycleReads, CycleAnswers,
     CycleEnqueues, Expire, AskFor, Recover, SkipClosed, Close
<1> QED BY <1>2, <1>3, <1>4, <1>5, <1>6, <1>7, <1>8, <1>9, <1>10, <1>11
     DEF Next, Consumer, Service, PassStep, ServiceStep, Folders

-----------------------------------------------------------------------------
(* The readings                                                            *)

\* Neither the convocatoria of a case with an answer changes, nor that of the case
\* of the consumer.
LEMMA SameConvs ==
    ASSUME WorkOK, MeOK, Rows, SameAsks
    PROVE  /\ \A k \in kept : ConvOf(k) \in Convs /\ ConvOf(k)' = ConvOf(k)
           /\ me.pc \notin Free /\ me'.case = me.case => Here \in Convs /\ Here' = Here
<1>1. ASSUME NEW k \in kept PROVE ConvOf(k) \in Convs /\ ConvOf(k)' = ConvOf(k)
  BY DEF Rows, WorkOK, SameAsks, ConvOf, Cases
<1>2. ASSUME me.pc \notin Free, me'.case = me.case PROVE Here \in Convs /\ Here' = Here
  <2>1. Here \in Convs /\ (me.case \in Requests => request[me.case].st # "none")
    BY <1>2, CaseFacts
  <2> QED BY <1>2, <2>1 DEF Here, ConvOf, SameAsks
<1> QED BY <1>1, <1>2

\* A row and its readings move together; the folders of the cases are left alone.
LEMMA RowsMove ==
    ASSUME WorkOK, MeOK, Rows, SameAsks, NEW c \in Convs,
           NEW v \in {"absent", "running", "cycle", "uncertain", "pending", "done"}, NEW n \in 0..1,
           row' = [row EXCEPT ![c] = v], reads' = [reads EXCEPT ![c] = n],
           v \in {"absent", "pending"} => n = 0 /\ \A k \in kept : ConvOf(k) # c,
           current' \subseteq Convs, UNCHANGED owner, UNCHANGED kept, UNCHANGED outcome
    PROVE  Rows'
<1>1. /\ \A d \in Convs : row'[d] = IF d = c THEN v ELSE row[d]
      /\ \A d \in Convs : reads'[d] = IF d = c THEN n ELSE reads[d]
      /\ row' \in [Convs -> {"absent", "running", "cycle", "uncertain", "pending", "done"}]
      /\ reads' \in [Convs -> 0..1]
  BY DEF Rows
<1>2. ASSUME NEW k \in kept
      PROVE  (k \in Requests => request'[k].st # "none") /\ row'[ConvOf(k)'] \notin {"absent", "pending"}
  <2>1. ConvOf(k)' = ConvOf(k) /\ ConvOf(k) \in Convs
    BY SameConvs
  <2>2. row[ConvOf(k)] \notin {"absent", "pending"} /\ (k \in Requests => request[k].st # "none")
    BY DEF Rows
  <2>3. row'[ConvOf(k)] \notin {"absent", "pending"}
    BY <1>1, <2>1, <2>2
  <2> QED BY <2>1, <2>2, <2>3 DEF SameAsks
<1>3. \A d \in Convs : row'[d] \in {"absent", "pending"} => reads'[d] = 0
  BY <1>1 DEF Rows
<1> QED BY <1>1, <1>2, <1>3 DEF Rows

LEMMA RowsStay ==
    ASSUME WorkOK, MeOK, Rows, SameAsks, UNCHANGED row, UNCHANGED reads, current' \subseteq Convs,
           owner' \subseteq Cases, kept' \subseteq owner', kept' \subseteq kept,
           outcome' \in [Cases -> {"none", "unread", "complete"}]
    PROVE  Rows'
<1>1. ASSUME NEW k \in kept'
      PROVE  (k \in Requests => request'[k].st # "none") /\ row'[ConvOf(k)'] \notin {"absent", "pending"}
  <2>1. ConvOf(k)' = ConvOf(k) /\ row[ConvOf(k)] \notin {"absent", "pending"}
        /\ (k \in Requests => request[k].st # "none")
    BY SameConvs DEF Rows
  <2> QED BY <2>1 DEF SameAsks
<1> QED BY <1>1 DEF Rows

\* Without a claim the consumer holds nothing.
LEMMA HoldsNothing == ASSUME me'.pc \notin Holding PROVE Holds'
BY DEF Holds, Holding

LEMMA HoldsSame ==
    ASSUME WorkOK, MeOK, Rows, Holds, SameAsks, UNCHANGED readings, UNCHANGED me \/ me'.pc \notin Holding
    PROVE  ReadingsOK'
<1>0. UNCHANGED row /\ UNCHANGED current /\ UNCHANGED reads /\ UNCHANGED owner /\ UNCHANGED kept /\ UNCHANGED outcome
  BY DEF readings
<1>1. Rows'
  BY <1>0, RowsStay DEF Rows
<1>2. CASE me'.pc \notin Holding
  BY <1>1, <1>2, HoldsNothing DEF ReadingsOK
<1>3. CASE UNCHANGED me /\ me.pc \in Holding
  <2>1. me.pc \notin Free
    BY <1>3 DEF Holding, Free
  <2>2. Here' = Here /\ \A k \in kept : ConvOf(k)' = ConvOf(k)
    BY <1>3, <2>1, SameConvs
  <2>3. Holds'
    BY <1>0, <1>3, <2>2 DEF Holds
  <2> QED BY <1>1, <2>3 DEF ReadingsOK
<1> QED BY <1>2, <1>3

LEMMA Leaves ==
    ASSUME MeOK, Return \/ EndPass
    PROVE  me'.pc \notin Holding
<1>1. me \in MeSet
  BY DEF MeOK
<1>2. CASE Return
  BY <1>1, <1>2, ReturnFacts DEF Now, Holding
<1>3. CASE EndPass
  BY <1>3, EndFacts DEF Now, Holding
<1> QED BY <1>2, <1>3

LEMMA Goes ==
    ASSUME MeOK, NEW pc \in PCs, Goto(pc)
    PROVE  me'.pc = pc /\ me'.case = me.case
BY GotoFacts DEF MeOK, Goto, Now

\* The steps of a reading, one by one.
LEMMA ClaimKeeps ==
    ASSUME WorkOK, MeOK, ReadingsOK, SameAsks, ClaimReading
    PROVE  ReadingsOK'
<1>0. /\ me.pc \notin Free /\ Here \in Convs /\ current \subseteq Convs /\ Rows /\ Holds
      /\ me.pc = "claim" /\ UNCHANGED current /\ UNCHANGED reads /\ UNCHANGED owner /\ UNCHANGED kept /\ UNCHANGED outcome
  BY CaseFacts DEF ClaimReading, Free, ReadingsOK, Rows
<1>1. CASE row[Here] \in {"absent", "pending"} /\ row' = [row EXCEPT ![Here] = "running"] /\ Goto("own")
  <2>1. me'.pc = "own" /\ me'.case = me.case
    BY <1>1, Goes DEF PCs
  <2>2. PICK c \in Convs : c = Here
    BY <1>0
  <2>3. PICK n \in 0..1 : n = reads[c]
    BY <1>0 DEF Rows
  <2>4. n = 0 /\ \A k \in kept : ConvOf(k) # c
    BY <1>0, <1>1, <2>2, <2>3 DEF Rows
  <2>10. PICK v \in {"absent", "running", "cycle", "uncertain", "pending", "done"} : v = "running"
    OBVIOUS
  <2>5. row' = [row EXCEPT ![c] = v] /\ reads' = [reads EXCEPT ![c] = n]
    BY <1>0, <1>1, <2>2, <2>3, <2>10 DEF Rows
  <2>6. Rows'
    BY <1>0, <2>4, <2>5, RowsMove
  <2>7. Here' = c /\ \A k \in kept : ConvOf(k)' = ConvOf(k)
    BY <1>0, <2>1, <2>2, SameConvs
  <2>8. row'[c] = "running" /\ reads'[c] = 0
    BY <1>0, <2>4, <2>5, <2>10 DEF Rows
  <2>9. Holds'
    BY <1>0, <2>1, <2>4, <2>7, <2>8 DEF Holds
  <2> QED BY <2>6, <2>9 DEF ReadingsOK
<1>2. CASE UNCHANGED row /\ \/ Goto("complete") \/ Goto("persist") \/ Return
  <2>1. me'.pc \notin Holding
    BY <1>2, Goes, Leaves DEF PCs, Holding
  <2> QED BY <1>0, <1>2, <2>1, HoldsSame DEF readings
<1> QED BY <1>1, <1>2 DEF ClaimReading, Fail, Here

LEMMA SendKeeps ==
    ASSUME WorkOK, MeOK, ReadingsOK, SameAsks, SendReading
    PROVE  ReadingsOK'
<1>0. /\ me.pc \notin Free /\ Here \in Convs /\ current \subseteq Convs /\ Rows /\ Holds
      /\ me.pc = "send" /\ UNCHANGED row /\ UNCHANGED current /\ UNCHANGED owner /\ UNCHANGED kept /\ UNCHANGED outcome
      /\ reads' = [reads EXCEPT ![Here] = @ + 1] /\ Goto("wait")
  BY CaseFacts DEF SendReading, Free, ReadingsOK, Rows, Here
<1>1. me'.pc = "wait" /\ me'.case = me.case
  BY <1>0, Goes DEF PCs
<1>2. PICK c \in Convs : c = Here
  BY <1>0
<1>3. row[c] = "running" /\ reads[c] = 0 /\ me.case \in owner /\ \A k \in kept : ConvOf(k) # c
  BY <1>0, <1>2 DEF Holds
<1>9. PICK v \in {"absent", "running", "cycle", "uncertain", "pending", "done"}, n \in 0..1 :
        v = "running" /\ n = 1
  OBVIOUS
<1>4. row' = [row EXCEPT ![c] = v] /\ reads' = [reads EXCEPT ![c] = n]
  <2>1. reads' = [reads EXCEPT ![c] = reads[c] + 1]
    BY <1>0, <1>2
  <2>2. reads[c] + 1 = n
    BY <1>3, <1>9
  <2>3. reads' = [reads EXCEPT ![c] = n]
    BY <2>1, <2>2
  <2>4. row' = row /\ row[c] = v /\ row \in [Convs -> {"absent", "running", "cycle", "uncertain", "pending", "done"}]
    BY <1>0, <1>3, <1>9 DEF Rows
  <2>5. row' = [row EXCEPT ![c] = v]
    BY <2>4
  <2> QED BY <2>3, <2>5
<1>5. Rows'
  BY <1>0, <1>4, <1>9, RowsMove
<1>6. Here' = c /\ \A k \in kept : ConvOf(k)' = ConvOf(k)
  BY <1>0, <1>1, <1>2, SameConvs
<1>7. row'[c] = "running" /\ reads'[c] = 1
  BY <1>0, <1>4, <1>9 DEF Rows
<1>8. Holds'
  BY <1>0, <1>1, <1>3, <1>6, <1>7 DEF Holds
<1> QED BY <1>5, <1>8 DEF ReadingsOK

LEMMA RefusalKeeps ==
    ASSUME WorkOK, MeOK, ReadingsOK, SameAsks, ReadingRefused
    PROVE  ReadingsOK'
<1>0. /\ me.pc \notin Free /\ Here \in Convs /\ current \subseteq Convs /\ Rows /\ Holds
      /\ me.pc = "wait" /\ UNCHANGED current /\ UNCHANGED owner /\ UNCHANGED kept /\ UNCHANGED outcome /\ Goto("archive")
      /\ reads' = [reads EXCEPT ![Here] = @ - 1]
      /\ row' = [row EXCEPT ![Here] = IF @ = "running" THEN "pending" ELSE @]
  BY CaseFacts DEF ReadingRefused, Free, ReadingsOK, Rows, Here
<1>1. me'.pc = "archive" /\ me'.case = me.case
  BY <1>0, Goes DEF PCs
<1>2. PICK c \in Convs : c = Here
  BY <1>0
<1>3. row[c] = "running" /\ reads[c] = 1 /\ me.case \in owner /\ \A k \in kept : ConvOf(k) # c
  BY <1>0, <1>2 DEF Holds
<1>9. PICK v \in {"absent", "running", "cycle", "uncertain", "pending", "done"}, n \in 0..1 :
        v = "pending" /\ n = 0
  OBVIOUS
<1>4. row' = [row EXCEPT ![c] = v] /\ reads' = [reads EXCEPT ![c] = n]
  <2>1. reads' = [reads EXCEPT ![c] = reads[c] - 1]
    BY <1>0, <1>2
  <2>2. row' = [row EXCEPT ![c] = IF row[c] = "running" THEN "pending" ELSE row[c]]
    BY <1>0, <1>2
  <2>3. reads[c] - 1 = n
    BY <1>3, <1>9
  <2>4. reads' = [reads EXCEPT ![c] = n]
    BY <2>1, <2>3
  <2> QED BY <1>3, <1>9, <2>2, <2>4
<1>5. Rows'
  BY <1>0, <1>3, <1>4, <1>9, RowsMove
<1>6. ConvOf(me.case) = c
  BY <1>2 DEF Here
<1>7. me.case \notin kept
  BY <1>3, <1>6
<1>8. Holds'
  BY <1>0, <1>1, <1>3, <1>7 DEF Holds
<1> QED BY <1>5, <1>8 DEF ReadingsOK

LEMMA KeepKeeps ==
    ASSUME WorkOK, MeOK, ReadingsOK, SameAsks, KeepReading
    PROVE  ReadingsOK'
<1>0. /\ me.pc \notin Free /\ Here \in Convs /\ current \subseteq Convs /\ Rows /\ Holds
      /\ me.pc = "keep" /\ UNCHANGED row /\ UNCHANGED current /\ UNCHANGED reads /\ UNCHANGED owner /\ UNCHANGED outcome
  BY CaseFacts DEF KeepReading, Free, ReadingsOK, Rows
<1>1. CASE kept' = kept \cup {me.case} /\ Goto("complete")
  <2>1. me'.pc \notin Holding /\ me'.case = me.case
    BY <1>1, Goes DEF PCs, Holding
  <2>2. row[Here] = "running" /\ me.case \in owner
    BY <1>0 DEF Holds
  <2>3. me.case \in Requests => request[me.case].st # "none"
    BY <1>0, CaseFacts
  <2>4. Here' = Here /\ \A k \in kept : ConvOf(k)' = ConvOf(k)
    BY <1>0, <2>1, SameConvs
  <2>5. ASSUME NEW k \in kept'
        PROVE  (k \in Requests => request'[k].st # "none") /\ row'[ConvOf(k)'] \notin {"absent", "pending"}
    <3>1. CASE k \in kept
      BY <1>0, <2>4, <3>1 DEF Rows, SameAsks
    <3>2. CASE k = me.case
      <4>1. ConvOf(k)' = Here'
        BY <2>1, <3>2 DEF Here, ConvOf
      <4>2. request'[k].st # "none" \/ k \notin Requests
        BY <2>3, <3>2 DEF SameAsks
      <4> QED BY <1>0, <2>2, <2>4, <4>1, <4>2
    <3> QED BY <1>1, <2>5, <3>1, <3>2
  <2>6. Rows'
    BY <1>0, <1>1, <2>2, <2>5 DEF Rows
  <2> QED BY <2>1, <2>6, HoldsNothing DEF ReadingsOK
<1>2. CASE UNCHANGED kept /\ EndPass
  BY <1>0, <1>2, Leaves, HoldsSame DEF readings
<1> QED BY <1>1, <1>2 DEF KeepReading, Doubt, Defer

\* The steps that hold no row, or give it up.
LEMMA RowKeeps ==
    ASSUME WorkOK, MeOK, ReadingsOK, SameAsks, BreakReading \/ CompleteReading
    PROVE  ReadingsOK'
<1>0. /\ me.pc \notin Free /\ Here \in Convs /\ current \subseteq Convs /\ Rows
      /\ UNCHANGED current /\ UNCHANGED reads /\ UNCHANGED owner /\ UNCHANGED kept /\ UNCHANGED outcome
  BY CaseFacts DEF BreakReading, CompleteReading, Free, ReadingsOK, Rows
<1>1. PICK c \in Convs : c = Here
  BY <1>0
<1>2. PICK n \in 0..1 : n = reads[c]
  BY <1>0 DEF Rows
<1>3. PICK v \in {"absent", "running", "cycle", "uncertain", "pending", "done"} :
        /\ row' = [row EXCEPT ![c] = v] /\ (v = row[c] \/ v \in {"uncertain", "done"})
  <2>1. CASE BreakReading
    <3>1. row' = [row EXCEPT ![c] = IF row[c] = "running" THEN "uncertain" ELSE row[c]]
      BY <1>1, <2>1 DEF BreakReading, Here
    <3> QED BY <1>0, <3>1 DEF Rows
  <2>2. CASE CompleteReading
    BY <1>1, <2>2 DEF CompleteReading, Here
  <2> QED BY <2>1, <2>2
<1>4. reads' = [reads EXCEPT ![c] = n]
  BY <1>0, <1>2 DEF Rows
<1>5. v \in {"absent", "pending"} => n = 0 /\ \A k \in kept : ConvOf(k) # c
  BY <1>0, <1>2, <1>3 DEF Rows
<1>6. Rows'
  BY <1>0, <1>3, <1>4, <1>5, RowsMove
<1>7. me'.pc \notin Holding
  BY Goes, Leaves DEF BreakReading, CompleteReading, Doubt, Defer, PCs, Holding
<1> QED BY <1>6, <1>7, HoldsNothing DEF ReadingsOK

\* What the cycle reads is not what the consumer holds.
LEMMA CycleKeeps ==
    ASSUME WorkOK, MeOK, ReadingsOK, SameAsks, NEW c \in Convs, CycleReads(c) \/ CycleAnswers(c)
    PROVE  ReadingsOK'
<1>0. /\ Rows /\ Holds /\ UNCHANGED me /\ UNCHANGED owner /\ UNCHANGED kept /\ UNCHANGED outcome
      /\ current' \subseteq Convs /\ row[c] \in {"absent", "cycle"}
  BY DEF CycleReads, CycleAnswers, ReadingsOK, Rows
<1>1. PICK v \in {"absent", "running", "cycle", "uncertain", "pending", "done"}, n \in 0..1 :
        row' = [row EXCEPT ![c] = v] /\ reads' = [reads EXCEPT ![c] = n] /\ v \in {"cycle", "done"}
  <2>1. CASE CycleReads(c)
    <3>1. reads[c] = 0
      BY <2>1 DEF CycleReads, ReadingsOK, Rows
    <3>2. reads' = [reads EXCEPT ![c] = reads[c] + 1] /\ row' = [row EXCEPT ![c] = "cycle"]
      BY <2>1 DEF CycleReads
    <3>3. PICK v \in {"cycle"}, n \in 0..1 : n = reads[c] + 1
      BY <3>1
    <3>4. row' = [row EXCEPT ![c] = v] /\ reads' = [reads EXCEPT ![c] = n]
      BY <3>2, <3>3
    <3> QED BY <3>4
  <2>2. CASE CycleAnswers(c)
    <3>1. row' = [row EXCEPT ![c] = "done"] /\ UNCHANGED reads
      BY <2>2 DEF CycleAnswers
    <3>2. reads[c] \in 0..1 /\ reads' = [reads EXCEPT ![c] = reads[c]]
      BY <3>1 DEF ReadingsOK, Rows
    <3>3. PICK n \in 0..1 : n = reads[c]
      BY <3>2
    <3> QED BY <3>1, <3>2, <3>3
  <2> QED BY <2>1, <2>2
<1>2. Rows'
  BY <1>0, <1>1, RowsMove
<1>3. CASE me.pc \notin Holding
  BY <1>0, <1>2, <1>3, HoldsNothing DEF ReadingsOK
<1>4. CASE me.pc \in Holding
  <2>1. me.pc \notin Free
    BY <1>4 DEF Holding, Free
  <2>2. Here \in Convs /\ Here' = Here /\ \A k \in kept : ConvOf(k)' = ConvOf(k)
    BY <1>0, <2>1, SameConvs
  <2>3. me.pc # "archive" => row[Here] = "running"
    BY <1>0, <1>4 DEF Holds, Holding
  <2>4. me.pc # "archive" => Here # c
    BY <1>0, <2>3
  <2>5. \A d \in Convs : d # c => row'[d] = row[d] /\ reads'[d] = reads[d]
    BY <1>1 DEF ReadingsOK, Rows
  <2>6. Holds'
    BY <1>0, <2>2, <2>4, <2>5 DEF Holds
  <2> QED BY <1>2, <2>6 DEF ReadingsOK
<1> QED BY <1>3, <1>4

LEMMA OwnKeeps ==
    ASSUME WorkOK, MeOK, ReadingsOK, SameAsks, WriteOwner \/ ReadingAnswers
    PROVE  ReadingsOK'
<1>0. /\ me.pc \notin Free /\ me.case \in Cases /\ Rows /\ Holds
      /\ UNCHANGED row /\ UNCHANGED current /\ UNCHANGED reads /\ UNCHANGED kept /\ UNCHANGED outcome
      /\ owner' = owner \cup {me.case}
  <2>1. me.pc \notin Free /\ Rows /\ Holds
    BY DEF WriteOwner, ReadingAnswers, Free, ReadingsOK
  <2>2. CASE WriteOwner
    BY <2>1, <2>2, CaseFacts DEF WriteOwner
  <2>3. CASE ReadingAnswers
    BY <2>1, <2>3, CaseFacts DEF ReadingAnswers, readings, Holds
  <2> QED BY <2>2, <2>3
<1>1. Rows'
  BY <1>0, RowsStay DEF Rows
<1>2. \/ me.pc = "own" /\ me'.pc = "send" /\ me'.case = me.case
      \/ me.pc = "wait" /\ me'.pc = "keep" /\ me'.case = me.case
  BY Goes DEF WriteOwner, ReadingAnswers, PCs
<1>3. Here' = Here /\ \A k \in kept : ConvOf(k)' = ConvOf(k)
  BY <1>0, <1>2, SameConvs
<1>4. Holds'
  BY <1>0, <1>2, <1>3 DEF Holds
<1> QED BY <1>1, <1>4 DEF ReadingsOK

LEMMA FilesKeep ==
    ASSUME WorkOK, MeOK, ReadingsOK, SameAsks, Archive \/ PersistReading \/ WriteOutcome \/ Prepare
    PROVE  ReadingsOK'
<1>0. /\ me.pc \notin Free /\ me.case \in Cases /\ Here \in Convs /\ Rows /\ Holds
      /\ UNCHANGED row /\ UNCHANGED reads /\ UNCHANGED kept
  BY CaseFacts DEF Archive, PersistReading, WriteOutcome, Prepare, Free, ReadingsOK
<1>1. current' \subseteq Convs
  BY <1>0 DEF Archive, PersistReading, WriteOutcome, Prepare, Rows, Here
<1>2. owner' \subseteq Cases /\ kept \subseteq owner'
  BY <1>0 DEF Archive, PersistReading, WriteOutcome, Prepare, Rows, Holds
<1>3. outcome' \in [Cases -> {"none", "unread", "complete"}]
  <2>1. UNCHANGED outcome \/ \E o \in {"none", "unread", "complete"} : outcome' = [outcome EXCEPT ![me.case] = o]
    BY DEF Archive, PersistReading, WriteOutcome, Prepare
  <2> QED BY <1>0, <2>1 DEF Rows
<1>4. Rows'
  BY <1>0, <1>1, <1>2, <1>3, RowsStay
<1>5. me'.pc \notin Holding
  BY Goes, Leaves DEF Archive, PersistReading, WriteOutcome, Prepare, Fail, Doubt, Defer, PCs, Holding
<1> QED BY <1>4, <1>5, HoldsNothing DEF ReadingsOK

LEMMA ReadingsStep ==
    ASSUME WorkOK, MeOK, ReadingsOK, [Next]_vars
    PROVE  ReadingsOK'
<1>0. SameAsks /\ MeStep /\ Rows /\ Holds
  BY StepWork, StepMe DEF WorkStep, ReadingsOK
<1>1. CASE \/ ClaimReading \/ SendReading \/ ReadingRefused \/ KeepReading \/ BreakReading \/ CompleteReading
           \/ WriteOwner \/ ReadingAnswers \/ Archive \/ PersistReading \/ WriteOutcome \/ Prepare
           \/ \E c \in Convs : CycleReads(c) \/ CycleAnswers(c)
  BY <1>0, <1>1, ClaimKeeps, SendKeeps, RefusalKeeps, KeepKeeps, RowKeeps, OwnKeeps, FilesKeep, CycleKeeps
<1>2. CASE UNCHANGED readings /\ (UNCHANGED me \/ me'.pc \notin Holding)
  BY <1>0, <1>2, HoldsSame
<1>3. CASE Look
  <2>1. UNCHANGED readings /\ \/ me' = Read \/ Return \/ Goto("evaluate")
    BY <1>3 DEF Look, LookClosed, LookCurrent, LookUnread, Fail
  <2>2. me' = Read => me'.pc \notin Holding
    BY ReadFacts DEF MeOK, Now, Holding
  <2> QED BY <1>2, <2>1, <2>2, Goes, Leaves DEF PCs, Holding
<1>4. CASE SettleReading \/ Evaluate
  <2>1. UNCHANGED readings /\ \/ Goto("evaluating") \/ Return \/ Goto("evaluate")
    BY <1>4 DEF SettleReading, Evaluate, Fail
  <2> QED BY <1>2, <2>1, Goes, Leaves DEF PCs, Holding
<1>5. CASE Finish
  <2>1. UNCHANGED readings
    BY <1>5 DEF Finish
  <2>2. CASE me.case \in Requests
    <3>1. FinishRequest(me.case, call[Folder(me.case)].at)
      BY <1>5, <2>2 DEF Finish
    <3>2. Return \/ EndPass
      BY <3>1 DEF FinishRequest, Doubt
    <3> QED BY <1>2, <2>1, <3>2, Leaves
  <2>3. CASE me.case \notin Requests
    <3>1. FinishItem(call[Folder(me.case)].at)
      BY <1>5, <2>3 DEF Finish
    <3>2. Return \/ EndPass
      BY <3>1 DEF FinishItem
    <3> QED BY <1>2, <2>1, <3>2, Leaves
  <2> QED BY <2>2, <2>3
<1>6. CASE StopPass \/ LimitReached \/ QueueServed \/ Crash
  BY <1>2, <1>6, Leaves DEF StopPass, LimitReached, QueueServed, Crash
<1>7. CASE BeginPass \/ (\E r \in Requests : Resume(r) \/ Claim(r)) \/ \E c \in Convs : ClaimItem(c)
  <2>1. UNCHANGED readings
    BY <1>7 DEF BeginPass, Resume, Claim, ClaimItem
  <2>2. me'.pc \notin Holding
    BY <1>7 DEF BeginPass, Resume, Claim, ClaimItem, Idle, Holding, MeOK, MeSet
  <2> QED BY <1>2, <2>1, <2>2
<1>8. CASE Drained
  <2>1. me' = [me EXCEPT !.pc = "queue"] /\ UNCHANGED readings /\ "queue" \in PCs
    BY <1>8 DEF Drained, PCs, Free
  <2>2. me'.pc \notin Holding
    BY <2>1 DEF MeOK, MeSet, Holding
  <2> QED BY <1>2, <2>1, <2>2
<1>9. CASE \E f \in Folders : CallStep(f)
  BY <1>2, <1>9 DEF CallStep, CheckSend, EvaluationAnswers, EvaluationLost, EvaluationRefused, SetStatus,
     CompleteEvaluation, PersistMatch
<1>10. CASE \/ Imminent \/ CycleStart \/ CycleEnds \/ CycleStops \/ Plan \/ PairEnds
            \/ \E c \in Convs : CycleEnqueues(c) \/ TakePair(c)
  BY <1>2, <1>10 DEF Imminent, CycleStart, CycleEnds, CycleStops, Plan, PairEnds, CycleEnqueues, TakePair
<1>11. CASE \/ LoseLock \/ EvaluatorDies \/ UNCHANGED vars
            \/ \E r \in Requests : Expire(r) \/ \E c \in Convs : AskFor(r, c)
            \/ \E c \in Convs : Recover(c) \/ SkipClosed(c) \/ LeaseEnds(c) \/ Close(c)
  BY <1>2, <1>11 DEF LoseLock, EvaluatorDies, vars, Expire, AskFor, Recover, SkipClosed, LeaseEnds, Close
<1> QED BY <1>1, <1>3, <1>4, <1>5, <1>6, <1>7, <1>8, <1>9, <1>10, <1>11
     DEF Next, Consumer, Service, PassStep, ReadStep, ServiceStep, Folders

-----------------------------------------------------------------------------
(* What stops the consumer                                                 *)

\* Steps beside the consumer.
LEMMA Beside ==
    ASSUME StopsOK, UNCHANGED me, UNCHANGED guard, \A f \in Own : call'[f] = call[f]
    PROVE  OneCall' /\ Halted'
<1>1. \A k : Folder(k) \in Own
  BY DEF Folder, Own
<1> QED BY <1>1 DEF StopsOK, OneCall, Halted, GuardOpen, Folder

\* Steps of the consumer that are not about its calls.
LEMMA Apart ==
    ASSUME StopsOK, me.pc # "evaluating", \A f \in Own : call'[f] = call[f],
           me'.pc = "idle" \/ (UNCHANGED guard /\ ~GuardOpen) \/ (UNCHANGED guard /\ me.pc # "idle")
    PROVE  OneCall' /\ Halted'
<1>1. \A f \in Own : call'[f].at = "none"
  BY DEF StopsOK, OneCall
<1>2. Halted'
  BY DEF StopsOK, Halted, GuardOpen
<1> QED BY <1>1, <1>2 DEF OneCall

LEMMA CallStops ==
    ASSUME EvaluationsOK, StopsOK, NEW f \in Folders, CallStep(f), UNCHANGED me
    PROVE  OneCall' /\ Halted'
<1>1. CallMove(f)
  BY CallMoves
<1>2. CASE f \notin Own
  <2>1. f = "service"
    BY <1>2 DEF Folders, Own
  <2>2. \A g \in Own : call'[g] = call[g]
    BY <1>1, <2>1 DEF CallMove, Own, Folders
  <2>3. GuardOpen' <=> GuardOpen
    BY <1>1, <2>1 DEF CallMove, GuardOpen
  <2>4. \A k : Folder(k) \in Own
    BY DEF Folder, Own
  <2> QED BY <2>2, <2>3, <2>4 DEF StopsOK, OneCall, Halted, Folder
<1>3. CASE f \in Own
  <2>1. me.pc = "evaluating" /\ f = Folder(me.case) /\ f = Folder(me.case)'
    BY <1>1, <1>3 DEF CallMove, StopsOK, OneCall, Folder
  <2>2. \A g \in Own : g # f => call'[g].at = "none"
    BY <1>1, <2>1 DEF CallMove, StopsOK, OneCall, Own, Folders
  <2>3. OneCall'
    BY <2>1, <2>2 DEF OneCall
  <2>4. CASE GuardOpen
    <3>1. call[f].at \in {"blocking", "guarded", "doubt", "blocked"}
      BY <2>1, <2>4 DEF StopsOK, Halted
    <3>2. call'[f].at \in {"doubt", "blocked"}
      BY <1>1, <3>1 DEF CallMove, Closing
    <3> QED BY <2>1, <2>3, <3>2 DEF Halted
  <2>5. CASE ~GuardOpen
    <3>1. UNCHANGED guard \/ call'[f].at \in {"blocking", "guarded"}
      BY <1>1 DEF CallMove
    <3> QED BY <2>1, <2>3, <2>5, <3>1 DEF Halted, GuardOpen
  <2> QED BY <2>4, <2>5
<1> QED BY <1>2, <1>3

LEMMA EvaluateStops ==
    ASSUME WorkOK, MeOK, EvaluationsOK, StopsOK, Evaluate
    PROVE  OneCall' /\ Halted'
<1>0. me.pc = "evaluate" /\ me.pc \notin Free /\ UNCHANGED guard /\ Folder(me.case) \in Own
  BY DEF Evaluate, Free, Folder, Own
<1>1. CASE UNCHANGED call
  BY <1>0, <1>1, Apart
<1>2. CASE Begin(Folder(me.case), Here) /\ Goto("evaluating")
  <2>1. PICK f \in Folders, c \in Convs : f = Folder(me.case) /\ c = Here
    BY <1>0, CaseFacts DEF Own, Folders
  <2>2. Begin(f, c) /\ UNCHANGED <<unresolved, match, evals>>
    BY <1>2, <2>1 DEF Evaluate
  <2>3. \A g \in Folders \ {f} : call'[g] = call[g]
    BY <2>2, BeginKeeps
  <2>4. me'.pc = "evaluating" /\ me'.case = me.case
    BY <1>2, Goes DEF PCs
  <2>5. f = Folder(me.case)'
    BY <2>1, <2>4 DEF Folder
  <2>6. \A g \in Own : call[g].at = "none" /\ g \in Folders
    BY <1>0 DEF StopsOK, OneCall, Own, Folders
  <2>7. OneCall'
    BY <2>3, <2>4, <2>5, <2>6 DEF OneCall
  <2>8. ~GuardOpen'
    BY <1>0 DEF StopsOK, Halted, GuardOpen
  <2> QED BY <2>7, <2>8 DEF Halted
<1> QED BY <1>1, <1>2 DEF Evaluate, Here

LEMMA FinishStops ==
    ASSUME EvaluationsOK, StopsOK, Finish
    PROVE  OneCall' /\ Halted'
<1>1. PICK f \in Own : f = Folder(me.case)
  BY DEF Folder, Own
<1>2. PICK result \in Results : result = call[f].at
  BY <1>1 DEF Finish
<1>3. call' = [call EXCEPT ![f] = NoCall] /\ f \in Folders /\ me.pc = "evaluating"
  BY <1>1 DEF Finish, Own, Folders
<1>4. Dropped({f})
  BY <1>3, DropOne
<1>5. \A g \in Own : g # f => call[g].at = "none"
  BY <1>1 DEF StopsOK, OneCall
<1>6. \A g \in Own : call'[g].at = "none"
  BY <1>4, <1>5 DEF Dropped, Own, Folders
<1>7. OneCall'
  BY <1>6 DEF OneCall
<1>8. (UNCHANGED guard /\ result \notin {"doubt", "blocked"}) \/ EndPass
  <2>1. CASE me.case \in Requests
    <3>1. FinishRequest(me.case, result)
      BY <1>1, <1>2, <2>1 DEF Finish
    <3> QED BY <3>1 DEF FinishRequest, Doubt
  <2>2. CASE me.case \notin Requests
    <3>1. FinishItem(result)
      BY <1>1, <1>2, <2>2 DEF Finish
    <3> QED BY <3>1 DEF FinishItem
  <2> QED BY <2>1, <2>2
<1>9. CASE EndPass
  BY <1>7, <1>9, EndFacts DEF Now, Halted
<1>10. CASE UNCHANGED guard /\ result \notin {"doubt", "blocked"}
  <2>1. ~GuardOpen
    BY <1>1, <1>2, <1>3, <1>10 DEF StopsOK, Halted, Results
  <2> QED BY <1>7, <1>10, <2>1 DEF Halted, GuardOpen
<1> QED BY <1>8, <1>9, <1>10

LEMMA StopTypes ==
    ASSUME WorkOK, StopsOK, [Next]_vars
    PROVE  /\ guard' \subseteq Folders \cup {"main"}
           /\ lock' \in {"none", "consumer", "cycle"}
           /\ svc' \in {"planning", "waiting", "imminent", "running", "stopped"}
           /\ todo' \subseteq Convs
<1>1. ASSUME NEW f \in Folders, CallStep(f)
      PROVE  (UNCHANGED guard \/ guard' = guard \cup {f}) /\ UNCHANGED lock /\ UNCHANGED svc /\ UNCHANGED todo
  BY <1>1 DEF CallStep, CheckSend, EvaluationAnswers, EvaluationLost, EvaluationRefused, SetStatus,
     CompleteEvaluation, PersistMatch, service
<1>2. CASE Consumer /\ ~(\E f \in Folders : CallStep(f))
  <2>1. UNCHANGED service /\ (UNCHANGED guard \/ guard' = guard \cup {"main"}) /\ lock' \in {lock, "consumer", "none"}
    <3>1. CASE BeginPass \/ StopPass \/ LimitReached \/ Drained \/ QueueServed \/ \E r \in Requests : Resume(r) \/ Claim(r)
      BY <3>1 DEF BeginPass, StopPass, LimitReached, Drained, QueueServed, Resume, Claim, EndPass
    <3>2. CASE \E c \in Convs : ClaimItem(c)
      BY <3>2 DEF ClaimItem
    <3>3. CASE Look \/ SettleReading \/ Evaluate
      BY <3>3 DEF Look, LookClosed, LookCurrent, LookUnread, SettleReading, Evaluate, Fail, Return, Goto
    <3>4. CASE Finish
      <4>1. CASE me.case \in Requests
        <5>1. FinishRequest(me.case, call[Folder(me.case)].at) /\ UNCHANGED service
          BY <3>4, <4>1 DEF Finish
        <5> QED BY <5>1 DEF FinishRequest, Doubt, Return, EndPass
      <4>2. CASE me.case \notin Requests
        <5>1. FinishItem(call[Folder(me.case)].at) /\ UNCHANGED service
          BY <3>4, <4>2 DEF Finish
        <5> QED BY <5>1 DEF FinishItem, Return, EndPass
      <4> QED BY <4>1, <4>2
    <3>5. CASE \/ Prepare \/ ClaimReading \/ WriteOwner \/ SendReading \/ BreakReading \/ ReadingAnswers
      BY <3>5 DEF Prepare, ClaimReading, WriteOwner, SendReading, BreakReading, ReadingAnswers, Fail, Doubt, Defer,
         Return, Goto, EndPass
    <3>6. CASE \/ ReadingRefused \/ Archive \/ KeepReading \/ CompleteReading \/ PersistReading \/ WriteOutcome
      BY <3>6 DEF ReadingRefused, Archive, KeepReading, CompleteReading, PersistReading, WriteOutcome, Fail, Doubt,
         Defer, Return, Goto, EndPass
    <3> QED BY <1>2, <3>1, <3>2, <3>3, <3>4, <3>5, <3>6 DEF Consumer, PassStep, ReadStep, Folders
  <2> QED BY <2>1 DEF StopsOK, service
<1>3. CASE \/ Imminent \/ CycleStart \/ CycleEnds \/ CycleStops \/ Plan \/ PairEnds \/ UNCHANGED vars
           \/ \E c \in Convs : CycleReads(c) \/ CycleAnswers(c) \/ CycleEnqueues(c) \/ TakePair(c)
  <2>1. /\ UNCHANGED guard
        /\ lock' \in {lock, "cycle", "none"}
        /\ svc' \in {svc, "imminent", "running", "stopped", "planning", "waiting"}
    BY <1>3 DEF Imminent, CycleStart, CycleEnds, CycleStops, Plan, PairEnds, vars, CycleReads, CycleAnswers,
       CycleEnqueues, TakePair, service
  <2>2. CASE Plan
    BY <2>1, <2>2 DEF Plan, StopsOK, WorkOK
  <2>3. todo' \subseteq todo \/ Plan
    BY <1>3 DEF Imminent, CycleStart, CycleEnds, CycleStops, PairEnds, vars, CycleReads, CycleAnswers,
       CycleEnqueues, TakePair, service
  <2> QED BY <2>1, <2>2, <2>3 DEF StopsOK
<1>4. CASE \/ LoseLock \/ Crash \/ EvaluatorDies
           \/ \E r \in Requests : Expire(r) \/ \E c \in Convs : AskFor(r, c)
           \/ \E c \in Convs : Recover(c) \/ SkipClosed(c) \/ LeaseEnds(c) \/ Close(c)
  BY <1>4 DEF LoseLock, Crash, EvaluatorDies, Expire, AskFor, Recover, SkipClosed, LeaseEnds, Close, EndPass,
     service,
     StopsOK
<1> QED BY <1>1, <1>2, <1>3, <1>4 DEF Next, Consumer, Service, ServiceStep, Folders, StopsOK

LEMMA StopsStep ==
    ASSUME WorkOK, MeOK, EvaluationsOK, StopsOK, [Next]_vars
    PROVE  StopsOK'
<1>1. ASSUME OneCall' /\ Halted' PROVE StopsOK'
  BY <1>1, StopTypes DEF StopsOK
<1>2. ASSUME NEW f \in Folders, CallStep(f) PROVE OneCall' /\ Halted'
  <2>1. UNCHANGED me
    BY <1>2 DEF CallStep, CheckSend, EvaluationAnswers, EvaluationLost, EvaluationRefused, SetStatus,
       CompleteEvaluation, PersistMatch
  <2> QED BY <1>2, <2>1, CallStops
<1>3. CASE Evaluate \/ Finish
  BY <1>1, <1>3, EvaluateStops, FinishStops
<1>4. CASE BeginPass \/ StopPass \/ LimitReached \/ Drained \/ QueueServed \/ \E r \in Requests : Resume(r) \/ Claim(r)
  <2>1. /\ UNCHANGED call /\ UNCHANGED guard /\ me.pc # "evaluating" /\ (me.pc = "idle" => ~GuardOpen)
    BY <1>4 DEF BeginPass, StopPass, LimitReached, Drained, QueueServed, Resume, Claim, MayTakeRequest, evaluations
  <2> QED BY <1>1, <2>1, Apart
<1>5. CASE (\E c \in Convs : ClaimItem(c)) \/ Look \/ SettleReading
  <2>1. /\ UNCHANGED call /\ UNCHANGED guard /\ me.pc \notin {"evaluating", "idle"}
    BY <1>5 DEF ClaimItem, Look, SettleReading, evaluations
  <2> QED BY <1>1, <2>1, Apart
<1>6. CASE \/ Prepare \/ ClaimReading \/ WriteOwner \/ SendReading \/ BreakReading \/ ReadingAnswers
           \/ ReadingRefused \/ Archive \/ KeepReading \/ CompleteReading \/ PersistReading \/ WriteOutcome
  <2>1. UNCHANGED call /\ me.pc \notin {"evaluating", "idle"}
    BY <1>6 DEF Prepare, ClaimReading, WriteOwner, SendReading, BreakReading, ReadingAnswers, ReadingRefused,
       Archive,
       KeepReading, CompleteReading, PersistReading, WriteOutcome, evaluations
  <2>2. UNCHANGED guard \/ EndPass
    BY <1>6 DEF Prepare, ClaimReading, WriteOwner, SendReading, BreakReading, ReadingAnswers, ReadingRefused,
       Archive,
       KeepReading, CompleteReading, PersistReading, WriteOutcome, Doubt
  <2>3. EndPass => me'.pc = "idle"
    BY EndFacts DEF Now
  <2> QED BY <1>1, <2>1, <2>2, <2>3, Apart
<1>7. CASE Crash
  <2>1. Dropped(Own) /\ EndPass
    BY <1>7, DropOwn DEF Crash
  <2>2. \A f \in Own : call'[f].at = "none"
    BY <2>1 DEF Dropped, Own, Folders
  <2>3. me'.pc = "idle"
    BY <2>1, EndFacts DEF Now
  <2> QED BY <1>1, <2>2, <2>3 DEF OneCall, Halted
<1>8. CASE EvaluatorDies \/ PairEnds
  <2>1. call' = [call EXCEPT !["service"] = NoCall] /\ UNCHANGED me /\ UNCHANGED guard
    BY <1>8 DEF EvaluatorDies, PairEnds
  <2>2. \A f \in Own : call'[f] = call[f]
    BY <2>1 DEF Own, Folders, EvaluationsOK
  <2> QED BY <1>1, <2>1, <2>2, Beside
<1>9. ASSUME NEW c \in Convs, TakePair(c) PROVE OneCall' /\ Halted'
  <2>1. Begin("service", c) /\ UNCHANGED <<unresolved, match, evals>> /\ UNCHANGED me /\ UNCHANGED guard
    BY <1>9 DEF TakePair
  <2>2. "service" \in Folders /\ \A f \in Own : f \in Folders \ {"service"}
    BY DEF Own, Folders
  <2>3. \A f \in Own : call'[f] = call[f]
    BY <2>1, <2>2, BeginKeeps
  <2> QED BY <2>1, <2>3, Beside
<1>10. CASE \/ Imminent \/ CycleStart \/ CycleEnds \/ CycleStops \/ Plan \/ LoseLock \/ UNCHANGED vars
            \/ \E c \in Convs : CycleReads(c) \/ CycleAnswers(c) \/ CycleEnqueues(c)
  <2>1. UNCHANGED me /\ UNCHANGED guard /\ UNCHANGED call
    BY <1>10 DEF Imminent, CycleStart, CycleEnds, CycleStops, Plan, LoseLock, vars, CycleReads, CycleAnswers,
       CycleEnqueues, evaluations
  <2> QED BY <1>1, <2>1, Beside
<1>11. CASE \/ \E r \in Requests : Expire(r) \/ \E c \in Convs : AskFor(r, c)
            \/ \E c \in Convs : Recover(c) \/ SkipClosed(c) \/ LeaseEnds(c) \/ Close(c)
  <2>1. UNCHANGED me /\ UNCHANGED guard /\ UNCHANGED call
    BY <1>11 DEF Expire, AskFor, Recover, SkipClosed, LeaseEnds, Close, evaluations
  <2> QED BY <1>1, <2>1, Beside
<1> QED BY <1>1, <1>2, <1>3, <1>4, <1>5, <1>6, <1>7, <1>8, <1>9, <1>10, <1>11
     DEF Next, Consumer, Service, PassStep, ReadStep, ServiceStep, Folders

-----------------------------------------------------------------------------
(* The theorems                                                            *)

LEMMA InitInvariant == Init => IInv
<1> SUFFICES ASSUME Init PROVE IInv
  OBVIOUS
<1>0. PICK cs \in SUBSET Convs, st \in SUBSET Convs : cs = left.convs /\ st = left.stored
  BY GradingAssumption DEF Init
<1>2. /\ NoCall.conv = None /\ NoCall.at = "none" /\ NoCall \in [conv : Convs \cup {None}, at : Ats]
  BY DEF NoCall, Ats
<1>3. None \notin Convs /\ None \notin Requests /\ None \notin Cases
  BY GradingAssumption DEF Cases
<1>4. WorkOK
  <2>1. open \subseteq Convs
    BY <1>0 DEF Init
  <2>2. /\ request \in [Requests -> [conv : Convs \cup {None}, st : RequestStates]]
        /\ \A r \in Requests : request[r].st = "none"
    BY DEF Init, RequestStates
  <2>3. item \in [Convs -> ItemStates]
    BY DEF Init, ItemStates
  <2> QED BY <2>1, <2>2, <2>3 DEF Init, WorkOK
<1>5. MeOK
  BY <1>3, IdleFacts, GradingAssumption DEF Init, MeOK, Free
<1>6. ReadingsOK
  <2>1. me.pc = "idle"
    BY IdleFacts DEF Init
  <2>2. row \in [Convs -> {"absent", "done"}] /\ current \subseteq Convs /\ reads = [c \in Convs |-> 0]
    BY <1>0 DEF Init
  <2>3. Rows
    BY <2>2 DEF Init, Rows
  <2> QED BY <2>1, <2>3 DEF ReadingsOK, Holds
<1>7. EvaluationsOK
  <2>1. /\ ledger = [c \in Convs |-> "free"] /\ evals = [c \in Convs |-> 0] /\ late = {} /\ match = {}
        /\ unresolved = [f \in Folders |-> {}] /\ call = [f \in Folders |-> NoCall]
    BY DEF Init
  <2>2. \A f \in Folders : call[f].at = "none" /\ call[f].conv = None
    BY <1>2, <2>1
  <2>3. call \in [Folders -> [conv : Convs \cup {None}, at : Ats]]
    BY <1>2, <2>1
  <2> QED BY <1>3, <2>1, <2>2, <2>3 DEF EvaluationsOK, Live
<1>8. StopsOK
  <2>1. \A f \in Own : call[f].at = "none"
    BY <1>2 DEF Init, Own, Folders
  <2>2. guard = {} /\ lock = "none" /\ svc = "waiting" /\ todo = {}
    BY DEF Init
  <2> QED BY <2>1, <2>2 DEF StopsOK, OneCall, Halted, GuardOpen
<1> QED BY <1>4, <1>5, <1>6, <1>7, <1>8 DEF IInv

LEMMA StepInvariant == IInv /\ [Next]_vars => IInv'
<1> SUFFICES ASSUME IInv, [Next]_vars PROVE IInv'
  OBVIOUS
<1>1. WorkOK /\ MeOK /\ ReadingsOK /\ EvaluationsOK /\ StopsOK
  BY DEF IInv
<1>2. WorkOK'
  BY <1>1, StepWork DEF WorkStep
<1>3. MeOK' /\ ReadingsOK' /\ EvaluationsOK' /\ StopsOK'
  BY <1>1, MeOKStep, ReadingsStep, EvaluationsStep, StopsStep
<1> QED BY <1>2, <1>3 DEF IInv

\* Whatever the requests, the queue, the cycle and the evaluator do together, and
\* whenever they crash: a reservation that can be taken stands for nothing sent, no
\* two calls hold the same one, and an open guard has stopped the consumer.
THEOREM Invariance == Spec => []IInv
BY InitInvariant, StepInvariant, PTL DEF Spec

\* The state of the consumer, its queue and its reservations has its type.
THEOREM TypeCorrectness == Spec => []ConsumerTypeOK
<1>1. IInv => ConsumerTypeOK
  <2> SUFFICES ASSUME IInv PROVE ConsumerTypeOK
    OBVIOUS
  <2>1. \A c \in Convs : reads[c] \in Nat /\ evals[c] \in Nat
    BY DEF IInv, ReadingsOK, Rows, EvaluationsOK
  <2>2. reads \in [Convs -> Nat] /\ evals \in [Convs -> Nat]
    BY <2>1 DEF IInv, ReadingsOK, Rows, EvaluationsOK
  <2>3. /\ me.case \in Cases \cup {None} /\ me.resumed \subseteq Requests /\ me.seen \subseteq Convs
        /\ me.handled \in 0..MaxRequests /\ me.started \in 0..MaxAuto
    BY GradingAssumption DEF IInv, MeOK, MeSet
  <2> QED BY <2>2, <2>3 DEF IInv, WorkOK, ReadingsOK, Rows, EvaluationsOK, StopsOK, ConsumerTypeOK,
     RequestStates, ItemStates
<1> QED BY <1>1, Invariance, PTL

\* Whoever works for a convocatoria (a request, the reading queue, the cycle or the
\* evaluator of the service), its reading and its evaluation are each sent once,
\* unless the provider refused them: nothing is paid twice, also after a crash.
THEOREM EverythingIsPaidOnce == Spec => []PaidOnce
<1>1. IInv => PaidOnce
  BY DEF IInv, ReadingsOK, Rows, EvaluationsOK, PaidOnce
<1> QED BY <1>1, Invariance, PTL

\* While a guard of the consumer is open it sends neither a reading nor an
\* evaluation, until an operator has looked at the doubt.
THEOREM SendsAlwaysStopAtDoubt == Spec => SendsStopAtDoubt
<1>1. ASSUME IInv, [Next]_vars, guard \cap {"main", "manual", "auto"} # {}
      PROVE  /\ ~(me.pc = "send" /\ me'.pc = "wait")
             /\ \A f \in {"manual", "auto"} : ~(call[f].at = "check" /\ call'[f].at = "sent")
  <2>1. OneCall /\ Halted /\ GuardOpen
    BY <1>1 DEF IInv, StopsOK, GuardOpen
  <2>2. me.pc # "send"
    BY <2>1 DEF Halted
  <2>3. ASSUME NEW f \in {"manual", "auto"} PROVE call[f].at # "check"
    BY <2>1 DEF OneCall, Halted, Own
  <2> QED BY <2>2, <2>3
<1>2. IInv /\ [Next]_vars => [guard \cap {"main", "manual", "auto"} # {} =>
         /\ ~(me.pc = "send" /\ me'.pc = "wait")
         /\ \A f \in {"manual", "auto"} : ~(call[f].at = "check" /\ call'[f].at = "sent")]_vars
  BY <1>1
<1> QED BY <1>2, Invariance, PTL DEF Spec, SendsStopAtDoubt

=============================================================================
