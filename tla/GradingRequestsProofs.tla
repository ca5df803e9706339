------------------------ MODULE GradingRequestsProofs ------------------------
(***************************************************************************)
(* Proofs about the evaluations of PROD6, for any readings, requests and   *)
(* bounds: the receipt folder keeps the promise of PaidCall whatever calls *)
(* it, money leaves only for a request that waits, and what a request is   *)
(* told is true.  As in the proofs about the reading receipts, a fallback  *)
(* model that is on stays on.                                              *)
(***************************************************************************)
EXTENDS GradingRequests, TLAPS

\* What the proofs assume about the deployment.
FallbackStays == ~FallbackMayBeDisabled

-----------------------------------------------------------------------------
(* The invariant of the folder                                             *)

Live == inflight \cup charged

BlankKey(k) == started[k] = 0 /\ providerError[k] = 0 /\ ~Answered(k)

\* Keys of a model that is not configured hold no receipt.
UnusedKeysAreBlank ==
    \A k \in Keys : k.model = "fallback" /\ ~fallbackOn => BlankKey(k)

\* Stamps were all issued, each to one key.
StampsAreIssued ==
    /\ \A k \in Keys : started[k] <= clock /\ providerError[k] <= clock
    /\ \A r \in Live : r.stamp <= clock
    /\ \A k, j \in Keys : started[k] = started[j] /\ started[k] # 0 => k = j

\* An answer on disk answers a billed request of its payload.
AnswersAreBilled ==
    \A k \in Keys : Answered(k) => [payload |-> k.payload, stamp |-> started[k]] \in charged

\* What may be billed has a started receipt that no HTTP error excuses.
ChargesAreOnRecord ==
    \A r \in Live : \E k \in Keys :
        k.payload = r.payload /\ started[k] = r.stamp /\ providerError[k] # r.stamp

PaidAtMostOnce == \A r, s \in Live : r.payload = s.payload => r = s

BeforeSend  == {"clearing", "pacing", "sending"}
AfterReject == {"rejected", "unstarting", "rejection"}
Waits       == {"sent", "answered"}
Paying      == BeforeSend \cup Waits \cup AfterReject

\* While a call pays, nothing of its payload is answered, every other live
\* request is durably answered, and its own is the only one of its payload.
PayingCall ==
    call.pc \in Paying =>
        /\ call.key.model = "fallback" => fallbackOn
        /\ \A k \in Keys : k.payload = call.key.payload => ~Answered(k)
        /\ \A r \in Live :
              \/ r = Request /\ call.pc \in Waits
              \/ r.payload # call.key.payload /\ Durable(r)
        /\ call.pc \in Waits \cup {"sending", "rejected"} =>
              clock # 0 /\ started[call.key] = clock /\ providerError[call.key] # clock
        /\ call.pc = "answered" => Request \in charged

FolderInv ==
    /\ ReceiptsTypeOK
    /\ UnusedKeysAreBlank
    /\ StampsAreIssued
    /\ AnswersAreBilled
    /\ ChargesAreOnRecord
    /\ PaidAtMostOnce
    /\ inflight \cap charged = {}
    /\ PayingCall

\* What the runtime does with the folder: it starts a call, lets it go on, and
\* ends it in one of several ways.
EndCall ==
    /\ Finish("idle") \/ Finish("down")
    /\ UNCHANGED <<receipts, guard, fallbackOn, clock, provider>>

FolderNext ==
    \/ \E p \in Payloads, allow \in BOOLEAN : Begin(p, allow)
    \/ CallStep \/ EndCall
    \/ \E r \in inflight : ProviderCharges(r)
    \/ Restart \/ RemoveGuard

-----------------------------------------------------------------------------
(* The invariant of the requests                                           *)

\* The job that runs holds the folder, and pays for the current reading.
CallAgrees ==
    call.pc \notin {"down", "idle"} =>
        Running /\ reading # 0 /\ call.key.payload = reading

\* A job belongs to a request for the worker; one that pays is waited for.
JobAgrees ==
    job.owner \in Requests =>
        /\ Queued(job.owner) /\ req[job.owner] # "absent"
        /\ call.pc \in Paying => req[job.owner] = "evaluating"

\* The web only ends its own requests.
WebAgrees == \A r \in Requests : web[r] # "none" => ~Queued(r) /\ req[r] # "absent"

ReadingAgrees == usable => reading # 0

BoundsAgree ==
    /\ bounds \in [readings : Nat, sends : 0..MaxSends, requests : 0..MaxRequests, crashes : Nat]
    /\ 1..bounds.readings \subseteq Payloads

IInv ==
    /\ FolderInv
    /\ GradingTypeOK
    /\ CallAgrees
    /\ JobAgrees
    /\ WebAgrees
    /\ ReadingAgrees
    /\ BoundsAgree

Calls == [pc : {"down", "idle"} \cup Steps \cup Ends, key : Keys,
          allow : BOOLEAN, answer : Answers, saturated : BOOLEAN]

-----------------------------------------------------------------------------
(* Facts about the folder                                                  *)

LEMMA KeyFacts ==
    /\ \A p \in Payloads, m \in Models :
         Key(p, m) \in Keys /\ Key(p, m).payload = p /\ Key(p, m).model = m
    /\ \A k \in Keys : k = Key(k.payload, k.model) /\ k.payload \in Payloads /\ k.model \in Models
    /\ NoCall \in Calls /\ NoCall.pc = "idle"
<1>1. \A p \in Payloads, m \in Models :
         Key(p, m) \in Keys /\ Key(p, m).payload = p /\ Key(p, m).model = m
  BY DEF Key, Keys
<1>2. \A k \in Keys : k = Key(k.payload, k.model) /\ k.payload \in Payloads /\ k.model \in Models
  BY DEF Key, Keys
<1>3. (CHOOSE p \in Payloads : TRUE) \in Payloads
  BY EvaluationAssumption
<1>4. Key(CHOOSE p \in Payloads : TRUE, "main") \in Keys
  BY <1>1, <1>3 DEF Models
<1>5. NoCall \in Calls /\ NoCall.pc = "idle"
  BY <1>4 DEF NoCall, Calls, Answers
<1> QED BY <1>1, <1>2, <1>5

\* Durable, said with the keys of the folder.
LEMMA DurableFacts ==
    ASSUME NEW r, r.payload \in Payloads
    PROVE  /\ Durable(r) <=> \E k \in Keys :
                 k.payload = r.payload /\ started[k] = r.stamp /\ Answered(k)
           /\ Durable(r)' <=> \E k \in Keys :
                 k.payload = r.payload /\ started'[k] = r.stamp /\ Answered(k)'
BY KeyFacts DEF Durable

\* When a new send is permitted, every live request is durably answered.
LEMMA PermittedSend ==
    ASSUME FolderInv, SendPermitted, NEW r \in Live
    PROVE  Durable(r) /\ \E k \in Keys : k.payload = r.payload /\ Answered(k)
<1>1. PICK k \in Keys : k.payload = r.payload /\ started[k] = r.stamp /\ providerError[k] # r.stamp
  BY DEF FolderInv, ChargesAreOnRecord
<1>2. r.stamp # 0 /\ r.payload \in Payloads
  BY DEF FolderInv, ReceiptsTypeOK, Live, Sends
<1>3. Resolved(k)
  BY <1>1, <1>2 DEF SendPermitted, Unresolved
<1>4. Answered(k)
  BY <1>1, <1>3 DEF Resolved
<1> QED BY <1>1, <1>2, <1>4, DurableFacts

-----------------------------------------------------------------------------
(* Steps that only move the call and the guard                             *)

\* A step that leaves receipts, configuration, clock and provider alone only
\* has to keep the facts about the call.
LEMMA CallMoves ==
    ASSUME FolderInv, UNCHANGED <<receipts, fallbackOn, clock, provider>>,
           guard' \in BOOLEAN, call' \in Calls, PayingCall'
    PROVE  FolderInv'
BY DEF FolderInv, ReceiptsTypeOK, Calls, receipts, provider, UnusedKeysAreBlank, BlankKey, Answered,
       StampsAreIssued, AnswersAreBilled, ChargesAreOnRecord, PaidAtMostOnce, Live

\* A call that stands at no paying step owes nothing.
LEMMA StopPaying ==
    ASSUME call'.pc \in {"down", "idle", "saved"} \cup Ends
    PROVE  PayingCall'
BY DEF PayingCall, Paying, BeforeSend, Waits, AfterReject, Ends

\* What an unanswered key may be used for once a send is permitted.
LEMMA StartPaying ==
    ASSUME FolderInv, SendPermitted, NEW k \in Keys, k.model = "fallback" => fallbackOn,
           \A j \in Keys : j.payload = k.payload => ~Answered(j),
           UNCHANGED <<receipts, fallbackOn, clock, provider>>,
           call'.key = k, call'.pc = "clearing"
    PROVE  PayingCall'
<1>1. \A r \in Live : r.payload # k.payload /\ Durable(r)
  BY PermittedSend
<1>2. \A r \in Live' : r.payload # call'.key.payload /\ Durable(r)'
  BY <1>1 DEF Live, Durable, Answered, receipts, provider
<1>3. \A j \in Keys : j.payload = call'.key.payload => ~Answered(j)'
  BY DEF Answered, receipts
<1> QED BY <1>2, <1>3 DEF PayingCall, Waits

\* The head of _send, for a key none of whose payload's keys is answered unless
\* it is itself.
LEMMA ReplayOrSendKeeps ==
    ASSUME FolderInv, NEW k \in Keys, NEW allow \in BOOLEAN, k.model = "fallback" => fallbackOn,
           ~Answered(k) => \A j \in Keys : j.payload = k.payload => ~Answered(j),
           ReplayOrSend(k, allow), UNCHANGED <<receipts, fallbackOn, clock, provider>>
    PROVE  FolderInv' /\ call'.key = k /\ call'.pc \in {"saved", "blocked", "clearing"}
<1>1. guard' \in BOOLEAN
  BY DEF ReplayOrSend, OpenGuard, FolderInv, ReceiptsTypeOK
<1>2. PICK pc \in {"saved", "blocked", "clearing"} :
        /\ call' = [call EXCEPT !.pc = pc, !.key = k, !.allow = allow]
        /\ pc = "clearing" => ~Answered(k) /\ SendPermitted
  BY DEF ReplayOrSend
<1>3. call \in Calls
  BY DEF FolderInv, ReceiptsTypeOK, Calls
<1>4. call' \in Calls /\ call'.pc = pc /\ call'.key = k
  BY <1>2, <1>3 DEF Calls, Steps, Ends
<1>5. CASE pc \in {"saved", "blocked"}
  <2>1. PayingCall'
    BY <1>4, <1>5, StopPaying DEF Ends
  <2> QED BY <1>1, <1>4, <1>5, <2>1, CallMoves
<1>6. CASE pc = "clearing"
  <2>1. PayingCall'
    BY <1>2, <1>4, <1>6, StartPaying
  <2> QED BY <1>1, <1>4, <1>6, <2>1, CallMoves
<1> QED BY <1>5, <1>6

-----------------------------------------------------------------------------
(* One lemma per kind of step                                              *)

LEMMA InitFolder == ASSUME Init PROVE FolderInv
<1>1. ReceiptsTypeOK
  <2>1. call \in Calls
    BY KeyFacts DEF Init, Calls
  <2>2. 0 \in 0..MaxSends
    BY EvaluationAssumption
  <2> QED BY <2>1, <2>2 DEF Init, ReceiptsTypeOK, Calls
<1>2. \A k \in Keys : BlankKey(k)
  BY DEF Init, BlankKey, Answered
<1>3. Live = {} /\ inflight \cap charged = {} /\ call.pc = "down"
  BY KeyFacts DEF Init, Live, NoCall
<1>4. UnusedKeysAreBlank /\ AnswersAreBilled /\ StampsAreIssued
  BY <1>2, <1>3 DEF Init, UnusedKeysAreBlank, BlankKey, AnswersAreBilled, StampsAreIssued
<1>5. ChargesAreOnRecord /\ PaidAtMostOnce
  BY <1>3 DEF ChargesAreOnRecord, PaidAtMostOnce
<1>6. PayingCall
  BY <1>3 DEF PayingCall, Paying, BeforeSend, Waits, AfterReject
<1> QED BY <1>1, <1>3, <1>4, <1>5, <1>6 DEF FolderInv

\* The head of _analyze_with_model: of a payload without an answer of the model
\* in use, no model has one.
LEMMA BeginKeeps ==
    ASSUME FolderInv, NEW p \in Payloads, NEW allow \in BOOLEAN, Begin(p, allow)
    PROVE  FolderInv' /\ call'.key.payload = p /\ call'.pc \in {"saved", "blocked", "clearing"}
<1>1. UNCHANGED <<receipts, fallbackOn, clock, provider>>
  BY DEF Begin
<1>2. CASE fallbackOn /\ Answered(Key(p, "fallback"))
  <2> DEFINE k == Key(p, "fallback")
  <2>1. k \in Keys /\ k.payload = p /\ ReplayOrSend(k, allow) /\ Answered(k)
    BY <1>2, KeyFacts DEF Begin, Models
  <2> HIDE DEF k
  <2> QED BY <1>1, <1>2, <2>1, ReplayOrSendKeeps
<1>3. CASE ~(fallbackOn /\ Answered(Key(p, "fallback")))
  <2> DEFINE k == Key(p, "main")
  <2>1. k \in Keys /\ k.payload = p /\ k.model = "main" /\ ReplayOrSend(k, allow)
    BY <1>3, KeyFacts DEF Begin, Models
  <2>2. ~Answered(Key(p, "fallback"))
    <3>1. Key(p, "fallback") \in Keys /\ Key(p, "fallback").model = "fallback"
      BY KeyFacts DEF Models
    <3> QED BY <1>3, <3>1 DEF FolderInv, UnusedKeysAreBlank, BlankKey
  <2>3. \A j \in Keys : j.payload = p => j \in {k, Key(p, "fallback")}
    BY KeyFacts DEF Models
  <2>4. ~Answered(k) => \A j \in Keys : j.payload = k.payload => ~Answered(j)
    BY <2>1, <2>2, <2>3
  <2> HIDE DEF k
  <2> QED BY <1>1, <2>1, <2>4, ReplayOrSendKeeps
<1> QED BY <1>2, <1>3

LEMMA FallBackKeeps ==
    ASSUME FolderInv, FallBack
    PROVE  /\ FolderInv' /\ call'.key.payload = call.key.payload /\ call.pc = "rejection"
           /\ call'.pc \in {"saved", "blocked", "clearing"}
<1> DEFINE k == Key(call.key.payload, "fallback")
<1>1. call.pc = "rejection" /\ call \in Calls /\ call.key.payload \in Payloads /\ call.allow \in BOOLEAN
  BY KeyFacts DEF FallBack, At, FolderInv, ReceiptsTypeOK, Calls
<1>2. k \in Keys /\ k.payload = call.key.payload
  BY <1>1, KeyFacts DEF Models
<1>3. \A j \in Keys : j.payload = k.payload => ~Answered(j)
  BY <1>1, <1>2 DEF FolderInv, PayingCall, Paying, AfterReject
<1>4. ReplayOrSend(k, call.allow) /\ fallbackOn /\ UNCHANGED <<receipts, fallbackOn, clock, provider>>
  BY DEF FallBack, MayFallBack
<1> HIDE DEF k
<1> QED BY <1>1, <1>2, <1>3, <1>4, ReplayOrSendKeeps

\* The steps that leave the paying part.
LEMMA EndingKeeps ==
    ASSUME FolderInv,
           FailBeforeStarted \/ LoseReply \/ FailWriteResponse \/ FailWriteProviderError \/ Parse
           \/ Refuse \/ EndCall
    PROVE  FolderInv'
<1>1. call \in Calls /\ guard \in BOOLEAN
  BY DEF FolderInv, ReceiptsTypeOK, Calls
<1>2. /\ UNCHANGED <<receipts, fallbackOn, clock, provider>> /\ guard' \in {TRUE, guard}
      /\ (\E pc \in Ends : Goto(pc)) \/ Finish("idle") \/ Finish("down")
  BY DEF FailBeforeStarted, LoseReply, FailWriteResponse, FailWriteProviderError, Parse, Refuse,
     EndCall, FailAndGuard, OpenGuard, Ends
<1>3. call' \in Calls /\ call'.pc \in {"down", "idle", "saved"} \cup Ends
  <2>1. CASE \E pc \in Ends : Goto(pc)
    BY <1>1, <2>1 DEF Goto, Calls
  <2>2. CASE Finish("idle") \/ Finish("down")
    BY <2>2, KeyFacts DEF Finish, Calls
  <2> QED BY <1>2, <2>1, <2>2
<1> QED BY <1>1, <1>2, <1>3, StopPaying, CallMoves

LEMMA ReceiveAnswerKeeps == ASSUME FolderInv, NEW a \in Answers, ReceiveAnswer(a) PROVE FolderInv'
<1>1. call \in Calls /\ guard \in BOOLEAN /\ call.pc = "sent" /\ Request \in charged
  BY DEF FolderInv, ReceiptsTypeOK, Calls, ReceiveAnswer, At
<1>2. /\ UNCHANGED <<receipts, guard, fallbackOn, clock, provider>>
      /\ call' = [call EXCEPT !.pc = "answered", !.answer = a]
  BY DEF ReceiveAnswer
<1>3. call' \in Calls /\ call'.pc = "answered" /\ call'.key = call.key
  BY <1>1, <1>2 DEF Calls, Steps
<1>4. PayingCall'
  BY <1>1, <1>2, <1>3 DEF FolderInv, PayingCall, Paying, Waits, BeforeSend, AfterReject, Request, Live,
     Durable, Answered, receipts, provider
<1> QED BY <1>1, <1>2, <1>3, <1>4, CallMoves

-----------------------------------------------------------------------------
(* Steps that change a receipt or what the provider knows                  *)

LEMMA ClearKeeps == ASSUME FolderInv, ClearProviderError PROVE FolderInv'
<1> USE DEF FolderInv
<1>1. /\ call \in Calls /\ call.key \in Keys /\ call.pc = "clearing"
      /\ providerError' = [providerError EXCEPT ![call.key] = 0]
      /\ call' = [call EXCEPT !.pc = "pacing"]
      /\ UNCHANGED <<started, response, guard, fallbackOn, clock, provider>>
  BY DEF ClearProviderError, At, Goto, ReceiptsTypeOK, Calls
<1>2. call' \in Calls /\ call'.pc = "pacing" /\ call'.key = call.key
  BY <1>1 DEF Calls, Steps
<1>3. ReceiptsTypeOK'
  <2>1. 0 \in 0..MaxSends
    BY EvaluationAssumption
  <2>2. providerError' \in [Keys -> 0..MaxSends]
    BY <1>1, <2>1 DEF ReceiptsTypeOK
  <2> QED BY <1>1, <1>2, <2>2 DEF ReceiptsTypeOK, Calls, provider
<1>4. \A j \in Keys : providerError'[j] \in {0, providerError[j]} /\ (Answered(j)' <=> Answered(j))
  BY <1>1 DEF ReceiptsTypeOK, Answered
<1>5. UnusedKeysAreBlank' /\ StampsAreIssued' /\ AnswersAreBilled'
  BY <1>1, <1>4, EvaluationAssumption
     DEF UnusedKeysAreBlank, BlankKey, StampsAreIssued, AnswersAreBilled, Live, provider, ReceiptsTypeOK
<1>6. ChargesAreOnRecord' /\ PaidAtMostOnce' /\ (inflight \cap charged = {})'
  BY <1>1, <1>4 DEF ChargesAreOnRecord, PaidAtMostOnce, Live, provider, ReceiptsTypeOK, Sends
<1>7. PayingCall'
  BY <1>1, <1>2, <1>4 DEF PayingCall, Paying, BeforeSend, Waits, AfterReject, Live, Durable, Answered, provider
<1> QED BY <1>3, <1>5, <1>6, <1>7

LEMMA WriteStartedKeeps == ASSUME FolderInv, WriteStarted PROVE FolderInv'
<1> USE DEF FolderInv
<1> DEFINE k == call.key
<1>1. /\ call \in Calls /\ k \in Keys /\ clock \in Nat /\ clock < MaxSends /\ clock' = clock + 1
      /\ started' = [started EXCEPT ![k] = clock + 1]
      /\ UNCHANGED <<providerError, response, guard, fallbackOn, provider>>
      /\ call.pc = "pacing"
  BY EvaluationAssumption DEF WriteStarted, ReceiptsTypeOK, At, Calls
<1>2. /\ \A j \in Keys : j.payload = k.payload => ~Answered(j)
      /\ \A r \in Live : r.payload # k.payload /\ Durable(r)
      /\ k.model = "fallback" => fallbackOn
  BY <1>1 DEF PayingCall, Paying, BeforeSend, Waits
<1>3. call' \in Calls /\ call'.pc \in {"sending", "failed"} /\ call'.key = k
  BY <1>1 DEF WriteStarted, Goto, Calls, Steps, Ends
<1>4. ReceiptsTypeOK'
  <2>1. started' \in [Keys -> 0..MaxSends] /\ clock' \in 0..MaxSends
    BY <1>1, EvaluationAssumption DEF ReceiptsTypeOK
  <2> QED BY <1>1, <1>3, <2>1 DEF ReceiptsTypeOK, Calls, provider
<1>5. \A j \in Keys : started'[j] = (IF j = k THEN clock + 1 ELSE started[j]) /\ (Answered(j)' <=> Answered(j))
  BY <1>1 DEF ReceiptsTypeOK, Answered
<1>6. \A j \in Keys : /\ started[j] \in Nat /\ started[j] <= clock
                      /\ providerError[j] \in Nat /\ providerError[j] <= clock
  BY EvaluationAssumption DEF ReceiptsTypeOK, StampsAreIssued
<1>7. UnusedKeysAreBlank' /\ AnswersAreBilled'
  BY <1>1, <1>2, <1>5 DEF UnusedKeysAreBlank, BlankKey, AnswersAreBilled, provider
<1>8. StampsAreIssued'
  <2>1. \A r \in Live' : r.stamp <= clock'
    BY <1>1 DEF StampsAreIssued, Live, provider, ReceiptsTypeOK, Sends
  <2>2. \A j \in Keys : started'[j] <= clock' /\ providerError'[j] <= clock'
    BY <1>1, <1>5, <1>6
  <2>3. \A j, i \in Keys : started'[j] = started'[i] /\ started'[j] # 0 => j = i
    BY <1>1, <1>5, <1>6 DEF StampsAreIssued
  <2> QED BY <2>1, <2>2, <2>3 DEF StampsAreIssued
<1>9. \A r \in Live : Durable(r)'
  <2> SUFFICES ASSUME NEW r \in Live PROVE Durable(r)'
    OBVIOUS
  <2>1. r.payload \in Payloads
    BY DEF Live, ReceiptsTypeOK, Sends
  <2>2. PICK j \in Keys : j.payload = r.payload /\ started[j] = r.stamp /\ Answered(j)
    BY <1>2, <2>1, DurableFacts
  <2>3. started'[j] = r.stamp /\ Answered(j)'
    BY <1>2, <1>5, <2>2
  <2> QED BY <2>1, <2>2, <2>3, DurableFacts
<1>10. ChargesAreOnRecord' /\ PaidAtMostOnce' /\ (inflight \cap charged = {})'
  BY <1>1, <1>2, <1>5 DEF ChargesAreOnRecord, PaidAtMostOnce, Live, provider
<1>11. PayingCall'
  <2>1. started'[k] = clock' /\ providerError'[k] # clock' /\ clock' # 0
    BY <1>1, <1>5, <1>6
  <2>2. \A r \in Live' : r.payload # k.payload /\ Durable(r)'
    BY <1>1, <1>2, <1>9 DEF Live, provider
  <2>3. \A j \in Keys : j.payload = k.payload => ~Answered(j)'
    BY <1>2, <1>5
  <2>4. k.model = "fallback" => fallbackOn'
    BY <1>1, <1>2
  <2> HIDE DEF k
  <2> QED BY <1>3, <2>1, <2>2, <2>3, <2>4 DEF PayingCall, Paying, BeforeSend, Waits, AfterReject
<1> QED BY <1>4, <1>7, <1>8, <1>10, <1>11

LEMMA SendKeeps == ASSUME FolderInv, Send PROVE FolderInv'
<1> USE DEF FolderInv
<1> DEFINE k == call.key
<1>1. /\ call \in Calls /\ k \in Keys /\ call.pc = "sending"
      /\ inflight' = inflight \cup {Request} /\ call' = [call EXCEPT !.pc = "sent"]
      /\ UNCHANGED <<receipts, guard, fallbackOn, clock, charged>>
      /\ started[k] = clock /\ providerError[k] # clock /\ clock # 0
      /\ k.model = "fallback" => fallbackOn
      /\ \A r \in Live : r.payload # k.payload /\ Durable(r)
      /\ \A j \in Keys : j.payload = k.payload => ~Answered(j)
  BY DEF Send, At, Goto, ReceiptsTypeOK, Calls, PayingCall, Paying, BeforeSend, Waits
<1>2. Request \in Sends /\ Request.payload = k.payload /\ Request.stamp = clock
  <2>1. clock \in 1..MaxSends /\ k.payload \in Payloads
    BY <1>1, EvaluationAssumption, KeyFacts DEF ReceiptsTypeOK
  <2> QED BY <2>1 DEF Request, Sends
<1>3. call' \in Calls /\ call'.pc = "sent" /\ call'.key = k
  BY <1>1 DEF Calls, Steps
<1>4. ReceiptsTypeOK'
  BY <1>1, <1>2, <1>3 DEF ReceiptsTypeOK, Calls, receipts
<1>5. Live' = Live \cup {Request} /\ Request \notin Live /\ (inflight \cap charged = {})'
  BY <1>1, <1>2 DEF Live
<1>6. UnusedKeysAreBlank' /\ AnswersAreBilled' /\ \A r \in Live : Durable(r)'
  BY <1>1 DEF UnusedKeysAreBlank, BlankKey, Answered, AnswersAreBilled, receipts, Durable
<1>7. StampsAreIssued'
  BY <1>1, <1>2, <1>5 DEF StampsAreIssued, receipts, ReceiptsTypeOK
<1>8. ChargesAreOnRecord' /\ PaidAtMostOnce'
  BY <1>1, <1>2, <1>5 DEF ChargesAreOnRecord, PaidAtMostOnce, receipts
<1>9. PayingCall'
  <2>1. \A j \in Keys : j.payload = k.payload => ~Answered(j)'
    BY <1>1 DEF Answered, receipts
  <2>2. \A r \in Live' : r = Request' \/ (r.payload # k.payload /\ Durable(r)')
    BY <1>1, <1>3, <1>5, <1>6 DEF Request
  <2> HIDE DEF k
  <2> QED BY <1>1, <1>3, <2>1, <2>2 DEF PayingCall, Paying, BeforeSend, Waits, AfterReject, receipts
<1> QED BY <1>4, <1>5, <1>6, <1>7, <1>8, <1>9

LEMMA ChargeKeeps == ASSUME FolderInv, NEW r \in inflight, ProviderCharges(r) PROVE FolderInv'
<1> USE DEF FolderInv
<1>1. /\ UNCHANGED <<receipts, guard, fallbackOn, call, clock>>
      /\ inflight' = inflight \ {r} /\ charged' = charged \cup {r}
  BY DEF ProviderCharges
<1>2. Live' = Live /\ (inflight \cap charged = {})' /\ charged \subseteq charged'
  BY <1>1 DEF Live
<1>3. ReceiptsTypeOK'
  BY <1>1 DEF ReceiptsTypeOK, receipts
<1>4. UnusedKeysAreBlank' /\ AnswersAreBilled' /\ StampsAreIssued'
  BY <1>1, <1>2 DEF UnusedKeysAreBlank, BlankKey, Answered, AnswersAreBilled, receipts, StampsAreIssued
<1>5. ChargesAreOnRecord' /\ PaidAtMostOnce'
  BY <1>1, <1>2 DEF ChargesAreOnRecord, PaidAtMostOnce, receipts
<1>6. PayingCall'
  BY <1>1, <1>2 DEF PayingCall, Request, Durable, Answered, receipts
<1> QED BY <1>2, <1>3, <1>4, <1>5, <1>6

LEMMA ReceiveRejectionKeeps ==
    ASSUME FolderInv, NEW s \in BOOLEAN, ReceiveRejection(s) PROVE FolderInv'
<1> USE DEF FolderInv
<1> DEFINE k == call.key
<1>1. /\ call \in Calls /\ call.pc = "sent" /\ Request \in inflight /\ inflight' = inflight \ {Request}
      /\ call' = [call EXCEPT !.pc = "rejected", !.saturated = s]
      /\ UNCHANGED <<receipts, guard, fallbackOn, clock, charged>>
  BY DEF ReceiveRejection, At, ReceiptsTypeOK, Calls
<1>2. call' \in Calls /\ call'.pc = "rejected" /\ call'.key = k
  BY <1>1 DEF Calls, Steps
<1>3. ReceiptsTypeOK'
  BY <1>1, <1>2 DEF ReceiptsTypeOK, Calls, receipts
<1>4. Live' = Live \ {Request} /\ (inflight \cap charged = {})'
  BY <1>1 DEF Live
<1>5. UnusedKeysAreBlank' /\ AnswersAreBilled' /\ StampsAreIssued'
  BY <1>1, <1>4 DEF UnusedKeysAreBlank, BlankKey, Answered, AnswersAreBilled, receipts, StampsAreIssued
<1>6. ChargesAreOnRecord' /\ PaidAtMostOnce'
  BY <1>1, <1>4 DEF ChargesAreOnRecord, PaidAtMostOnce, receipts
<1>7. PayingCall'
  <2>1. /\ k.model = "fallback" => fallbackOn
        /\ \A j \in Keys : j.payload = k.payload => ~Answered(j)
        /\ clock # 0 /\ started[k] = clock /\ providerError[k] # clock
        /\ \A r \in Live : r = Request \/ (r.payload # k.payload /\ Durable(r))
    BY <1>1 DEF PayingCall, Paying, Waits
  <2>2. \A j \in Keys : j.payload = k.payload => ~Answered(j)'
    BY <1>1, <2>1 DEF Answered, receipts
  <2>3. \A r \in Live' : r.payload # k.payload /\ Durable(r)'
    BY <1>1, <1>4, <2>1 DEF Durable, Answered, receipts
  <2> HIDE DEF k
  <2> QED BY <1>1, <1>2, <2>1, <2>2, <2>3 DEF PayingCall, Paying, BeforeSend, Waits, AfterReject, receipts
<1> QED BY <1>3, <1>4, <1>5, <1>6, <1>7

LEMMA WriteResponseKeeps == ASSUME FolderInv, WriteResponse PROVE FolderInv'
<1> USE DEF FolderInv
<1> DEFINE k == call.key
<1>1. /\ call \in Calls /\ call.pc = "answered" /\ k \in Keys /\ call.answer \in Answers
      /\ response' = [response EXCEPT ![k] = call.answer]
      /\ UNCHANGED <<started, providerError, fallbackOn, clock, provider>>
  BY DEF WriteResponse, At, ReceiptsTypeOK, Calls
<1>2. call' \in Calls /\ call'.pc \in {"saved", "blocked"} /\ call'.key = k /\ guard' \in BOOLEAN
  BY <1>1 DEF WriteResponse, FailAndGuard, OpenGuard, Goto, ReceiptsTypeOK, Calls, Steps, Ends
<1>3. ReceiptsTypeOK'
  BY <1>1, <1>2 DEF ReceiptsTypeOK, Calls, provider
<1>4. \A j \in Keys : Answered(j)' <=> j = k \/ Answered(j)
  BY <1>1 DEF ReceiptsTypeOK, Answered, Answers
<1>5. /\ k.model = "fallback" => fallbackOn
      /\ Request \in charged /\ started[k] = clock
  BY <1>1 DEF PayingCall, Paying, Waits
<1>6. UnusedKeysAreBlank' /\ StampsAreIssued'
  BY <1>1, <1>4, <1>5 DEF UnusedKeysAreBlank, BlankKey, provider, StampsAreIssued, Live
<1>7. AnswersAreBilled'
  BY <1>1, <1>4, <1>5 DEF AnswersAreBilled, Request, provider
<1>8. ChargesAreOnRecord' /\ PaidAtMostOnce' /\ (inflight \cap charged = {})'
  BY <1>1 DEF ChargesAreOnRecord, PaidAtMostOnce, Live, provider
<1>9. PayingCall'
  BY <1>2, StopPaying DEF Ends
<1> QED BY <1>3, <1>6, <1>7, <1>8, <1>9

\* The two halves of an HTTP-error receipt: only the rejected attempt, which
\* is not live, is excused by it.
LEMMA ProviderErrorKeeps == ASSUME FolderInv, WriteProviderError \/ RemoveStarted PROVE FolderInv'
<1> USE DEF FolderInv
<1> DEFINE k == call.key
<1>1. /\ call \in Calls /\ k \in Keys /\ call.pc \in {"rejected", "unstarting"}
      /\ UNCHANGED <<response, fallbackOn, clock, provider>>
  BY DEF WriteProviderError, RemoveStarted, At, ReceiptsTypeOK, Calls
<1>2. /\ call' \in Calls /\ call'.pc \in {"unstarting", "rejection", "blocked"} /\ call'.key = k
      /\ guard' \in BOOLEAN
  BY <1>1 DEF WriteProviderError, RemoveStarted, FailAndGuard, OpenGuard, Goto, ReceiptsTypeOK, Calls, Steps, Ends
<1>3. \A j \in Keys :
        /\ started'[j] \in {started[j], IF j = k THEN 0 ELSE started[j]}
        /\ providerError'[j] \in {providerError[j], IF j = k THEN started[j] ELSE providerError[j]}
        /\ Answered(j)' <=> Answered(j)
  BY <1>1 DEF WriteProviderError, RemoveStarted, ReceiptsTypeOK, Answered
<1>4. ReceiptsTypeOK'
  <2>1. started' \in [Keys -> 0..MaxSends] /\ providerError' \in [Keys -> 0..MaxSends]
    BY <1>1, EvaluationAssumption DEF WriteProviderError, RemoveStarted, ReceiptsTypeOK
  <2> QED BY <1>1, <1>2, <2>1 DEF ReceiptsTypeOK, Calls, provider
<1>5. /\ k.model = "fallback" => fallbackOn
      /\ \A j \in Keys : j.payload = k.payload => ~Answered(j)
      /\ \A r \in Live : r.payload # k.payload /\ Durable(r)
  BY <1>1 DEF PayingCall, Paying, AfterReject, Waits
<1>6. \A j \in Keys : started[j] \in Nat /\ started[j] <= clock /\ providerError[j] <= clock
  BY EvaluationAssumption DEF ReceiptsTypeOK, StampsAreIssued
<1>7. UnusedKeysAreBlank' /\ AnswersAreBilled'
  BY <1>1, <1>3, <1>5 DEF UnusedKeysAreBlank, BlankKey, AnswersAreBilled, provider
<1>8. StampsAreIssued'
  BY <1>1, <1>3, <1>6, EvaluationAssumption DEF StampsAreIssued, Live, provider, ReceiptsTypeOK
<1>9. \A r \in Live : Durable(r)'
  <2> SUFFICES ASSUME NEW r \in Live PROVE Durable(r)'
    OBVIOUS
  <2>1. r.payload \in Payloads
    BY DEF Live, ReceiptsTypeOK, Sends
  <2>2. PICK j \in Keys : j.payload = r.payload /\ started[j] = r.stamp /\ Answered(j)
    BY <1>5, <2>1, DurableFacts
  <2>3. started'[j] = r.stamp /\ Answered(j)'
    BY <1>3, <1>5, <2>2
  <2> QED BY <2>1, <2>2, <2>3, DurableFacts
<1>10. ChargesAreOnRecord' /\ PaidAtMostOnce' /\ (inflight \cap charged = {})'
  BY <1>1, <1>3, <1>5 DEF ChargesAreOnRecord, PaidAtMostOnce, Live, provider
<1>11. PayingCall'
  <2>1. \A j \in Keys : j.payload = k.payload => ~Answered(j)'
    BY <1>3, <1>5
  <2> HIDE DEF k
  <2> QED BY <1>1, <1>2, <1>5, <1>9, <2>1 DEF PayingCall, Paying, BeforeSend, Waits, AfterReject, provider, Live
<1> QED BY <1>4, <1>7, <1>8, <1>10, <1>11

\* A restart that does not switch the fallback model off only frees keys.
LEMMA OperatorKeeps == ASSUME FallbackStays, FolderInv, Restart \/ RemoveGuard PROVE FolderInv'
<1> USE DEF FolderInv
<1>1. CASE RemoveGuard
  <2>1. UNCHANGED <<receipts, fallbackOn, call, clock, provider>> /\ guard' = FALSE /\ call' \in Calls
    BY <1>1 DEF RemoveGuard, ReceiptsTypeOK, Calls
  <2>2. PayingCall'
    BY <2>1 DEF PayingCall, Request, Live, Durable, Answered, receipts, provider
  <2> QED BY <2>1, <2>2, CallMoves
<1>2. CASE Restart
  <2>1. /\ UNCHANGED <<receipts, guard, clock, provider>> /\ call' = [call EXCEPT !.pc = "idle"]
        /\ fallbackOn' \in {fallbackOn, TRUE} /\ call \in Calls
    BY <1>2 DEF Restart, FallbackStays, Goto, ReceiptsTypeOK, Calls
  <2>2. call' \in Calls /\ call'.pc = "idle"
    BY <2>1 DEF Calls
  <2>3. ReceiptsTypeOK'
    BY <2>1, <2>2 DEF ReceiptsTypeOK, Calls, receipts, provider
  <2>4. /\ StampsAreIssued' /\ AnswersAreBilled' /\ ChargesAreOnRecord' /\ PaidAtMostOnce'
        /\ (inflight \cap charged = {})'
    BY <2>1 DEF Answered, StampsAreIssued, AnswersAreBilled, ChargesAreOnRecord, PaidAtMostOnce, Live,
       receipts, provider
  <2>6. UnusedKeysAreBlank'
    <3>1. ~fallbackOn' => ~fallbackOn
      BY <2>1
    <3> QED BY <2>1, <3>1 DEF UnusedKeysAreBlank, BlankKey, Answered, receipts
  <2>5. PayingCall'
    BY <2>2, StopPaying
  <2> QED BY <2>3, <2>4, <2>5, <2>6
<1> QED BY <1>1, <1>2

LEMMA FolderKept == ASSUME FallbackStays, FolderInv, FolderNext \/ UNCHANGED vars PROVE FolderInv'
<1>1. CASE UNCHANGED vars
  <2>1. UNCHANGED <<receipts, guard, fallbackOn, call, clock, provider>>
    BY <1>1 DEF vars
  <2>2. PayingCall' /\ guard' \in BOOLEAN /\ call' \in Calls
    BY <2>1 DEF FolderInv, PayingCall, Request, Live, Durable, Answered, receipts, provider, ReceiptsTypeOK, Calls
  <2> QED BY <2>1, <2>2, CallMoves
<1>2. CASE \E p \in Payloads, allow \in BOOLEAN : Begin(p, allow)
  BY <1>2, BeginKeeps
<1>3. CASE CallStep
  BY <1>3, FallBackKeeps, EndingKeeps, ReceiveAnswerKeeps, ClearKeeps, WriteStartedKeeps,
     SendKeeps, ReceiveRejectionKeeps, WriteResponseKeeps, ProviderErrorKeeps DEF CallStep
<1>4. CASE \E r \in inflight : ProviderCharges(r)
  BY <1>4, ChargeKeeps
<1>5. CASE EndCall
  BY <1>5, EndingKeeps
<1>6. CASE Restart \/ RemoveGuard
  BY <1>6, OperatorKeeps
<1> QED BY <1>1, <1>2, <1>3, <1>4, <1>5, <1>6 DEF FolderNext

-----------------------------------------------------------------------------
(* The requests: which step changes what                                   *)

\* Which steps change which variable.
LEMMA Movers ==
    ASSUME GradingNext, paused \in BOOLEAN, attention \in BOOLEAN
    PROVE  /\ \/ UNCHANGED <<reading, lastRead, usable, derived>>
              \/ InvalidateReading \/ Read \/ Derive \/ DeriveReview
           /\ \/ UNCHANGED pipeline \/ ReadingJobs \/ \E r \in Requests : Advance(r)
           /\ \/ UNCHANGED <<match, invalid>> \/ Grade \/ Mismatch \/ \E r \in Requests : SaveDirect(r)
           /\ \/ UNCHANGED req
              \/ \E r \in Requests : Expire(r) \/ Advance(r) \/ Reserve(r) \/ CloseDirect(r)
              \/ Derive \/ DeriveReview \/ SkipManual \/ Grade \/ Mismatch
           /\ \/ UNCHANGED mode \/ \E r \in Requests : Reserve(r)
           /\ \/ UNCHANGED <<web, snapshot>> \/ \E r \in Requests : Web(r)
           /\ \/ UNCHANGED job
              \/ \E r \in Requests : Advance(r) \/ SaveDirect(r)
              \/ Derive \/ Backfill \/ Claim \/ SkipAutomatic \/ SkipManual \/ Grade \/ Mismatch
              \/ StopForAttention \/ RejectAndPause \/ RejectAndCount \/ HoldFailed \/ Start
           /\ UNCHANGED bounds \/ Die
           /\ \/ UNCHANGED call
              \/ Evaluate \/ CallProgress \/ Grade \/ Mismatch \/ StopForAttention \/ RejectAndPause
              \/ RejectAndCount \/ HoldFailed \/ Die \/ Start
           /\ paused' \in BOOLEAN /\ attention' \in BOOLEAN
<1> USE DEF contract, grades, requests, service, vars, Web, ReadingJobs
<1>1. CASE \E r \in Requests : Expire(r) \/ Advance(r) \/ Web(r)
  BY <1>1 DEF Expire, Advance, AdvanceOne, Reserve, Ask, SaveDirect, FailDirect, CloseDirect, LoseDirect
<1>2. CASE ReadingJobs \/ Backfill
  BY <1>2 DEF StartReading, InvalidateReading, Read, Derive, DeriveReview, EndReading, Backfill
<1>3. CASE Evaluation
  BY <1>3 DEF Evaluation, Claim, SkipAutomatic, SkipManual, Evaluate, CallProgress, Grade, Mismatch,
     StopForAttention, RejectAndPause, RejectAndCount, HoldFailed
<1>4. CASE Billing \/ EndPause \/ Die \/ Start \/ DeleteGuard
  BY <1>4 DEF Billing, ProviderCharges, EndPause, Die, Start, DeleteGuard, RemoveGuard
<1> QED BY <1>1, <1>2, <1>3, <1>4 DEF GradingNext

LEMMA StepIsFolders ==
    ASSUME GradingTypeOK, ReadingAgrees, GradingNext
    PROVE  FolderNext \/ UNCHANGED vars
<1>1. CASE \E r \in Requests : Expire(r) \/ Advance(r) \/ Web(r)
  BY <1>1 DEF Expire, Advance, AdvanceOne, Reserve, Ask, SaveDirect, FailDirect, CloseDirect, LoseDirect, Web
<1>2. CASE ReadingJobs \/ Backfill \/ EndPause
  BY <1>2 DEF ReadingJobs, StartReading, InvalidateReading, Read, Derive, DeriveReview, EndReading, Backfill,
     EndPause
<1>3. CASE Claim \/ SkipAutomatic \/ SkipManual
  BY <1>3 DEF Claim, SkipAutomatic, SkipManual
<1>4. CASE Evaluate
  <2>1. Verdict(derived) = "ready" => reading # 0
    BY DEF Verdict, GradingTypeOK
  <2>2. reading \in Payloads /\ (job.attempts <= 1) \in BOOLEAN
    BY <1>4, <2>1 DEF Evaluate, Qualifies, GradingTypeOK
  <2>3. Begin(reading, job.attempts <= 1)
    BY <1>4 DEF Evaluate
  <2> QED BY <2>2, <2>3 DEF FolderNext
<1>5. CASE CallProgress
  BY <1>5 DEF CallProgress, FolderNext
<1>6. CASE Grade \/ Mismatch \/ StopForAttention \/ RejectAndPause \/ RejectAndCount \/ HoldFailed
  BY <1>6 DEF Grade, Mismatch, StopForAttention, RejectAndPause, RejectAndCount, HoldFailed, FolderNext, EndCall
<1>7. CASE Billing \/ Die \/ Start \/ DeleteGuard
  BY <1>7 DEF Billing, Die, Crash, Start, DeleteGuard, FolderNext, EndCall
<1> QED BY <1>1, <1>2, <1>3, <1>4, <1>5, <1>6, <1>7 DEF GradingNext, Evaluation

JobTyped(j) ==
    /\ j \in [owner : Requests \cup {Automatic}, status : {"free", "pending", "held", "claimed"},
              attempts : 0..2, errors : 0..ErrorLimit]
    /\ j.status = "free" => j = NoJob
    /\ j.errors = ErrorLimit => j.status = "held"

\* New jobs and none are jobs.
LEMMA JobFacts ==
    /\ Automatic \notin Requests
    /\ JobTyped(NoJob) /\ NoJob.owner = Automatic /\ NoJob.status = "free"
    /\ \A o \in Requests \cup {Automatic} :
         JobTyped(NewJob(o)) /\ NewJob(o).owner = o /\ NewJob(o).status = "pending"
    /\ \A j : JobTyped(j) => j.owner \in Requests \cup {Automatic} /\ j.errors \in 0..ErrorLimit
                             /\ j.attempts \in 0..2
<1>1. Automatic \notin Requests /\ 0 \in 0..2 /\ 0 \in 0..ErrorLimit /\ ErrorLimit # 0
  BY GradingAssumption DEF Automatic, Requests
<1>2. NoJob = [owner |-> Automatic, status |-> "free", attempts |-> 0, errors |-> 0]
  BY DEF NoJob
<1>3. ASSUME NEW o \in Requests \cup {Automatic}
      PROVE  NewJob(o) = [owner |-> o, status |-> "pending", attempts |-> 0, errors |-> 0]
  <2>1. NoJob \in [owner : Requests \cup {Automatic}, status : {"free", "pending"},
                   attempts : 0..2, errors : 0..ErrorLimit]
    BY <1>1, <1>2
  <2>2. NewJob(o) = [NoJob EXCEPT !.owner = o, !.status = "pending"]
    BY DEF NewJob
  <2> HIDE DEF NewJob, NoJob
  <2> QED BY <1>2, <2>1, <2>2
<1>4. JobTyped(NoJob) /\ NoJob.owner = Automatic /\ NoJob.status = "free"
  BY <1>1, <1>2 DEF JobTyped
<1>5. ASSUME NEW o \in Requests \cup {Automatic}
      PROVE  JobTyped(NewJob(o)) /\ NewJob(o).owner = o /\ NewJob(o).status = "pending"
  BY <1>1, <1>3 DEF JobTyped
<1>6. \A j : JobTyped(j) => j.owner \in Requests \cup {Automatic} /\ j.errors \in 0..ErrorLimit
                             /\ j.attempts \in 0..2
  BY DEF JobTyped
<1> QED BY <1>1, <1>4, <1>5, <1>6

\* What the verdict on the pair says about its reading and its match.
LEMMA VerdictFacts ==
    ASSUME GradingTypeOK, ReadingAgrees, NEW d \in BOOLEAN
    PROVE  /\ Verdict(d) \in {"absent", "failed", "done", "deriving", "ready"}
           /\ Verdict(d) = "done" => reading # 0 /\ match = reading
<1>1. reading = 0 => ~usable
  BY DEF ReadingAgrees
<1>2. usable \in BOOLEAN
  BY DEF GradingTypeOK
<1>3. CASE reading = 0
  BY <1>1, <1>3 DEF Verdict
<1>4. CASE reading # 0 /\ ~usable
  BY <1>4 DEF Verdict
<1>5. CASE reading # 0 /\ usable /\ match = reading
  BY <1>5 DEF Verdict
<1>6. CASE reading # 0 /\ usable /\ match # reading
  BY <1>6 DEF Verdict
<1> QED BY <1>2, <1>3, <1>4, <1>5, <1>6

\* A look at the database starts at most one job, ends a request as done only
\* over a match of the current reading, and leaves the rest alone.
LEMMA AdvancedFacts ==
    ASSUME GradingTypeOK, ReadingAgrees, NEW r \in Requests, NEW d \in BOOLEAN, NEW j, NEW p
    PROVE  LET n == Advanced(r, d, j, p)
           IN  /\ n.req \in {"reading", "evaluating", "done", "failed", req[r]}
               /\ n.job = j \/ (j.status = "free" /\ n.job = NewJob(r))
               /\ n.pipeline \in {p, "deriving", "reading"}
               /\ n.req = "done" => req[r] = "done" \/ (reading # 0 /\ match = reading)
<1> DEFINE v == Verdict(d)
           n == Advanced(r, d, j, p)
<1> SUFFICES /\ n.req \in {"reading", "evaluating", "done", "failed", req[r]}
             /\ n.job = j \/ (j.status = "free" /\ n.job = NewJob(r))
             /\ n.pipeline \in {p, "deriving", "reading"}
             /\ n.req = "done" => req[r] = "done" \/ (reading # 0 /\ match = reading)
  OBVIOUS
<1>1. v \in {"absent", "failed", "done", "deriving", "ready"} /\ (v = "done" => reading # 0 /\ match = reading)
  BY VerdictFacts
<1>2. CASE v = "failed"
  <2>1. n = [req |-> "failed", job |-> j, pipeline |-> p]
    BY <1>2 DEF Advanced
  <2> HIDE DEF n
  <2> QED BY <2>1
<1>3. CASE v = "done"
  <2>1. n = [req |-> "done", job |-> j, pipeline |-> p]
    BY <1>3 DEF Advanced
  <2> HIDE DEF n
  <2> QED BY <1>1, <1>3, <2>1
<1>4. CASE v \notin {"failed", "done"} /\ req[r] = "evaluating"
  <2>1. n.req \in {"evaluating", "failed"} /\ n.job = j /\ n.pipeline = p
    BY <1>4 DEF Advanced
  <2> HIDE DEF n
  <2> QED BY <2>1
<1>5. CASE v = "ready" /\ req[r] # "evaluating"
  <2>1. CASE j.status = "free"
    <3>1. n = [[req |-> "evaluating", job |-> j, pipeline |-> p] EXCEPT !.job = NewJob(r)]
      BY <1>5, <2>1 DEF Advanced
    <3>2. n = [req |-> "evaluating", job |-> NewJob(r), pipeline |-> p]
      BY <3>1
    <3> HIDE DEF n
    <3> QED BY <2>1, <3>2
  <2>2. CASE j.status # "free"
    <3>1. n = [req |-> req[r], job |-> j, pipeline |-> p]
      BY <1>5, <2>2 DEF Advanced
    <3> HIDE DEF n
    <3> QED BY <3>1
  <2> QED BY <2>1, <2>2
<1>6. CASE v \in {"absent", "deriving"} /\ req[r] # "evaluating"
  <2>1. n.req \in {"reading", "failed"} /\ n.job = j /\ n.pipeline \in {p, "deriving", "reading"}
    BY <1>6 DEF Advanced
  <2> HIDE DEF n
  <2> QED BY <2>1
<1> HIDE DEF v, n
<1> QED BY <1>1, <1>2, <1>3, <1>4, <1>5, <1>6 DEF n

\* The steps of a call go on in it, with its payload.
LEMMA CallStepFacts ==
    ASSUME FolderInv, CallStep
    PROVE  /\ call.pc \in Steps /\ call'.pc \in Steps \cup Ends
           /\ call'.key.payload = call.key.payload
           /\ call'.pc \in Paying => call.pc \in Paying
<1>0. call \in Calls
  BY DEF FolderInv, ReceiptsTypeOK, Calls
<1>1. CASE FallBack
  BY <1>1, FallBackKeeps DEF Paying, AfterReject, Steps, Ends
<1>2. CASE \E s \in BOOLEAN : ReceiveRejection(s)
  BY <1>0, <1>2 DEF ReceiveRejection, Paying, AfterReject, Waits, Steps, Ends, At, Calls
<1>3. CASE \E a \in Answers : ReceiveAnswer(a)
  BY <1>0, <1>3 DEF ReceiveAnswer, Paying, AfterReject, Waits, Steps, Ends, At, Calls
<1>4. CASE \/ ClearProviderError \/ WriteStarted \/ FailBeforeStarted \/ Send \/ LoseReply
           \/ WriteResponse \/ FailWriteResponse \/ Parse
           \/ WriteProviderError \/ FailWriteProviderError \/ RemoveStarted \/ Refuse
  <2>1. PICK pc \in Steps \cup Ends : Goto(pc) /\ (pc \in Paying => call.pc \in Paying) /\ call.pc \in Steps
    BY <1>4 DEF ClearProviderError, WriteStarted, FailBeforeStarted, Send, LoseReply, WriteResponse,
       FailWriteResponse, Parse, WriteProviderError, FailWriteProviderError, RemoveStarted, Refuse,
       FailAndGuard, Steps, Ends, Paying, BeforeSend, Waits, AfterReject, At
  <2>2. call' = [call EXCEPT !.pc = pc]
    BY <2>1 DEF Goto
  <2> QED BY <1>0, <2>1, <2>2 DEF Calls
<1> QED BY <1>1, <1>2, <1>3, <1>4 DEF CallStep

RequestStates == {"absent", "pending", "reading", "evaluating", "done", "failed", "deleted"}

\* What a step may do to request r.
MovedRight(r) ==
    req'[r] # req[r] =>
        /\ req'[r] # "absent"
        /\ Queued(r) =>
             /\ ~Ended(r)
             /\ req[r] # "absent" => CoordinatorFree \/ call'.pc = "idle"
             /\ req'[r] = "done" => match' # 0 /\ match' = reading'

LEMMA OneMoves ==
    ASSUME NEW r \in Requests, NEW x \in RequestStates, req \in [Requests -> RequestStates],
           req' = [req EXCEPT ![r] = x], MovedRight(r)
    PROVE  req' \in [Requests -> RequestStates] /\ \A s \in Requests : MovedRight(s)
<1>1. req' \in [Requests -> RequestStates]
  OBVIOUS
<1>2. \A s \in Requests : s # r => req'[s] = req[s]
  OBVIOUS
<1>3. \A s \in Requests : s # r => MovedRight(s)
  BY <1>2 DEF MovedRight
<1> QED BY <1>1, <1>3

\* The end of a derivation: a job for the pair, or one look for a request.
LEMMA DeriveEffects ==
    ASSUME usable \in BOOLEAN, Derive
    PROVE  /\ CoordinatorFree /\ reading # 0 /\ pipeline' = "idle"
           /\ UNCHANGED <<vars, reading, lastRead, usable, grades, mode, web, snapshot, bounds>>
           /\ \E d \in BOOLEAN, j \in {job, NewJob(Automatic)} :
                /\ j = job \/ JobFree
                /\ derived' = d
                /\ \/ job' = j /\ UNCHANGED req
                   \/ \E r \in Requests :
                        /\ Queued(r) /\ req[r] = "reading"
                        /\ req' = [req EXCEPT ![r] = Advanced(r, d, j, pipeline).req]
                        /\ job' = Advanced(r, d, j, pipeline).job
<1>1. /\ CoordinatorFree /\ reading # 0 /\ pipeline' = "idle"
      /\ UNCHANGED <<vars, reading, lastRead, usable, grades, mode, web, snapshot, bounds>>
  BY DEF Derive
<1>2. PICK some \in BOOLEAN, auto \in BOOLEAN :
        LET d == usable /\ some
            j == IF auto /\ Qualifies(d) /\ JobFree THEN NewJob(Automatic) ELSE job
            waiting == {r \in Requests : Queued(r) /\ req[r] = "reading"}
        IN  /\ derived' = d
            /\ IF waiting = {}
               THEN job' = j /\ UNCHANGED req
               ELSE \E r \in waiting :
                        LET next == Advanced(r, d, j, pipeline)
                        IN  req' = [req EXCEPT ![r] = next.req] /\ job' = next.job
  BY DEF Derive
<1> DEFINE d == usable /\ some
           j == IF auto /\ Qualifies(d) /\ JobFree THEN NewJob(Automatic) ELSE job
<1>3. d \in BOOLEAN /\ j \in {job, NewJob(Automatic)} /\ (j = job \/ JobFree) /\ derived' = d
  BY <1>2
<1>4. \/ job' = j /\ UNCHANGED req
      \/ \E r \in Requests :
           /\ Queued(r) /\ req[r] = "reading"
           /\ req' = [req EXCEPT ![r] = Advanced(r, d, j, pipeline).req]
           /\ job' = Advanced(r, d, j, pipeline).job
  BY <1>2
<1> HIDE DEF d, j
<1> QED BY <1>1, <1>3, <1>4

\* No step moves an ended request for the worker, and it is done only over a match
\* of the reading that is current then.
LEMMA RequestsMoveRight ==
    ASSUME IInv, GradingNext
    PROVE  req' \in [Requests -> RequestStates] /\ \A r \in Requests : MovedRight(r)
<1>0. /\ GradingTypeOK /\ ReadingAgrees /\ req \in [Requests -> RequestStates]
      /\ derived \in BOOLEAN /\ usable \in BOOLEAN /\ paused \in BOOLEAN /\ attention \in BOOLEAN
  BY DEF IInv, GradingTypeOK, RequestStates
<1>1. CASE UNCHANGED req
  BY <1>0, <1>1 DEF MovedRight
<1>2. ASSUME NEW r \in Requests, Expire(r)
      PROVE  req' \in [Requests -> RequestStates] /\ \A s \in Requests : MovedRight(s)
  <2>1. req' = [req EXCEPT ![r] = "failed"] /\ CoordinatorFree /\ req[r] \in {"reading", "evaluating"}
    BY <1>2 DEF Expire
  <2>2. MovedRight(r)
    BY <1>0, <2>1 DEF MovedRight, Ended
  <2> QED BY <1>0, <2>1, <2>2, OneMoves DEF RequestStates
<1>3. ASSUME NEW r \in Requests, Advance(r)
      PROVE  req' \in [Requests -> RequestStates] /\ \A s \in Requests : MovedRight(s)
  <2> DEFINE n == Advanced(r, derived, job, pipeline)
  <2>1. req' = [req EXCEPT ![r] = n.req] /\ CoordinatorFree /\ Active(r) /\ UNCHANGED <<match, reading>>
    BY <1>3 DEF Advance, AdvanceOne, grades
  <2>2. /\ n.req \in {"reading", "evaluating", "done", "failed", req[r]}
        /\ n.req = "done" => req[r] = "done" \/ (reading # 0 /\ match = reading)
    BY <1>0, AdvancedFacts
  <2> HIDE DEF n
  <2>3. MovedRight(r)
    BY <1>0, <2>1, <2>2 DEF MovedRight, Ended, Active
  <2> QED BY <1>0, <2>1, <2>2, <2>3, OneMoves DEF RequestStates
<1>4. ASSUME NEW r \in Requests, Reserve(r)
      PROVE  req' \in [Requests -> RequestStates] /\ \A s \in Requests : MovedRight(s)
  <2>1. /\ \A s \in Requests : Active(s) => ~Queued(s)
        /\ req[r] = "absent"
        /\ \E x \in {"evaluating", "pending"} : req' = [s \in Requests |->
              IF s = r THEN x ELSE IF Active(s) THEN "failed" ELSE req[s]]
    BY <1>4 DEF Reserve, Requests
  <2>2. PICK x \in {"evaluating", "pending"} : req' = [s \in Requests |->
              IF s = r THEN x ELSE IF Active(s) THEN "failed" ELSE req[s]]
    BY <2>1
  <2>3. req' \in [Requests -> RequestStates]
    BY <1>0, <2>2 DEF RequestStates
  <2>4. ASSUME NEW s \in Requests PROVE MovedRight(s)
    BY <1>0, <2>1, <2>2 DEF MovedRight, Ended
  <2> QED BY <2>3, <2>4
<1>5. ASSUME NEW r \in Requests, CloseDirect(r)
      PROVE  req' \in [Requests -> RequestStates] /\ \A s \in Requests : MovedRight(s)
  <2>1. /\ web[r] \in {"saved", "failed", "unchanged"}
        /\ req' = [req EXCEPT ![r] = CASE web[r] = "saved"     -> "done"
                                       [] web[r] = "failed"    -> "failed"
                                       [] web[r] = "unchanged" -> "deleted"]
    BY <1>5 DEF CloseDirect
  <2>2. PICK x \in {"done", "failed", "deleted"} : req' = [req EXCEPT ![r] = x]
    BY <2>1
  <2>3. ~Queued(r)
    BY <2>1 DEF IInv, WebAgrees
  <2>4. MovedRight(r)
    BY <1>0, <2>2, <2>3 DEF MovedRight
  <2> QED BY <1>0, <2>2, <2>4, OneMoves DEF RequestStates
<1>6. CASE Derive
  <2>1. CoordinatorFree /\ UNCHANGED <<match, reading>>
    BY <1>6 DEF Derive, grades
  <2>2. CASE UNCHANGED req
    BY <1>1, <2>2
  <2>3. ASSUME NEW d \in BOOLEAN, NEW j \in {job, NewJob(Automatic)}, NEW r \in Requests, req[r] = "reading",
               req' = [req EXCEPT ![r] = Advanced(r, d, j, pipeline).req]
        PROVE  req' \in [Requests -> RequestStates] /\ \A s \in Requests : MovedRight(s)
    <3> DEFINE n == Advanced(r, d, j, pipeline)
    <3>1. /\ n.req \in {"reading", "evaluating", "done", "failed", req[r]}
          /\ n.req = "done" => req[r] = "done" \/ (reading # 0 /\ match = reading)
      BY <1>0, AdvancedFacts
    <3>2. req' = [req EXCEPT ![r] = n.req]
      BY <2>3
    <3> HIDE DEF n
    <3>3. MovedRight(r)
      BY <1>0, <2>1, <2>3, <3>1, <3>2 DEF MovedRight, Ended
    <3> QED BY <1>0, <3>1, <3>2, <3>3, OneMoves DEF RequestStates
  <2> QED BY <1>0, <1>6, <2>2, <2>3, DeriveEffects
<1>7. CASE DeriveReview
  <2>1. /\ CoordinatorFree
        /\ req' = [r \in Requests |-> IF Queued(r) /\ req[r] = "reading" THEN "failed" ELSE req[r]]
    BY <1>7 DEF DeriveReview
  <2>2. req' \in [Requests -> RequestStates]
    BY <1>0, <2>1 DEF RequestStates
  <2>3. \A r \in Requests : MovedRight(r)
    BY <1>0, <2>1 DEF MovedRight, Ended
  <2> QED BY <2>2, <2>3
<1>8. ASSUME NEW x \in {"done", "failed"}, req' = Settled(x), call'.pc = "idle",
             x = "done" => match' # 0 /\ match' = reading'
      PROVE  req' \in [Requests -> RequestStates] /\ \A s \in Requests : MovedRight(s)
  <2>1. req' = [r \in Requests |-> IF r = job.owner /\ req[r] = "evaluating" THEN x ELSE req[r]]
    BY <1>8 DEF Settled
  <2>2. req' \in [Requests -> RequestStates]
    BY <1>0, <2>1 DEF RequestStates
  <2>3. \A r \in Requests : MovedRight(r)
    BY <1>0, <1>8, <2>1 DEF MovedRight, Ended
  <2> QED BY <2>2, <2>3
<1>9. CASE SkipManual
  <2> DEFINE x == IF Verdict(derived) = "done" THEN "done" ELSE "failed"
  <2>1. req' = Settled(x) /\ call'.pc = "idle" /\ UNCHANGED <<match, reading>>
    BY <1>9 DEF SkipManual, At, vars, grades, contract
  <2>2. x \in {"done", "failed"} /\ (x = "done" => reading # 0 /\ match = reading)
    BY <1>0, VerdictFacts
  <2> HIDE DEF x
  <2> QED BY <1>8, <2>1, <2>2
<1>10. CASE Grade
  <2>1. /\ req' = Settled("done") /\ call' = [NoCall EXCEPT !.pc = "idle"]
        /\ match' = call.key.payload /\ UNCHANGED reading /\ call.pc = "parsed"
    BY <1>10 DEF Grade, At, Finish, contract
  <2>2. call'.pc = "idle"
    BY <2>1, KeyFacts DEF Calls
  <2>3. reading # 0 /\ call.key.payload = reading
    BY <2>1 DEF IInv, CallAgrees
  <2> QED BY <1>8, <2>1, <2>2, <2>3
<1>11. CASE Mismatch
  <2>1. req' = Settled("failed") /\ call' = [NoCall EXCEPT !.pc = "idle"]
    BY <1>11 DEF Mismatch, Finish
  <2>2. call'.pc = "idle"
    BY <2>1, KeyFacts DEF Calls
  <2> QED BY <1>8, <2>1, <2>2
<1> QED BY <1>0, <1>1, <1>2, <1>3, <1>4, <1>5, <1>6, <1>7, <1>9, <1>10, <1>11, Movers

\* A job changes its owner only by ending.
LEMMA JobUpdates ==
    ASSUME JobTyped(job), NEW s \in {"pending", "held", "claimed"}, NEW a \in 0..2, NEW e \in 0..ErrorLimit,
           e = ErrorLimit => s = "held", NEW n,
           n = [owner |-> job.owner, status |-> s, attempts |-> a, errors |-> e]
    PROVE  JobTyped(n) /\ n.owner = job.owner
BY DEF JobTyped

\* The job that runs under a call is not touched by any other step, and a new job
\* belongs to a request for the worker or to none.
LEMMA JobMoves ==
    ASSUME IInv, GradingNext
    PROVE  /\ JobTyped(job')
           /\ \/ job' = job
              \/ /\ call'.pc \in {"idle", "down"}
                 /\ job'.owner \in Requests =>
                      job'.owner = job.owner \/ (Queued(job'.owner) /\ req[job'.owner] # "absent")
<1>0. /\ JobTyped(job) /\ call \in Calls /\ GradingTypeOK /\ ReadingAgrees
      /\ derived \in BOOLEAN /\ usable \in BOOLEAN /\ paused \in BOOLEAN /\ attention \in BOOLEAN
      /\ Automatic \notin Requests /\ JobTyped(NoJob) /\ NoJob.owner = Automatic
      /\ ErrorLimit \in Nat
  BY JobFacts, GradingAssumption DEF IInv, GradingTypeOK, FolderInv, ReceiptsTypeOK, Calls, JobTyped, JobFree
<1> DEFINE Good == /\ JobTyped(job')
                   /\ \/ job' = job
                      \/ /\ call'.pc \in {"idle", "down"}
                         /\ job'.owner \in Requests =>
                              job'.owner = job.owner \/ (Queued(job'.owner) /\ req[job'.owner] # "absent")
<1> SUFFICES Good
  OBVIOUS
<1>a. ASSUME NEW s \in {"pending", "held", "claimed"}, NEW a \in 0..2, NEW e \in 0..ErrorLimit,
             e = ErrorLimit => s = "held", call'.pc \in {"idle", "down"},
             job' = [owner |-> job.owner, status |-> s, attempts |-> a, errors |-> e]
      PROVE  Good
  <2>1. JobTyped(job') /\ job'.owner = job.owner
    BY <1>0, <1>a, JobUpdates
  <2> QED BY <1>a, <2>1
<1>b. ASSUME job' = NoJob, call'.pc \in {"idle", "down"} PROVE Good
  BY <1>0, <1>b
<1>f. \A x \in {"idle", "down"} : Finish(x) => call'.pc = x
  BY KeyFacts DEF Finish, Calls
<1>j. /\ job.owner \in Requests \cup {Automatic} /\ job.attempts \in 0..2 /\ job.errors \in 0..ErrorLimit
      /\ job = [owner |-> job.owner, status |-> job.status, attempts |-> job.attempts, errors |-> job.errors]
      /\ job.status # "held" => job.errors # ErrorLimit
  BY <1>0 DEF JobTyped
<1>1. CASE UNCHANGED job
  BY <1>0, <1>1
<1>2. ASSUME NEW r \in Requests, Advance(r) PROVE Good
  <2> DEFINE n == Advanced(r, derived, job, pipeline)
  <2>1. job' = n.job /\ call'.pc = "idle" /\ Queued(r) /\ req[r] # "absent"
    BY <1>2 DEF Advance, AdvanceOne, CoordinatorFree, At, vars, Active
  <2>2. n.job = job \/ n.job = NewJob(r)
    BY <1>0, AdvancedFacts
  <2>3. JobTyped(NewJob(r)) /\ NewJob(r).owner = r
    BY JobFacts
  <2> HIDE DEF n
  <2> QED BY <1>0, <2>1, <2>2, <2>3
<1>3. ASSUME NEW r \in Requests, SaveDirect(r) PROVE Good
  <2>1. call' = call /\ (job' = job \/ (job.status # "claimed" /\ job' = NoJob))
    BY <1>3 DEF SaveDirect, vars
  <2>2. job.status # "claimed" => call.pc \in {"idle", "down"}
    BY DEF IInv, CallAgrees, Running
  <2> QED BY <1>1, <1>b, <2>1, <2>2
<1>4. CASE Derive
  <2>1. call'.pc = "idle"
    BY <1>0, <1>4, DeriveEffects DEF CoordinatorFree, At, vars
  <2>2. ASSUME NEW d \in BOOLEAN, NEW j \in {job, NewJob(Automatic)}, NEW r \in Requests,
               Queued(r), req[r] = "reading", job' = Advanced(r, d, j, pipeline).job
        PROVE  Good
    <3> DEFINE n == Advanced(r, d, j, pipeline)
    <3>1. n.job = j \/ n.job = NewJob(r)
      BY <1>0, AdvancedFacts
    <3>2. job' = n.job
      BY <2>2
    <3>3. JobTyped(NewJob(r)) /\ NewJob(r).owner = r /\ JobTyped(NewJob(Automatic)) /\ NewJob(Automatic).owner = Automatic
      BY JobFacts
    <3> HIDE DEF n
    <3> QED BY <1>0, <2>1, <2>2, <3>1, <3>2, <3>3
  <2>3. ASSUME NEW j \in {job, NewJob(Automatic)}, job' = j PROVE Good
    <3>1. JobTyped(NewJob(Automatic)) /\ NewJob(Automatic).owner = Automatic
      BY JobFacts
    <3> QED BY <1>0, <2>1, <2>3, <3>1
  <2>4. PICK d \in BOOLEAN, j \in {job, NewJob(Automatic)} :
          \/ job' = j
          \/ \E r \in Requests : /\ Queued(r) /\ req[r] = "reading"
                                 /\ job' = Advanced(r, d, j, pipeline).job
    BY <1>0, <1>4, DeriveEffects
  <2> HIDE DEF Good
  <2> QED BY <2>2, <2>3, <2>4
<1>5. CASE Backfill
  <2>1. job' = NewJob(Automatic) /\ JobFree /\ call' = call
    BY <1>5 DEF Backfill, vars
  <2>2. call.pc \in {"idle", "down"}
    BY <2>1 DEF IInv, CallAgrees, Running, JobFree
  <2>3. JobTyped(NewJob(Automatic)) /\ NewJob(Automatic).owner = Automatic
    BY JobFacts
  <2> QED BY <1>0, <2>1, <2>2, <2>3
<1>6. CASE Claim
  <2>1. /\ job' = [job EXCEPT !.status = "claimed", !.attempts = IF @ < 2 THEN @ + 1 ELSE @]
        /\ job.status = "pending" /\ call'.pc = "idle"
    BY <1>6 DEF Claim, CoordinatorFree, At, vars
  <2> DEFINE a == IF job.attempts < 2 THEN job.attempts + 1 ELSE job.attempts
  <2>2. a \in 0..2 /\ job.errors # ErrorLimit
    BY <1>j, <2>1
  <2>3. job' = [owner |-> job.owner, status |-> "claimed", attempts |-> a, errors |-> job.errors]
    BY <1>j, <2>1
  <2> HIDE DEF a, Good
  <2> QED BY <1>a, <1>j, <2>1, <2>2, <2>3
<1>7. CASE SkipAutomatic \/ SkipManual \/ Grade \/ Mismatch
  <2>1. job' = NoJob /\ ((call' = call /\ At("idle")) \/ Finish("idle"))
    BY <1>7 DEF SkipAutomatic, SkipManual, Grade, Mismatch, vars
  <2> QED BY <1>b, <1>f, <2>1 DEF At
<1>8. CASE StopForAttention \/ HoldFailed \/ Start
  <2>1. /\ job.status = "claimed" \/ UNCHANGED job
        /\ UNCHANGED job \/ \E s \in {"pending", "held"} : SetJob(s)
        /\ Finish("idle") \/ Finish("down") \/ Goto("idle")
    BY <1>8 DEF StopForAttention, HoldFailed, Start, Restart, Running
  <2>2. call'.pc \in {"idle", "down"}
    BY <1>0, <1>f, <2>1 DEF Goto, Calls
  <2>3. ASSUME NEW s \in {"pending", "held"}, SetJob(s), job.status = "claimed" PROVE Good
    <3>1. job' = [owner |-> job.owner, status |-> s, attempts |-> job.attempts, errors |-> job.errors]
      BY <1>j, <2>3 DEF SetJob
    <3> HIDE DEF Good
    <3> QED BY <1>a, <1>j, <2>2, <2>3, <3>1
  <2> HIDE DEF Good
  <2> QED BY <1>1, <2>1, <2>3
<1>c. GiveBack = [owner |-> job.owner, status |-> "pending",
                  attempts |-> IF job.attempts > 0 THEN job.attempts - 1 ELSE 0, errors |-> job.errors]
  <2> DEFINE a == IF job.attempts > 0 THEN job.attempts - 1 ELSE 0
  <2>1. GiveBack = [job EXCEPT !.status = "pending", !.attempts = a]
    BY DEF GiveBack
  <2>2. a \in 0..2
    BY <1>j
  <2> HIDE DEF a
  <2>3. /\ GiveBack \in [owner : Requests \cup {Automatic}, status : {"free", "pending", "held", "claimed"},
                        attempts : 0..2, errors : 0..ErrorLimit]
        /\ GiveBack.owner = job.owner /\ GiveBack.status = "pending"
        /\ GiveBack.attempts = a /\ GiveBack.errors = job.errors
    BY <1>0, <2>1, <2>2 DEF JobTyped
  <2>4. GiveBack = [owner |-> GiveBack.owner, status |-> GiveBack.status,
                    attempts |-> GiveBack.attempts, errors |-> GiveBack.errors]
    BY <2>3
  <2> QED BY <2>3, <2>4 DEF a
<1>d. (IF job.attempts > 0 THEN job.attempts - 1 ELSE 0) \in 0..2
  BY <1>j
<1>9. CASE RejectAndPause
  <2>1. job' = GiveBack /\ job.status = "claimed" /\ call'.pc = "idle"
    BY <1>9, <1>f DEF RejectAndPause, Running
  <2> HIDE DEF Good
  <2> QED BY <1>a, <1>c, <1>d, <1>j, <2>1
<1>10. CASE RejectAndCount
  <2>1. /\ job' = IF job.errors + 1 >= ErrorLimit
                  THEN [job EXCEPT !.status = "held", !.errors = ErrorLimit]
                  ELSE [GiveBack EXCEPT !.errors = @ + 1]
        /\ job.status = "claimed" /\ call'.pc = "idle"
    BY <1>10, <1>f DEF RejectAndCount, Running
  <2>2. CASE job.errors + 1 >= ErrorLimit
    <3>1. job' = [owner |-> job.owner, status |-> "held", attempts |-> job.attempts, errors |-> ErrorLimit]
      BY <1>j, <2>1, <2>2
    <3>2. ErrorLimit \in 0..ErrorLimit
      BY <1>0
    <3> HIDE DEF Good
    <3> QED BY <1>a, <1>j, <2>1, <3>1, <3>2
  <2>3. CASE ~(job.errors + 1 >= ErrorLimit)
    <3> DEFINE a == IF job.attempts > 0 THEN job.attempts - 1 ELSE 0
    <3>1. job' = [owner |-> job.owner, status |-> "pending", attempts |-> a, errors |-> job.errors + 1]
      BY <1>c, <2>1, <2>3
    <3>2. job.errors + 1 \in 0..ErrorLimit /\ job.errors + 1 # ErrorLimit
      BY <1>0, <1>j, <2>3
    <3> HIDE DEF Good, a
    <3> QED BY <1>a, <1>d, <2>1, <3>1, <3>2 DEF a
  <2> QED BY <2>2, <2>3
<1> QED BY <1>0, <1>1, <1>2, <1>3, <1>4, <1>5, <1>6, <1>7, <1>8, <1>9, <1>10, Movers

-----------------------------------------------------------------------------
(* One lemma per part of the invariant                                     *)

\* A call that is under way after a step was so before it, or starts with it; its
\* job and its reading are not touched.
LEMMA CallGoesOn ==
    ASSUME IInv, GradingNext, call'.pc \notin {"down", "idle"}
    PROVE  /\ job' = job /\ reading' = reading
           /\ Running /\ reading # 0 /\ call'.key.payload = reading
           /\ call'.pc \in Paying => call.pc \in Paying \/ Evaluate
<1>0. /\ FolderInv /\ GradingTypeOK /\ call \in Calls /\ paused \in BOOLEAN /\ attention \in BOOLEAN
  BY DEF IInv, GradingTypeOK, FolderInv, ReceiptsTypeOK, Calls
<1>1. job' = job
  BY JobMoves
<1>2. reading' = reading
  <2>1. CASE InvalidateReading \/ Read
    <3>1. call' = call /\ call.pc = "idle"
      BY <2>1 DEF InvalidateReading, Read, CoordinatorFree, At, vars
    <3> QED BY <3>1
  <2>2. CASE Derive \/ DeriveReview
    BY <2>2 DEF Derive, DeriveReview
  <2> QED BY <1>0, <2>1, <2>2, Movers
<1>3. CASE UNCHANGED call
  BY <1>1, <1>2, <1>3 DEF IInv, CallAgrees
<1>4. CASE Evaluate
  <2>1. Verdict(derived) = "ready" => reading # 0
    BY <1>0 DEF Verdict, GradingTypeOK
  <2>5. reading # 0 /\ (job.attempts <= 1) \in BOOLEAN
    BY <1>4, <2>1 DEF Evaluate, Qualifies
  <2>2. reading \in Payloads /\ reading # 0 /\ (job.attempts <= 1) \in BOOLEAN
    BY <1>0, <2>5 DEF GradingTypeOK
  <2>3. Begin(reading, job.attempts <= 1) /\ Running
    BY <1>4 DEF Evaluate
  <2>4. call'.key.payload = reading
    BY <1>0, <2>2, <2>3, BeginKeeps
  <2> QED BY <1>1, <1>2, <1>4, <2>2, <2>3, <2>4
<1>5. CASE CallProgress
  <2>1. /\ call.pc \in Steps /\ call'.key.payload = call.key.payload
        /\ call'.pc \in Paying => call.pc \in Paying
    BY <1>0, <1>5, CallStepFacts DEF CallProgress
  <2>2. call.pc \notin {"down", "idle"}
    BY <2>1 DEF Steps
  <2> QED BY <1>1, <1>2, <2>1, <2>2 DEF IInv, CallAgrees
<1>6. CASE Grade \/ Mismatch \/ StopForAttention \/ RejectAndPause \/ RejectAndCount \/ HoldFailed \/ Die
  <2>1. \E pc \in {"idle", "down"} : call' = [NoCall EXCEPT !.pc = pc]
    BY <1>6 DEF Grade, Mismatch, StopForAttention, RejectAndPause, RejectAndCount, HoldFailed, Die, Crash, Finish
  <2>2. call'.pc \in {"idle", "down"}
    BY <2>1, KeyFacts DEF Calls
  <2> QED BY <2>2
<1>7. CASE Start
  <2>1. call' = [call EXCEPT !.pc = "idle"]
    BY <1>7 DEF Start, Restart, Goto
  <2>2. call'.pc = "idle"
    BY <1>0, <2>1 DEF Calls
  <2> QED BY <2>2
<1> QED BY <1>0, <1>3, <1>4, <1>5, <1>6, <1>7, Movers

\* A request keeps its mode once it is there.
LEMMA ModesStay ==
    ASSUME IInv, GradingNext
    PROVE  /\ mode' \in [Requests -> {"queued", "direct"}]
           /\ \A s \in Requests : req[s] # "absent" => mode'[s] = mode[s]
<1>0. /\ mode \in [Requests -> {"queued", "direct"}] /\ paused \in BOOLEAN /\ attention \in BOOLEAN
  BY DEF IInv, GradingTypeOK
<1>1. CASE UNCHANGED mode
  BY <1>0, <1>1
<1>2. ASSUME NEW r \in Requests, Reserve(r)
      PROVE  /\ mode' \in [Requests -> {"queued", "direct"}]
             /\ \A s \in Requests : req[s] # "absent" => mode'[s] = mode[s]
  <2>1. \E x \in {"queued", "direct"} : mode' = [mode EXCEPT ![r] = x]
    BY <1>2 DEF Reserve
  <2>2. req[r] = "absent"
    BY <1>2 DEF Reserve, Requests
  <2> QED BY <1>0, <2>1, <2>2
<1> QED BY <1>0, <1>1, <1>2, Movers

LEMMA WebMoves ==
    ASSUME IInv, GradingNext
    PROVE  /\ web' \in [Requests -> {"none", "reserved", "asking", "saved", "failed", "unchanged"}]
           /\ snapshot' \in [Requests -> Payloads \cup {0}]
           /\ \A s \in Requests : web'[s] # "none" =>
                 web[s] # "none" \/ (mode'[s] = "direct" /\ req'[s] # "absent")
<1> DEFINE W == {"none", "reserved", "asking", "saved", "failed", "unchanged"}
           Good == /\ web' \in [Requests -> W]
                   /\ snapshot' \in [Requests -> Payloads \cup {0}]
                   /\ \A s \in Requests : web'[s] # "none" =>
                         web[s] # "none" \/ (mode'[s] = "direct" /\ req'[s] # "absent")
<1> SUFFICES Good
  OBVIOUS
<1>0. /\ mode \in [Requests -> {"queued", "direct"}] /\ paused \in BOOLEAN /\ attention \in BOOLEAN
      /\ web \in [Requests -> W] /\ snapshot \in [Requests -> Payloads \cup {0}]
      /\ reading \in Payloads \cup {0}
  BY DEF IInv, GradingTypeOK
<1>1. CASE UNCHANGED <<web, snapshot>>
  BY <1>0, <1>1
<1>2. ASSUME NEW r \in Requests, Reserve(r) PROVE Good
  <2>1. /\ \E b \in BOOLEAN :
             /\ mode' = [mode EXCEPT ![r] = IF b THEN "direct" ELSE "queued"]
             /\ web' = [web EXCEPT ![r] = IF b THEN "reserved" ELSE "none"]
        /\ req'[r] # "absent" /\ UNCHANGED snapshot
    BY <1>2 DEF Reserve
  <2>2. \A s \in Requests \ {r} : web'[s] = web[s]
    BY <1>0, <2>1
  <2>3. web' \in [Requests -> W] /\ (web'[r] # "none" => mode'[r] = "direct")
    BY <1>0, <2>1
  <2> QED BY <1>0, <2>1, <2>2, <2>3
<1>3. ASSUME NEW r \in Requests, Ask(r) \/ SaveDirect(r) \/ FailDirect(r) \/ CloseDirect(r) \/ LoseDirect(r)
      PROVE  Good
  <2>1. /\ web[r] # "none"
        /\ \E w \in W : web' = [web EXCEPT ![r] = w]
        /\ \E p \in Payloads \cup {0} : snapshot' = [snapshot EXCEPT ![r] = p] \/ UNCHANGED snapshot
    BY <1>0, <1>3 DEF Ask, SaveDirect, FailDirect, CloseDirect, LoseDirect
  <2>2. \A s \in Requests \ {r} : web'[s] = web[s]
    BY <1>0, <2>1
  <2>3. web' \in [Requests -> W] /\ snapshot' \in [Requests -> Payloads \cup {0}]
    BY <1>0, <2>1
  <2> QED BY <1>0, <2>1, <2>2, <2>3
<1> HIDE DEF Good
<1> QED BY <1>0, <1>1, <1>2, <1>3, Movers DEF Web

\* The contract is read, within the bound on its readings, and derived.
LEMMA ContractMoves ==
    ASSUME IInv, GradingNext
    PROVE  /\ reading' \in Payloads \cup {0} /\ lastRead' \in Payloads \cup {0}
           /\ reading' \in {0, lastRead'}
           /\ usable' \in BOOLEAN /\ derived' \in BOOLEAN
           /\ derived' => reading' # 0
           /\ usable' => reading' # 0
<1>0. /\ reading \in Payloads \cup {0} /\ lastRead \in Payloads \cup {0} /\ reading \in {0, lastRead}
      /\ usable \in BOOLEAN /\ derived \in BOOLEAN /\ (derived => reading # 0) /\ (usable => reading # 0)
      /\ paused \in BOOLEAN /\ attention \in BOOLEAN
      /\ bounds.readings \in Nat /\ 1..bounds.readings \subseteq Payloads
      /\ lastRead \in Nat
  BY GradingAssumption DEF IInv, GradingTypeOK, ReadingAgrees, BoundsAgree
<1>1. CASE UNCHANGED <<reading, lastRead, usable, derived>>
  BY <1>0, <1>1
<1>2. CASE InvalidateReading
  BY <1>0, <1>2 DEF InvalidateReading
<1>3. CASE Read
  <2>1. CASE /\ MayReadMore
             /\ lastRead' = lastRead + 1 /\ reading' = lastRead + 1
             /\ usable' \in BOOLEAN /\ derived' = FALSE
    <3>1. lastRead + 1 \in 1..bounds.readings /\ lastRead + 1 # 0
      BY <1>0, <2>1 DEF MayReadMore
    <3>2. lastRead + 1 \in Payloads
      BY <1>0, <3>1
    <3> QED BY <2>1, <3>1, <3>2
  <2>2. CASE UNCHANGED <<lastRead, reading, usable, derived>>
    BY <1>0, <2>2
  <2> QED BY <1>3, <2>1, <2>2 DEF Read
<1>4. CASE Derive
  <2>1. UNCHANGED <<reading, lastRead, usable>> /\ derived' \in BOOLEAN /\ reading # 0
    BY <1>0, <1>4, DeriveEffects
  <2> QED BY <1>0, <2>1
<1>5. CASE DeriveReview
  BY <1>0, <1>5 DEF DeriveReview
<1> QED BY <1>0, <1>1, <1>2, <1>3, <1>4, <1>5, Movers

LEMMA PipelineMoves ==
    ASSUME IInv, GradingNext
    PROVE  pipeline' \in {"idle", "reading", "deriving"}
<1>0. /\ GradingTypeOK /\ ReadingAgrees /\ pipeline \in {"idle", "reading", "deriving"}
      /\ derived \in BOOLEAN /\ usable \in BOOLEAN /\ paused \in BOOLEAN /\ attention \in BOOLEAN
  BY DEF IInv, GradingTypeOK
<1>1. CASE StartReading \/ InvalidateReading \/ Read \/ DeriveReview \/ EndReading
  BY <1>0, <1>1 DEF StartReading, InvalidateReading, Read, DeriveReview, EndReading
<1>2. ASSUME NEW r \in Requests, NEW d \in BOOLEAN, NEW j, NEW p \in {"idle", "reading", "deriving"},
             pipeline' = Advanced(r, d, j, p).pipeline
      PROVE  pipeline' \in {"idle", "reading", "deriving"}
  <2> DEFINE n == Advanced(r, d, j, p)
  <2>1. n.pipeline \in {p, "deriving", "reading"}
    BY <1>0, AdvancedFacts
  <2>2. pipeline' = n.pipeline
    BY <1>2
  <2> HIDE DEF n
  <2> QED BY <2>1, <2>2
<1>3. ASSUME NEW r \in Requests, Advance(r) PROVE pipeline' \in {"idle", "reading", "deriving"}
  <2>1. pipeline' = Advanced(r, derived, job, pipeline).pipeline
    BY <1>3 DEF Advance, AdvanceOne
  <2> QED BY <1>0, <1>2, <2>1
<1>4. CASE Derive
  BY <1>0, <1>2, <1>4, DeriveEffects
<1>5. CASE UNCHANGED pipeline
  BY <1>0, <1>5
<1> QED BY <1>0, <1>1, <1>3, <1>4, <1>5, Movers DEF ReadingJobs

LEMMA GradesMove ==
    ASSUME IInv, GradingNext
    PROVE  match' \in Payloads \cup {0} /\ invalid' \subseteq Payloads
<1>0. /\ match \in Payloads \cup {0} /\ invalid \subseteq Payloads /\ call.key.payload \in Payloads
      /\ snapshot \in [Requests -> Payloads \cup {0}] /\ paused \in BOOLEAN /\ attention \in BOOLEAN
  BY KeyFacts DEF IInv, GradingTypeOK, FolderInv, ReceiptsTypeOK
<1>1. CASE Grade \/ Mismatch
  BY <1>0, <1>1 DEF Grade, Mismatch
<1>2. ASSUME NEW r \in Requests, SaveDirect(r) PROVE match' \in Payloads \cup {0} /\ invalid' \subseteq Payloads
  BY <1>0, <1>2 DEF SaveDirect
<1> QED BY <1>0, <1>1, <1>2, Movers

LEMMA BoundsMove == ASSUME IInv, GradingNext PROVE BoundsAgree'
<1>0. /\ bounds \in [readings : Nat, sends : 0..MaxSends, requests : 0..MaxRequests, crashes : Nat]
      /\ 1..bounds.readings \subseteq Payloads /\ paused \in BOOLEAN /\ attention \in BOOLEAN
  BY DEF IInv, BoundsAgree, GradingTypeOK
<1>1. CASE UNCHANGED bounds
  BY <1>0, <1>1 DEF BoundsAgree
<1>2. CASE Die
  <2>1. bounds' = [bounds EXCEPT !.crashes = bounds.crashes - 1] /\ bounds.crashes > 0
    BY <1>2 DEF Die
  <2>2. bounds.crashes - 1 \in Nat
    BY <1>0, <2>1
  <2>3. /\ bounds' \in [readings : Nat, sends : 0..MaxSends, requests : 0..MaxRequests, crashes : Nat]
        /\ bounds'.readings = bounds.readings
    BY <1>0, <2>1, <2>2
  <2> QED BY <1>0, <2>3 DEF BoundsAgree
<1> QED BY <1>0, <1>1, <1>2, Movers

\* The job and the web agree with the requests.
LEMMA AgreementsKept ==
    ASSUME IInv, GradingNext
    PROVE  CallAgrees' /\ JobAgrees' /\ WebAgrees'
<1>0. /\ job.owner \in Requests => Queued(job.owner) /\ req[job.owner] # "absent"
      /\ \A r \in Requests : web[r] # "none" => ~Queued(r) /\ req[r] # "absent"
      /\ Automatic \notin Requests
  BY JobFacts DEF IInv, JobAgrees, WebAgrees
<1>1. \A r \in Requests : req[r] # "absent" => req'[r] # "absent" /\ mode'[r] = mode[r]
  BY ModesStay, RequestsMoveRight DEF MovedRight
<1>2. CallAgrees'
  BY CallGoesOn DEF CallAgrees, Running
<1>3. WebAgrees'
  BY <1>0, <1>1, WebMoves DEF WebAgrees, Queued
<1>4. ASSUME job'.owner \in Requests
      PROVE  Queued(job'.owner) /\ req[job'.owner] # "absent"
  BY <1>0, <1>4, JobMoves
<1>5. ASSUME job'.owner \in Requests, call'.pc \in Paying PROVE req'[job'.owner] = "evaluating"
  <2>1. call'.pc \notin {"down", "idle"}
    BY <1>5 DEF Paying, BeforeSend, Waits, AfterReject
  <2>2. job' = job /\ (call.pc \in Paying \/ Evaluate)
    BY <1>5, <2>1, CallGoesOn
  <2>3. CASE call.pc \in Paying
    <3>1. req[job.owner] = "evaluating" /\ Queued(job.owner)
      BY <1>5, <2>2, <2>3 DEF IInv, JobAgrees
    <3>2. ~CoordinatorFree
      BY <2>3 DEF CoordinatorFree, At, Paying, BeforeSend, Waits, AfterReject
    <3> QED BY <1>5, <2>1, <2>2, <3>1, <3>2, RequestsMoveRight DEF MovedRight
  <2>4. CASE Evaluate
    BY <1>0, <1>5, <2>2, <2>4 DEF Evaluate, requests
  <2> QED BY <2>2, <2>3, <2>4
<1>6. JobAgrees'
  BY <1>1, <1>4, <1>5 DEF JobAgrees, Queued
<1> QED BY <1>2, <1>3, <1>6

\* A step that moves no variable changes nothing that is said of them.
LEMMA StutterKeeps == ASSUME IInv, UNCHANGED allVars PROVE IInv'
<1>1. /\ UNCHANGED <<started, providerError, response, guard, fallbackOn, call, clock, inflight, charged>>
      /\ UNCHANGED <<reading, lastRead, usable, derived, pipeline, match, invalid>>
      /\ UNCHANGED <<req, mode, web, snapshot, job, paused, attention, bounds>>
  BY DEF allVars, vars, receipts, provider, contract, grades, requests, service
<1>2. FolderInv'
  <2>1. PayingCall'
    BY <1>1 DEF IInv, FolderInv, PayingCall, Request, Live, Durable, Answered
  <2> QED BY <1>1, <2>1 DEF IInv, FolderInv, ReceiptsTypeOK, UnusedKeysAreBlank, BlankKey, Answered,
       StampsAreIssued, AnswersAreBilled, ChargesAreOnRecord, PaidAtMostOnce, Live
<1>3. GradingTypeOK'
  BY <1>1, <1>2 DEF IInv, GradingTypeOK, FolderInv, JobFree
<1>4. CallAgrees' /\ JobAgrees' /\ WebAgrees' /\ ReadingAgrees' /\ BoundsAgree'
  BY <1>1 DEF IInv, CallAgrees, JobAgrees, WebAgrees, ReadingAgrees, BoundsAgree, Running, Queued
<1> QED BY <1>2, <1>3, <1>4 DEF IInv

LEMMA InitIInv == ASSUME GradingInit PROVE IInv
<1>1. FolderInv /\ call.pc = "down"
  BY InitFolder, KeyFacts DEF GradingInit, Init, Calls
<1>2. JobTyped(job) /\ job.owner = Automatic /\ Automatic \notin Requests
  BY JobFacts DEF GradingInit
<1>3. GradingTypeOK
  BY <1>1, <1>2, GradingAssumption DEF GradingInit, GradingTypeOK, FolderInv, JobTyped, JobFree
<1>4. CallAgrees /\ JobAgrees /\ WebAgrees /\ ReadingAgrees
  BY <1>1, <1>2 DEF GradingInit, CallAgrees, JobAgrees, WebAgrees, ReadingAgrees
<1>5. BoundsAgree
  BY GradingAssumption DEF GradingInit, BoundsAgree
<1> QED BY <1>1, <1>3, <1>4, <1>5 DEF IInv

LEMMA NextKeeps == ASSUME FallbackStays, IInv, [GradingNext]_allVars PROVE IInv'
<1>1. CASE UNCHANGED allVars
  BY <1>1, StutterKeeps
<1>2. CASE GradingNext
  <2>1. FolderInv'
    BY <1>2, StepIsFolders, FolderKept DEF IInv
  <2>2. paused' \in BOOLEAN /\ attention' \in BOOLEAN
    BY <1>2, Movers DEF IInv, GradingTypeOK
  <2>3. JobTyped(job')
    BY <1>2, JobMoves
  <2>4. GradingTypeOK'
    BY <1>2, <2>1, <2>2, <2>3, ContractMoves, PipelineMoves, GradesMove, ModesStay, WebMoves,
       RequestsMoveRight, BoundsMove
       DEF GradingTypeOK, FolderInv, JobTyped, JobFree, RequestStates, BoundsAgree
  <2>5. ReadingAgrees'
    BY <1>2, ContractMoves DEF ReadingAgrees
  <2> QED BY <1>2, <2>1, <2>4, <2>5, AgreementsKept, BoundsMove DEF IInv
<1> QED BY <1>1, <1>2

-----------------------------------------------------------------------------
(* The theorems                                                            *)

\* The invariant holds in every behaviour.
THEOREM Invariance == FallbackStays => (GradingSpec => []IInv)
<1> SUFFICES ASSUME FallbackStays PROVE GradingSpec => []IInv
  OBVIOUS
<1>1. GradingInit => IInv
  BY InitIInv
<1>2. IInv /\ [GradingNext]_allVars => IInv'
  BY NextKeeps
<1> QED BY <1>1, <1>2, PTL DEF GradingSpec

\* Every variable always holds a value of its kind.
THEOREM TypeCorrectness == FallbackStays => (GradingSpec => []GradingTypeOK)
<1>1. IInv => GradingTypeOK
  BY DEF IInv
<1> QED BY <1>1, Invariance, PTL

\* Money leaves for a manual job only while its request is being evaluated: the
\* end of a request, by an answer of the web, by its age or by a newer request,
\* never leaves its paid call behind.
THEOREM SendsAreAlwaysAwaited == FallbackStays => (GradingSpec => []SendsAreAwaited)
<1>1. IInv => SendsAreAwaited
  BY DEF IInv, JobAgrees, SendsAreAwaited, Active, Paying, BeforeSend
<1> QED BY <1>1, Invariance, PTL

\* A queued request is done only over a match of the reading that is current
\* then, and once ended it never moves again.
THEOREM DoneIsAlwaysGraded == FallbackStays => (GradingSpec => DoneIsGraded)
<1>1. IInv /\ GradingNext =>
        \A r \in Requests : Queued(r) /\ req'[r] # req[r] =>
          /\ ~Ended(r)
          /\ req'[r] = "done" => match' # 0 /\ match' = reading'
  BY RequestsMoveRight DEF MovedRight
<1>2. UNCHANGED allVars => req' = req
  BY DEF allVars, requests
<1>3. IInv /\ [GradingNext]_allVars =>
        [\A r \in Requests : Queued(r) /\ req'[r] # req[r] =>
          /\ ~Ended(r)
          /\ req'[r] = "done" => match' # 0 /\ match' = reading']_allVars
  BY <1>1, <1>2
<1> QED BY <1>3, Invariance, PTL DEF GradingSpec, DoneIsGraded

-----------------------------------------------------------------------------
(* The folder keeps the promise of PaidCall, whoever calls it              *)

\* The live requests name a payload, and Durable reads the keys of it.
LEMMA LiveFacts ==
    ASSUME FolderInv
    PROVE  /\ \A r \in Live : r.payload \in Payloads /\ r = [payload |-> r.payload, stamp |-> r.stamp]
           /\ \A r \in charged : r.payload \in Payloads
           /\ call.key \in Keys /\ call.key.payload \in Payloads
           /\ Request.payload = call.key.payload /\ Request.stamp = clock
BY KeyFacts DEF FolderInv, ReceiptsTypeOK, Live, Sends, Request

\* The status of a payload that has a live request is decided by that request.
LEMMA StatusOf ==
    ASSUME FolderInv, NEW p \in Payloads
    PROVE  /\ \A r \in Live : r.payload = p => Status[p] =
                IF r \notin charged THEN "open" ELSE IF Durable(r) THEN "kept" ELSE "charged"
           /\ (\A r \in Live : r.payload # p) => Status[p] = "unpaid"
BY DEF FolderInv, PaidAtMostOnce, Status, Live

\* A change of one payload's status, said payload by payload.
LEMMA StatusUpdate ==
    ASSUME NEW p \in Payloads, NEW v, Status'[p] = v,
           \A q \in Payloads : q # p => Status'[q] = Status[q]
    PROVE  Status' = [Status EXCEPT ![p] = v]
<1>1. Status' = [q \in Payloads |-> Status'[q]]
  BY DEF Status
<1>2. Status = [q \in Payloads |-> Status[q]]
  BY DEF Status
<1> HIDE DEF Status
<1> QED BY <1>1, <1>2

\* A step that changes no live request and no durable answer of one stutters.
LEMMA StatusStutters ==
    ASSUME UNCHANGED provider, \A r \in charged : Durable(r)' <=> Durable(r)
    PROVE  UNCHANGED Status
BY DEF provider, Status

\* Receipts that do not change answer as they did.
LEMMA DurableStays ==
    ASSUME UNCHANGED receipts
    PROVE  \A r : Durable(r)' <=> Durable(r)
BY DEF Durable, Answered, receipts

LEMMA PromiseSend ==
    ASSUME FolderInv, FolderInv', Send PROVE Promise!Send(call.key.payload)
<1> DEFINE p == call.key.payload
<1>1. /\ p \in Payloads /\ \A r \in Live : r.payload # p /\ Durable(r)
  BY LiveFacts DEF FolderInv, Send, At, PayingCall, Paying, BeforeSend, Waits
<1>2. inflight' = inflight \cup {Request} /\ charged' = charged /\ UNCHANGED receipts
  BY DEF Send
<1>3. Request.payload = p /\ Request \in Live'
  BY <1>2, LiveFacts DEF Live
<1>4. \A r \in Live : r \in charged
  <2> SUFFICES ASSUME NEW r \in Live PROVE r \in charged
    OBVIOUS
  <2>1. PICK k \in Keys : k.payload = r.payload /\ started[k] = r.stamp /\ Answered(k)
    BY <1>1, LiveFacts, DurableFacts
  <2>2. r = [payload |-> r.payload, stamp |-> r.stamp]
    BY LiveFacts
  <2> QED BY <2>1, <2>2 DEF FolderInv, AnswersAreBilled
<1>5. Status[p] = "unpaid" /\ \A q \in Payloads : Status[q] \in {"unpaid", "kept"}
  BY <1>1, <1>4, StatusOf
<1>6. Request \notin charged
  BY <1>1, <1>3 DEF Live
<1>7. Status' = [Status EXCEPT ![p] = "open"]
  <2>1. \A q \in Payloads : q # p => Status'[q] = Status[q]
    BY <1>2, <1>3, DurableStays DEF Status
  <2>2. Status'[p] = "open"
    BY <1>1, <1>2, <1>3 DEF Status, Live
  <2> QED BY <1>1, <2>1, <2>2, StatusUpdate
<1> QED BY <1>5, <1>7 DEF Promise!Send

LEMMA PromiseReject ==
    ASSUME FolderInv, FolderInv', NEW s \in BOOLEAN, ReceiveRejection(s)
    PROVE  Promise!Reject(call.key.payload)
<1> DEFINE p == call.key.payload
<1>1. /\ Request \in inflight /\ Request \notin charged /\ Request.payload = p /\ p \in Payloads
      /\ inflight' = inflight \ {Request} /\ charged' = charged /\ UNCHANGED receipts
  BY LiveFacts DEF FolderInv, ReceiveRejection
<1>2. \A r \in Live : r.payload = p => r = Request
  BY <1>1 DEF FolderInv, PaidAtMostOnce, Live
<1>3. Status[p] = "open"
  BY <1>1, StatusOf DEF Live
<1>4. Status' = [Status EXCEPT ![p] = "unpaid"]
  <2>1. \A q \in Payloads : q # p => Status'[q] = Status[q]
    BY <1>1, DurableStays DEF Status
  <2>2. Status'[p] = "unpaid"
    BY <1>1, <1>2 DEF Status, Live
  <2> QED BY <1>1, <2>1, <2>2, StatusUpdate
<1> QED BY <1>3, <1>4 DEF Promise!Reject

LEMMA PromiseCharge ==
    ASSUME FolderInv, FolderInv', NEW r \in inflight, ProviderCharges(r)
    PROVE  Promise!Charge(r.payload)
<1>1. r \in Live /\ r.payload \in Payloads /\ r = [payload |-> r.payload, stamp |-> r.stamp]
  BY LiveFacts DEF Live
<1>2. inflight' = inflight \ {r} /\ charged' = charged \cup {r} /\ UNCHANGED receipts /\ r \notin charged
  BY DEF ProviderCharges, FolderInv
<1>3. ~Durable(r)
  BY <1>1, <1>2, DurableFacts DEF FolderInv, AnswersAreBilled
<1>4. \A s \in Live : s.payload = r.payload => s = r
  BY <1>1 DEF FolderInv, PaidAtMostOnce
<1>5. Status[r.payload] = "open"
  BY <1>1, <1>2, StatusOf
<1>6. Status' = [Status EXCEPT ![r.payload] = "charged"]
  <2>1. \A q \in Payloads : q # r.payload => Status'[q] = Status[q]
    BY <1>2, DurableStays DEF Status
  <2>2. Status'[r.payload] = "charged"
    BY <1>1, <1>2, <1>3, <1>4, DurableStays DEF Status, Live
  <2> QED BY <1>1, <2>1, <2>2, StatusUpdate
<1> QED BY <1>1, <1>5, <1>6 DEF Promise!Charge

LEMMA PromiseKeep ==
    ASSUME FolderInv, FolderInv', WriteResponse PROVE Promise!Keep(call.key.payload)
<1> DEFINE k == call.key
           p == call.key.payload
<1>1. /\ k \in Keys /\ p \in Payloads /\ ~Answered(k) /\ started[k] = clock
      /\ \A j \in Keys : j.payload = p => ~Answered(j)
      /\ Request \in charged
  BY LiveFacts DEF FolderInv, WriteResponse, At, PayingCall, Paying, Waits
<1>2. Request.payload = p /\ Request.stamp = clock /\ Request \in Live
  BY <1>1, LiveFacts DEF Live
<1>3. \A r \in Live : r.payload = p => r = Request
  BY <1>2 DEF FolderInv, PaidAtMostOnce
<1>4. /\ UNCHANGED <<started, provider>> /\ call.answer # "none"
      /\ \A j \in Keys : response'[j] = IF j = k THEN call.answer ELSE response[j]
  BY DEF WriteResponse, FolderInv, ReceiptsTypeOK, Answers
<1>5. ~Durable(Request)
  BY <1>1, <1>2, DurableFacts
<1>6. Status[p] = "charged"
  BY <1>1, <1>2, <1>5, StatusOf
<1>7. Status' = [Status EXCEPT ![p] = "kept"]
  <2>1. \E j \in Keys : j.payload = Request.payload /\ started'[j] = Request.stamp /\ Answered(j)'
    BY <1>1, <1>2, <1>4 DEF Answered
  <2>2. \E r \in charged' : r.payload = p /\ Durable(r)'
    <3>1. PICK r : r = Request
      OBVIOUS
    <3>2. r.payload = p /\ r.payload \in Payloads /\ r \in charged'
      BY <1>1, <1>2, <1>4, <3>1 DEF provider
    <3> QED BY <2>1, <3>1, <3>2, DurableFacts
  <2>3. Status'[p] = "kept"
    BY <1>1, <2>2 DEF Status
  <2>4. \A q \in Payloads : q # p => Status'[q] = Status[q]
    <3>1. \A r \in charged : r.payload # p => (Durable(r)' <=> Durable(r))
      BY <1>1, <1>4, LiveFacts, KeyFacts DEF Durable, Answered
    <3> QED BY <1>4, <3>1 DEF Status, provider
  <2> QED BY <1>1, <2>3, <2>4, StatusUpdate
<1> QED BY <1>6, <1>7 DEF Promise!Keep

\* The steps on files that are not the answer: every live request is already
\* durably answered, and stays so.
LEMMA PromiseStutters ==
    ASSUME FolderInv, WriteStarted \/ RemoveStarted PROVE UNCHANGED Status
<1>1. /\ call.key \in Keys /\ ~Answered(call.key)
      /\ \A r \in Live : r.payload # call.key.payload /\ Durable(r)
      /\ UNCHANGED provider /\ UNCHANGED response
  BY LiveFacts DEF FolderInv, WriteStarted, RemoveStarted, At, PayingCall, Paying, BeforeSend,
     AfterReject, Waits
<1>2. \A j \in Keys : j # call.key => started'[j] = started[j]
  BY DEF WriteStarted, RemoveStarted, FolderInv, ReceiptsTypeOK
<1>3. ASSUME NEW r \in Live PROVE Durable(r)'
  <2>1. PICK k \in Keys : k.payload = r.payload /\ started[k] = r.stamp /\ Answered(k)
    BY <1>1, LiveFacts, DurableFacts
  <2>2. k # call.key
    BY <1>1, <2>1
  <2> QED BY <1>1, <1>2, <2>1, <2>2, LiveFacts, DurableFacts DEF Answered
<1> QED BY <1>1, <1>3, StatusStutters DEF Live

\* Every step of the folder is a step of the promise or a stutter.
LEMMA PromiseNext ==
    ASSUME FolderInv, FolderInv', FolderNext \/ UNCHANGED vars PROVE [Promise!Next]_Status
<1>d. call.key.payload \in Payloads /\ \A r \in inflight : r.payload \in Payloads
  BY LiveFacts DEF Live
<1>1. CASE Send
  BY <1>d, <1>1, PromiseSend DEF Promise!Next
<1>2. CASE \E s \in BOOLEAN : ReceiveRejection(s)
  BY <1>d, <1>2, PromiseReject DEF Promise!Next
<1>3. CASE \E r \in inflight : ProviderCharges(r)
  BY <1>d, <1>3, PromiseCharge DEF Promise!Next
<1>4. CASE WriteResponse
  BY <1>d, <1>4, PromiseKeep DEF Promise!Next
<1>5. CASE WriteStarted \/ RemoveStarted
  BY <1>5, PromiseStutters
<1>6. CASE UNCHANGED <<started, response, provider>>
  <2>1. \A r \in charged : Durable(r)' <=> Durable(r)
    BY <1>6 DEF Durable, Answered
  <2> QED BY <1>6, <2>1, StatusStutters
<1>7. \/ Send \/ WriteResponse \/ WriteStarted \/ RemoveStarted
      \/ \E s \in BOOLEAN : ReceiveRejection(s)
      \/ \E r \in inflight : ProviderCharges(r)
      \/ UNCHANGED <<started, response, provider>>
  BY DEF FolderNext, CallStep, Begin, ClearProviderError, FailBeforeStarted, LoseReply, ReceiveAnswer,
     FailWriteResponse, Parse, WriteProviderError, FailWriteProviderError, FallBack, Refuse, EndCall,
     Restart, RemoveGuard, receipts, vars
<1> QED BY <1>1, <1>2, <1>3, <1>4, <1>5, <1>6, <1>7

\* The evaluations of a pair implement PaidCall: automatic and manual jobs,
\* replays and the fallback model together pay each reading at most once, and an
\* uncertain request stops all others.
THEOREM EvaluationsKeepPromise == FallbackStays => (GradingSpec => EvaluationsKept)
<1> SUFFICES ASSUME FallbackStays PROVE GradingSpec => EvaluationsKept
  OBVIOUS
<1>1. GradingInit => Promise!Init
  BY DEF GradingInit, Init, Promise!Init, Status
<1>2. IInv /\ IInv' /\ [GradingNext]_allVars => [Promise!Next]_Status
  <2> SUFFICES ASSUME IInv, IInv', [GradingNext]_allVars PROVE [Promise!Next]_Status
    OBVIOUS
  <2>1. FolderInv /\ FolderInv' /\ GradingTypeOK /\ ReadingAgrees
    BY DEF IInv
  <2>2. UNCHANGED allVars => UNCHANGED vars
    BY DEF allVars
  <2> QED BY <2>1, <2>2, StepIsFolders, PromiseNext
<1>3. GradingSpec => []IInv
  BY Invariance
<1> QED BY <1>1, <1>2, <1>3, PTL DEF GradingSpec, EvaluationsKept, Promise!Spec

=============================================================================
